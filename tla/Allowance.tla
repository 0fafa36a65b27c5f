------------------------------ MODULE Allowance ------------------------------
(***************************************************************************)
(* One user's daily allowance of applications                              *)
(* (hunt/application-queue.ts enqueueApprovedCandidates,                   *)
(* modules/applications/actions.ts retryApplication and cancelApplication, *)
(* hunt/application-policy.ts dailyBudget), under the approval lease       *)
(* (hunt/approval-lock.ts) and the advisory lock "application-budget".     *)
(***************************************************************************)
EXTENDS Turns

CONSTANTS Job,        \* jobs that were found
          Target,     \* the run's targetApplications
          Limit,      \* dailyTarget, at most MAX_DAILY_APPLICATIONS
          AlRequest,  \* requests that approve or retry
          AlNobody,
          AlMaxDay,   \* bound: midnights
          AlMaxFaults \* bound: leases lost, requests that die

ASSUME AllowanceAssumption ==
    /\ Job \subseteq DOMAIN Portal /\ IsFiniteSet(Job)
    /\ Target \in Nat /\ Limit \in Nat \ {0}
    /\ AlNobody \notin AlRequest
    /\ AlMaxDay \in Nat /\ AlMaxFaults \in Nat

VARIABLES alApp,     \* job -> its application: status, the day of queued_at, the cancel note
          alDay,     \* today (UTC)
          alLease,   \* huntly:approval:<user>
          alBudget,  \* pg_advisory_xact_lock(application-budget:<user>)
          alCall,    \* request -> where it stands and what it has read
          alSpent,   \* history: jobs queued against today's allowance
          alExcused, \* history: of these, jobs today's count does not see
          alFaults

alVars == <<alApp, alDay, alLease, alBudget, alCall, alSpent, alExcused, alFaults>>

(***************************************************************************)
(* The allowance.                                                          *)
(***************************************************************************)

NoCall == [pc |-> "idle", kind |-> "none", jobs |-> <<>>, began |-> 0, day |-> 0,
           row |-> [status |-> "none", day |-> 0, note |-> FALSE], plan |-> <<>>]

AppRow == [status : {"none", "queued", "ended", "closed"}, day : 0..AlMaxDay, note : BOOLEAN]

AllowanceTypeOK ==
    /\ alApp \in [Job -> AppRow]
    /\ alDay \in 0..AlMaxDay
    /\ alLease \in AlRequest \cup {AlNobody} /\ alBudget \in AlRequest \cup {AlNobody}
    /\ \A r \in AlRequest :
          /\ alCall[r].pc \in {"idle", "checked", "begun", "counted"}
          /\ alCall[r].kind \in {"none", "approve", "retry"}
          /\ alCall[r].row \in AppRow
          /\ ToSet(alCall[r].jobs) \subseteq Job
          /\ ToSet(alCall[r].plan) \subseteq ToSet(alCall[r].jobs)
    /\ alExcused \subseteq Job /\ alSpent \subseteq Job
    /\ alFaults \in 0..AlMaxFaults

AllowanceInit ==
    /\ alApp = [c \in Job |-> [status |-> "none", day |-> 0, note |-> FALSE]]
    /\ alDay = 0
    /\ alLease = AlNobody /\ alBudget = AlNobody
    /\ alCall = [r \in AlRequest |-> NoCall]
    /\ alSpent = {} /\ alExcused = {} /\ alFaults = 0

GivenBack(row) == row.status = "closed" /\ row.note

\* Rows queued today, but not those cancelled before they were started.
Used == {c \in Job : /\ alApp[c].status # "none"
                     /\ alApp[c].day = alDay /\ ~GivenBack(alApp[c])}

Remaining == Max({0, Limit - Cardinality(Used)})

AlAt(r, pc) == alCall[r].pc = pc

\* withApprovalLock, and what is read under it before the transaction.
AlApprove(r, jobs) ==
    /\ AlAt(r, "idle") /\ alLease = AlNobody
    /\ \A i \in DOMAIN jobs : alApp[jobs[i]].status = "none"
    /\ alLease' = r
    /\ alCall' = [alCall EXCEPT ![r] = [NoCall EXCEPT !.pc = "checked", !.kind = "approve",
                                                     !.jobs = jobs]]
    /\ UNCHANGED <<alApp, alDay, alBudget, alSpent, alExcused, alFaults>>

AlRetry(r, c) ==
    /\ AlAt(r, "idle") /\ alLease = AlNobody
    /\ alApp[c].status \in {"ended", "closed"}
    /\ alLease' = r
    /\ alCall' = [alCall EXCEPT ![r] = [NoCall EXCEPT !.pc = "checked", !.kind = "retry",
                                                     !.jobs = <<c>>, !.row = alApp[c]]]
    /\ UNCHANGED <<alApp, alDay, alBudget, alSpent, alExcused, alFaults>>

\* Mutant: the lease is taken for granted.
MineAnyway(r) == TRUE

\* assertApprovalLease
Mine(r) == alLease = r

\* What a call holds goes back; the lease by token.
AlLeave(r) ==
    /\ alCall' = [alCall EXCEPT ![r] = NoCall]
    /\ alLease' = IF alLease = r THEN AlNobody ELSE alLease
    /\ alBudget' = IF alBudget = r THEN AlNobody ELSE alBudget

\* begin: what the transaction inserts gets this moment as queued_at.
AlBegin(r) ==
    /\ AlAt(r, "checked")
    /\ IF Mine(r)
         THEN /\ alCall' = [alCall EXCEPT ![r].pc = "begun", ![r].began = alDay]
              /\ UNCHANGED <<alLease, alBudget>>
         ELSE AlLeave(r)
    /\ UNCHANGED <<alApp, alDay, alSpent, alExcused, alFaults>>

\* The rows of the selection that have no application, and what is left of
\* the target and of the day.
Selected(r) ==
    LET jobs == alCall[r].jobs
    IN Keep(jobs, {i \in DOMAIN jobs : alApp[jobs[i]].status = "none"})
Room == Least(Target, Remaining)

\* A retry of a row already counted today needs nothing more.
MayRetry(r) ==
    LET row == alCall[r].row IN (row.day = alDay /\ ~GivenBack(row)) \/ Remaining > 0

\* Under the advisory lock, held to the end of the transaction.
AlCount(r) ==
    /\ AlAt(r, "begun") /\ alBudget = AlNobody
    /\ LET jobs == IF alCall[r].kind = "approve" THEN Selected(r) ELSE alCall[r].jobs
           plan == IF alCall[r].kind = "approve" THEN Plan(jobs, Room)
                   ELSE IF MayRetry(r) THEN jobs ELSE <<>>
       IN IF plan = <<>>
            THEN AlLeave(r)
            ELSE /\ alCall' = [alCall EXCEPT ![r] = [@ EXCEPT !.pc = "counted", !.jobs = jobs,
                                  !.plan = plan, !.day = alDay]]
                 /\ alBudget' = r /\ UNCHANGED alLease
    /\ UNCHANGED <<alApp, alDay, alSpent, alExcused, alFaults>>

\* The rows, the second look at the lease and the commit. Today's count does
\* not see a batch that began yesterday, nor did yesterday's see a retry.
AlCommit(r) ==
    /\ AlAt(r, "counted")
    /\ LET call == alCall[r]
           jobs == ToSet(call.plan)
           stamp == IF call.kind = "approve" THEN call.began ELSE alDay
       IN IF Mine(r)
            THEN /\ alApp' = [c \in Job |-> IF c \in jobs
                                THEN [alApp[c] EXCEPT !.status = "queued", !.day = stamp]
                                ELSE alApp[c]]
                 /\ alSpent' = IF call.day = alDay \/ stamp = alDay THEN alSpent \cup jobs
                                                                   ELSE alSpent
                 /\ alExcused' = IF stamp # call.day THEN alExcused \cup jobs ELSE alExcused
            ELSE UNCHANGED <<alApp, alSpent, alExcused>>
    /\ AlLeave(r)
    /\ UNCHANGED <<alDay, alFaults>>

\* cancelApplication, under the lease: the slot is given back.
AlCancel(c) ==
    /\ alLease = AlNobody
    /\ alApp[c].status = "queued"
    /\ alApp' = [alApp EXCEPT ![c].status = "closed", ![c].note = TRUE]
    /\ alSpent' = alSpent \ {c}
    /\ UNCHANGED <<alDay, alLease, alBudget, alCall, alExcused, alFaults>>

\* A runner attempts it: failed, or for review.
AlAttempt(c) ==
    /\ alApp[c].status = "queued"
    /\ alApp' = [alApp EXCEPT ![c].status = "ended"]
    /\ UNCHANGED <<alDay, alLease, alBudget, alCall, alSpent, alExcused, alFaults>>

\* PATCH /:id/status to closed: the note of an earlier cancel is still there.
AlClose(c) ==
    /\ alApp[c].status = "ended"
    /\ alApp' = [alApp EXCEPT ![c].status = "closed"]
    /\ alExcused' = IF alApp[c].note THEN alExcused \cup {c} ELSE alExcused
    /\ UNCHANGED <<alDay, alLease, alBudget, alCall, alSpent, alFaults>>

AlMidnight ==
    /\ alDay < AlMaxDay
    /\ alDay' = alDay + 1
    /\ alSpent' = {} /\ alExcused' = {}
    /\ UNCHANGED <<alApp, alLease, alBudget, alCall, alFaults>>

\* The lease expires: its holder is gone, or could not renew it.
AlLapse ==
    /\ alLease # AlNobody
    /\ IF AlAt(alLease, "idle") THEN UNCHANGED alFaults
                                ELSE alFaults < AlMaxFaults /\ alFaults' = alFaults + 1
    /\ alLease' = AlNobody
    /\ UNCHANGED <<alApp, alDay, alBudget, alCall, alSpent, alExcused>>

\* The API dies; the database rolls back.
AlDies(r) ==
    /\ ~AlAt(r, "idle") /\ alFaults < AlMaxFaults
    /\ alFaults' = alFaults + 1
    /\ alCall' = [alCall EXCEPT ![r] = NoCall]
    /\ alBudget' = IF alBudget = r THEN AlNobody ELSE alBudget
    /\ UNCHANGED <<alApp, alDay, alLease, alSpent, alExcused>>

AllowanceNext ==
    \/ \E r \in AlRequest :
          \/ \E jobs \in SetToAllKPermutations(Job) \ {<<>>} : AlApprove(r, jobs)
          \/ \E c \in Job : AlRetry(r, c)
          \/ AlBegin(r) \/ AlCount(r) \/ AlCommit(r) \/ AlDies(r)
    \/ \E c \in Job : AlCancel(c) \/ AlAttempt(c) \/ AlClose(c)
    \/ AlMidnight \/ AlLapse

AllowanceSpec == AllowanceInit /\ [][AllowanceNext]_alVars

(***************************************************************************)
(* Properties.                                                             *)
(***************************************************************************)

\* No day's allowance is exceeded by batches, retries and cancels in any
\* order, with the approval lease lost on the way, but for the jobs that the
\* count of the day cannot see: a transaction over midnight, and a row
\* closed with the note of an earlier cancel (dailyBudget, "shared across
\* hunts and queue batches").
AllowanceHolds == Cardinality(alSpent \ alExcused) <= Limit
=============================================================================
