---------------------------- MODULE ApplicationApi ----------------------------
(****************************************************************************)
(* What users do to applications over HTTP: approve a batch                 *)
(* (hunt/approval.ts, enqueueApprovedCandidates), call the hunt back        *)
(* (/hunt/stop), cancel, retry and flag (modules/applications/actions.ts).  *)
(* The token-owned approval lock admits one of approve, cancel, retry and   *)
(* flag per user; it is held from a retry's checks to its transaction.      *)
(****************************************************************************)
EXTENDS ApplicationState

ApprovalLockFree == \A c \in Candidate : retrying[c] = "no"
\* After its transaction a call publishes what is runnable then.
PublishAfter == publishing' = [publishing EXCEPT !["api"] = @ \cup {d \in Dispatch : Runnable(d)'}]

(****************************************************************************)
(* One transaction: `queued` fits the batch plan and today's allowance,     *)
(* `unavailable` has only an aggregator URL, the rest of the selection is   *)
(* left discovered.  Nothing planned: only the aggregator rows change.      *)
(****************************************************************************)
Approve(queued, unavailable) ==
  LET selected == queued \cup unavailable IN
  /\ ApprovalLockFree
  /\ selected # {} /\ queued \cap unavailable = {}
  /\ \A c \in selected : /\ candidate[c] \in {"discovered", "rejected"}
                         /\ application[c] = "none" /\ dispatches[c] < MaxDispatches
  /\ candidate' = [c \in Candidate |-> IF c \in queued THEN "queued"
                                       ELSE IF c \in unavailable THEN "needs_review"
                                       ELSE candidate[c]]
  /\ stale' = [c \in Candidate |-> stale[c] /\ c \notin selected]
  /\ application' = [c \in Candidate |-> IF c \in queued THEN "queued" ELSE application[c]]
  /\ dispatches' = [c \in Candidate |-> IF c \in queued THEN dispatches[c] + 1
                                        ELSE dispatches[c]]
  /\ run' = IF queued # {} THEN "applying" ELSE run
  /\ UNCHANGED <<variant, cancelled, trail, redis, handler, worker, sweep, retrying, history>>
  /\ PublishAfter

\* "Call Hunty back": only the run row (and its read model) change.
Stop ==
  /\ "stop" \in UserMoves
  /\ run \in {"awaiting_approval", "applying"}
  /\ run' = "stopped"
  /\ UNCHANGED <<candidate, stale, variant, application, outbox, trail, redis, actors, history>>

\* Mutant of Removable: a job that has started is removed as well.
RemovableAnyway(c) == DispatchesOf(c) \subseteq Dispatch
\* removeWaitingApplication: no job of an open dispatch has started.
Removable(c) == \A d \in DispatchesOf(c) : OpenDispatch(d) => job[d] # "active"
RemoveJobs(c) ==
  job' = [d \in Dispatch |-> IF d \in DispatchesOf(c) /\ OpenDispatch(d) THEN "none" ELSE job[d]]
MayCancel(c) ==
  /\ "cancel" \in UserMoves /\ ApprovalLockFree
  /\ application[c] = "queued" /\ candidate[c] \in {"queued", "tailored"}
  /\ Removable(c)

\* The candidate row stays locked until the commit, so that the database side
\* is one step, with the removal Redis grants only to a job that is not active.
Cancel(c) ==
  /\ MayCancel(c)
  /\ SetCandidate(c, "rejected")
  /\ application' = [application EXCEPT ![c] = "closed"]
  /\ RemoveJobs(c)
  /\ cancelled' = cancelled \cup DispatchesOf(c)
  /\ UNCHANGED <<variant, run, dispatches, trail, lock, actors, history>>

\* The jobs are gone from Redis, but the transaction does not commit.
CancelRollback(c) ==
  /\ MayCancel(c)
  /\ RemoveJobs(c)
  /\ Fault
  /\ UNCHANGED <<rows, outbox, trail, lock, actors, submissions, confirms>>
-----------------------------------------------------------------------------
RetryAllowed(c, confirmedNotSubmitted) ==
  SafeRetry(application[c], HasAttempt(c),
            IF HasAttempt(c) THEN Latest(c) ELSE NoAttempt, confirmedNotSubmitted)

\* Mutant of QueueIdle: a retry does not look at the queue.
QueueUnread(c) == c \in Candidate
\* The newest open dispatch's job; an unreachable queue reads 'unavailable'.
QueueIdle(c) ==
  \/ InfoFails
  \/ \A d \in DispatchesOf(c) :
       (OpenDispatch(d) /\ \A e \in DispatchesOf(c) : OpenDispatch(e) => e[2] <= d[2])
         => ~Live(d)

\* The checks of a retry, under the approval lock but outside its transaction.
RetryCheck(c, confirmedNotSubmitted) ==
  /\ "retry" \in UserMoves /\ ApprovalLockFree
  /\ attempts[c] < MaxAttempts
  /\ RetryAllowed(c, confirmedNotSubmitted)
  /\ QueueIdle(c)
  /\ retrying' = [retrying EXCEPT ![c] =
                    IF RetryAllowed(c, FALSE) THEN "safe" ELSE "confirmed"]
  /\ UNCHANGED <<rows, outbox, trail, redis, handler, worker, publishing, sweep, history>>

RetryCommit(c) ==
  /\ retrying[c] # "no" /\ dispatches[c] < MaxDispatches
  /\ cancelled' = cancelled \cup DispatchesOf(c)
  /\ dispatches' = [dispatches EXCEPT ![c] = @ + 1]
  /\ SetCandidate(c, "queued")
  /\ run' = "applying"
  /\ application' = [application EXCEPT ![c] = "queued"]
  /\ confirms' = [confirms EXCEPT ![c] = IF retrying[c] = "confirmed" THEN @ + 1 ELSE @]
  /\ retrying' = [retrying EXCEPT ![c] = "no"]
  /\ UNCHANGED <<variant, trail, redis, handler, worker, sweep, submissions, faults>>
  /\ PublishAfter

\* The allowance is used up, the lease was lost, or the transaction failed.
RetryAbandon(c) ==
  /\ retrying[c] # "no"
  /\ retrying' = [retrying EXCEPT ![c] = "no"]
  /\ UNCHANGED <<rows, outbox, trail, redis, handler, worker, publishing, sweep, history>>
-----------------------------------------------------------------------------
Flag(c) ==
  /\ "flag" \in UserMoves /\ ApprovalLockFree /\ HasAttempt(c)
  /\ flags' = flags \cup {<<c, attempts[c]>>}
  /\ UNCHANGED <<rows, outbox, attempts, attempt, redis, actors, history>>

ResolveFlag(a) ==
  /\ a \in flags /\ ~InFlight(a)
  /\ flags' = flags \ {a}
  /\ UNCHANGED <<rows, outbox, attempts, attempt, redis, actors, history>>

ApiNext ==
  \/ \E queued, unavailable \in SUBSET Candidate : Approve(queued, unavailable)
  \/ Stop
  \/ \E c \in Candidate : Cancel(c) \/ CancelRollback(c) \/ Flag(c)
  \/ \E c \in Candidate, confirmed \in BOOLEAN : RetryCheck(c, confirmed)
  \/ \E c \in Candidate : RetryCommit(c) \/ RetryAbandon(c)
  \/ \E a \in Attempt : ResolveFlag(a)
=============================================================================
