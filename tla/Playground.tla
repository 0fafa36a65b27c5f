----------------------------- MODULE Playground -----------------------------
(***************************************************************************)
(* One playground run (playground_runs): the person's requests             *)
(* (modules/playground/routes.ts), the Redis list their replies wait in    *)
(* (playground/replies.ts), the executions of its job (playground/run.ts)  *)
(* and the clean-up when a runner boots (playground/reconcile.ts).         *)
(***************************************************************************)
EXTENDS Integers, Sequences, FiniteSets

CONSTANTS PgExecutions,  \* 1 + maxStalledCount
          PgMaxReplies,  \* bound: replies that wait at a time
          PgMaxApproves, \* bound: presses of Apply
          PgMaxAsks,     \* bound: questions of one execution
          PgMaxFaults    \* bound: crashes and lapsed job locks

ASSUME PgAssumption ==
    /\ PgExecutions \in Nat /\ PgMaxReplies \in Nat /\ PgMaxApproves \in Nat
    /\ PgMaxAsks \in Nat /\ PgMaxFaults \in Nat

Exec == 1..PgExecutions
NoExec == 0

VARIABLES pgStatus,    \* playground_runs.status
          pgSession,   \* browser_session_id: the execution that opened it
          pgBrowsers,  \* executions whose hosted browser is up
          pgAged,      \* updated_at is older than STALE_AFTER_MS
          pgReplies,   \* the list huntly:playground:reply:<run>
          pgRequest,   \* a request between its look at the run and its effect
          pgJob,       \* the job playground-<run>, and who executes it
          pgExec,      \* execution -> where it stands and how often it asked
          pgSweep,     \* the clean-up of a booting runner
          pgCount      \* history: approvals posted, submissions, faults

pgRow == <<pgStatus, pgSession, pgAged>>
pgVars == <<pgRow, pgBrowsers, pgReplies, pgRequest, pgJob, pgExec, pgSweep, pgCount>>

LiveStatus == {"queued", "launching", "searching", "shortlisted", "applying", "blocked"}
EndedStatus == {"submitted", "failed", "cancelled"}
ReplyKind == {"answer", "approve", "cancel", "instruct"}
Working == {"loading", "opening", "storing", "searching", "waiting", "preparing", "filling",
            "blocking", "asking", "recording", "closing"}

Asked == [e \in Exec |-> pgExec[e].asks]
\* since: how often each execution had asked when the reply was posted.
Reply == [kind : ReplyKind, since : [Exec -> 0..PgMaxAsks]]

PlaygroundTypeOK ==
    /\ pgStatus \in LiveStatus \cup EndedStatus \cup {"none"}
    /\ pgSession \in Exec \cup {NoExec}
    /\ pgBrowsers \subseteq Exec
    /\ pgAged \in BOOLEAN
    /\ pgReplies \in Seq(Reply) /\ Len(pgReplies) <= PgMaxReplies
    /\ pgRequest \in {"none", "enqueue"} \cup ReplyKind
    /\ pgJob \in [state : {"none", "waiting", "active", "gone"}, tries : 0..PgExecutions]
    /\ pgExec \in [Exec -> [pc : Working \cup {"idle", "done", "dead"}, asks : 0..PgMaxAsks]]
    /\ pgSweep \in [pc : {"idle", "stopping", "clearing", "failing"},
                    session : Exec \cup {NoExec}]
    /\ pgCount \in [approves : 0..PgMaxApproves, submits : Nat, faults : 0..PgMaxFaults]

PlaygroundInit ==
    /\ pgStatus = "none" /\ pgSession = NoExec /\ pgAged = FALSE
    /\ pgBrowsers = {}
    /\ pgReplies = <<>>
    /\ pgRequest = "none"
    /\ pgJob = [state |-> "none", tries |-> 0]
    /\ pgExec = [e \in Exec |-> [pc |-> "idle", asks |-> 0]]
    /\ pgSweep = [pc |-> "idle", session |-> NoExec]
    /\ pgCount = [approves |-> 0, submits |-> 0, faults |-> 0]

PgFault ==
    /\ pgCount.faults < PgMaxFaults
    /\ pgCount' = [pgCount EXCEPT !.faults = @ + 1]

\* setState: the row and updated_at; it never looks at what it overwrites.
SetState(s) == pgStatus' = s /\ pgAged' = FALSE /\ UNCHANGED pgSession

(***************************************************************************)
(* The person.                                                             *)
(***************************************************************************)

PgCreate ==
    /\ pgStatus = "none"
    /\ SetState("queued")
    /\ pgRequest' = "enqueue"
    /\ UNCHANGED <<pgBrowsers, pgReplies, pgJob, pgExec, pgSweep, pgCount>>

\* The job is queued, or the run is marked failed.
PgEnqueue ==
    /\ pgRequest = "enqueue"
    /\ pgRequest' = "none"
    /\ \/ pgJob' = [pgJob EXCEPT !.state = "waiting"] /\ UNCHANGED pgRow
       \/ SetState("failed") /\ UNCHANGED pgJob
    /\ UNCHANGED <<pgBrowsers, pgReplies, pgExec, pgSweep, pgCount>>

\* What each route asks of the run's status before it posts.
MayPost(kind) ==
    CASE kind = "approve" -> pgStatus = "shortlisted"
      [] kind = "answer" -> pgStatus = "blocked"
      [] kind = "instruct" -> pgStatus \in LiveStatus \ {"blocked"}
      [] kind = "cancel" -> pgStatus \in LiveStatus

PgAskApi ==
    /\ pgRequest = "none"
    /\ \E kind \in ReplyKind :
          /\ MayPost(kind)
          /\ kind = "approve" => pgCount.approves < PgMaxApproves
          /\ pgRequest' = kind
    /\ UNCHANGED <<pgRow, pgBrowsers, pgReplies, pgJob, pgExec, pgSweep, pgCount>>

\* postReply, whatever the run's status is by now.
PgPost ==
    /\ pgRequest \in ReplyKind
    /\ Len(pgReplies) < PgMaxReplies
    /\ pgReplies' = Append(pgReplies, [kind |-> pgRequest, since |-> Asked])
    /\ pgCount' = IF pgRequest = "approve"
                    THEN [pgCount EXCEPT !.approves = @ + 1] ELSE pgCount
    /\ pgRequest' = "none"
    /\ UNCHANGED <<pgRow, pgBrowsers, pgJob, pgExec, pgSweep>>

(***************************************************************************)
(* The execution.                                                          *)
(***************************************************************************)

PgAt(e, pc) == pgExec[e].pc = pc
PgGo(e, pc) == pgExec' = [pgExec EXCEPT ![e].pc = pc]

\* BullMQ gives the job to its next execution; a cancelled run is left alone.
PgPickUp(e) ==
    /\ pgJob.state = "waiting"
    /\ e = pgJob.tries + 1
    /\ IF pgStatus = "cancelled"
         THEN pgJob' = [state |-> "gone", tries |-> e] /\ PgGo(e, "done")
         ELSE pgJob' = [state |-> "active", tries |-> e] /\ PgGo(e, "loading")
    /\ UNCHANGED <<pgRow, pgBrowsers, pgReplies, pgRequest, pgSweep, pgCount>>

PgLaunch(e) ==
    /\ PgAt(e, "loading")
    /\ SetState("launching")
    /\ PgGo(e, "opening")
    /\ UNCHANGED <<pgBrowsers, pgReplies, pgRequest, pgJob, pgSweep, pgCount>>

PgOpen(e) ==
    /\ PgAt(e, "opening")
    /\ pgBrowsers' = pgBrowsers \cup {e}
    /\ PgGo(e, "storing")
    /\ UNCHANGED <<pgRow, pgReplies, pgRequest, pgJob, pgSweep, pgCount>>

\* A prompt that names a posting skips the search.
PgStore(e) ==
    /\ PgAt(e, "storing")
    /\ pgSession' = e /\ pgAged' = FALSE
    /\ \/ pgStatus' = "searching" /\ PgGo(e, "searching")
       \/ pgStatus' = "shortlisted" /\ PgGo(e, "waiting")
    /\ UNCHANGED <<pgBrowsers, pgReplies, pgRequest, pgJob, pgSweep, pgCount>>

PgShortlist(e) ==
    /\ PgAt(e, "searching")
    /\ \/ SetState("shortlisted") /\ PgGo(e, "waiting")
       \/ SetState("failed") /\ PgGo(e, "closing")
    /\ UNCHANGED <<pgBrowsers, pgReplies, pgRequest, pgJob, pgSweep, pgCount>>

\* Mutant: the reply is read and stays in the list.
Peek == pgReplies' = pgReplies

\* BLPOP.
Pop == pgReplies' = Tail(pgReplies)

\* awaitReply(APPROVAL_WAIT_MS, ['approve', 'cancel']): what nothing waits for
\* is dropped.
PgAwaitApproval(e) ==
    /\ PgAt(e, "waiting")
    /\ pgReplies # <<>>
    /\ Pop
    /\ CASE Head(pgReplies).kind = "approve" -> PgGo(e, "preparing") /\ UNCHANGED pgRow
         [] Head(pgReplies).kind = "cancel" -> SetState("cancelled") /\ PgGo(e, "closing")
         [] OTHER -> UNCHANGED <<pgRow, pgExec>>
    /\ UNCHANGED <<pgBrowsers, pgRequest, pgJob, pgSweep, pgCount>>

\* The kill switch, or the form is opened.
PgApply(e) ==
    /\ PgAt(e, "preparing")
    /\ \/ SetState("applying") /\ PgGo(e, "filling")
       \/ SetState("cancelled") /\ PgGo(e, "closing")
    /\ UNCHANGED <<pgBrowsers, pgReplies, pgRequest, pgJob, pgSweep, pgCount>>

\* Mutant: what is already in the list is kept.
AskKeepingReplies(e) ==
    /\ PgAt(e, "filling")
    /\ pgExec[e].asks < PgMaxAsks
    /\ pgExec' = [pgExec EXCEPT ![e] = [pc |-> "blocking", asks |-> @.asks + 1]]
    /\ UNCHANGED <<pgRow, pgBrowsers, pgReplies, pgRequest, pgJob, pgSweep, pgCount>>

\* onAsk: the list is emptied, the question is stored ...
PgAsk(e) ==
    /\ PgAt(e, "filling")
    /\ pgExec[e].asks < PgMaxAsks
    /\ pgReplies' = <<>>
    /\ pgExec' = [pgExec EXCEPT ![e] = [pc |-> "blocking", asks |-> @.asks + 1]]
    /\ UNCHANGED <<pgRow, pgBrowsers, pgRequest, pgJob, pgSweep, pgCount>>

PgBlock(e) ==
    /\ PgAt(e, "blocking")
    /\ SetState("blocked")
    /\ PgGo(e, "asking")
    /\ UNCHANGED <<pgBrowsers, pgReplies, pgRequest, pgJob, pgSweep, pgCount>>

\* ... and any reply but an approval, a cancel too, lets the form go on.
PgAwaitAnswer(e) ==
    /\ PgAt(e, "asking")
    /\ pgReplies # <<>>
    /\ Pop
    /\ IF Head(pgReplies).kind = "approve"
         THEN UNCHANGED <<pgRow, pgExec>>
         ELSE SetState("applying") /\ PgGo(e, "filling")
    /\ UNCHANGED <<pgBrowsers, pgRequest, pgJob, pgSweep, pgCount>>

\* Mutant: a question is waited on for ever.
DeadlineOfApproval(e) ==
    /\ PgAt(e, "waiting") /\ SetState("cancelled") /\ PgGo(e, "closing")
    /\ UNCHANGED <<pgBrowsers, pgReplies, pgRequest, pgJob, pgSweep, pgCount>>

\* The deadline of either wait; it is looked at between two pops.
PgDeadline(e) ==
    /\ \/ PgAt(e, "waiting") /\ SetState("cancelled") /\ PgGo(e, "closing")
       \/ PgAt(e, "asking") /\ SetState("applying") /\ PgGo(e, "filling")
    /\ UNCHANGED <<pgBrowsers, pgReplies, pgRequest, pgJob, pgSweep, pgCount>>

\* The agent's submit tool or submitForm; a dry run stops before the click.
PgSubmit(e) ==
    /\ PgAt(e, "filling")
    /\ \E live \in {0, 1} : pgCount' = [pgCount EXCEPT !.submits = @ + live]
    /\ PgGo(e, "recording")
    /\ UNCHANGED <<pgRow, pgBrowsers, pgReplies, pgRequest, pgJob, pgSweep>>

\* The applications row, the receipt and the end of the run.
PgRecord(e) ==
    /\ PgAt(e, "recording")
    /\ SetState("submitted")
    /\ PgGo(e, "closing")
    /\ UNCHANGED <<pgBrowsers, pgReplies, pgRequest, pgJob, pgSweep, pgCount>>

\* The form could not be completed, or a step threw.
PgFail(e) ==
    /\ pgExec[e].pc \in Working \ {"closing"}
    /\ SetState("failed")
    /\ PgGo(e, "closing")
    /\ UNCHANGED <<pgBrowsers, pgReplies, pgRequest, pgJob, pgSweep, pgCount>>

\* teardown, and the job ends.
PgClose(e) ==
    /\ PgAt(e, "closing")
    /\ pgBrowsers' = pgBrowsers \ {e}
    /\ pgReplies' = <<>>
    /\ PgGo(e, "done")
    /\ pgJob' = IF pgJob.tries = e THEN [pgJob EXCEPT !.state = "gone"] ELSE pgJob
    /\ UNCHANGED <<pgRow, pgRequest, pgSweep, pgCount>>

(***************************************************************************)
(* Crashes, and the clean-up of a booting runner.                          *)
(***************************************************************************)

PgCrash(e) ==
    /\ pgExec[e].pc \in Working
    /\ PgFault
    /\ PgGo(e, "dead")
    /\ UNCHANGED <<pgRow, pgBrowsers, pgReplies, pgRequest, pgJob, pgSweep>>

\* The stalled check: again, while maxStalledCount allows.
PgStalled ==
    /\ pgJob.state = "active"
    /\ PgAt(pgJob.tries, "dead")
    /\ pgJob' = [pgJob EXCEPT !.state = IF pgJob.tries < PgExecutions
                                          THEN "waiting" ELSE "gone"]
    /\ UNCHANGED <<pgRow, pgBrowsers, pgReplies, pgRequest, pgExec, pgSweep, pgCount>>

\* The job's lock lapses under a live execution.
PgLapse ==
    /\ pgJob.state = "active" /\ pgJob.tries < PgExecutions
    /\ pgExec[pgJob.tries].pc \in Working
    /\ PgFault
    /\ pgJob' = [pgJob EXCEPT !.state = "waiting"]
    /\ UNCHANGED <<pgRow, pgBrowsers, pgReplies, pgRequest, pgExec, pgSweep>>

\* Ten minutes without an update; a live execution touches the row (touchRun).
PgAge ==
    /\ pgStatus \in LiveStatus /\ ~pgAged
    /\ \A e \in Exec : pgExec[e].pc \notin Working
    /\ pgAged' = TRUE
    /\ UNCHANGED <<pgStatus, pgSession, pgBrowsers, pgReplies, pgRequest, pgJob, pgExec,
                   pgSweep, pgCount>>

\* Mutant: a live status is enough.
StrandedByStatus == pgStatus \in LiveStatus /\ pgSession # NoExec

Stranded == pgStatus \in LiveStatus /\ pgSession # NoExec /\ pgAged

PgBoot ==
    /\ pgSweep.pc = "idle"
    /\ Stranded
    /\ pgSweep' = [pc |-> "stopping", session |-> pgSession]
    /\ UNCHANGED <<pgRow, pgBrowsers, pgReplies, pgRequest, pgJob, pgExec, pgCount>>

\* stopBrowser of the session that was read; its failure is only logged.
PgSweepStop ==
    /\ pgSweep.pc = "stopping"
    /\ pgBrowsers' \in {pgBrowsers, pgBrowsers \ {pgSweep.session}}
    /\ pgSweep' = [pgSweep EXCEPT !.pc = "clearing"]
    /\ UNCHANGED <<pgRow, pgReplies, pgRequest, pgJob, pgExec, pgCount>>

PgSweepClear ==
    /\ pgSweep.pc = "clearing"
    /\ pgReplies' = <<>>
    /\ pgSweep' = [pgSweep EXCEPT !.pc = "failing"]
    /\ UNCHANGED <<pgRow, pgBrowsers, pgRequest, pgJob, pgExec, pgCount>>

PgSweepFail ==
    /\ pgSweep.pc = "failing"
    /\ SetState("failed")
    /\ pgSweep' = [pc |-> "idle", session |-> NoExec]
    /\ UNCHANGED <<pgBrowsers, pgReplies, pgRequest, pgJob, pgExec, pgCount>>

PgExecute(e) ==
    \/ PgLaunch(e) \/ PgOpen(e) \/ PgStore(e) \/ PgShortlist(e) \/ PgAwaitApproval(e)
    \/ PgApply(e) \/ PgAsk(e) \/ PgBlock(e) \/ PgAwaitAnswer(e) \/ PgDeadline(e) \/ PgSubmit(e)
    \/ PgRecord(e) \/ PgClose(e)

PgSweepStep == PgSweepStop \/ PgSweepClear \/ PgSweepFail

PlaygroundNext ==
    \/ PgCreate \/ PgEnqueue \/ PgAskApi \/ PgPost
    \/ \E e \in Exec : PgPickUp(e) \/ PgExecute(e) \/ PgFail(e) \/ PgCrash(e)
    \/ PgStalled \/ PgLapse \/ PgAge
    \/ PgBoot \/ PgSweepStep

PlaygroundSpec == PlaygroundInit /\ [][PlaygroundNext]_pgVars

\* The queue delivers, an execution goes on, every wait has a deadline.
PlaygroundFairness ==
    /\ \A e \in Exec : WF_pgVars(PgPickUp(e)) /\ WF_pgVars(PgExecute(e)) /\ WF_pgVars(PgDeadline(e))
    /\ WF_pgVars(PgStalled)
    /\ WF_pgVars(PgSweepStep)

(***************************************************************************)
(* Properties.                                                             *)
(***************************************************************************)

\* Every submission takes an approval of its own: across second executions,
\* dropped replies and concurrent waits, one press of Apply never sends two
\* applications (awaitReply removes what it takes).
ApprovalPerSubmission == pgCount.submits <= pgCount.approves

\* Nothing that was in the list before a question was asked can be taken as
\* its answer (onAsk, "Nothing already queued can be an answer to a question
\* that has not been asked yet").
AnswersFollowTheirQuestion ==
    \A e \in Exec : PgAt(e, "asking") =>
        \A i \in DOMAIN pgReplies : pgReplies[i].since[e] = pgExec[e].asks

\* The clean-up stops no browser a live execution is driving, however late
\* it acts on what it read (reconcileInterruptedPlaygroundRuns).
CleanUpSparesLiveRuns ==
    pgSweep.pc = "stopping" => pgExec[pgSweep.session].pc \notin Working

\* A queued run ends although an execution dies or loses its job on the way
\* and the person never answers.
QueuedRunEnds == pgJob.state = "waiting" ~> pgStatus \in EndedStatus
=============================================================================
