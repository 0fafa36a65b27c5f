-------------------------- MODULE ApplicationRecovery --------------------------
(****************************************************************************)
(* Putting right what stopped half way (hunt/application-queue.ts): the     *)
(* 'failed' event handler of a job, and the sweep that every runner starts  *)
(* every 15 seconds unless its last one is still going.                     *)
(****************************************************************************)
EXTENDS ApplicationState

Unfinish(a) == [attempt[a] EXCEPT !.status = "unknown", !.error = "none"]

(****************************************************************************)
(* handleFailedApplicationJob: the candidate's in-flight attempts, then the *)
(* candidate if it was still active, then the application, then the run.    *)
(****************************************************************************)
HandleAttempts(d) ==
  /\ handler[d] = "attempts"
  /\ attempt' = [a \in Attempt |-> IF a \in AttemptsOf(d[1]) /\ InFlight(a)
                                   THEN Unfinish(a) ELSE attempt[a]]
  /\ handler' = [handler EXCEPT ![d] = "candidate"]
  /\ UNCHANGED <<rows, outbox, attempts, flags, redis, worker, publishing, sweep,
                 retrying, history>>

HandleCandidate(d) ==
  /\ handler[d] = "candidate"
  /\ \/ /\ candidate[d[1]] \in {"queued", "applying"}
        /\ SetCandidate(d[1], "needs_review")
        /\ handler' = [handler EXCEPT ![d] = "application"]
     \/ /\ candidate[d[1]] \notin {"queued", "applying"}
        /\ handler' = [handler EXCEPT ![d] = "count"]
        /\ UNCHANGED <<candidate, stale>>
  /\ UNCHANGED <<variant, application, run, outbox, trail, redis, worker, publishing,
                 sweep, retrying, history>>

\* Mutant of ReviewApplication: an unconditional update.
ReviewAnyApplication(c) == application' = [application EXCEPT ![c] = "needs_review"]
\* Only an application still waiting goes to review, here and in the sweep.
ReviewApplication(c) ==
  application' = [application EXCEPT ![c] = IF @ = "queued" THEN "needs_review" ELSE @]

HandleApplication(d) ==
  /\ handler[d] = "application"
  /\ ReviewApplication(d[1])
  /\ handler' = [handler EXCEPT ![d] = "count"]
  /\ UNCHANGED <<candidate, stale, variant, run, outbox, trail, redis, worker,
                 publishing, sweep, retrying, history>>

HandleCount(d) ==
  /\ handler[d] = "count"
  /\ handler' = [handler EXCEPT ![d] = IF Settled THEN "finish" ELSE "none"]
  /\ UNCHANGED <<rows, outbox, trail, redis, worker, publishing, sweep, retrying, history>>

HandleFinish(d) ==
  /\ handler[d] = "finish"
  /\ run' = "completed"
  /\ handler' = [handler EXCEPT ![d] = "none"]
  /\ UNCHANGED <<candidate, stale, variant, application, outbox, trail, redis, worker,
                 publishing, sweep, retrying, history>>

\* The process that runs the handler stops; BullMQ emits the event only once.
HandlerLost(d) ==
  /\ handler[d] # "none"
  /\ handler' = [handler EXCEPT ![d] = "none"]
  /\ Fault
  /\ UNCHANGED <<rows, outbox, trail, redis, worker, publishing, sweep, retrying,
                 submissions, confirms>>
-----------------------------------------------------------------------------
\* INTERRUPTED_AFTER_MS passes without an update of the candidate.  The cutoff
\* of a sweep is taken before its look at the jobs: ageing after that does not
\* count for the sweep's own query.
Age(c) ==
  /\ sweep.pc # "read"
  /\ candidate[c] \in {"queued", "applying"} /\ ~stale[c]
  /\ stale' = [stale EXCEPT ![c] = TRUE]
  /\ UNCHANGED <<candidate, variant, application, run, outbox, trail, redis, actors, history>>

SweepStart ==
  /\ sweep.pc = "idle"
  /\ sweep' = [sweep EXCEPT !.pc = "publish"]
  /\ publishing' = [publishing EXCEPT !["sweep"] = {d \in Dispatch : Runnable(d)}]
  /\ UNCHANGED <<rows, outbox, trail, redis, handler, worker, retrying, history>>

\* Once the outbox is published: which candidates have a living job, an active
\* job living only under its lock.  With all of them living nothing follows.
LivingCandidates ==
  {d[1] : d \in {e \in Dispatch : Live(e) /\ (job[e] = "active" => lock[e] # NoWorker)}}
SweepLive ==
  /\ sweep.pc = "publish" /\ publishing["sweep"] = {}
  /\ sweep' = IF LivingCandidates = Candidate THEN SweepIdle
              ELSE [sweep EXCEPT !.pc = "read", !.live = LivingCandidates]
  /\ UNCHANGED <<rows, outbox, trail, redis, handler, worker, publishing, retrying, history>>

\* Stale active candidates of an applying hunt, joined with in-flight attempts;
\* those with a living job are passed over.
\* Mutant of StaleRows: an inner join, only candidates with an attempt.
StaleAttempts ==
  {a \in Attempt : /\ a[2] <= attempts[a[1]] /\ InFlight(a)
                   /\ a[1] \notin sweep.live /\ stale[a[1]]
                   /\ candidate[a[1]] \in {"queued", "applying"}}
StaleRows ==
  LET inFlight(c) == {a[2] : a \in {b \in AttemptsOf(c) : InFlight(b)}} IN
  UNION {{c} \X (IF inFlight(c) = {} THEN {0} ELSE inFlight(c)) :
         c \in {e \in Candidate \ sweep.live :
                 candidate[e] \in {"queued", "applying"} /\ stale[e]}}
SweepRead ==
  /\ sweep.pc = "read"
  /\ sweep' = IF run = "applying" /\ StaleRows # {}
              THEN [SweepIdle EXCEPT !.pc = "repair", !.rows = StaleRows] ELSE SweepIdle
  /\ UNCHANGED <<rows, outbox, trail, redis, handler, worker, publishing, retrying, history>>

\* The next row: nothing for a candidate that moved on since.
SweepCandidate ==
  /\ sweep.pc = "repair"
  /\ \E row \in sweep.rows :
       \/ /\ candidate[row[1]] \in {"queued", "applying"}
          /\ SetCandidate(row[1], "needs_review")
          /\ sweep' = [sweep EXCEPT !.pc = IF row[2] = 0 THEN "application" ELSE "attempt",
                                    !.rows = @ \ {row}, !.row = row, !.repaired = TRUE]
       \/ /\ candidate[row[1]] \notin {"queued", "applying"}
          /\ sweep' = [sweep EXCEPT !.rows = @ \ {row}]
          /\ UNCHANGED <<candidate, stale>>
  /\ UNCHANGED <<variant, application, run, outbox, trail, redis, handler, worker,
                 publishing, retrying, history>>

\* By attempt id, whatever its status is by now.
SweepAttempt ==
  /\ sweep.pc = "attempt"
  /\ attempt' = [attempt EXCEPT ![sweep.row].status = "unknown",
                                ![sweep.row].error = "interrupted"]
  /\ sweep' = [sweep EXCEPT !.pc = "application"]
  /\ UNCHANGED <<rows, outbox, attempts, flags, redis, handler, worker, publishing,
                 retrying, history>>

SweepApplication ==
  /\ sweep.pc = "application"
  /\ ReviewApplication(sweep.row[1])
  /\ sweep' = [sweep EXCEPT !.pc = "repair", !.row = SweepIdle.row]
  /\ UNCHANGED <<candidate, stale, variant, run, outbox, trail, redis, handler, worker,
                 publishing, retrying, history>>

\* After the last row, a run with nothing active left is failed, if applying.
SweepSettle ==
  /\ sweep.pc = "repair" /\ sweep.rows = {}
  /\ sweep' = IF sweep.repaired /\ Settled THEN [SweepIdle EXCEPT !.pc = "fail"] ELSE SweepIdle
  /\ UNCHANGED <<rows, outbox, trail, redis, handler, worker, publishing, retrying, history>>

SweepFail ==
  /\ sweep.pc = "fail"
  /\ run' = IF run = "applying" THEN "failed" ELSE run
  /\ sweep' = SweepIdle
  /\ UNCHANGED <<candidate, stale, variant, application, outbox, trail, redis, handler,
                 worker, publishing, retrying, history>>

\* An error or the end of the process abandons the rest of the sweep.
SweepLost ==
  /\ sweep.pc \notin {"idle", "publish"}
  /\ sweep' = SweepIdle
  /\ Fault
  /\ UNCHANGED <<rows, outbox, trail, redis, handler, worker, publishing, retrying,
                 submissions, confirms>>

HandlerStep(d) == \/ HandleAttempts(d) \/ HandleCandidate(d) \/ HandleApplication(d)
                  \/ HandleCount(d) \/ HandleFinish(d)
SweepStep == \/ SweepStart \/ SweepLive \/ SweepRead \/ SweepCandidate \/ SweepAttempt
             \/ SweepApplication \/ SweepSettle \/ SweepFail
RecoveryNext ==
  \/ \E d \in Dispatch : HandlerStep(d) \/ HandlerLost(d)
  \/ \E c \in Candidate : Age(c)
  \/ SweepStep \/ SweepLost
=============================================================================
