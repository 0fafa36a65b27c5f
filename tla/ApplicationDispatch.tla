-------------------------- MODULE ApplicationDispatch --------------------------
(****************************************************************************)
(* From a dispatch row to a claimed candidate (hunt/application-queue.ts):  *)
(* publishing the outbox as BullMQ jobs, the processor startApplication-    *)
(* Worker gives BullMQ up to the claim and after the browser operation, and *)
(* what BullMQ does with the locks and jobs of workers that stop.  The      *)
(* operation in between, applyApprovedCandidate, is ApplyWorker.            *)
(****************************************************************************)
EXTENDS ApplicationState

\* One row of what a publisher selected, which may be out of date by now.  The
\* job id is the dispatch id: adding a job that exists changes nothing.
PublishAdd(p, d) ==
  /\ d \in publishing[p]
  /\ publishing' = [publishing EXCEPT ![p] = @ \ {d}]
  /\ job' = [job EXCEPT ![d] = IF @ = "none" THEN "waiting" ELSE @]
  /\ UNCHANGED <<rows, outbox, trail, lock, handler, worker, sweep, retrying, history>>

\* Redis or the database fails, or the process stops, in the middle.
PublishGiveUp(p) ==
  /\ publishing[p] # {}
  /\ publishing' = [publishing EXCEPT ![p] = {}]
  /\ sweep' = IF p = "sweep" THEN SweepIdle ELSE sweep
  /\ Fault
  /\ UNCHANGED <<rows, outbox, trail, redis, handler, worker, retrying, submissions, confirms>>
-----------------------------------------------------------------------------
At(w, pc)  == worker[w].pc = pc
CandOf(w)  == worker[w].disp[1]
Go(w, pc)  == worker' = [worker EXCEPT ![w].pc = pc]
Owns(w, d) == lock[d] = w /\ job[d] = "active"

PickUp(w, d) ==
  /\ At(w, "idle") /\ job[d] \in {"waiting", "delayed"}
  /\ job' = [job EXCEPT ![d] = "active"] /\ lock' = [lock EXCEPT ![d] = w]
  /\ worker' = [worker EXCEPT ![w] = [Idle EXCEPT !.disp = d,
                  !.pc = IF flags = {} THEN "started" ELSE "flagged"]]
  /\ UNCHANGED <<rows, outbox, trail, handler, publishing, sweep, retrying, history>>

ReadCandidate(w) ==
  /\ worker[w].pc \in {"started", "flagged"}
  /\ Go(w, IF candidate[CandOf(w)] \notin {"queued", "tailored"} THEN "complete"
           ELSE IF At(w, "flagged") THEN "delaying" ELSE "lanes")
  /\ UNCHANGED <<rows, outbox, trail, redis, handler, publishing, sweep, retrying, history>>

\* A lane whose lease was lost is free for others while its worker goes on.
LanesTaken == {w \in Worker : worker[w].pc \in InLane /\ ~worker[w].aborted}
AcquireLanes(w) ==
  /\ At(w, "lanes")
  /\ Go(w, IF Cardinality(LanesTaken) < LaneLimit THEN "claim" ELSE "delaying")
  /\ UNCHANGED <<rows, outbox, trail, redis, handler, publishing, sweep, retrying, history>>

\* A lane renewal fails or comes too late: the controller aborts.
LoseLease(w) ==
  /\ worker[w].pc \in InLane /\ ~worker[w].aborted
  /\ worker' = [worker EXCEPT ![w].aborted = TRUE]
  /\ Fault
  /\ UNCHANGED <<rows, outbox, trail, redis, handler, publishing, sweep, retrying,
                 submissions, confirms>>

\* Mutant of MayClaim: the claim does not read the dispatch again.
MayClaimAnyDispatch(w) == candidate[CandOf(w)] \in {"queued", "tailored"}
MayClaim(w) ==
  /\ candidate[CandOf(w)] \in {"queued", "tailored"}
  /\ worker[w].disp \notin cancelled

Claim(w) ==
  /\ At(w, "claim")
  /\ \/ /\ MayClaim(w)
        /\ SetCandidate(CandOf(w), "applying")
        /\ Go(w, "enter")
     \/ /\ ~MayClaim(w)
        /\ Go(w, "complete")
        /\ UNCHANGED <<candidate, stale>>
  /\ UNCHANGED <<variant, application, run, outbox, trail, redis, handler, publishing,
                 sweep, retrying, history>>
-----------------------------------------------------------------------------
\* finishRunWhenSettled: the count, then the update, neither conditional on the other.
CountActive(w) ==
  /\ At(w, "count")
  /\ Go(w, IF Settled THEN "finish" ELSE "complete")
  /\ UNCHANGED <<rows, outbox, trail, redis, handler, publishing, sweep, retrying, history>>

FinishRun(w) ==
  /\ At(w, "finish")
  /\ run' = "completed"
  /\ Go(w, "complete")
  /\ UNCHANGED <<candidate, stale, variant, application, outbox, trail, redis, handler,
                 publishing, sweep, retrying, history>>

\* The processor returns or throws.  BullMQ moves the job only for the holder
\* of its lock; a job that failed reaches the 'failed' event handler.
EndJob(w) ==
  LET d == worker[w].disp
      state == CASE At(w, "complete") -> "completed"
                 [] At(w, "failing")  -> "failed"
                 [] At(w, "delaying") -> "delayed"
  IN /\ worker[w].pc \in {"complete", "failing", "delaying"}
     /\ worker' = [worker EXCEPT ![w] = Idle]
     /\ job' = [job EXCEPT ![d] = IF Owns(w, d) THEN state ELSE @]
     /\ lock' = [lock EXCEPT ![d] = IF Owns(w, d) THEN NoWorker ELSE @]
     /\ handler' = [handler EXCEPT ![d] = IF Owns(w, d) /\ state = "failed"
                                          THEN "attempts" ELSE @]
     /\ UNCHANGED <<rows, outbox, trail, publishing, sweep, retrying, history>>
-----------------------------------------------------------------------------
\* The runner process stops; its job stays active under a lock nobody renews.
Crash(w) ==
  /\ ~At(w, "idle")
  /\ worker' = [worker EXCEPT ![w] = Idle]
  /\ Fault
  /\ UNCHANGED <<rows, outbox, trail, redis, handler, publishing, sweep, retrying,
                 submissions, confirms>>

\* A stopped worker renews nothing: its lock expires.
LockExpires(d) ==
  /\ lock[d] # NoWorker /\ worker[lock[d]].disp # d
  /\ lock' = [lock EXCEPT ![d] = NoWorker]
  /\ UNCHANGED <<rows, outbox, trail, job, actors, history>>

\* A running worker renews its lock every half lockDuration, unless its process
\* hangs or is cut off from Redis for longer.
LockLapses(d) ==
  /\ Zombies /\ Fault
  /\ lock[d] # NoWorker /\ worker[lock[d]].disp = d
  /\ lock' = [lock EXCEPT ![d] = NoWorker]
  /\ UNCHANGED <<rows, outbox, trail, job, actors, submissions, confirms>>

\* BullMQ's stalled check: maxStalledCount 0 fails the job at its first stall.
Stalled(d) ==
  /\ job[d] = "active" /\ lock[d] = NoWorker
  /\ job' = [job EXCEPT ![d] = "failed"]
  /\ handler' = [handler EXCEPT ![d] = "attempts"]
  /\ UNCHANGED <<rows, outbox, trail, lock, worker, publishing, sweep, retrying, history>>

RedisFlush ==
  /\ Zombies /\ Fault
  /\ job' = [d \in Dispatch |-> "none"] /\ lock' = [d \in Dispatch |-> NoWorker]
  /\ UNCHANGED <<rows, outbox, trail, actors, submissions, confirms>>

JobStep(w) == \/ ReadCandidate(w) \/ AcquireLanes(w) \/ Claim(w)
              \/ CountActive(w) \/ FinishRun(w) \/ EndJob(w)
PublishStep(p) == \E d \in Dispatch : PublishAdd(p, d)
DispatchNext ==
  \/ \E p \in Publisher : PublishStep(p) \/ PublishGiveUp(p)
  \/ \E w \in Worker : \/ \E d \in Dispatch : PickUp(w, d)
                       \/ JobStep(w) \/ LoseLease(w) \/ Crash(w)
  \/ \E d \in Dispatch : LockExpires(d) \/ LockLapses(d) \/ Stalled(d)
  \/ RedisFlush
=============================================================================
