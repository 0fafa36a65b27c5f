------------------------- MODULE DiscoveryRunsProofs -------------------------
(***************************************************************************)
(* For any number of workers, hunts, stalls and faults: the types of the   *)
(* hunts and their queue, that a hunt offered for approval has its         *)
(* candidates, and that a hunt that was stopped and has come to rest stays *)
(* stopped.                                                                *)
(***************************************************************************)
EXTENDS DiscoveryRuns, TLAPS

USE BoundsAssumption, NobodyAssumption DEF BoundsAssumption, NobodyAssumption

\* Nobody holds a run that has not been inserted, and an execution holds one
\* as soon as its job names it or it has opened it.
Known ==
    /\ \A w \in Worker :
          IF worker[w].pc \in {"idle", "opening", "inserting"}
            THEN worker[w].run = NoRun
            ELSE worker[w].run \in 1..runs
    /\ \A r \in Run : r > runs => status[r] = "none" /\ job[r] = "none"
    /\ request.run \in 0..runs
    /\ sweep.run \in 0..runs
    /\ sweep.list \subseteq 1..runs

KnownInv == DiscoveryTypeOK /\ Known

\* An execution stores its candidates before it offers them.
Stored ==
    /\ ApprovalHasCandidates
    /\ \A w \in Worker : worker[w].pc = "finishing" => worker[w].run \in found

\* Nothing in the queue, no execution, no sweep and no request has run r.
Forgotten(r) ==
    /\ job[r] \notin {"waiting", "active"}
    /\ \A w \in Worker : worker[w].run # r
    /\ r \notin sweep.list /\ sweep.run # r
    /\ request.run # r

\* A stopped run keeps its key for as long as anybody may come across it.
Halted ==
    /\ request.pc = "writing" => request.run \in stopKey
    /\ \A r \in Run : status[r] = "stopped" => r \in stopKey \/ Forgotten(r)

(***************************************************************************)
(* What the steps of a worker, a run's row and a job have in common.       *)
(***************************************************************************)

WorkersOK ==
    worker \in [Worker -> [pc : WorkerPC, run : Run \cup {NoRun}, byId : BOOLEAN]]

LEMMA NoRunIsNone ==
  NoRun \notin Run /\ NoRun \in Nat /\ \A n \in 0..MaxRuns : n # NoRun => n \in Run
BY DEF NoRun, Run

LEMMA GoMoves ==
  ASSUME WorkersOK, NEW w \in Worker, NEW pc \in WorkerPC, Go(w, pc)
  PROVE  /\ WorkersOK'
         /\ worker'[w].pc = pc
         /\ \A v \in Worker : worker'[v].run = worker[v].run
         /\ \A v \in Worker \ {w} : worker'[v] = worker[v]
BY DEF WorkersOK, Go

LEMMA LeavingIdles ==
  ASSUME WorkersOK, NEW w \in Worker, worker' = [worker EXCEPT ![w] = IdleWorker]
  PROVE  /\ WorkersOK'
         /\ worker'[w].pc = "idle" /\ worker'[w].run = NoRun
         /\ \A v \in Worker \ {w} : worker'[v] = worker[v]
BY DEF WorkersOK, IdleWorker, WorkerPC

LEMMA SetStatusSets ==
  ASSUME status \in [Run -> Status], aged \subseteq Run, NEW r, NEW s \in Status, SetStatus(r, s)
  PROVE  /\ status' \in [Run -> Status] /\ aged' \subseteq Run
         /\ \A q \in Run : status'[q] = IF q = r THEN s ELSE status[q]
BY DEF SetStatus

LEMMA EndedJobEnds ==
  ASSUME job \in [Run -> {"none", "waiting", "active", "ended"}], NEW w \in Worker,
         job' = EndedJob(w)
  PROVE  /\ job' \in [Run -> {"none", "waiting", "active", "ended"}]
         /\ \A q \in Run : job'[q] = job[q] \/ (job[q] = "active" /\ job'[q] = "ended")
BY DEF EndedJob

LEMMA TypesKept ==
  ASSUME KnownInv, DiscoveryNext
  PROVE  DiscoveryTypeOK'
<1>1. CASE StartCheck
  BY <1>1, NoRunIsNone
  DEF StartCheck, NoRequest, KnownInv, DiscoveryTypeOK, WorkersOK, Known, At, RunOf, runVars,
      queueVars, Status, Active, WorkerPC
<1>2. CASE StartInsert
  <2>1. runs' \in 0..MaxRuns /\ runs + 1 \in Run
    BY <1>2 DEF StartInsert, NewRun, KnownInv, DiscoveryTypeOK, Run
  <2> QED
    BY <1>2, <2>1, SetStatusSets DEF StartInsert, NewRun, KnownInv, DiscoveryTypeOK, Status, Active,
       queueVars
<1>3. CASE StartEnqueue
  BY <1>3, NoRunIsNone
  DEF StartEnqueue, AddJob, NoRequest, KnownInv, DiscoveryTypeOK, WorkersOK, Known, At, RunOf,
      runVars, queueVars, Status, Active, WorkerPC
<1>4. CASE StopRequest
  BY <1>4, NoRunIsNone
  DEF StopRequest, NoRequest, KnownInv, DiscoveryTypeOK, WorkersOK, Known, At, RunOf, runVars,
      queueVars, Status, Active, WorkerPC
<1>5. CASE StopWrite
  BY <1>5, NoRunIsNone, SetStatusSets
  DEF StopWrite, SetStatus, NoRequest, KnownInv, DiscoveryTypeOK, WorkersOK, Known, At, RunOf,
      runVars, queueVars, Status, Active, WorkerPC
<1>6. CASE RequestLost
  BY <1>6, NoRunIsNone
  DEF RequestLost, Fault, NoRequest, KnownInv, DiscoveryTypeOK, WorkersOK, Known, At, RunOf,
      runVars, queueVars, Status, Active, WorkerPC
<1>7. CASE LockExpires
  BY <1>7, NoRunIsNone
  DEF LockExpires, At, KnownInv, DiscoveryTypeOK, WorkersOK, Known, RunOf, runVars, queueVars,
      Status, Active, WorkerPC
<1>8. CASE SweepRead
  BY <1>8, NoRunIsNone
  DEF SweepRead, Abandoned, NoSweep, KnownInv, DiscoveryTypeOK, WorkersOK, Known, At, RunOf,
      runVars, queueVars, Status, Active, WorkerPC
<1>9. CASE SweepLook
  <2>1. CASE sweep.list = {}
    BY <1>9, <2>1 DEF SweepLook, NoSweep, KnownInv, DiscoveryTypeOK, runVars, queueVars
  <2>2. CASE sweep.list # {}
    <3>1. PICK r \in sweep.list :
             sweep' = [sweep EXCEPT !.list = @ \ {r},
                                    !.pc = IF Skips(r) THEN "looking" ELSE "removing",
                                    !.run = IF Skips(r) THEN NoRun ELSE r]
      BY <1>9, <2>2 DEF SweepLook
    <3>2. r \in Run
      BY <3>1 DEF KnownInv, DiscoveryTypeOK
    <3>3. CASE Skips(r)
      BY <1>9, <3>1, <3>2, <3>3 DEF SweepLook, KnownInv, DiscoveryTypeOK, runVars, queueVars
    <3>4. CASE ~Skips(r)
      BY <1>9, <3>1, <3>2, <3>4 DEF SweepLook, KnownInv, DiscoveryTypeOK, runVars, queueVars
    <3> QED
      BY <3>3, <3>4
  <2> QED
    BY <2>1, <2>2
<1>10. CASE SweepRemove
  BY <1>10, NoRunIsNone
  DEF SweepRemove, KnownInv, DiscoveryTypeOK, WorkersOK, Known, At, RunOf, runVars, queueVars,
      Status, Active, WorkerPC
<1>11. CASE SweepAdd
  BY <1>11, NoRunIsNone
  DEF SweepAdd, AddJob, KnownInv, DiscoveryTypeOK, WorkersOK, Known, At, RunOf, runVars,
      queueVars, Status, Active, WorkerPC
<1>12. CASE SweepLost
  BY <1>12, NoRunIsNone
  DEF SweepLost, Fault, NoSweep, KnownInv, DiscoveryTypeOK, WorkersOK, Known, At, RunOf,
      runVars, queueVars, Status, Active, WorkerPC
<1>13. ASSUME NEW r \in Run, Approved(r) PROVE DiscoveryTypeOK'
  BY <1>13, NoRunIsNone, SetStatusSets
  DEF Approved, KnownInv, DiscoveryTypeOK, WorkersOK, Known, At, RunOf, runVars, queueVars,
      Status, Active, WorkerPC
<1>14. ASSUME NEW r \in Run, Settled(r) PROVE DiscoveryTypeOK'
  BY <1>14, NoRunIsNone, SetStatusSets
  DEF Settled, KnownInv, DiscoveryTypeOK, WorkersOK, Known, At, RunOf, runVars, queueVars,
      Status, Active, WorkerPC
<1>15. ASSUME NEW r \in Run, Stalled(r) PROVE DiscoveryTypeOK'
  BY <1>15, NoRunIsNone
  DEF Stalled, KnownInv, DiscoveryTypeOK, WorkersOK, Known, At, RunOf, runVars, queueVars,
      Status, Active, WorkerPC
<1>16. ASSUME NEW r \in Run, KeyExpires(r) PROVE DiscoveryTypeOK'
  BY <1>16, NoRunIsNone
  DEF KeyExpires, KnownInv, DiscoveryTypeOK, WorkersOK, Known, At, RunOf, runVars, queueVars,
      Status, Active, WorkerPC
<1>17. ASSUME NEW r \in Run, Age(r) PROVE DiscoveryTypeOK'
  BY <1>17, NoRunIsNone
  DEF Age, KnownInv, DiscoveryTypeOK, WorkersOK, Known, At, RunOf, runVars, queueVars, Status,
      Active, WorkerPC
<1>18. ASSUME NEW w \in Worker, PickUpDaily(w) PROVE DiscoveryTypeOK'
  BY <1>18, NoRunIsNone, GoMoves
  DEF PickUpDaily, KnownInv, DiscoveryTypeOK, WorkersOK, Known, At, RunOf, runVars, queueVars,
      Status, Active, WorkerPC
<1>19. ASSUME NEW w \in Worker, OpenCheck(w) PROVE DiscoveryTypeOK'
  <2>1. CASE Go(w, "inserting")
    BY <1>19, <2>1, NoRunIsNone, GoMoves, LeavingIdles
    DEF OpenCheck, KnownInv, DiscoveryTypeOK, WorkersOK, Known, At, RunOf, runVars, queueVars,
        Status, Active, WorkerPC
  <2>2. CASE worker' = [worker EXCEPT ![w] = IdleWorker]
    BY <1>19, <2>2, NoRunIsNone, GoMoves, LeavingIdles
    DEF OpenCheck, KnownInv, DiscoveryTypeOK, WorkersOK, Known, At, RunOf, runVars, queueVars,
        Status, Active, WorkerPC
  <2> QED
    BY <1>19, <2>1, <2>2 DEF OpenCheck
<1>20. ASSUME NEW w \in Worker, OpenInsert(w) PROVE DiscoveryTypeOK'
  <2>1. runs' \in 0..MaxRuns /\ runs + 1 \in Run
    BY <1>20 DEF OpenInsert, NewRun, KnownInv, DiscoveryTypeOK, Run
  <2>2. status' \in [Run -> Status] /\ aged' \subseteq Run
    BY <1>20, SetStatusSets DEF OpenInsert, NewRun, KnownInv, DiscoveryTypeOK, Status, Active
  <2>3. WorkersOK'
    <3>1. worker' = [worker EXCEPT ![w].pc = "checking", ![w].run = runs + 1]
      BY <1>20 DEF OpenInsert
    <3>2. WorkersOK
      BY DEF KnownInv, DiscoveryTypeOK, WorkersOK
    <3> QED
      BY <2>1, <3>1, <3>2 DEF WorkersOK, WorkerPC
  <2> QED
    BY <1>20, <2>1, <2>2, <2>3 DEF OpenInsert, KnownInv, DiscoveryTypeOK, WorkersOK, queueVars
<1>21. ASSUME NEW w \in Worker, CheckStop(w) PROVE DiscoveryTypeOK'
  <2>1. CASE RunOf(w) \in stopKey
    BY <1>21, <2>1, NoRunIsNone, GoMoves, LeavingIdles, EndedJobEnds
    DEF CheckStop, KnownInv, DiscoveryTypeOK, WorkersOK, Known, At, RunOf, runVars, queueVars,
        Status, Active, WorkerPC
  <2>2. CASE RunOf(w) \notin stopKey
    BY <1>21, <2>2, NoRunIsNone, GoMoves, LeavingIdles, EndedJobEnds
    DEF CheckStop, KnownInv, DiscoveryTypeOK, WorkersOK, Known, At, RunOf, runVars, queueVars,
        Status, Active, WorkerPC
  <2> QED
    BY <1>21, <2>1, <2>2 DEF CheckStop
<1>22. ASSUME NEW w \in Worker, TakeLock(w) PROVE DiscoveryTypeOK'
  BY <1>22, NoRunIsNone, GoMoves
  DEF TakeLock, KnownInv, DiscoveryTypeOK, WorkersOK, Known, At, RunOf, runVars, queueVars,
      Status, Active, WorkerPC
<1>23. ASSUME NEW w \in Worker, LockBusy(w) PROVE DiscoveryTypeOK'
  BY <1>23, NoRunIsNone, LeavingIdles, EndedJobEnds
  DEF LockBusy, KnownInv, DiscoveryTypeOK, WorkersOK, Known, At, RunOf, runVars, queueVars,
      Status, Active, WorkerPC
<1>24. ASSUME NEW w \in Worker, SetRunning(w) PROVE DiscoveryTypeOK'
  BY <1>24, NoRunIsNone, GoMoves, SetStatusSets
  DEF SetRunning, KnownInv, DiscoveryTypeOK, WorkersOK, Known, At, RunOf, runVars, queueVars,
      Status, Active, WorkerPC
<1>25. ASSUME NEW w \in Worker, Store(w) PROVE DiscoveryTypeOK'
  <2>1. worker[w].run \in Run
    <3>1. worker[w].pc = "fetching" /\ w \in Worker
      BY <1>25 DEF Store, At
    <3>2. worker[w].run \in 1..runs /\ runs \in 0..MaxRuns
      BY <3>1 DEF KnownInv, Known, DiscoveryTypeOK
    <3> QED
      BY <3>2 DEF Run
  <2>2. WorkersOK'
    BY <1>25, GoMoves DEF Store, KnownInv, DiscoveryTypeOK, WorkersOK, WorkerPC
  <2> QED
    BY <1>25, <2>1, <2>2 DEF Store, RunOf, KnownInv, DiscoveryTypeOK, WorkersOK, queueVars
<1>26. ASSUME NEW w \in Worker, Finish(w) PROVE DiscoveryTypeOK'
  BY <1>26, NoRunIsNone, GoMoves, SetStatusSets
  DEF Finish, KnownInv, DiscoveryTypeOK, WorkersOK, Known, At, RunOf, runVars, queueVars,
      Status, Active, WorkerPC
<1>27. ASSUME NEW w \in Worker, Throw(w) PROVE DiscoveryTypeOK'
  BY <1>27, NoRunIsNone, GoMoves
  DEF Throw, KnownInv, DiscoveryTypeOK, WorkersOK, Known, At, RunOf, runVars, queueVars,
      Status, Active, WorkerPC
<1>28. ASSUME NEW w \in Worker, FailRun(w) PROVE DiscoveryTypeOK'
  BY <1>28, NoRunIsNone, GoMoves, SetStatusSets
  DEF FailRun, Fault, KnownInv, DiscoveryTypeOK, WorkersOK, Known, At, RunOf, runVars,
      queueVars, Status, Active, WorkerPC
<1>29. ASSUME NEW w \in Worker, EndJob(w) PROVE DiscoveryTypeOK'
  BY <1>29, NoRunIsNone, LeavingIdles, EndedJobEnds
  DEF EndJob, KnownInv, DiscoveryTypeOK, WorkersOK, Known, At, RunOf, runVars, queueVars,
      Status, Active, WorkerPC
<1>30. ASSUME NEW w \in Worker, CrashWorker(w) PROVE DiscoveryTypeOK'
  <2>1. WorkersOK'
    BY <1>30, LeavingIdles DEF CrashWorker, KnownInv, DiscoveryTypeOK, WorkersOK
  <2>2. daily' \in Nat /\ faults' \in 0..MaxFaults
    BY <1>30 DEF CrashWorker, Fault, KnownInv, DiscoveryTypeOK
  <2> QED
    BY <1>30, <2>1, <2>2 DEF CrashWorker, KnownInv, DiscoveryTypeOK, WorkersOK, runVars
<1>31. ASSUME NEW w \in Worker, Lapse(w) PROVE DiscoveryTypeOK'
  <2>1. faults' \in 0..MaxFaults
    BY <1>31 DEF Lapse, Fault, KnownInv, DiscoveryTypeOK
  <2>2. stalls' \in [Run -> 0..MaxStalls]
    <3>1. /\ stalls \in [Run -> 0..MaxStalls] /\ stalls[RunOf(w)] < MaxStalls
          /\ stalls' = [stalls EXCEPT ![RunOf(w)] = @ + 1]
      BY <1>31 DEF Lapse, KnownInv, DiscoveryTypeOK
    <3>2. MaxStalls \in Nat
      OBVIOUS
    <3>3. ASSUME NEW q \in Run PROVE stalls'[q] \in 0..MaxStalls
      BY <3>1, <3>2
    <3> QED
      BY <3>1, <3>3
  <2>3. job' \in [Run -> {"none", "waiting", "active", "ended"}]
    BY <1>31 DEF Lapse, KnownInv, DiscoveryTypeOK
  <2>4. UNCHANGED <<runs, status, aged, found, stopKey, daily, worker, lock, request, sweep>>
    BY <1>31 DEF Lapse, runVars
  <2> QED
    BY <2>1, <2>2, <2>3, <2>4 DEF KnownInv, DiscoveryTypeOK
<1>32. ASSUME NEW w \in Worker, NEW r \in Run, PickUp(w, r) PROVE DiscoveryTypeOK'
  BY <1>32, NoRunIsNone
  DEF PickUp, KnownInv, DiscoveryTypeOK, WorkersOK, Known, At, RunOf, runVars, queueVars,
      Status, Active, WorkerPC
<1> QED
  BY <1>1, <1>2, <1>3, <1>4, <1>5, <1>6, <1>7, <1>8, <1>9, <1>10, <1>11, <1>12, <1>13,
     <1>14, <1>15, <1>16, <1>17, <1>18, <1>19, <1>20, <1>21, <1>22, <1>23, <1>24, <1>25,
     <1>26, <1>27, <1>28, <1>29, <1>30, <1>31, <1>32
  DEF DiscoveryNext, WorkerStep, SweepStep

LEMMA KnownKept ==
  ASSUME KnownInv, DiscoveryNext
  PROVE  Known'
<1>1. CASE StartCheck
  BY <1>1
  DEF StartCheck, NoRequest, NoRun, Run, KnownInv, DiscoveryTypeOK, WorkersOK, Known, At,
      RunOf, runVars, queueVars, Status, Active, WorkerPC
<1>2. CASE StartInsert
  BY <1>2
  DEF StartInsert, NewRun, SetStatus, NoRun, Run, KnownInv, DiscoveryTypeOK, WorkersOK, Known,
      At, RunOf, runVars, queueVars, Status, Active, WorkerPC
<1>3. CASE StartEnqueue
  BY <1>3
  DEF StartEnqueue, AddJob, NoRequest, NoRun, Run, KnownInv, DiscoveryTypeOK, WorkersOK,
      Known, At, RunOf, runVars, queueVars, Status, Active, WorkerPC
<1>4. CASE StopRequest
  BY <1>4
  DEF StopRequest, NoRequest, NoRun, Run, KnownInv, DiscoveryTypeOK, WorkersOK, Known, At,
      RunOf, runVars, queueVars, Status, Active, WorkerPC
<1>5. CASE StopWrite
  <2>1. \A q \in Run : q # request.run => status'[q] = status[q]
    BY <1>5 DEF StopWrite, SetStatus, KnownInv, DiscoveryTypeOK
  <2>2. \A q \in Run : q > runs => q # request.run
    BY DEF KnownInv, Known, DiscoveryTypeOK, Run
  <2>3. request'.run = 0 /\ UNCHANGED <<runs, job, worker, sweep>>
    BY <1>5 DEF StopWrite, NoRequest, NoRun, queueVars
  <2>4. runs \in Nat
    BY DEF KnownInv, DiscoveryTypeOK
  <2> QED
    BY <2>1, <2>2, <2>3, <2>4 DEF KnownInv, Known
<1>6. CASE RequestLost
  BY <1>6
  DEF RequestLost, Fault, NoRequest, NoRun, Run, KnownInv, DiscoveryTypeOK, WorkersOK, Known,
      At, RunOf, runVars, queueVars, Status, Active, WorkerPC
<1>7. CASE LockExpires
  BY <1>7
  DEF LockExpires, At, NoRun, Run, KnownInv, DiscoveryTypeOK, WorkersOK, Known, RunOf,
      runVars, queueVars, Status, Active, WorkerPC
<1>8. CASE SweepRead
  BY <1>8
  DEF SweepRead, Abandoned, NoSweep, NoRun, Run, KnownInv, DiscoveryTypeOK, WorkersOK, Known,
      At, RunOf, runVars, queueVars, Status, Active, WorkerPC
<1>9. CASE SweepLook
  <2>1. CASE sweep.list = {}
    BY <1>9, <2>1 DEF SweepLook, NoSweep, NoRun, KnownInv, Known, DiscoveryTypeOK, runVars,
       queueVars
  <2>2. CASE sweep.list # {}
    <3>1. PICK r \in sweep.list :
             sweep' = [sweep EXCEPT !.list = @ \ {r},
                                    !.pc = IF Skips(r) THEN "looking" ELSE "removing",
                                    !.run = IF Skips(r) THEN NoRun ELSE r]
      BY <1>9, <2>2 DEF SweepLook
    <3>2. r \in 1..runs /\ runs \in Nat
      BY <3>1 DEF KnownInv, Known, DiscoveryTypeOK
    <3>3. sweep'.list \subseteq sweep.list /\ sweep'.run \in {NoRun, r}
      BY <3>1 DEF KnownInv, DiscoveryTypeOK
    <3>4. UNCHANGED <<runs, status, job, worker, request>>
      BY <1>9 DEF SweepLook, runVars, queueVars
    <3> QED
      BY <3>2, <3>3, <3>4 DEF KnownInv, Known, NoRun
  <2> QED
    BY <2>1, <2>2
<1>10. CASE SweepRemove
  BY <1>10
  DEF SweepRemove, NoRun, Run, KnownInv, DiscoveryTypeOK, WorkersOK, Known, At, RunOf,
      runVars, queueVars, Status, Active, WorkerPC
<1>11. CASE SweepAdd
  BY <1>11
  DEF SweepAdd, AddJob, NoRun, Run, KnownInv, DiscoveryTypeOK, WorkersOK, Known, At, RunOf,
      runVars, queueVars, Status, Active, WorkerPC
<1>12. CASE SweepLost
  BY <1>12
  DEF SweepLost, Fault, NoSweep, NoRun, Run, KnownInv, DiscoveryTypeOK, WorkersOK, Known, At,
      RunOf, runVars, queueVars, Status, Active, WorkerPC
<1>13. ASSUME NEW r \in Run, Approved(r) PROVE Known'
  BY <1>13, SetStatusSets
  DEF Approved, NoRun, Run, KnownInv, DiscoveryTypeOK, WorkersOK, Known, At, RunOf, runVars,
      queueVars, Status, Active, WorkerPC
<1>14. ASSUME NEW r \in Run, Settled(r) PROVE Known'
  BY <1>14, SetStatusSets
  DEF Settled, NoRun, Run, KnownInv, DiscoveryTypeOK, WorkersOK, Known, At, RunOf, runVars,
      queueVars, Status, Active, WorkerPC
<1>15. ASSUME NEW r \in Run, Stalled(r) PROVE Known'
  BY <1>15
  DEF Stalled, NoRun, Run, KnownInv, DiscoveryTypeOK, WorkersOK, Known, At, RunOf, runVars,
      queueVars, Status, Active, WorkerPC
<1>16. ASSUME NEW r \in Run, KeyExpires(r) PROVE Known'
  BY <1>16
  DEF KeyExpires, NoRun, Run, KnownInv, DiscoveryTypeOK, WorkersOK, Known, At, RunOf, runVars,
      queueVars, Status, Active, WorkerPC
<1>17. ASSUME NEW r \in Run, Age(r) PROVE Known'
  BY <1>17
  DEF Age, NoRun, Run, KnownInv, DiscoveryTypeOK, WorkersOK, Known, At, RunOf, runVars,
      queueVars, Status, Active, WorkerPC
<1>18. ASSUME NEW w \in Worker, PickUpDaily(w) PROVE Known'
  BY <1>18
  DEF PickUpDaily, NoRun, Run, Go, IdleWorker, SetStatus, EndedJob, KnownInv, DiscoveryTypeOK,
      WorkersOK, Known, At, RunOf, runVars, queueVars, Status, Active, WorkerPC
<1>19. ASSUME NEW w \in Worker, OpenCheck(w) PROVE Known'
  <2>1. CASE Go(w, "inserting")
    BY <1>19, <2>1
    DEF OpenCheck, NoRun, Run, Go, IdleWorker, SetStatus, EndedJob, KnownInv, DiscoveryTypeOK,
        WorkersOK, Known, At, RunOf, runVars, queueVars, Status, Active, WorkerPC
  <2>2. CASE worker' = [worker EXCEPT ![w] = IdleWorker]
    BY <1>19, <2>2
    DEF OpenCheck, NoRun, Run, Go, IdleWorker, SetStatus, EndedJob, KnownInv, DiscoveryTypeOK,
        WorkersOK, Known, At, RunOf, runVars, queueVars, Status, Active, WorkerPC
  <2> QED
    BY <1>19, <2>1, <2>2 DEF OpenCheck
<1>20. ASSUME NEW w \in Worker, OpenInsert(w) PROVE Known'
  <2>1. runs' = runs + 1 /\ runs \in Nat
    BY <1>20 DEF OpenInsert, NewRun, KnownInv, DiscoveryTypeOK
  <2>2. \A q \in Run : q # runs + 1 => status'[q] = status[q]
    BY <1>20 DEF OpenInsert, NewRun, SetStatus, KnownInv, DiscoveryTypeOK
  <2>3. worker'[w].pc = "checking" /\ worker'[w].run = runs + 1
    <3>1. worker' = [worker EXCEPT ![w].pc = "checking", ![w].run = runs + 1]
      BY <1>20 DEF OpenInsert
    <3>2. WorkersOK
      BY DEF KnownInv, DiscoveryTypeOK, WorkersOK
    <3> QED
      BY <3>1, <3>2 DEF WorkersOK
  <2>4. \A v \in Worker \ {w} : worker'[v] = worker[v]
    BY <1>20 DEF OpenInsert, KnownInv, DiscoveryTypeOK
  <2>5. UNCHANGED <<job, request, sweep>>
    BY <1>20 DEF OpenInsert, queueVars
  <2>6. \A v \in Worker : IF worker'[v].pc \in {"idle", "opening", "inserting"}
                             THEN worker'[v].run = NoRun ELSE worker'[v].run \in 1..runs'
    <3>1. ASSUME NEW v \in Worker, v # w
          PROVE  IF worker'[v].pc \in {"idle", "opening", "inserting"}
                   THEN worker'[v].run = NoRun ELSE worker'[v].run \in 1..runs'
      BY <2>1, <2>4, <3>1 DEF KnownInv, Known
    <3> QED
      BY <2>1, <2>3, <3>1
  <2>7. \A q \in Run : q > runs' => status'[q] = "none" /\ job'[q] = "none"
    BY <2>1, <2>2, <2>5 DEF KnownInv, Known, Run
  <2> QED
    BY <2>1, <2>5, <2>6, <2>7 DEF KnownInv, Known
<1>21. ASSUME NEW w \in Worker, CheckStop(w) PROVE Known'
  <2>1. /\ \A v \in Worker \ {w} : worker'[v] = worker[v]
        /\ \/ worker'[w].pc = "idle" /\ worker'[w].run = NoRun
           \/ worker'[w].pc = "locking" /\ worker'[w].run = worker[w].run
    BY <1>21 DEF CheckStop, Go, IdleWorker, KnownInv, DiscoveryTypeOK
  <2>2. worker[w].run \in 1..runs
    BY <1>21 DEF CheckStop, At, KnownInv, Known
  <2>3. \A q \in Run : q > runs => job'[q] = "none"
    BY <1>21 DEF CheckStop, EndedJob, KnownInv, Known, DiscoveryTypeOK
  <2>4. UNCHANGED <<runs, status, request, sweep>>
    BY <1>21 DEF CheckStop, runVars
  <2> QED
    BY <2>1, <2>2, <2>3, <2>4 DEF KnownInv, Known
<1>22. ASSUME NEW w \in Worker, TakeLock(w) PROVE Known'
  BY <1>22
  DEF TakeLock, NoRun, Run, Go, IdleWorker, SetStatus, EndedJob, KnownInv, DiscoveryTypeOK,
      WorkersOK, Known, At, RunOf, runVars, queueVars, Status, Active, WorkerPC
<1>23. ASSUME NEW w \in Worker, LockBusy(w) PROVE Known'
  BY <1>23
  DEF LockBusy, NoRun, Run, Go, IdleWorker, SetStatus, EndedJob, KnownInv, DiscoveryTypeOK,
      WorkersOK, Known, At, RunOf, runVars, queueVars, Status, Active, WorkerPC
<1>24. ASSUME NEW w \in Worker, SetRunning(w) PROVE Known'
  <2>1. /\ \A v \in Worker \ {w} : worker'[v] = worker[v]
        /\ worker'[w].pc = "fetching" /\ worker'[w].run = worker[w].run
    BY <1>24 DEF SetRunning, Go, KnownInv, DiscoveryTypeOK
  <2>2. worker[w].run \in 1..runs /\ runs \in Nat
    BY <1>24 DEF SetRunning, At, KnownInv, Known, DiscoveryTypeOK
  <2>3. \A q \in Run : q > runs => status'[q] = status[q]
    <3>1. \A q \in Run : q > runs => q # worker[w].run
      BY <2>2 DEF Run
    <3>2. \A q \in Run : q # worker[w].run => status'[q] = status[q]
      BY <1>24 DEF SetRunning, RunOf, SetStatus, KnownInv, DiscoveryTypeOK
    <3> QED
      BY <3>1, <3>2
  <2>4. UNCHANGED <<runs, job, request, sweep>>
    BY <1>24 DEF SetRunning, queueVars
  <2> QED
    BY <2>1, <2>2, <2>3, <2>4 DEF KnownInv, Known
<1>25. ASSUME NEW w \in Worker, Store(w) PROVE Known'
  BY <1>25
  DEF Store, NoRun, Run, Go, IdleWorker, SetStatus, EndedJob, KnownInv, DiscoveryTypeOK,
      WorkersOK, Known, At, RunOf, runVars, queueVars, Status, Active, WorkerPC
<1>26. ASSUME NEW w \in Worker, Finish(w) PROVE Known'
  <2>1. /\ \A v \in Worker \ {w} : worker'[v] = worker[v]
        /\ worker'[w].pc = "ending" /\ worker'[w].run = worker[w].run
    BY <1>26 DEF Finish, Go, KnownInv, DiscoveryTypeOK
  <2>2. worker[w].run \in 1..runs /\ runs \in Nat
    BY <1>26 DEF Finish, At, KnownInv, Known, DiscoveryTypeOK
  <2>3. \A q \in Run : q > runs => status'[q] = status[q]
    <3>1. \A q \in Run : q > runs => q # worker[w].run
      BY <2>2 DEF Run
    <3>2. \A q \in Run : q # worker[w].run => status'[q] = status[q]
      BY <1>26 DEF Finish, RunOf, SetStatus, KnownInv, DiscoveryTypeOK
    <3> QED
      BY <3>1, <3>2
  <2>4. UNCHANGED <<runs, job, request, sweep>>
    BY <1>26 DEF Finish, queueVars
  <2> QED
    BY <2>1, <2>2, <2>3, <2>4 DEF KnownInv, Known
<1>27. ASSUME NEW w \in Worker, Throw(w) PROVE Known'
  BY <1>27
  DEF Throw, NoRun, Run, Go, IdleWorker, SetStatus, EndedJob, KnownInv, DiscoveryTypeOK,
      WorkersOK, Known, At, RunOf, runVars, queueVars, Status, Active, WorkerPC
<1>28. ASSUME NEW w \in Worker, FailRun(w) PROVE Known'
  <2>1. /\ \A v \in Worker \ {w} : worker'[v] = worker[v]
        /\ worker'[w].pc = "ending" /\ worker'[w].run = worker[w].run
    BY <1>28 DEF FailRun, Go, KnownInv, DiscoveryTypeOK
  <2>2. worker[w].run \in 1..runs /\ runs \in Nat
    BY <1>28 DEF FailRun, At, KnownInv, Known, DiscoveryTypeOK
  <2>3. \A q \in Run : q > runs => status'[q] = status[q]
    <3>1. \A q \in Run : q > runs => q # worker[w].run
      BY <2>2 DEF Run
    <3>2. \A q \in Run : q # worker[w].run => status'[q] = status[q]
      BY <1>28 DEF FailRun, RunOf, SetStatus, KnownInv, DiscoveryTypeOK
    <3> QED
      BY <3>1, <3>2
  <2>4. UNCHANGED <<runs, job, request, sweep>>
    BY <1>28 DEF FailRun, queueVars
  <2> QED
    BY <2>1, <2>2, <2>3, <2>4 DEF KnownInv, Known
<1>29. ASSUME NEW w \in Worker, EndJob(w) PROVE Known'
  BY <1>29
  DEF EndJob, NoRun, Run, Go, IdleWorker, SetStatus, EndedJob, KnownInv, DiscoveryTypeOK,
      WorkersOK, Known, At, RunOf, runVars, queueVars, Status, Active, WorkerPC
<1>30. ASSUME NEW w \in Worker, CrashWorker(w) PROVE Known'
  BY <1>30
  DEF CrashWorker, Fault, NoRun, Run, Go, IdleWorker, SetStatus, EndedJob, KnownInv,
      DiscoveryTypeOK, WorkersOK, Known, At, RunOf, runVars, queueVars, Status, Active,
      WorkerPC
<1>31. ASSUME NEW w \in Worker, Lapse(w) PROVE Known'
  BY <1>31
  DEF Lapse, Fault, NoRun, Run, Go, IdleWorker, SetStatus, EndedJob, KnownInv,
      DiscoveryTypeOK, WorkersOK, Known, At, RunOf, runVars, queueVars, Status, Active,
      WorkerPC
<1>32. ASSUME NEW w \in Worker, NEW r \in Run, PickUp(w, r) PROVE Known'
  BY <1>32
  DEF PickUp, NoRun, Run, KnownInv, DiscoveryTypeOK, WorkersOK, Known, At, RunOf, runVars,
      queueVars, Status, Active, WorkerPC
<1> QED
  BY <1>1, <1>2, <1>3, <1>4, <1>5, <1>6, <1>7, <1>8, <1>9, <1>10, <1>11, <1>12, <1>13,
     <1>14, <1>15, <1>16, <1>17, <1>18, <1>19, <1>20, <1>21, <1>22, <1>23, <1>24, <1>25,
     <1>26, <1>27, <1>28, <1>29, <1>30, <1>31, <1>32
  DEF DiscoveryNext, WorkerStep, SweepStep

LEMMA StoredKept ==
  ASSUME KnownInv, Stored, DiscoveryNext
  PROVE  Stored'
<1>1. CASE StartCheck
  BY <1>1, NoRunIsNone
  DEF StartCheck, NoRequest, KnownInv, DiscoveryTypeOK, WorkersOK, Known, Stored,
      ApprovalHasCandidates, At, RunOf, runVars, queueVars, Status, Active, WorkerPC
<1>2. CASE StartInsert
  BY <1>2, NoRunIsNone
  DEF StartInsert, NewRun, SetStatus, KnownInv, DiscoveryTypeOK, WorkersOK, Known, Stored,
      ApprovalHasCandidates, At, RunOf, runVars, queueVars, Status, Active, WorkerPC
<1>3. CASE StartEnqueue
  BY <1>3, NoRunIsNone
  DEF StartEnqueue, AddJob, NoRequest, KnownInv, DiscoveryTypeOK, WorkersOK, Known, Stored,
      ApprovalHasCandidates, At, RunOf, runVars, queueVars, Status, Active, WorkerPC
<1>4. CASE StopRequest
  BY <1>4, NoRunIsNone
  DEF StopRequest, NoRequest, KnownInv, DiscoveryTypeOK, WorkersOK, Known, Stored,
      ApprovalHasCandidates, At, RunOf, runVars, queueVars, Status, Active, WorkerPC
<1>5. CASE StopWrite
  BY <1>5, NoRunIsNone, SetStatusSets
  DEF StopWrite, SetStatus, NoRequest, KnownInv, DiscoveryTypeOK, WorkersOK, Known, Stored,
      ApprovalHasCandidates, At, RunOf, runVars, queueVars, Status, Active, WorkerPC
<1>6. CASE RequestLost
  BY <1>6, NoRunIsNone
  DEF RequestLost, Fault, NoRequest, KnownInv, DiscoveryTypeOK, WorkersOK, Known, Stored,
      ApprovalHasCandidates, At, RunOf, runVars, queueVars, Status, Active, WorkerPC
<1>7. CASE LockExpires
  BY <1>7, NoRunIsNone
  DEF LockExpires, At, KnownInv, DiscoveryTypeOK, WorkersOK, Known, Stored,
      ApprovalHasCandidates, RunOf, runVars, queueVars, Status, Active, WorkerPC
<1>8. CASE SweepRead
  BY <1>8, NoRunIsNone
  DEF SweepRead, Abandoned, NoSweep, KnownInv, DiscoveryTypeOK, WorkersOK, Known, Stored,
      ApprovalHasCandidates, At, RunOf, runVars, queueVars, Status, Active, WorkerPC
<1>9. CASE SweepLook
  <2>1. CASE sweep.list = {}
    BY <1>9, <2>1, NoRunIsNone
    DEF SweepLook, NoSweep, KnownInv, DiscoveryTypeOK, WorkersOK, Known, Stored,
        ApprovalHasCandidates, At, RunOf, runVars, queueVars, Status, Active, WorkerPC
  <2>2. CASE sweep.list # {}
    BY <1>9, <2>2, NoRunIsNone
    DEF SweepLook, NoSweep, KnownInv, DiscoveryTypeOK, WorkersOK, Known, Stored,
        ApprovalHasCandidates, At, RunOf, runVars, queueVars, Status, Active, WorkerPC
  <2> QED
    BY <1>9, <2>1, <2>2 DEF SweepLook
<1>10. CASE SweepRemove
  BY <1>10, NoRunIsNone
  DEF SweepRemove, KnownInv, DiscoveryTypeOK, WorkersOK, Known, Stored, ApprovalHasCandidates,
      At, RunOf, runVars, queueVars, Status, Active, WorkerPC
<1>11. CASE SweepAdd
  BY <1>11, NoRunIsNone
  DEF SweepAdd, AddJob, KnownInv, DiscoveryTypeOK, WorkersOK, Known, Stored,
      ApprovalHasCandidates, At, RunOf, runVars, queueVars, Status, Active, WorkerPC
<1>12. CASE SweepLost
  BY <1>12, NoRunIsNone
  DEF SweepLost, Fault, NoSweep, KnownInv, DiscoveryTypeOK, WorkersOK, Known, Stored,
      ApprovalHasCandidates, At, RunOf, runVars, queueVars, Status, Active, WorkerPC
<1>13. ASSUME NEW r \in Run, Approved(r) PROVE Stored'
  BY <1>13, NoRunIsNone, SetStatusSets
  DEF Approved, KnownInv, DiscoveryTypeOK, WorkersOK, Known, Stored, ApprovalHasCandidates,
      At, RunOf, runVars, queueVars, Status, Active, WorkerPC
<1>14. ASSUME NEW r \in Run, Settled(r) PROVE Stored'
  BY <1>14, NoRunIsNone, SetStatusSets
  DEF Settled, KnownInv, DiscoveryTypeOK, WorkersOK, Known, Stored, ApprovalHasCandidates, At,
      RunOf, runVars, queueVars, Status, Active, WorkerPC
<1>15. ASSUME NEW r \in Run, Stalled(r) PROVE Stored'
  BY <1>15, NoRunIsNone
  DEF Stalled, KnownInv, DiscoveryTypeOK, WorkersOK, Known, Stored, ApprovalHasCandidates, At,
      RunOf, runVars, queueVars, Status, Active, WorkerPC
<1>16. ASSUME NEW r \in Run, KeyExpires(r) PROVE Stored'
  BY <1>16, NoRunIsNone
  DEF KeyExpires, KnownInv, DiscoveryTypeOK, WorkersOK, Known, Stored, ApprovalHasCandidates,
      At, RunOf, runVars, queueVars, Status, Active, WorkerPC
<1>17. ASSUME NEW r \in Run, Age(r) PROVE Stored'
  BY <1>17, NoRunIsNone
  DEF Age, KnownInv, DiscoveryTypeOK, WorkersOK, Known, Stored, ApprovalHasCandidates, At,
      RunOf, runVars, queueVars, Status, Active, WorkerPC
<1>18. ASSUME NEW w \in Worker, PickUpDaily(w) PROVE Stored'
  BY <1>18, NoRunIsNone, GoMoves
  DEF PickUpDaily, KnownInv, DiscoveryTypeOK, WorkersOK, Known, Stored, ApprovalHasCandidates,
      At, RunOf, runVars, queueVars, Status, Active, WorkerPC
<1>19. ASSUME NEW w \in Worker, OpenCheck(w) PROVE Stored'
  <2>1. CASE Go(w, "inserting")
    BY <1>19, <2>1, NoRunIsNone, GoMoves, LeavingIdles
    DEF OpenCheck, KnownInv, DiscoveryTypeOK, WorkersOK, Known, Stored, ApprovalHasCandidates,
        At, RunOf, runVars, queueVars, Status, Active, WorkerPC
  <2>2. CASE worker' = [worker EXCEPT ![w] = IdleWorker]
    BY <1>19, <2>2, NoRunIsNone, GoMoves, LeavingIdles
    DEF OpenCheck, KnownInv, DiscoveryTypeOK, WorkersOK, Known, Stored, ApprovalHasCandidates,
        At, RunOf, runVars, queueVars, Status, Active, WorkerPC
  <2> QED
    BY <1>19, <2>1, <2>2 DEF OpenCheck
<1>20. ASSUME NEW w \in Worker, OpenInsert(w) PROVE Stored'
  BY <1>20, NoRunIsNone
  DEF OpenInsert, NewRun, SetStatus, KnownInv, DiscoveryTypeOK, WorkersOK, Known, Stored,
      ApprovalHasCandidates, At, RunOf, runVars, queueVars, Status, Active, WorkerPC
<1>21. ASSUME NEW w \in Worker, CheckStop(w) PROVE Stored'
  <2>1. CASE RunOf(w) \in stopKey
    BY <1>21, <2>1, NoRunIsNone, GoMoves, LeavingIdles, EndedJobEnds
    DEF CheckStop, KnownInv, DiscoveryTypeOK, WorkersOK, Known, Stored, ApprovalHasCandidates,
        At, RunOf, runVars, queueVars, Status, Active, WorkerPC
  <2>2. CASE RunOf(w) \notin stopKey
    BY <1>21, <2>2, NoRunIsNone, GoMoves, LeavingIdles, EndedJobEnds
    DEF CheckStop, KnownInv, DiscoveryTypeOK, WorkersOK, Known, Stored, ApprovalHasCandidates,
        At, RunOf, runVars, queueVars, Status, Active, WorkerPC
  <2> QED
    BY <1>21, <2>1, <2>2 DEF CheckStop
<1>22. ASSUME NEW w \in Worker, TakeLock(w) PROVE Stored'
  BY <1>22, NoRunIsNone, GoMoves
  DEF TakeLock, KnownInv, DiscoveryTypeOK, WorkersOK, Known, Stored, ApprovalHasCandidates,
      At, RunOf, runVars, queueVars, Status, Active, WorkerPC
<1>23. ASSUME NEW w \in Worker, LockBusy(w) PROVE Stored'
  BY <1>23, NoRunIsNone, LeavingIdles, EndedJobEnds
  DEF LockBusy, KnownInv, DiscoveryTypeOK, WorkersOK, Known, Stored, ApprovalHasCandidates,
      At, RunOf, runVars, queueVars, Status, Active, WorkerPC
<1>24. ASSUME NEW w \in Worker, SetRunning(w) PROVE Stored'
  BY <1>24, NoRunIsNone, GoMoves, SetStatusSets
  DEF SetRunning, KnownInv, DiscoveryTypeOK, WorkersOK, Known, Stored, ApprovalHasCandidates,
      At, RunOf, runVars, queueVars, Status, Active, WorkerPC
<1>25. ASSUME NEW w \in Worker, Store(w) PROVE Stored'
  BY <1>25, NoRunIsNone, GoMoves
  DEF Store, KnownInv, DiscoveryTypeOK, WorkersOK, Known, Stored, ApprovalHasCandidates, At,
      RunOf, runVars, queueVars, Status, Active, WorkerPC
<1>26. ASSUME NEW w \in Worker, Finish(w) PROVE Stored'
  BY <1>26, NoRunIsNone, GoMoves, SetStatusSets
  DEF Finish, KnownInv, DiscoveryTypeOK, WorkersOK, Known, Stored, ApprovalHasCandidates, At,
      RunOf, runVars, queueVars, Status, Active, WorkerPC
<1>27. ASSUME NEW w \in Worker, Throw(w) PROVE Stored'
  BY <1>27, NoRunIsNone, GoMoves
  DEF Throw, KnownInv, DiscoveryTypeOK, WorkersOK, Known, Stored, ApprovalHasCandidates, At,
      RunOf, runVars, queueVars, Status, Active, WorkerPC
<1>28. ASSUME NEW w \in Worker, FailRun(w) PROVE Stored'
  <2>1. \A q \in Run : status'[q] \in {status[q], "failed"}
    BY <1>28, SetStatusSets DEF FailRun, SetStatus, KnownInv, DiscoveryTypeOK, Status, Active
  <2>2. \A v \in Worker : worker'[v].pc = "finishing" => worker'[v] = worker[v]
    BY <1>28, GoMoves DEF FailRun, KnownInv, DiscoveryTypeOK, WorkersOK, WorkerPC
  <2>3. UNCHANGED found
    BY <1>28 DEF FailRun
  <2> QED
    BY <2>1, <2>2, <2>3 DEF Stored, ApprovalHasCandidates
<1>29. ASSUME NEW w \in Worker, EndJob(w) PROVE Stored'
  BY <1>29, NoRunIsNone, LeavingIdles, EndedJobEnds
  DEF EndJob, KnownInv, DiscoveryTypeOK, WorkersOK, Known, Stored, ApprovalHasCandidates, At,
      RunOf, runVars, queueVars, Status, Active, WorkerPC
<1>30. ASSUME NEW w \in Worker, CrashWorker(w) PROVE Stored'
  BY <1>30, NoRunIsNone, LeavingIdles
  DEF CrashWorker, Fault, KnownInv, DiscoveryTypeOK, WorkersOK, Known, Stored,
      ApprovalHasCandidates, At, RunOf, runVars, queueVars, Status, Active, WorkerPC
<1>31. ASSUME NEW w \in Worker, Lapse(w) PROVE Stored'
  BY <1>31, NoRunIsNone
  DEF Lapse, Fault, KnownInv, DiscoveryTypeOK, WorkersOK, Known, Stored,
      ApprovalHasCandidates, At, RunOf, runVars, queueVars, Status, Active, WorkerPC
<1>32. ASSUME NEW w \in Worker, NEW r \in Run, PickUp(w, r) PROVE Stored'
  BY <1>32, NoRunIsNone
  DEF PickUp, KnownInv, DiscoveryTypeOK, WorkersOK, Known, Stored, ApprovalHasCandidates, At,
      RunOf, runVars, queueVars, Status, Active, WorkerPC
<1> QED
  BY <1>1, <1>2, <1>3, <1>4, <1>5, <1>6, <1>7, <1>8, <1>9, <1>10, <1>11, <1>12, <1>13,
     <1>14, <1>15, <1>16, <1>17, <1>18, <1>19, <1>20, <1>21, <1>22, <1>23, <1>24, <1>25,
     <1>26, <1>27, <1>28, <1>29, <1>30, <1>31, <1>32
  DEF DiscoveryNext, WorkerStep, SweepStep

LEMMA HaltedKept ==
  ASSUME KnownInv, Halted, DiscoveryNext
  PROVE  Halted'
<1>1. CASE StartCheck
  BY <1>1, NoRunIsNone
  DEF StartCheck, NoRequest, KnownInv, DiscoveryTypeOK, WorkersOK, Known, Halted, Forgotten,
      At, RunOf, runVars, queueVars, Status, Active, WorkerPC
<1>2. CASE StartInsert
  BY <1>2, NoRunIsNone
  DEF StartInsert, NewRun, SetStatus, KnownInv, DiscoveryTypeOK, WorkersOK, Known, Halted,
      Forgotten, At, RunOf, runVars, queueVars, Status, Active, WorkerPC
<1>3. CASE StartEnqueue
  BY <1>3, NoRunIsNone
  DEF StartEnqueue, AddJob, NoRequest, KnownInv, DiscoveryTypeOK, WorkersOK, Known, Halted,
      Forgotten, At, RunOf, runVars, queueVars, Status, Active, WorkerPC
<1>4. CASE StopRequest
  BY <1>4, NoRunIsNone
  DEF StopRequest, NoRequest, KnownInv, DiscoveryTypeOK, WorkersOK, Known, Halted, Forgotten,
      At, RunOf, runVars, queueVars, Status, Active, WorkerPC
<1>5. CASE StopWrite
  <2>1. request.run \in stopKey
    BY <1>5 DEF StopWrite, Halted
  <2>2. \A q \in Run : status'[q] = status[q] \/ q = request.run
    BY <1>5 DEF StopWrite, SetStatus, KnownInv, DiscoveryTypeOK
  <2>3. request' = NoRequest /\ UNCHANGED <<stopKey, job, worker, sweep>>
    BY <1>5 DEF StopWrite, queueVars
  <2>4. ASSUME NEW r \in Run, status'[r] = "stopped" PROVE r \in stopKey \/ Forgotten(r)'
    <3>1. CASE r = request.run
      BY <2>1, <3>1
    <3>2. CASE r # request.run
      <4>1. r \in stopKey \/ Forgotten(r)
        BY <2>2, <2>4, <3>2 DEF Halted
      <4>2. r # NoRun
        BY NoRunIsNone
      <4> QED
        BY <2>3, <4>1, <4>2 DEF Forgotten, NoRequest
    <3> QED
      BY <3>1, <3>2
  <2>5. request'.pc # "writing"
    BY <2>3 DEF NoRequest
  <2> QED
    BY <2>3, <2>4, <2>5 DEF Halted
<1>6. CASE RequestLost
  BY <1>6, NoRunIsNone
  DEF RequestLost, Fault, NoRequest, KnownInv, DiscoveryTypeOK, WorkersOK, Known, Halted,
      Forgotten, At, RunOf, runVars, queueVars, Status, Active, WorkerPC
<1>7. CASE LockExpires
  BY <1>7, NoRunIsNone
  DEF LockExpires, At, KnownInv, DiscoveryTypeOK, WorkersOK, Known, Halted, Forgotten, RunOf,
      runVars, queueVars, Status, Active, WorkerPC
<1>8. CASE SweepRead
  BY <1>8, NoRunIsNone
  DEF SweepRead, Abandoned, NoSweep, KnownInv, DiscoveryTypeOK, WorkersOK, Known, Halted,
      Forgotten, At, RunOf, runVars, queueVars, Status, Active, WorkerPC
<1>9. CASE SweepLook
  <2>1. UNCHANGED <<status, stopKey, job, worker, request>>
    BY <1>9 DEF SweepLook, runVars, queueVars
  <2>2. sweep'.list \subseteq sweep.list /\ sweep'.run \in sweep.list \cup {NoRun}
    <3>1. CASE sweep.list = {}
      BY <1>9, <3>1 DEF SweepLook, NoSweep
    <3>2. CASE sweep.list # {}
      <4>1. PICK r \in sweep.list :
               sweep' = [sweep EXCEPT !.list = @ \ {r},
                                      !.pc = IF Skips(r) THEN "looking" ELSE "removing",
                                      !.run = IF Skips(r) THEN NoRun ELSE r]
        BY <1>9, <3>2 DEF SweepLook
      <4> QED
        BY <4>1 DEF KnownInv, DiscoveryTypeOK
    <3> QED
      BY <3>1, <3>2
  <2>3. ASSUME NEW r \in Run, Forgotten(r) PROVE Forgotten(r)'
    BY <2>1, <2>2, <2>3, NoRunIsNone DEF Forgotten
  <2> QED
    BY <2>1, <2>3 DEF Halted
<1>10. CASE SweepRemove
  BY <1>10, NoRunIsNone
  DEF SweepRemove, KnownInv, DiscoveryTypeOK, WorkersOK, Known, Halted, Forgotten, At, RunOf,
      runVars, queueVars, Status, Active, WorkerPC
<1>11. CASE SweepAdd
  BY <1>11, NoRunIsNone
  DEF SweepAdd, AddJob, KnownInv, DiscoveryTypeOK, WorkersOK, Known, Halted, Forgotten, At,
      RunOf, runVars, queueVars, Status, Active, WorkerPC
<1>12. CASE SweepLost
  BY <1>12, NoRunIsNone
  DEF SweepLost, Fault, NoSweep, KnownInv, DiscoveryTypeOK, WorkersOK, Known, Halted,
      Forgotten, At, RunOf, runVars, queueVars, Status, Active, WorkerPC
<1>13. ASSUME NEW r \in Run, Approved(r) PROVE Halted'
  BY <1>13, NoRunIsNone, SetStatusSets
  DEF Approved, KnownInv, DiscoveryTypeOK, WorkersOK, Known, Halted, Forgotten, At, RunOf,
      runVars, queueVars, Status, Active, WorkerPC
<1>14. ASSUME NEW r \in Run, Settled(r) PROVE Halted'
  BY <1>14, NoRunIsNone, SetStatusSets
  DEF Settled, KnownInv, DiscoveryTypeOK, WorkersOK, Known, Halted, Forgotten, At, RunOf,
      runVars, queueVars, Status, Active, WorkerPC
<1>15. ASSUME NEW r \in Run, Stalled(r) PROVE Halted'
  BY <1>15, NoRunIsNone
  DEF Stalled, KnownInv, DiscoveryTypeOK, WorkersOK, Known, Halted, Forgotten, At, RunOf,
      runVars, queueVars, Status, Active, WorkerPC
<1>16. ASSUME NEW r \in Run, KeyExpires(r) PROVE Halted'
  BY <1>16, NoRunIsNone
  DEF KeyExpires, KnownInv, DiscoveryTypeOK, WorkersOK, Known, Halted, Forgotten, At, RunOf,
      runVars, queueVars, Status, Active, WorkerPC
<1>17. ASSUME NEW r \in Run, Age(r) PROVE Halted'
  BY <1>17, NoRunIsNone
  DEF Age, KnownInv, DiscoveryTypeOK, WorkersOK, Known, Halted, Forgotten, At, RunOf, runVars,
      queueVars, Status, Active, WorkerPC
<1>18. ASSUME NEW w \in Worker, PickUpDaily(w) PROVE Halted'
  BY <1>18, NoRunIsNone, GoMoves
  DEF PickUpDaily, KnownInv, DiscoveryTypeOK, WorkersOK, Known, Halted, Forgotten, At, RunOf,
      runVars, queueVars, Status, Active, WorkerPC
<1>19. ASSUME NEW w \in Worker, OpenCheck(w) PROVE Halted'
  <2>1. UNCHANGED <<status, stopKey, sweep, request>>
    BY <1>19 DEF OpenCheck, runVars, queueVars
  <2>2. \A v \in Worker : worker'[v].run = worker[v].run \/ worker'[v].run = NoRun
    BY <1>19, LeavingIdles, GoMoves DEF OpenCheck, KnownInv, DiscoveryTypeOK, WorkersOK, WorkerPC
  <2>3. \A q \in Run : job'[q] = job[q] \/ job'[q] = "ended"
    BY <1>19 DEF OpenCheck, KnownInv, DiscoveryTypeOK, queueVars
  <2>4. ASSUME NEW r \in Run, Forgotten(r) PROVE Forgotten(r)'
    BY <2>1, <2>2, <2>3, <2>4, NoRunIsNone DEF Forgotten
  <2> QED
    BY <2>1, <2>4 DEF Halted
<1>20. ASSUME NEW w \in Worker, OpenInsert(w) PROVE Halted'
  BY <1>20, NoRunIsNone
  DEF OpenInsert, NewRun, SetStatus, KnownInv, DiscoveryTypeOK, WorkersOK, Known, Halted,
      Forgotten, At, RunOf, runVars, queueVars, Status, Active, WorkerPC
<1>21. ASSUME NEW w \in Worker, CheckStop(w) PROVE Halted'
  <2>1. CASE RunOf(w) \in stopKey
    BY <1>21, <2>1, NoRunIsNone, GoMoves, LeavingIdles, EndedJobEnds
    DEF CheckStop, KnownInv, DiscoveryTypeOK, WorkersOK, Known, Halted, Forgotten, At, RunOf,
        runVars, queueVars, Status, Active, WorkerPC
  <2>2. CASE RunOf(w) \notin stopKey
    BY <1>21, <2>2, NoRunIsNone, GoMoves, LeavingIdles, EndedJobEnds
    DEF CheckStop, KnownInv, DiscoveryTypeOK, WorkersOK, Known, Halted, Forgotten, At, RunOf,
        runVars, queueVars, Status, Active, WorkerPC
  <2> QED
    BY <1>21, <2>1, <2>2 DEF CheckStop
<1>22. ASSUME NEW w \in Worker, TakeLock(w) PROVE Halted'
  BY <1>22, NoRunIsNone, GoMoves
  DEF TakeLock, KnownInv, DiscoveryTypeOK, WorkersOK, Known, Halted, Forgotten, At, RunOf,
      runVars, queueVars, Status, Active, WorkerPC
<1>23. ASSUME NEW w \in Worker, LockBusy(w) PROVE Halted'
  <2>1. UNCHANGED <<status, stopKey, sweep, request>>
    BY <1>23 DEF LockBusy, runVars, queueVars
  <2>2. \A v \in Worker : worker'[v].run = worker[v].run \/ worker'[v].run = NoRun
    BY <1>23, LeavingIdles DEF LockBusy, KnownInv, DiscoveryTypeOK, WorkersOK
  <2>3. \A q \in Run : job'[q] = job[q] \/ job'[q] = "ended"
    BY <1>23, EndedJobEnds DEF LockBusy, KnownInv, DiscoveryTypeOK
  <2>4. ASSUME NEW r \in Run, Forgotten(r) PROVE Forgotten(r)'
    BY <2>1, <2>2, <2>3, <2>4, NoRunIsNone DEF Forgotten
  <2> QED
    BY <2>1, <2>4 DEF Halted
<1>24. ASSUME NEW w \in Worker, SetRunning(w) PROVE Halted'
  BY <1>24, NoRunIsNone, GoMoves, SetStatusSets
  DEF SetRunning, KnownInv, DiscoveryTypeOK, WorkersOK, Known, Halted, Forgotten, At, RunOf,
      runVars, queueVars, Status, Active, WorkerPC
<1>25. ASSUME NEW w \in Worker, Store(w) PROVE Halted'
  BY <1>25, NoRunIsNone, GoMoves
  DEF Store, KnownInv, DiscoveryTypeOK, WorkersOK, Known, Halted, Forgotten, At, RunOf,
      runVars, queueVars, Status, Active, WorkerPC
<1>26. ASSUME NEW w \in Worker, Finish(w) PROVE Halted'
  BY <1>26, NoRunIsNone, GoMoves, SetStatusSets
  DEF Finish, KnownInv, DiscoveryTypeOK, WorkersOK, Known, Halted, Forgotten, At, RunOf,
      runVars, queueVars, Status, Active, WorkerPC
<1>27. ASSUME NEW w \in Worker, Throw(w) PROVE Halted'
  BY <1>27, NoRunIsNone, GoMoves
  DEF Throw, KnownInv, DiscoveryTypeOK, WorkersOK, Known, Halted, Forgotten, At, RunOf,
      runVars, queueVars, Status, Active, WorkerPC
<1>28. ASSUME NEW w \in Worker, FailRun(w) PROVE Halted'
  BY <1>28, NoRunIsNone, GoMoves, SetStatusSets
  DEF FailRun, Fault, KnownInv, DiscoveryTypeOK, WorkersOK, Known, Halted, Forgotten, At,
      RunOf, runVars, queueVars, Status, Active, WorkerPC
<1>29. ASSUME NEW w \in Worker, EndJob(w) PROVE Halted'
  <2>1. UNCHANGED <<status, stopKey, sweep, request>>
    BY <1>29 DEF EndJob, runVars, queueVars
  <2>2. \A v \in Worker : worker'[v].run = worker[v].run \/ worker'[v].run = NoRun
    BY <1>29, LeavingIdles DEF EndJob, KnownInv, DiscoveryTypeOK, WorkersOK
  <2>3. \A q \in Run : job'[q] = job[q] \/ job'[q] = "ended"
    BY <1>29, EndedJobEnds DEF EndJob, KnownInv, DiscoveryTypeOK
  <2>4. ASSUME NEW r \in Run, Forgotten(r) PROVE Forgotten(r)'
    BY <2>1, <2>2, <2>3, <2>4, NoRunIsNone DEF Forgotten
  <2> QED
    BY <2>1, <2>4 DEF Halted
<1>30. ASSUME NEW w \in Worker, CrashWorker(w) PROVE Halted'
  <2>1. UNCHANGED <<status, stopKey, sweep, request>>
    BY <1>30 DEF CrashWorker, runVars, queueVars
  <2>2. \A v \in Worker : worker'[v].run = worker[v].run \/ worker'[v].run = NoRun
    BY <1>30, LeavingIdles DEF CrashWorker, KnownInv, DiscoveryTypeOK, WorkersOK
  <2>3. \A q \in Run : job'[q] = job[q] \/ job'[q] = "ended"
    BY <1>30 DEF CrashWorker, KnownInv, DiscoveryTypeOK
  <2>4. ASSUME NEW r \in Run, Forgotten(r) PROVE Forgotten(r)'
    BY <2>1, <2>2, <2>3, <2>4, NoRunIsNone DEF Forgotten
  <2> QED
    BY <2>1, <2>4 DEF Halted
<1>31. ASSUME NEW w \in Worker, Lapse(w) PROVE Halted'
  BY <1>31, NoRunIsNone
  DEF Lapse, Fault, KnownInv, DiscoveryTypeOK, WorkersOK, Known, Halted, Forgotten, At, RunOf,
      runVars, queueVars, Status, Active, WorkerPC
<1>32. ASSUME NEW w \in Worker, NEW r \in Run, PickUp(w, r) PROVE Halted'
  BY <1>32, NoRunIsNone
  DEF PickUp, KnownInv, DiscoveryTypeOK, WorkersOK, Known, Halted, Forgotten, At, RunOf,
      runVars, queueVars, Status, Active, WorkerPC
<1> QED
  BY <1>1, <1>2, <1>3, <1>4, <1>5, <1>6, <1>7, <1>8, <1>9, <1>10, <1>11, <1>12, <1>13,
     <1>14, <1>15, <1>16, <1>17, <1>18, <1>19, <1>20, <1>21, <1>22, <1>23, <1>24, <1>25,
     <1>26, <1>27, <1>28, <1>29, <1>30, <1>31, <1>32
  DEF DiscoveryNext, WorkerStep, SweepStep

LEMMA RestKept ==
  ASSUME KnownInv, Halted, NEW q \in Run, AtRest(q), DiscoveryNext
  PROVE  AtRest(q)'
<1>1. CASE StartCheck
  BY <1>1, NoRunIsNone
  DEF StartCheck, NoRequest, KnownInv, DiscoveryTypeOK, WorkersOK, AtRest, PastTheCheck, At,
      RunOf, runVars, queueVars, Status, Active, WorkerPC
<1>2. CASE StartInsert
  <2>1. q # runs + 1
    BY DEF AtRest, KnownInv, Known, DiscoveryTypeOK, Run
  <2>2. status'[q] = status[q] /\ UNCHANGED worker
    BY <1>2, <2>1 DEF StartInsert, NewRun, SetStatus, KnownInv, DiscoveryTypeOK
  <2> QED
    BY <2>2 DEF AtRest, PastTheCheck, RunOf
<1>3. CASE StartEnqueue
  BY <1>3, NoRunIsNone
  DEF StartEnqueue, AddJob, NoRequest, KnownInv, DiscoveryTypeOK, WorkersOK, AtRest,
      PastTheCheck, At, RunOf, runVars, queueVars, Status, Active, WorkerPC
<1>4. CASE StopRequest
  BY <1>4, NoRunIsNone
  DEF StopRequest, NoRequest, KnownInv, DiscoveryTypeOK, WorkersOK, AtRest, PastTheCheck, At,
      RunOf, runVars, queueVars, Status, Active, WorkerPC
<1>5. CASE StopWrite
  BY <1>5, NoRunIsNone, SetStatusSets
  DEF StopWrite, SetStatus, NoRequest, KnownInv, DiscoveryTypeOK, WorkersOK, AtRest,
      PastTheCheck, At, RunOf, runVars, queueVars, Status, Active, WorkerPC
<1>6. CASE RequestLost
  BY <1>6, NoRunIsNone
  DEF RequestLost, Fault, NoRequest, KnownInv, DiscoveryTypeOK, WorkersOK, AtRest,
      PastTheCheck, At, RunOf, runVars, queueVars, Status, Active, WorkerPC
<1>7. CASE LockExpires
  BY <1>7, NoRunIsNone
  DEF LockExpires, At, KnownInv, DiscoveryTypeOK, WorkersOK, AtRest, PastTheCheck, RunOf,
      runVars, queueVars, Status, Active, WorkerPC
<1>8. CASE SweepRead
  BY <1>8, NoRunIsNone
  DEF SweepRead, Abandoned, NoSweep, KnownInv, DiscoveryTypeOK, WorkersOK, AtRest,
      PastTheCheck, At, RunOf, runVars, queueVars, Status, Active, WorkerPC
<1>9. CASE SweepLook
  <2>1. CASE sweep.list = {}
    BY <1>9, <2>1, NoRunIsNone
    DEF SweepLook, NoSweep, KnownInv, DiscoveryTypeOK, WorkersOK, AtRest, PastTheCheck, At,
        RunOf, runVars, queueVars, Status, Active, WorkerPC
  <2>2. CASE sweep.list # {}
    BY <1>9, <2>2, NoRunIsNone
    DEF SweepLook, NoSweep, KnownInv, DiscoveryTypeOK, WorkersOK, AtRest, PastTheCheck, At,
        RunOf, runVars, queueVars, Status, Active, WorkerPC
  <2> QED
    BY <1>9, <2>1, <2>2 DEF SweepLook
<1>10. CASE SweepRemove
  BY <1>10, NoRunIsNone
  DEF SweepRemove, KnownInv, DiscoveryTypeOK, WorkersOK, AtRest, PastTheCheck, At, RunOf,
      runVars, queueVars, Status, Active, WorkerPC
<1>11. CASE SweepAdd
  BY <1>11, NoRunIsNone
  DEF SweepAdd, AddJob, KnownInv, DiscoveryTypeOK, WorkersOK, AtRest, PastTheCheck, At, RunOf,
      runVars, queueVars, Status, Active, WorkerPC
<1>12. CASE SweepLost
  BY <1>12, NoRunIsNone
  DEF SweepLost, Fault, NoSweep, KnownInv, DiscoveryTypeOK, WorkersOK, AtRest, PastTheCheck,
      At, RunOf, runVars, queueVars, Status, Active, WorkerPC
<1>13. ASSUME NEW r \in Run, Approved(r) PROVE AtRest(q)'
  BY <1>13, NoRunIsNone, SetStatusSets
  DEF Approved, KnownInv, DiscoveryTypeOK, WorkersOK, AtRest, PastTheCheck, At, RunOf,
      runVars, queueVars, Status, Active, WorkerPC
<1>14. ASSUME NEW r \in Run, Settled(r) PROVE AtRest(q)'
  BY <1>14, NoRunIsNone, SetStatusSets
  DEF Settled, KnownInv, DiscoveryTypeOK, WorkersOK, AtRest, PastTheCheck, At, RunOf, runVars,
      queueVars, Status, Active, WorkerPC
<1>15. ASSUME NEW r \in Run, Stalled(r) PROVE AtRest(q)'
  BY <1>15, NoRunIsNone
  DEF Stalled, KnownInv, DiscoveryTypeOK, WorkersOK, AtRest, PastTheCheck, At, RunOf, runVars,
      queueVars, Status, Active, WorkerPC
<1>16. ASSUME NEW r \in Run, KeyExpires(r) PROVE AtRest(q)'
  BY <1>16, NoRunIsNone
  DEF KeyExpires, KnownInv, DiscoveryTypeOK, WorkersOK, AtRest, PastTheCheck, At, RunOf,
      runVars, queueVars, Status, Active, WorkerPC
<1>17. ASSUME NEW r \in Run, Age(r) PROVE AtRest(q)'
  BY <1>17, NoRunIsNone
  DEF Age, KnownInv, DiscoveryTypeOK, WorkersOK, AtRest, PastTheCheck, At, RunOf, runVars,
      queueVars, Status, Active, WorkerPC
<1>18. ASSUME NEW w \in Worker, PickUpDaily(w) PROVE AtRest(q)'
  <2>1. worker'[w].run = NoRun /\ \A v \in Worker \ {w} : worker'[v] = worker[v]
    BY <1>18, GoMoves DEF PickUpDaily, At, KnownInv, Known, DiscoveryTypeOK, WorkersOK, WorkerPC
  <2>2. UNCHANGED status
    BY <1>18 DEF PickUpDaily, runVars
  <2> QED
    BY <2>1, <2>2, NoRunIsNone DEF AtRest, PastTheCheck, RunOf
<1>19. ASSUME NEW w \in Worker, OpenCheck(w) PROVE AtRest(q)'
  <2>1. CASE Go(w, "inserting")
    BY <1>19, <2>1, NoRunIsNone, GoMoves, LeavingIdles
    DEF OpenCheck, KnownInv, DiscoveryTypeOK, WorkersOK, AtRest, PastTheCheck, At, RunOf,
        runVars, queueVars, Status, Active, WorkerPC
  <2>2. CASE worker' = [worker EXCEPT ![w] = IdleWorker]
    BY <1>19, <2>2, NoRunIsNone, GoMoves, LeavingIdles
    DEF OpenCheck, KnownInv, DiscoveryTypeOK, WorkersOK, AtRest, PastTheCheck, At, RunOf,
        runVars, queueVars, Status, Active, WorkerPC
  <2> QED
    BY <1>19, <2>1, <2>2 DEF OpenCheck
<1>20. ASSUME NEW w \in Worker, OpenInsert(w) PROVE AtRest(q)'
  BY <1>20, NoRunIsNone
  DEF OpenInsert, NewRun, SetStatus, KnownInv, DiscoveryTypeOK, WorkersOK, AtRest,
      PastTheCheck, At, RunOf, runVars, queueVars, Status, Active, WorkerPC
<1>21. ASSUME NEW w \in Worker, CheckStop(w) PROVE AtRest(q)'
  <2>1. CASE RunOf(w) \in stopKey
    <3>1. worker'[w].run = NoRun /\ \A v \in Worker \ {w} : worker'[v] = worker[v]
      BY <1>21, <2>1, LeavingIdles DEF CheckStop, KnownInv, DiscoveryTypeOK, WorkersOK
    <3>2. UNCHANGED status
      BY <1>21 DEF CheckStop, runVars
    <3> QED
      BY <3>1, <3>2, NoRunIsNone DEF AtRest, PastTheCheck, RunOf
  <2>2. CASE RunOf(w) \notin stopKey
    <3>1. worker[w].run # q
      BY <2>2 DEF AtRest, Halted, Forgotten, RunOf
    <3>2. /\ worker'[w].run = worker[w].run
          /\ \A v \in Worker \ {w} : worker'[v] = worker[v]
      BY <1>21, <2>2, GoMoves DEF CheckStop, KnownInv, DiscoveryTypeOK, WorkersOK, WorkerPC
    <3>3. UNCHANGED status
      BY <1>21 DEF CheckStop, runVars
    <3> QED
      BY <3>1, <3>2, <3>3 DEF AtRest, PastTheCheck, RunOf
  <2> QED
    BY <2>1, <2>2
<1>22. ASSUME NEW w \in Worker, TakeLock(w) PROVE AtRest(q)'
  BY <1>22, NoRunIsNone, GoMoves
  DEF TakeLock, KnownInv, DiscoveryTypeOK, WorkersOK, AtRest, PastTheCheck, At, RunOf,
      runVars, queueVars, Status, Active, WorkerPC
<1>23. ASSUME NEW w \in Worker, LockBusy(w) PROVE AtRest(q)'
  <2>1. worker'[w].run = NoRun /\ \A v \in Worker \ {w} : worker'[v] = worker[v]
    BY <1>23, LeavingIdles DEF LockBusy, KnownInv, DiscoveryTypeOK, WorkersOK
  <2>2. UNCHANGED status
    BY <1>23 DEF LockBusy, runVars
  <2> QED
    BY <2>1, <2>2, NoRunIsNone DEF AtRest, PastTheCheck, RunOf
<1>24. ASSUME NEW w \in Worker, SetRunning(w) PROVE AtRest(q)'
  BY <1>24, NoRunIsNone, GoMoves, SetStatusSets
  DEF SetRunning, KnownInv, DiscoveryTypeOK, WorkersOK, AtRest, PastTheCheck, At, RunOf,
      runVars, queueVars, Status, Active, WorkerPC
<1>25. ASSUME NEW w \in Worker, Store(w) PROVE AtRest(q)'
  BY <1>25, NoRunIsNone, GoMoves
  DEF Store, KnownInv, DiscoveryTypeOK, WorkersOK, AtRest, PastTheCheck, At, RunOf, runVars,
      queueVars, Status, Active, WorkerPC
<1>26. ASSUME NEW w \in Worker, Finish(w) PROVE AtRest(q)'
  BY <1>26, NoRunIsNone, GoMoves, SetStatusSets
  DEF Finish, KnownInv, DiscoveryTypeOK, WorkersOK, AtRest, PastTheCheck, At, RunOf, runVars,
      queueVars, Status, Active, WorkerPC
<1>27. ASSUME NEW w \in Worker, Throw(w) PROVE AtRest(q)'
  BY <1>27, NoRunIsNone, GoMoves
  DEF Throw, KnownInv, DiscoveryTypeOK, WorkersOK, AtRest, PastTheCheck, At, RunOf, runVars,
      queueVars, Status, Active, WorkerPC
<1>28. ASSUME NEW w \in Worker, FailRun(w) PROVE AtRest(q)'
  <2>1. /\ worker'[w].run = worker[w].run /\ \A v \in Worker \ {w} : worker'[v] = worker[v]
        /\ worker[w].pc = "failing"
    BY <1>28, GoMoves DEF FailRun, At, KnownInv, DiscoveryTypeOK, WorkersOK, WorkerPC
  <2>2. worker[w].run # q
    BY <2>1 DEF AtRest, PastTheCheck, RunOf
  <2>3. status'[q] = status[q]
    BY <1>28, <2>2 DEF FailRun, SetStatus, RunOf, KnownInv, DiscoveryTypeOK
  <2> QED
    BY <2>1, <2>2, <2>3 DEF AtRest, PastTheCheck, RunOf
<1>29. ASSUME NEW w \in Worker, EndJob(w) PROVE AtRest(q)'
  <2>1. worker'[w].run = NoRun /\ \A v \in Worker \ {w} : worker'[v] = worker[v]
    BY <1>29, LeavingIdles DEF EndJob, KnownInv, DiscoveryTypeOK, WorkersOK
  <2>2. UNCHANGED status
    BY <1>29 DEF EndJob, runVars
  <2> QED
    BY <2>1, <2>2, NoRunIsNone DEF AtRest, PastTheCheck, RunOf
<1>30. ASSUME NEW w \in Worker, CrashWorker(w) PROVE AtRest(q)'
  <2>1. worker'[w].run = NoRun /\ \A v \in Worker \ {w} : worker'[v] = worker[v]
    BY <1>30, LeavingIdles DEF CrashWorker, KnownInv, DiscoveryTypeOK, WorkersOK
  <2>2. UNCHANGED status
    BY <1>30 DEF CrashWorker, runVars
  <2> QED
    BY <2>1, <2>2, NoRunIsNone DEF AtRest, PastTheCheck, RunOf
<1>31. ASSUME NEW w \in Worker, Lapse(w) PROVE AtRest(q)'
  BY <1>31, NoRunIsNone
  DEF Lapse, Fault, KnownInv, DiscoveryTypeOK, WorkersOK, AtRest, PastTheCheck, At, RunOf,
      runVars, queueVars, Status, Active, WorkerPC
<1>32. ASSUME NEW w \in Worker, NEW r \in Run, PickUp(w, r) PROVE AtRest(q)'
  BY <1>32, NoRunIsNone
  DEF PickUp, KnownInv, DiscoveryTypeOK, WorkersOK, AtRest, PastTheCheck, At, RunOf, runVars,
      queueVars, Status, Active, WorkerPC
<1> QED
  BY <1>1, <1>2, <1>3, <1>4, <1>5, <1>6, <1>7, <1>8, <1>9, <1>10, <1>11, <1>12, <1>13,
     <1>14, <1>15, <1>16, <1>17, <1>18, <1>19, <1>20, <1>21, <1>22, <1>23, <1>24, <1>25,
     <1>26, <1>27, <1>28, <1>29, <1>30, <1>31, <1>32
  DEF DiscoveryNext, WorkerStep, SweepStep

(***************************************************************************)
(* The theorems.                                                           *)
(***************************************************************************)

LEMMA InitHolds == DiscoveryInit => KnownInv /\ Stored /\ Halted
<1> SUFFICES ASSUME DiscoveryInit PROVE KnownInv /\ Stored /\ Halted
  OBVIOUS
<1>1. NoRequest.run = NoRun /\ NoRequest.pc = "idle" /\ NoSweep.run = NoRun /\ NoSweep.list = {}
  BY DEF NoRequest, NoSweep
<1>2. \A w \in Worker : worker[w] = IdleWorker
  BY DEF DiscoveryInit
<1>3. DiscoveryTypeOK
  BY DEF DiscoveryInit, DiscoveryTypeOK, Status, Active, WorkerPC, IdleWorker, NoRequest, NoSweep,
         NoRun
<1>4. Known
  BY <1>1, <1>2 DEF DiscoveryInit, Known, IdleWorker, NoRun
<1>5. Stored
  BY <1>2 DEF DiscoveryInit, Stored, ApprovalHasCandidates, IdleWorker
<1>6. Halted
  BY <1>1 DEF DiscoveryInit, Halted
<1> QED
  BY <1>3, <1>4, <1>5, <1>6 DEF KnownInv

LEMMA NothingMoves ==
  ASSUME KnownInv, Stored, Halted, UNCHANGED vars
  PROVE  /\ KnownInv' /\ Stored' /\ Halted'
         /\ \A r \in Run : AtRest(r) => AtRest(r)'
<1>1. UNCHANGED <<runs, status, aged, found, stopKey, job, stalls, daily, worker, lock, request,
                  sweep, faults>>
  BY DEF vars, runVars, queueVars
<1>2. KnownInv'
  BY <1>1 DEF KnownInv, DiscoveryTypeOK, Known
<1>3. Stored'
  BY <1>1 DEF Stored, ApprovalHasCandidates
<1>4. Halted'
  BY <1>1 DEF Halted, Forgotten
<1>5. \A r \in Run : AtRest(r) => AtRest(r)'
  BY <1>1 DEF AtRest, PastTheCheck, RunOf
<1> QED
  BY <1>2, <1>3, <1>4, <1>5

LEMMA InvariantHolds == DiscoverySpec => [](KnownInv /\ Stored /\ Halted)
<1>1. KnownInv /\ Stored /\ Halted /\ [DiscoveryNext]_vars => (KnownInv /\ Stored /\ Halted)'
  BY TypesKept, KnownKept, StoredKept, HaltedKept, NothingMoves DEF KnownInv
<1> QED
  BY <1>1, InitHolds, PTL DEF DiscoverySpec

\* The hunts, their queue, their executions and the sweep keep their types: no
\* step of queues/discover.ts, of the service or of a crash leaves them.
THEOREM HuntTypesAreKept == DiscoverySpec => []DiscoveryTypeOK
<1>1. KnownInv => DiscoveryTypeOK
  BY DEF KnownInv
<1> QED
  BY <1>1, InvariantHolds, PTL

\* A hunt that waits for approval, or is being applied to, has its candidates
\* (discoverForRun stores them before its last update).
THEOREM OffersHaveCandidates == DiscoverySpec => []ApprovalHasCandidates
<1>1. Stored => ApprovalHasCandidates
  BY DEF Stored
<1> QED
  BY <1>1, InvariantHolds, PTL

\* A hunt that was stopped, and that no execution is past the check of, stays
\* stopped (requestStop and the check of the processor): everybody who may
\* still come across it finds its key.
THEOREM StopsSettle == DiscoverySpec => StopSettles
<1>1. KnownInv /\ Stored /\ Halted /\ [DiscoveryNext]_vars
        => [\A r \in Run : AtRest(r) => AtRest(r)']_vars
  <2>1. ASSUME KnownInv, Stored, Halted, DiscoveryNext
        PROVE  \A r \in Run : AtRest(r) => AtRest(r)'
    BY <2>1, RestKept
  <2> QED
    BY <2>1
<1> QED
  BY <1>1, InvariantHolds, PTL DEF DiscoverySpec, StopSettles
=============================================================================
