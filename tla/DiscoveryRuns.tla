--------------------------- MODULE DiscoveryRuns ---------------------------
(***************************************************************************)
(* The hunts of one user (hunt_runs) and the queue that discovers jobs for *)
(* them: the owner's start and stop (modules/hunt/routes.ts), the daily    *)
(* job, the worker and the reconcile sweep (queues/discover.ts), and       *)
(* discoverForRun (hunt/discovery/service.ts).  Every update of a run in   *)
(* this code is by id: none looks at the status it overwrites.             *)
(***************************************************************************)
EXTENDS Integers, FiniteSets

CONSTANTS Worker,     \* executions of jobs, in any number of processes
          Nobody,     \* nobody holds the user's discovery lock
          MaxRuns,    \* bound: hunts of the user
          MaxStalls,  \* maxStalledCount
          MaxDaily,   \* bound: daily jobs
          MaxFaults   \* bound: crashes, lapses, lost requests and writes

ASSUME BoundsAssumption == {MaxRuns, MaxStalls, MaxDaily, MaxFaults} \subseteq Nat
ASSUME NobodyAssumption == Nobody \notin Worker

Run == 1..MaxRuns
NoRun == 0

VARIABLES runs,     \* how many hunts there are
          status,   \* run -> hunt_runs.status
          aged,     \* runs whose updated_at is older than ABANDONED_AFTER_MS
          found,    \* runs whose candidates have been inserted
          stopKey,  \* runs with the key huntly:run-stop in Redis
          job,      \* run -> the job discover-<run>
          stalls,   \* run -> how often it stalled
          daily,    \* daily jobs that wait
          worker,   \* worker -> the job it executes and where it stands
          lock,     \* who holds the user's lock "discover"
          request,  \* the owner's request under way: start or stop
          sweep,    \* the reconcile sweep: the runs it read, and the one in hand
          faults

runVars == <<status, aged, found>>
queueVars == <<stopKey, job, stalls, daily>>
vars == <<runs, runVars, queueVars, worker, lock, request, sweep, faults>>

Active == {"queued", "running", "awaiting_approval", "applying"}
Status == Active \cup {"none", "stopped", "failed", "completed"}

WorkerPC == {"idle", "opening", "inserting", "checking", "locking", "reading", "fetching",
             "storing", "finishing", "failing", "ending"}

DiscoveryTypeOK ==
    /\ runs \in 0..MaxRuns
    /\ status \in [Run -> Status]
    /\ aged \subseteq Run /\ found \subseteq Run /\ stopKey \subseteq Run
    /\ job \in [Run -> {"none", "waiting", "active", "ended"}]
    /\ stalls \in [Run -> 0..MaxStalls]
    /\ daily \in Nat
    /\ worker \in [Worker -> [pc : WorkerPC, run : Run \cup {NoRun}, byId : BOOLEAN]]
    /\ lock \in Worker \cup {Nobody}
    /\ request \in [pc : {"idle", "starting", "queueing", "stopping", "writing"},
                    run : Run \cup {NoRun}]
    /\ sweep \in [pc : {"idle", "looking", "removing", "adding"},
                  list : SUBSET Run, run : Run \cup {NoRun}]
    /\ faults \in 0..MaxFaults

\* byId: the job names its run; a daily job opens one.
IdleWorker == [pc |-> "idle", run |-> NoRun, byId |-> FALSE]
NoRequest == [pc |-> "idle", run |-> NoRun]
NoSweep == [pc |-> "idle", list |-> {}, run |-> NoRun]

DiscoveryInit ==
    /\ runs = 0
    /\ status = [r \in Run |-> "none"]
    /\ aged = {} /\ found = {} /\ stopKey = {}
    /\ job = [r \in Run |-> "none"]
    /\ stalls = [r \in Run |-> 0]
    /\ daily = MaxDaily
    /\ worker = [w \in Worker |-> IdleWorker]
    /\ lock = Nobody
    /\ request = NoRequest
    /\ sweep = NoSweep
    /\ faults = 0

Fault == faults < MaxFaults /\ faults' = faults + 1

NoneActive == \A r \in Run : status[r] \notin Active

\* An update of the run's row.
SetStatus(r, s) ==
    /\ status' = [status EXCEPT ![r] = s]
    /\ aged' = aged \ {r}

NewRun ==
    /\ runs < MaxRuns
    /\ runs' = runs + 1
    /\ SetStatus(runs + 1, "queued")

\* queue.add: an id that is still known is left alone.
AddJob(r) == job' = [job EXCEPT ![r] = IF @ = "none" THEN "waiting" ELSE @]

(***************************************************************************)
(* The owner.                                                              *)
(***************************************************************************)

\* POST /hunt/start: look for an active hunt, then insert, then enqueue.
StartCheck ==
    /\ request = NoRequest
    /\ NoneActive
    /\ runs < MaxRuns
    /\ request' = [NoRequest EXCEPT !.pc = "starting"]
    /\ UNCHANGED <<runs, runVars, queueVars, worker, lock, sweep, faults>>

StartInsert ==
    /\ request.pc = "starting"
    /\ NewRun
    /\ request' = [pc |-> "queueing", run |-> runs + 1]
    /\ UNCHANGED <<found, queueVars, worker, lock, sweep, faults>>

StartEnqueue ==
    /\ request.pc = "queueing"
    /\ AddJob(request.run)
    /\ request' = NoRequest
    /\ UNCHANGED <<runs, runVars, stopKey, stalls, daily, worker, lock, sweep, faults>>

\* POST /hunt/stop: the newest active hunt; its key is set and its job
\* removed if it waits.
StopRequest ==
    /\ request = NoRequest
    /\ \E r \in Run :
          /\ status[r] \in Active
          /\ \A s \in Run : status[s] \in Active => s <= r
          /\ stopKey' = stopKey \cup {r}
          /\ job' = [job EXCEPT ![r] = IF @ = "waiting" THEN "none" ELSE @]
          /\ request' = [pc |-> "writing", run |-> r]
    /\ UNCHANGED <<runs, runVars, stalls, daily, worker, lock, sweep, faults>>

StopWrite ==
    /\ request.pc = "writing"
    /\ SetStatus(request.run, "stopped")
    /\ request' = NoRequest
    /\ UNCHANGED <<runs, found, queueVars, worker, lock, sweep, faults>>

\* The process that answers the request stops between two of its steps.
RequestLost ==
    /\ request # NoRequest
    /\ Fault
    /\ request' = NoRequest
    /\ UNCHANGED <<runs, runVars, queueVars, worker, lock, sweep>>

\* Approval and the end of applying: ApplicationQueue has them in detail.
Approved(r) ==
    /\ status[r] = "awaiting_approval"
    /\ SetStatus(r, "applying")
    /\ UNCHANGED <<runs, found, queueVars, worker, lock, request, sweep, faults>>

Settled(r) ==
    /\ status[r] = "applying"
    /\ SetStatus(r, "completed")
    /\ UNCHANGED <<runs, found, queueVars, worker, lock, request, sweep, faults>>

(***************************************************************************)
(* The worker.                                                             *)
(***************************************************************************)

At(w, pc) == worker[w].pc = pc
RunOf(w) == worker[w].run
Go(w, pc) == worker' = [worker EXCEPT ![w].pc = pc]

PickUp(w, r) ==
    /\ At(w, "idle")
    /\ job[r] = "waiting"
    /\ job' = [job EXCEPT ![r] = "active"]
    /\ worker' = [worker EXCEPT ![w] = [pc |-> "checking", run |-> r, byId |-> TRUE]]
    /\ UNCHANGED <<runs, runVars, stopKey, stalls, daily, lock, request, sweep, faults>>

PickUpDaily(w) ==
    /\ At(w, "idle")
    /\ daily > 0
    /\ daily' = daily - 1
    /\ Go(w, "opening")
    /\ UNCHANGED <<runs, runVars, stopKey, job, stalls, lock, request, sweep, faults>>

\* openScheduledRun: nothing while a hunt is active or no spec is active.
OpenCheck(w) ==
    /\ At(w, "opening")
    /\ \/ NoneActive /\ runs < MaxRuns /\ Go(w, "inserting")
       \/ worker' = [worker EXCEPT ![w] = IdleWorker]
    /\ UNCHANGED <<runs, runVars, queueVars, lock, request, sweep, faults>>

OpenInsert(w) ==
    /\ At(w, "inserting")
    /\ NewRun
    /\ worker' = [worker EXCEPT ![w].pc = "checking", ![w].run = runs + 1]
    /\ UNCHANGED <<found, queueVars, lock, request, sweep, faults>>

\* The job of w's run, when it has one and it is still this execution's.
EndedJob(w) ==
    [job EXCEPT ![RunOf(w)] = IF worker[w].byId /\ @ = "active" THEN "ended" ELSE @]

\* Mutant: the worker does not ask whether a stop was requested.
NeverAsksForStop(w) ==
    /\ At(w, "checking")
    /\ Go(w, "locking")
    /\ UNCHANGED <<runs, runVars, queueVars, lock, request, sweep, faults>>

\* isStopRequested, the only time the worker asks.
CheckStop(w) ==
    /\ At(w, "checking")
    /\ IF RunOf(w) \in stopKey
         THEN /\ worker' = [worker EXCEPT ![w] = IdleWorker]
              /\ job' = EndedJob(w)
         ELSE /\ Go(w, "locking")
              /\ UNCHANGED job
    /\ UNCHANGED <<runs, runVars, stopKey, stalls, daily, lock, request, sweep, faults>>

TakeLock(w) ==
    /\ At(w, "locking")
    /\ lock = Nobody
    /\ lock' = w
    /\ Go(w, "reading")
    /\ UNCHANGED <<runs, runVars, queueVars, request, sweep, faults>>

\* LockBusyError is thrown outside the try: the job fails, the run stays.
LockBusy(w) ==
    /\ At(w, "locking")
    /\ lock # Nobody
    /\ worker' = [worker EXCEPT ![w] = IdleWorker]
    /\ job' = EndedJob(w)
    /\ UNCHANGED <<runs, runVars, stopKey, stalls, daily, lock, request, sweep, faults>>

\* discoverForRun: the run becomes 'running', whatever it was ...
SetRunning(w) ==
    /\ At(w, "reading")
    /\ SetStatus(RunOf(w), "running")
    /\ Go(w, "fetching")
    /\ UNCHANGED <<runs, found, queueVars, lock, request, sweep, faults>>

\* Mutant: the run is offered for approval before its candidates are stored.
StoreAfterFinish(w) ==
    /\ At(w, "fetching")
    /\ SetStatus(RunOf(w), "awaiting_approval")
    /\ Go(w, "finishing")
    /\ UNCHANGED <<runs, found, queueVars, lock, request, sweep, faults>>

\* ... its candidates are inserted, in chunks that keep what is there ...
Store(w) ==
    /\ At(w, "fetching")
    /\ found' = found \cup {RunOf(w)}
    /\ Go(w, "finishing")
    /\ UNCHANGED <<runs, status, aged, queueVars, lock, request, sweep, faults>>

\* ... and it waits for approval.
Finish(w) ==
    /\ At(w, "finishing")
    /\ SetStatus(RunOf(w), "awaiting_approval")
    /\ Go(w, "ending")
    /\ UNCHANGED <<runs, found, queueVars, lock, request, sweep, faults>>

\* No spec, no skills, no connector; or a failing fetch or insert.
Throw(w) ==
    /\ \E pc \in {"reading", "fetching", "finishing"} : At(w, pc)
    /\ Go(w, "failing")
    /\ UNCHANGED <<runs, runVars, queueVars, lock, request, sweep, faults>>

\* failRun; its own failure is only logged.
FailRun(w) ==
    /\ At(w, "failing")
    /\ \/ SetStatus(RunOf(w), "failed") /\ UNCHANGED faults
       \/ Fault /\ UNCHANGED <<status, aged>>
    /\ Go(w, "ending")
    /\ UNCHANGED <<runs, found, queueVars, lock, request, sweep>>

\* The lock is released, and the job completes or fails: either way its id
\* stays known.
EndJob(w) ==
    /\ At(w, "ending")
    /\ lock' = IF lock = w THEN Nobody ELSE lock
    /\ job' = EndedJob(w)
    /\ worker' = [worker EXCEPT ![w] = IdleWorker]
    /\ UNCHANGED <<runs, runVars, stopKey, stalls, daily, request, sweep, faults>>

(***************************************************************************)
(* Crashes, and what BullMQ and Redis do about them.                       *)
(***************************************************************************)

\* The process stops; a daily job that stalls is executed again.
CrashWorker(w) ==
    /\ ~At(w, "idle")
    /\ Fault
    /\ worker' = [worker EXCEPT ![w] = IdleWorker]
    /\ daily' = IF ~worker[w].byId THEN daily + 1 ELSE daily
    /\ UNCHANGED <<runs, runVars, stopKey, job, stalls, lock, request, sweep>>

\* The job's lock lapses under a live worker: BullMQ gives the job away.
Lapse(w) ==
    /\ worker[w].byId /\ job[RunOf(w)] = "active"
    /\ stalls[RunOf(w)] < MaxStalls
    /\ Fault
    /\ job' = [job EXCEPT ![RunOf(w)] = "waiting"]
    /\ stalls' = [stalls EXCEPT ![RunOf(w)] = @ + 1]
    /\ UNCHANGED <<runs, runVars, stopKey, daily, worker, lock, request, sweep>>

\* The stalled check: again, up to maxStalledCount times.
Stalled(r) ==
    /\ job[r] = "active"
    /\ \A w \in Worker : ~(worker[w].byId /\ RunOf(w) = r)
    /\ IF stalls[r] < MaxStalls
         THEN /\ job' = [job EXCEPT ![r] = "waiting"]
              /\ stalls' = [stalls EXCEPT ![r] = @ + 1]
         ELSE job' = [job EXCEPT ![r] = "ended"] /\ UNCHANGED stalls
    /\ UNCHANGED <<runs, runVars, stopKey, daily, worker, lock, request, sweep, faults>>

\* The lease of a dead holder ends; a live one renews its own.
LockExpires ==
    /\ lock # Nobody
    /\ \A pc \in {"reading", "fetching", "finishing", "failing", "ending"} : ~At(lock, pc)
    /\ lock' = Nobody
    /\ UNCHANGED <<runs, runVars, queueVars, worker, request, sweep, faults>>

\* Six hours after the stop request.
KeyExpires(r) ==
    /\ r \in stopKey
    /\ request.run # r
    /\ \A w \in Worker : RunOf(w) # r
    /\ job[r] \notin {"waiting", "active"}
    /\ r \notin sweep.list /\ sweep.run # r
    /\ stopKey' = stopKey \ {r}
    /\ UNCHANGED <<runs, runVars, job, stalls, daily, worker, lock, request, sweep, faults>>

\* ABANDONED_AFTER_MS pass without an update of the run.
Age(r) ==
    /\ status[r] \in {"queued", "running"}
    /\ aged' = aged \cup {r}
    /\ UNCHANGED <<runs, status, found, queueVars, worker, lock, request, sweep, faults>>

(***************************************************************************)
(* reconcileInterruptedRuns.                                               *)
(***************************************************************************)

Abandoned == {r \in Run : status[r] \in {"queued", "running"} /\ r \in aged}

SweepRead ==
    /\ sweep.pc = "idle"
    /\ Abandoned # {}
    /\ sweep' = [pc |-> "looking", list |-> Abandoned, run |-> NoRun]
    /\ UNCHANGED <<runs, runVars, queueVars, worker, lock, request, faults>>

\* Mutant: the sweep looks at the lock only.
SkipsLocked(r) == lock # Nobody

\* isLocked and isStopRequested.
Skips(r) == lock # Nobody \/ r \in stopKey

SweepLook ==
    /\ sweep.pc = "looking"
    /\ IF sweep.list = {}
         THEN sweep' = NoSweep
         ELSE \E r \in sweep.list :
                 sweep' = [sweep EXCEPT !.list = @ \ {r},
                                        !.pc = IF Skips(r) THEN "looking" ELSE "removing",
                                        !.run = IF Skips(r) THEN NoRun ELSE r]
    /\ UNCHANGED <<runs, runVars, queueVars, worker, lock, request, faults>>

\* Mutant: the id of a job that ended is left in the queue.
RemoveNothing ==
    /\ sweep.pc = "removing"
    /\ sweep' = [sweep EXCEPT !.pc = "adding"]
    /\ UNCHANGED <<runs, runVars, queueVars, worker, lock, request, faults>>

\* remove() fails, silently, for a job whose worker is alive.
SweepRemove ==
    /\ sweep.pc = "removing"
    /\ LET r == sweep.run
           alive == job[r] = "active" /\ \E w \in Worker : worker[w].byId /\ RunOf(w) = r
       IN  IF alive THEN UNCHANGED <<job, stalls>>
           ELSE /\ job' = [job EXCEPT ![r] = "none"]
                /\ stalls' = [stalls EXCEPT ![r] = 0]
    /\ sweep' = [sweep EXCEPT !.pc = "adding"]
    /\ UNCHANGED <<runs, runVars, stopKey, daily, worker, lock, request, faults>>

SweepAdd ==
    /\ sweep.pc = "adding"
    /\ AddJob(sweep.run)
    /\ sweep' = [sweep EXCEPT !.pc = "looking", !.run = NoRun]
    /\ UNCHANGED <<runs, runVars, stopKey, stalls, daily, worker, lock, request, faults>>

SweepLost ==
    /\ sweep.pc # "idle"
    /\ Fault
    /\ sweep' = NoSweep
    /\ UNCHANGED <<runs, runVars, queueVars, worker, lock, request>>

WorkerStep(w) ==
    \/ OpenCheck(w) \/ OpenInsert(w) \/ CheckStop(w) \/ TakeLock(w) \/ LockBusy(w)
    \/ SetRunning(w) \/ Store(w) \/ Finish(w) \/ Throw(w) \/ FailRun(w) \/ EndJob(w)

SweepStep == SweepRead \/ SweepLook \/ SweepRemove \/ SweepAdd

DiscoveryNext ==
    \/ StartCheck \/ StartInsert \/ StartEnqueue \/ StopRequest \/ StopWrite \/ RequestLost
    \/ \E r \in Run : Approved(r) \/ Settled(r)
    \/ \E w \in Worker : PickUpDaily(w) \/ WorkerStep(w) \/ CrashWorker(w) \/ Lapse(w)
    \/ \E w \in Worker, r \in Run : PickUp(w, r)
    \/ \E r \in Run : Stalled(r) \/ KeyExpires(r) \/ Age(r)
    \/ LockExpires
    \/ SweepStep \/ SweepLost

DiscoverySpec == DiscoveryInit /\ [][DiscoveryNext]_vars

\* The queue delivers, a started handler goes on, timers fire, time passes.
DiscoveryFairness ==
    /\ \A w \in Worker :
          /\ WF_vars(WorkerStep(w))
          /\ SF_vars(\E r \in Run : PickUp(w, r))
          /\ SF_vars(TakeLock(w))
    /\ \A r \in Run : WF_vars(Stalled(r)) /\ SF_vars(KeyExpires(r)) /\ WF_vars(Age(r))
    /\ WF_vars(LockExpires)
    /\ WF_vars(SweepStep)
    /\ WF_vars(StartInsert \/ StartEnqueue \/ StopWrite)

DiscoveryFairSpec == DiscoverySpec /\ DiscoveryFairness

(***************************************************************************)
(* Properties.                                                             *)
(***************************************************************************)

\* A run offered for approval, or being applied to, has its candidates, in
\* every order of crashes, second executions and re-queued jobs
\* (discoverForRun inserts them before the last update).
ApprovalHasCandidates ==
    \A r \in Run : status[r] \in {"awaiting_approval", "applying"} => r \in found

PastTheCheck(w, r) == RunOf(w) = r /\ worker[w].pc \notin {"idle", "checking"}

\* A stopped run no execution is working on.
AtRest(r) == status[r] = "stopped" /\ \A w \in Worker : ~PastTheCheck(w, r)

\* Once a run is stopped and the executions that were past their only look
\* at the key are gone, no job left in the queue, no second execution of a
\* stalled job and no sweep that had already chosen the run revives it
\* (requestStop and the check in the processor).
StopSettles == [][\A r \in Run : AtRest(r) => AtRest(r)']_vars

\* A run is not left queued or running: its execution, the stalled check or,
\* after a lost enqueue, a busy lock or a crash, the sweep moves it on.
RunsMoveOn ==
    \A r \in Run : status[r] \in {"queued", "running"}
                    ~> status[r] \notin {"queued", "running"}

\* A run the owner stopped stays stopped (POST /hunt/stop: a job already
\* executing sees the stop flag at its next checkpoint).
StoppedStaysStopped ==
    [][\A r \in Run : status[r] = "stopped" => status'[r] = "stopped"]_vars
=============================================================================
