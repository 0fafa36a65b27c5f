--------------------------- MODULE ApplicationState ---------------------------
(****************************************************************************)
(* The state one hunt's applications live in, and what every actor shares.  *)
(*                                                                          *)
(* Postgres rows are the durable truth; BullMQ jobs in Redis execute them.  *)
(* The actors are the API (ApplicationApi), publishers of the dispatch      *)
(* outbox and the jobs they create (ApplicationDispatch), the runner's      *)
(* browser operation (ApplyWorker), and the 'failed' event handler and the  *)
(* recovery sweep (ApplicationRecovery).  ApplicationQueue composes them.   *)
(* An action is one database statement, transaction or Redis command of one *)
(* actor, so that every other actor may move in between.                    *)
(****************************************************************************)
EXTENDS Integers, FiniteSets, ApplicationPolicy

CONSTANTS
  Candidate,      \* the run's candidates (hunt_candidates rows, one per job)
  Worker,         \* concurrent job handlers over all runner processes
  NoWorker, NoDispatch,
  LaneLimit,      \* browser lanes of the user (effectiveConcurrency)
  MaxDispatches, MaxAttempts, MaxRounds, MaxFaults,  \* bounds
  SubmitPaths,    \* who may reach the provider's submit: see SubmitPath
  UserMoves,      \* what users do after approving: see UserMove
  Zombies,        \* a job lock may lapse, or Redis lose its data, while its worker runs
  InfoFails       \* applicationJobInfo may answer 'unavailable'

\* "agent": the reasoning agent's submit tool; "form": submitForm; "step": a
\* click meant as a step or a choice that the provider takes for a submission.
SubmitPath == {"agent", "form", "step"}
UserMove   == {"stop", "cancel", "retry", "flag"}
Dispatch   == Candidate \X (1..MaxDispatches)   \* application_dispatches rows
Attempt    == Candidate \X (1..MaxAttempts)     \* apply_attempts rows

ASSUME BoundAssumption ==
  /\ LaneLimit \in Nat \ {0}
  /\ MaxDispatches \in Nat \ {0} /\ MaxAttempts \in Nat \ {0}
  /\ MaxRounds \in Nat /\ MaxFaults \in Nat
ASSUME SwitchAssumption ==
  /\ SubmitPaths \subseteq SubmitPath /\ UserMoves \subseteq UserMove
  /\ Zombies \in BOOLEAN /\ InfoFails \in BOOLEAN
ASSUME CandidateAssumption == Candidate # {}
ASSUME NullAssumption == NoWorker \notin Worker /\ NoDispatch \notin Dispatch

VARIABLES
  candidate,      \* hunt_candidates.status
  stale,          \* hunt_candidates.updated_at is older than INTERRUPTED_AFTER_MS
  variant,        \* hunt_candidates.resume_variant_id is set
  application,    \* applications.status of (user, job); "none": no row
  run,            \* hunt_runs.status
  dispatches,     \* number of application_dispatches rows of a candidate
  cancelled,      \* dispatches with cancelled_at
  attempts,       \* number of apply_attempts rows of a candidate
  attempt,        \* those rows, oldest first
  flags,          \* attempts with an open attempt_flags row
  job,            \* state of the BullMQ job dispatch-<id>
  lock,           \* holder of that job's lock
  handler,        \* progress of the 'failed' event handler of a job
  worker,         \* progress and local variables of the job handlers
  publishing,     \* rows dispatchPendingApplications has still to publish
  sweep,          \* progress and local variables of the recovery sweep
  retrying,       \* retries between their checks and their transaction
  submissions,    \* history: applications the provider accepted
  confirms,       \* history: retries only the owner's confirmation allowed
  faults          \* history: crashes and transient failures so far

rows    == <<candidate, stale, variant, application, run>>
outbox  == <<dispatches, cancelled>>
trail   == <<attempts, attempt, flags>>
redis   == <<job, lock>>
actors  == <<handler, worker, publishing, sweep, retrying>>
history == <<submissions, confirms, faults>>
vars    == <<rows, outbox, trail, redis, actors, history>>
-----------------------------------------------------------------------------
CandidateStatus == {"discovered", "rejected", "queued", "tailored", "applying",
                    "applied", "needs_review"}
ActiveCandidate == {"queued", "tailored", "applying"}
AppStatus == {"none", "queued", "needs_review", "applied", "closed"}
RunStatus == {"awaiting_approval", "applying", "completed", "failed", "stopped"}
JobState  == {"none", "waiting", "delayed", "active", "completed", "failed"}
Outcome   == {"none", "confirmed", "unconfirmed", "invalid", "spam"}
Result    == {"none", "review", "dryrun", "spam", "submitted", "uncertain",
              "error", "deferred"}
\* The positions of a job handler, in the order of the code; those between
\* "claim" and "wApplication" hold the user's browser lane.
BeforeLane == {"idle", "started", "flagged", "lanes"}
InLane     == {"claim", "enter", "tailor", "check", "prepare", "acctApplication",
               "acctCandidate", "acctAttempt", "repeat", "mark", "open", "form",
               "fence", "click", "seen", "accident", "response", "outcome",
               "caught", "wAttempt", "wCandidate", "wApplication"}
AfterLane  == {"count", "finish", "complete", "failing", "delaying"}
WorkerPC   == BeforeLane \cup InLane \cup AfterLane
HandlerPC  == {"none", "attempts", "candidate", "application", "count", "finish"}
SweepPC    == {"idle", "publish", "read", "repair", "attempt", "application",
               "fail"}
Publisher  == {"api", "sweep"}

AttemptRecord == [status: AttemptStatus, fenced: BOOLEAN, error: ErrorKind,
                  epoch: 0..MaxDispatches]  \* dispatches when it was created
NoAttempt == [status |-> "none", fenced |-> FALSE, error |-> "none", epoch |-> 0]

WorkerRecord ==
  [pc: WorkerPC, disp: Dispatch \cup {NoDispatch}, att: 0..MaxAttempts,
   attempted: BOOLEAN,   \* submission guard: scope.attempted
   accepted: BOOLEAN,    \* the provider accepted a submission of this operation
   aborted: BOOLEAN,     \* the AbortController fired: a lane lease was lost
   outcome: Outcome, result: Result, rounds: 0..MaxRounds]
Idle == [pc |-> "idle", disp |-> NoDispatch, att |-> 0, attempted |-> FALSE,
         accepted |-> FALSE, aborted |-> FALSE, outcome |-> "none",
         result |-> "none", rounds |-> 0]

SweepRow == Candidate \X (0..MaxAttempts)   \* 0: no in-flight attempt joined
SweepRecord == [pc: SweepPC, live: SUBSET Candidate, rows: SUBSET SweepRow,
                row: SweepRow, repaired: BOOLEAN]
SweepIdle == [pc |-> "idle", live |-> {}, rows |-> {},
              row |-> <<CHOOSE c \in Candidate : TRUE, 0>>, repaired |-> FALSE]

RowsOK ==
  /\ candidate \in [Candidate -> CandidateStatus]
  /\ stale \in [Candidate -> BOOLEAN] /\ variant \in [Candidate -> BOOLEAN]
  /\ application \in [Candidate -> AppStatus] /\ run \in RunStatus
OutboxOK ==
  /\ dispatches \in [Candidate -> 0..MaxDispatches] /\ cancelled \subseteq Dispatch
TrailOK ==
  /\ attempts \in [Candidate -> 0..MaxAttempts]
  /\ attempt \in [Attempt -> AttemptRecord] /\ flags \subseteq Attempt
RedisOK ==
  /\ job \in [Dispatch -> JobState] /\ lock \in [Dispatch -> Worker \cup {NoWorker}]
WorkersOK == worker \in [Worker -> WorkerRecord]
ServicesOK ==
  /\ handler \in [Dispatch -> HandlerPC]
  /\ publishing \in [Publisher -> SUBSET Dispatch] /\ sweep \in SweepRecord
  /\ retrying \in [Candidate -> {"no", "safe", "confirmed"}]
HistoryOK ==
  /\ submissions \in [Candidate -> Nat] /\ confirms \in [Candidate -> Nat]
  /\ faults \in 0..MaxFaults
\* Every variable keeps the type its column, job or local variable has.
TypeOK == RowsOK /\ OutboxOK /\ TrailOK /\ RedisOK /\ WorkersOK /\ ServicesOK /\ HistoryOK

\* Discovery is over (its last write is 'awaiting_approval'); nothing is queued.
Init ==
  /\ candidate = [c \in Candidate |-> "discovered"]
  /\ stale = [c \in Candidate |-> FALSE] /\ variant = [c \in Candidate |-> FALSE]
  /\ application = [c \in Candidate |-> "none"] /\ run = "awaiting_approval"
  /\ dispatches = [c \in Candidate |-> 0] /\ cancelled = {}
  /\ attempts = [c \in Candidate |-> 0]
  /\ attempt = [a \in Attempt |-> NoAttempt] /\ flags = {}
  /\ job = [d \in Dispatch |-> "none"] /\ lock = [d \in Dispatch |-> NoWorker]
  /\ handler = [d \in Dispatch |-> "none"] /\ worker = [w \in Worker |-> Idle]
  /\ publishing = [p \in Publisher |-> {}]
  /\ sweep = SweepIdle /\ retrying = [c \in Candidate |-> "no"]
  /\ submissions = [c \in Candidate |-> 0] /\ confirms = [c \in Candidate |-> 0]
  /\ faults = 0
-----------------------------------------------------------------------------
Exists(d)       == d[2] <= dispatches[d[1]]
OpenDispatch(d) == Exists(d) /\ d \notin cancelled
\* Mutant of DispatchesOf: misses the newest row.
OlderDispatches(c) == {<<c, k>> : k \in 1..(dispatches[c] - 1)}
DispatchesOf(c) == {<<c, k>> : k \in 1..dispatches[c]}
Live(d)         == job[d] \in {"waiting", "delayed", "active"}
HasAttempt(c)   == attempts[c] > 0
Latest(c)       == attempt[<<c, attempts[c]>>]
AttemptsOf(c)   == {<<c, k>> : k \in 1..attempts[c]}
InFlight(a)     == attempt[a].status \in {"pending", "submitting"}
\* The count finishRunWhenSettled and the sweep take over the run's candidates.
Settled         == \A c \in Candidate : candidate[c] \notin ActiveCandidate

\* A publisher's database query: dispatches worth a job.  delivered_at only
\* orders and pages that query, so it is not kept.
Runnable(d) ==
  /\ OpenDispatch(d)
  /\ candidate[d[1]] = "queued"
  /\ \A a \in AttemptsOf(d[1]) : attempt[a].epoch < d[2]

\* Every status update of a candidate also sets updated_at.
SetCandidate(c, status) ==
  /\ candidate' = [candidate EXCEPT ![c] = status]
  /\ stale' = [stale EXCEPT ![c] = FALSE]
\* A crash or a transient failure: bounded by MaxFaults.
Fault == faults < MaxFaults /\ faults' = faults + 1
=============================================================================
