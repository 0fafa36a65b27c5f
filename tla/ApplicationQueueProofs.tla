----------------------- MODULE ApplicationQueueProofs -----------------------
(***************************************************************************)
(* Type correctness of ApplicationQueue, and that a claim is only ever made *)
(* with the candidate's newest dispatch, for any number of candidates,     *)
(* workers, retries and faults, with lapsed locks and a lost Redis.        *)
(*                                                                         *)
(* TypeOK alone is not inductive: an update of the candidate "of a worker" *)
(* says nothing if a busy worker may hold no dispatch.  TypeInv adds that. *)
(*                                                                         *)
(* The claim reads that its dispatch is not cancelled.  That this makes it *)
(* the newest rests on OnlyNewestOpen, and OnlyNewestOpen on Fresh: an     *)
(* approval adds a dispatch without cancelling earlier ones, and there are *)
(* none because it takes no candidate that already has an application.  The *)
(* other conjuncts of DispatchInv carry the existence of a dispatch from the *)
(* row to the publisher, the job and its worker.                           *)
(***************************************************************************)
EXTENDS ApplicationQueue, TLAPS

AssignedWork == \A w \in Worker : At(w, "idle") \/ worker[w].disp \in Dispatch
SharedOK == RowsOK /\ OutboxOK /\ TrailOK /\ RedisOK /\ ServicesOK /\ HistoryOK
TypeInv  == TypeOK /\ AssignedWork

LEMMA TypeInvParts == TypeInv <=> SharedOK /\ WorkersOK /\ AssignedWork
  BY DEF TypeInv, TypeOK, SharedOK

LEMMA IdleType == Idle \in WorkerRecord
  BY BoundAssumption DEF Idle, WorkerRecord, WorkerPC, BeforeLane, Outcome, Result

LEMMA SweepIdleType == SweepIdle \in SweepRecord
  <1>1. SweepIdle.row \in SweepRow
    BY CandidateAssumption, BoundAssumption DEF SweepIdle, SweepRow
  <1>2. SweepIdle.row = <<CHOOSE c \in Candidate : TRUE, 0>>  BY DEF SweepIdle
  <1> QED BY <1>1, <1>2 DEF SweepIdle, SweepRecord, SweepPC

LEMMA InitTypeInv == Init => TypeInv
  <1> SUFFICES ASSUME Init PROVE TypeInv  OBVIOUS
  <1>1. RowsOK /\ OutboxOK /\ TrailOK /\ RedisOK /\ HistoryOK
    BY BoundAssumption, NullAssumption
    DEF Init, RowsOK, OutboxOK, TrailOK, RedisOK, HistoryOK, CandidateStatus, AppStatus,
        RunStatus, AttemptRecord, NoAttempt, AttemptStatus, ErrorKind, JobState
  <1>2. WorkersOK /\ AssignedWork
    BY BoundAssumption
    DEF Init, WorkersOK, AssignedWork, At, WorkerRecord, Idle, WorkerPC, BeforeLane, Outcome,
        Result
  <1>3. ServicesOK
    BY SweepIdleType DEF Init, ServicesOK, HandlerPC, Publisher
  <1> QED BY <1>1, <1>2, <1>3, TypeInvParts DEF SharedOK
-----------------------------------------------------------------------------
(* What the update operators of the model preserve.                         *)

LEMMA UpdateType ==
  ASSUME WorkersOK, AssignedWork, NEW w \in Worker, NEW r \in WorkerRecord,
         r.disp \in Dispatch, worker' = [worker EXCEPT ![w] = r]
  PROVE  WorkersOK' /\ AssignedWork'
  BY DEF WorkersOK, AssignedWork, At

LEMMA GoType ==
  ASSUME WorkersOK, AssignedWork, NEW w \in Worker, ~At(w, "idle"),
         NEW pc \in WorkerPC, Go(w, pc)
  PROVE  WorkersOK' /\ AssignedWork'
  <1> DEFINE r == [worker[w] EXCEPT !.pc = pc]
  <1>1. worker[w] \in WorkerRecord /\ worker[w].disp \in Dispatch
    BY DEF WorkersOK, AssignedWork, At
  <1>2. r \in WorkerRecord /\ r.disp \in Dispatch  BY <1>1 DEF WorkerRecord
  <1>3. worker' = [worker EXCEPT ![w] = r]  BY DEF Go
  <1> QED BY <1>2, <1>3, UpdateType

LEMMA RecordType ==
  ASSUME WorkersOK, AssignedWork, NEW w \in Worker, ~At(w, "idle"),
         NEW result \in Result, Record(w, result)
  PROVE  WorkersOK' /\ AssignedWork'
  <1> DEFINE r == [Idle EXCEPT !.pc = "wAttempt", !.result = result,
                               !.disp = worker[w].disp, !.att = worker[w].att,
                               !.aborted = worker[w].aborted]
  <1>1. worker[w] \in WorkerRecord /\ worker[w].disp \in Dispatch
    BY DEF WorkersOK, AssignedWork, At
  <1>2. "wAttempt" \in WorkerPC  BY DEF WorkerPC, InLane
  <1>3. r \in WorkerRecord /\ r.disp \in Dispatch  BY <1>1, <1>2, IdleType DEF WorkerRecord
  <1>4. worker' = [worker EXCEPT ![w] = r]  BY DEF Record
  <1> QED BY <1>3, <1>4, UpdateType

LEMMA ThrowType ==
  ASSUME WorkersOK, AssignedWork, NEW w \in Worker, ~At(w, "idle"), Throw(w)
  PROVE  WorkersOK' /\ AssignedWork'
  <1> DEFINE r == [worker[w] EXCEPT !.pc = "caught", !.outcome = "none", !.rounds = 0]
  <1>1. worker[w] \in WorkerRecord /\ worker[w].disp \in Dispatch
    BY DEF WorkersOK, AssignedWork, At
  <1>2. "caught" \in WorkerPC /\ "none" \in Outcome  BY DEF WorkerPC, InLane, Outcome
  <1>3. 0 \in 0..MaxRounds  BY BoundAssumption
  <1>4. r \in WorkerRecord /\ r.disp \in Dispatch  BY <1>1, <1>2, <1>3 DEF WorkerRecord
  <1>5. worker' = [worker EXCEPT ![w] = r]  BY DEF Throw
  <1> QED BY <1>4, <1>5, UpdateType

LEMMA RestType ==
  ASSUME WorkersOK, AssignedWork, NEW w \in Worker, worker' = [worker EXCEPT ![w] = Idle]
  PROVE  WorkersOK' /\ AssignedWork'
  BY IdleType DEF WorkersOK, AssignedWork, At, Idle

LEMMA SetCandidateType ==
  ASSUME RowsOK, NEW c, NEW status \in CandidateStatus, SetCandidate(c, status),
         UNCHANGED <<variant, application, run>>
  PROVE  RowsOK'
  BY DEF RowsOK, SetCandidate

LEMMA AcceptedType ==
  ASSUME WorkersOK, NEW w \in Worker, NEW accepts \in BOOLEAN
  PROVE  Accepted(w, accepts) \in BOOLEAN
  BY DEF Accepted

LEMMA SeenType ==
  ASSUME WorkersOK, AssignedWork, NEW w \in Worker, ~At(w, "idle"), NEW pc \in WorkerPC,
         NEW accepted \in BOOLEAN,
         worker' = [worker EXCEPT ![w].pc = pc, ![w].accepted = accepted]
  PROVE  WorkersOK' /\ AssignedWork'
  <1> DEFINE r == [worker[w] EXCEPT !.pc = pc, !.accepted = accepted]
  <1>1. worker[w] \in WorkerRecord /\ worker[w].disp \in Dispatch
    BY DEF WorkersOK, AssignedWork, At
  <1>2. r \in WorkerRecord /\ r.disp \in Dispatch  BY <1>1 DEF WorkerRecord
  <1>3. worker' = [worker EXCEPT ![w] = r]  OBVIOUS
  <1> QED BY <1>2, <1>3, UpdateType

LEMMA AgainType ==
  ASSUME WorkersOK, AssignedWork, NEW w \in Worker, ~At(w, "idle"), NEW pc \in WorkerPC,
         NEW accepted \in BOOLEAN, NEW rounds \in 0..MaxRounds,
         worker' = [worker EXCEPT ![w].pc = pc, ![w].outcome = "none",
                      ![w].accepted = accepted, ![w].rounds = rounds]
  PROVE  WorkersOK' /\ AssignedWork'
  <1> DEFINE r == [worker[w] EXCEPT !.pc = pc, !.outcome = "none", !.accepted = accepted,
                                    !.rounds = rounds]
  <1>1. worker[w] \in WorkerRecord /\ worker[w].disp \in Dispatch
    BY DEF WorkersOK, AssignedWork, At
  <1>2. "none" \in Outcome  BY DEF Outcome
  <1>3. r \in WorkerRecord /\ r.disp \in Dispatch  BY <1>1, <1>2 DEF WorkerRecord
  <1>4. worker' = [worker EXCEPT ![w] = r]  OBVIOUS
  <1> QED BY <1>3, <1>4, UpdateType

LEMMA StatusTypes ==
  \A result \in Result : /\ AttemptStatusOf(result) \in AttemptStatus
                         /\ ErrorOf(result) \in ErrorKind
                         /\ CandidateStatusOf(result) \in CandidateStatus
  BY DEF Result, AttemptStatusOf, ErrorOf, CandidateStatusOf, AttemptStatus, ErrorKind,
         CandidateStatus

LEMMA ReviewType ==
  ASSUME RowsOK, NEW c, ReviewApplication(c), UNCHANGED <<candidate, stale, variant, run>>
  PROVE  RowsOK'
  BY DEF RowsOK, ReviewApplication, AppStatus

LEMMA FaultType ==
  ASSUME HistoryOK, Fault, UNCHANGED <<submissions, confirms>>
  PROVE  HistoryOK'
  BY BoundAssumption DEF HistoryOK, Fault

LEMMA ClickType ==
  ASSUME HistoryOK, NEW w, NEW accepts \in BOOLEAN, Click(w, accepts), UNCHANGED <<confirms, faults>>
  PROVE  HistoryOK'
  <1>1. submissions' = [c \in Candidate |-> IF accepts /\ c = CandOf(w) THEN submissions[c] + 1
                                            ELSE submissions[c]]
    BY DEF HistoryOK, Click
  <1>2. \A n \in Nat : n + 1 \in Nat  OBVIOUS
  <1> QED BY <1>1, <1>2 DEF HistoryOK

LEMMA InsertAttemptType ==
  ASSUME TrailOK, OutboxOK, NEW c \in Candidate, attempts[c] < MaxAttempts,
         NEW status \in AttemptStatus, InsertAttempt(c, status), UNCHANGED flags
  PROVE  TrailOK'
  <1>1. attempts[c] + 1 \in 0..MaxAttempts  BY BoundAssumption DEF TrailOK
  <1>2. [status |-> status, fenced |-> FALSE, error |-> "none", epoch |-> dispatches[c]]
          \in AttemptRecord
    BY DEF OutboxOK, AttemptRecord, ErrorKind
  <1> QED BY <1>1, <1>2 DEF TrailOK, InsertAttempt

LEMMA Unchanged ==
  /\ RowsOK /\ UNCHANGED rows => RowsOK'
  /\ OutboxOK /\ UNCHANGED outbox => OutboxOK'
  /\ TrailOK /\ UNCHANGED trail => TrailOK'
  /\ RedisOK /\ UNCHANGED redis => RedisOK'
  /\ ServicesOK /\ UNCHANGED <<handler, publishing, sweep, retrying>> => ServicesOK'
  /\ HistoryOK /\ UNCHANGED history => HistoryOK'
  BY DEF RowsOK, OutboxOK, TrailOK, RedisOK, ServicesOK, HistoryOK, rows, outbox, trail,
         redis, history

LEMMA Framed ==
  ASSUME SharedOK, UNCHANGED <<rows, outbox, trail, redis, handler, publishing, sweep,
                               retrying, history>>
  PROVE  SharedOK'
  BY Unchanged DEF SharedOK
-----------------------------------------------------------------------------
(* Job handlers: the processor, then the browser operation.                 *)

LEMMA JobTypes ==
  ASSUME TypeInv, NEW w \in Worker, JobStep(w)
  PROVE  TypeInv'
  <1>0. SharedOK /\ WorkersOK /\ AssignedWork  BY TypeInvParts
  <1>1. CASE ReadCandidate(w)
    <2>1. WorkersOK' /\ AssignedWork'
      BY <1>1, <1>0, GoType
      DEF ReadCandidate, WorkersOK, AssignedWork, At, WorkerRecord, WorkerPC, BeforeLane, InLane, AfterLane
    <2>2. SharedOK'  BY <1>1, <1>0, Framed DEF ReadCandidate
    <2> QED BY <2>1, <2>2 DEF TypeInv, TypeOK, SharedOK
  <1>2. CASE AcquireLanes(w)
    <2>1. WorkersOK' /\ AssignedWork'
      BY <1>2, <1>0, GoType
      DEF AcquireLanes, WorkersOK, AssignedWork, At, WorkerRecord, WorkerPC, BeforeLane, InLane, AfterLane
    <2>2. SharedOK'  BY <1>2, <1>0, Framed DEF AcquireLanes
    <2> QED BY <2>1, <2>2 DEF TypeInv, TypeOK, SharedOK
  <1>3. CASE Claim(w)
    <2>1. WorkersOK' /\ AssignedWork'
      BY <1>3, <1>0, GoType
      DEF Claim, WorkersOK, AssignedWork, At, WorkerRecord, WorkerPC, BeforeLane, InLane, AfterLane
    <2>2. SharedOK'
      BY <1>3, <1>0, Unchanged, SetCandidateType
      DEF Claim, SharedOK, CandidateStatus, RowsOK
    <2> QED BY <2>1, <2>2 DEF TypeInv, TypeOK, SharedOK
  <1>4. CASE CountActive(w)
    <2>1. WorkersOK' /\ AssignedWork'
      BY <1>4, <1>0, GoType
      DEF CountActive, WorkersOK, AssignedWork, At, WorkerRecord, WorkerPC, BeforeLane, InLane, AfterLane
    <2>2. SharedOK'  BY <1>4, <1>0, Framed DEF CountActive
    <2> QED BY <2>1, <2>2 DEF TypeInv, TypeOK, SharedOK
  <1>5. CASE FinishRun(w)
    <2>1. WorkersOK' /\ AssignedWork'
      BY <1>5, <1>0, GoType
      DEF FinishRun, WorkersOK, AssignedWork, At, WorkerRecord, WorkerPC, BeforeLane, InLane, AfterLane
    <2>2. SharedOK'
      BY <1>5, <1>0, Unchanged
      DEF FinishRun, SharedOK, RowsOK, RunStatus
    <2> QED BY <2>1, <2>2 DEF TypeInv, TypeOK, SharedOK
  <1>6. CASE EndJob(w)
    <2>1. WorkersOK' /\ AssignedWork'
      BY <1>6, <1>0, RestType DEF EndJob
    <2>2. PICK state \in {"completed", "failed", "delayed"} :
            job' = [job EXCEPT ![worker[w].disp] = IF Owns(w, worker[w].disp) THEN state ELSE @]
      BY <1>6 DEF EndJob, At
    <2>3. RedisOK'
      BY <1>6, <1>0, <2>2 DEF EndJob, SharedOK, RedisOK, JobState
    <2>4. ServicesOK'
      BY <1>6, <1>0 DEF EndJob, SharedOK, ServicesOK, HandlerPC
    <2>5. SharedOK'
      BY <1>6, <1>0, <2>3, <2>4, Unchanged DEF EndJob, SharedOK
    <2> QED BY <2>1, <2>5 DEF TypeInv, TypeOK, SharedOK
  <1> QED
    BY <1>1, <1>2, <1>3, <1>4, <1>5, <1>6 DEF JobStep

LEMMA ApplyTypes ==
  ASSUME TypeInv, NEW w \in Worker, ApplyStep(w)
  PROVE  TypeInv'
  <1>0. SharedOK /\ WorkersOK /\ AssignedWork  BY TypeInvParts
  <1>1. CASE Enter(w)
    <2>1. WorkersOK' /\ AssignedWork'
      BY <1>1, <1>0, GoType
      DEF Enter, WorkersOK, AssignedWork, At, WorkerRecord, WorkerPC, BeforeLane, InLane, AfterLane
    <2>2. SharedOK'  BY <1>1, <1>0, Framed DEF Enter
    <2> QED BY <2>1, <2>2 DEF TypeInv, TypeOK, SharedOK
  <1>2. CASE Tailor(w)
    <2>1. WorkersOK' /\ AssignedWork'
      BY <1>2, <1>0, GoType
      DEF Tailor, WorkersOK, AssignedWork, At, WorkerRecord, WorkerPC, BeforeLane, InLane, AfterLane
    <2>2. SharedOK'
      BY <1>2, <1>0, Unchanged, SetCandidateType
      DEF Tailor, SharedOK, RowsOK, CandidateStatus, SetCandidate
    <2> QED BY <2>1, <2>2 DEF TypeInv, TypeOK, SharedOK
  <1>3. CASE CheckCandidate(w)
    <2>1. WorkersOK' /\ AssignedWork'
      BY <1>3, <1>0, GoType
      DEF CheckCandidate, WorkersOK, AssignedWork, At, WorkerRecord, WorkerPC, BeforeLane, InLane, AfterLane
    <2>2. SharedOK'  BY <1>3, <1>0, Framed DEF CheckCandidate
    <2> QED BY <2>1, <2>2 DEF TypeInv, TypeOK, SharedOK
  <1>4. CASE Repeat(w)
    <2>1. WorkersOK' /\ AssignedWork'
      BY <1>4, <1>0, GoType
      DEF Repeat, WorkersOK, AssignedWork, At, WorkerRecord, WorkerPC, BeforeLane, InLane, AfterLane
    <2>2. SharedOK'
      BY <1>4, <1>0, Unchanged, SetCandidateType
      DEF Repeat, SharedOK, CandidateStatus
    <2> QED BY <2>1, <2>2 DEF TypeInv, TypeOK, SharedOK
  <1>5. CASE ParkApplication(w)
    <2>1. WorkersOK' /\ AssignedWork'
      BY <1>5, <1>0, GoType
      DEF ParkApplication, WorkersOK, AssignedWork, At, WorkerRecord, WorkerPC, BeforeLane, InLane, AfterLane
    <2>2. SharedOK'
      BY <1>5, <1>0, Unchanged
      DEF ParkApplication, SharedOK, RowsOK, AppStatus
    <2> QED BY <2>1, <2>2 DEF TypeInv, TypeOK, SharedOK
  <1>6. CASE ParkCandidate(w)
    <2>1. WorkersOK' /\ AssignedWork'
      BY <1>6, <1>0, GoType
      DEF ParkCandidate, WorkersOK, AssignedWork, At, WorkerRecord, WorkerPC, BeforeLane, InLane, AfterLane
    <2>2. SharedOK'
      BY <1>6, <1>0, Unchanged, SetCandidateType
      DEF ParkCandidate, SharedOK, CandidateStatus
    <2> QED BY <2>1, <2>2 DEF TypeInv, TypeOK, SharedOK
  <1>7. CASE ParkAttempt(w)
    <2>1. WorkersOK' /\ AssignedWork'
      BY <1>7, <1>0, GoType
      DEF ParkAttempt, WorkersOK, AssignedWork, At, WorkerRecord, WorkerPC, BeforeLane, InLane, AfterLane
    <2>2. SharedOK'
      BY <1>7, <1>0, Unchanged, InsertAttemptType
      DEF ParkAttempt, SharedOK, AttemptStatus, At, AssignedWork, CandOf, Dispatch
    <2> QED BY <2>1, <2>2 DEF TypeInv, TypeOK, SharedOK
  <1>8. CASE Mark(w)
    <2>1. WorkersOK' /\ AssignedWork'
      BY <1>8, <1>0, GoType
      DEF Mark, WorkersOK, AssignedWork, At, WorkerRecord, WorkerPC, BeforeLane, InLane, AfterLane
    <2>2. SharedOK'
      BY <1>8, <1>0, Unchanged, SetCandidateType
      DEF Mark, SharedOK, CandidateStatus
    <2> QED BY <2>1, <2>2 DEF TypeInv, TypeOK, SharedOK
  <1>9. CASE Open(w)
    <2>1. WorkersOK' /\ AssignedWork'
      BY <1>9, <1>0, GoType, ThrowType, RecordType
      DEF Open, WorkersOK, AssignedWork, At, WorkerRecord, WorkerPC, BeforeLane, InLane, AfterLane, Result
    <2>2. SharedOK'
      BY <1>9, <1>0, Unchanged, FaultType
      DEF Open, SharedOK, history
    <2> QED BY <2>1, <2>2 DEF TypeInv, TypeOK, SharedOK
  <1>10. CASE FillForm(w)
    <2>1. WorkersOK' /\ AssignedWork'
      BY <1>10, <1>0, ThrowType, RecordType
      DEF FillForm, At, Result
    <2>2. SharedOK'  BY <1>10, <1>0, Framed DEF FillForm
    <2> QED BY <2>1, <2>2 DEF TypeInv, TypeOK, SharedOK
  <1>11. CASE AgentFence(w)
    <2>1. WorkersOK' /\ AssignedWork'
      BY <1>11, <1>0, GoType
      DEF AgentFence, WorkersOK, AssignedWork, At, WorkerRecord, WorkerPC, BeforeLane, InLane, AfterLane
    <2>2. SharedOK'  BY <1>11, <1>0, Framed DEF AgentFence
    <2> QED BY <2>1, <2>2 DEF TypeInv, TypeOK, SharedOK
  <1>12. CASE WriteFence(w)
    <2>1. WorkersOK' /\ AssignedWork'
      BY <1>12, <1>0
      DEF WriteFence, WorkersOK, AssignedWork, At, CandOf, WorkerRecord, WorkerPC, InLane, Outcome
    <2>2. SharedOK'
      BY <1>12, <1>0, Unchanged
      DEF WriteFence, SharedOK, TrailOK, AttemptRecord, AttemptStatus
    <2> QED BY <2>1, <2>2 DEF TypeInv, TypeOK, SharedOK
  <1>13. CASE AgentClick(w)
    <2>1. PICK accepts \in BOOLEAN :
            /\ Click(w, accepts)
            /\ worker' = [worker EXCEPT ![w].pc = "seen", ![w].accepted = Accepted(w, accepts)]
      BY <1>13 DEF AgentClick
    <2>2. WorkersOK' /\ AssignedWork'
      BY <1>13, <1>0, <2>1, AcceptedType, SeenType DEF AgentClick, At, WorkerPC, InLane
    <2>3. SharedOK'
      BY <1>13, <1>0, <2>1, Unchanged, ClickType DEF AgentClick, SharedOK
    <2> QED BY <2>2, <2>3 DEF TypeInv, TypeOK, SharedOK
  <1>14. CASE AgentReport(w)
    <2>1. WorkersOK' /\ AssignedWork'
      BY <1>14, <1>0, ThrowType
      DEF AgentReport, WorkersOK, AssignedWork, At, CandOf, WorkerRecord, WorkerPC, InLane, Outcome
    <2>2. SharedOK'  BY <1>14, <1>0, Framed DEF AgentReport
    <2> QED BY <2>1, <2>2 DEF TypeInv, TypeOK, SharedOK
  <1>15. CASE StepClick(w)
    <2>1. worker' = [worker EXCEPT ![w].pc = "accident", ![w].accepted = TRUE]
      BY <1>15 DEF StepClick
    <2>2. WorkersOK' /\ AssignedWork'
      BY <1>15, <1>0, <2>1, SeenType DEF StepClick, At, WorkerPC, InLane
    <2>3. SharedOK'
      BY <1>15, <1>0, Unchanged, ClickType DEF StepClick, SharedOK
    <2> QED BY <2>2, <2>3 DEF TypeInv, TypeOK, SharedOK
  <1>16. CASE NoticeStep(w)
    <2>1. WorkersOK' /\ AssignedWork'
      BY <1>16, <1>0, GoType, ThrowType
      DEF NoticeStep, WorkersOK, AssignedWork, At, CandOf, WorkerRecord, WorkerPC, InLane, Outcome
    <2>2. SharedOK'  BY <1>16, <1>0, Framed DEF NoticeStep
    <2> QED BY <2>1, <2>2 DEF TypeInv, TypeOK, SharedOK
  <1>17. CASE FormClick(w)
    <2> DEFINE rounds == IF At(w, "outcome") THEN worker[w].rounds + 1 ELSE worker[w].rounds
    <2>1. PICK accepts \in BOOLEAN :
            /\ Click(w, accepts)
            /\ worker' = [worker EXCEPT ![w].pc = "response", ![w].outcome = "none",
                            ![w].accepted = Accepted(w, accepts), ![w].rounds = rounds]
      BY <1>17, <1>0 DEF FormClick, WorkersOK
    <2>2. rounds \in 0..MaxRounds
      BY <1>17, <1>0, BoundAssumption DEF FormClick, At, WorkersOK, WorkerRecord
    <2>3. ~At(w, "idle") /\ "response" \in WorkerPC
      BY <1>17 DEF FormClick, At, WorkerPC, InLane
    <2> HIDE DEF rounds
    <2>4. WorkersOK' /\ AssignedWork'
      BY <1>0, <2>1, <2>2, <2>3, AcceptedType, AgainType
    <2>5. SharedOK'
      BY <1>17, <1>0, <2>1, Unchanged, ClickType DEF FormClick, SharedOK
    <2> QED BY <2>4, <2>5 DEF TypeInv, TypeOK, SharedOK
  <1>18. CASE FormResponse(w)
    <2>1. WorkersOK' /\ AssignedWork'
      BY <1>18, <1>0, ThrowType
      DEF FormResponse, WorkersOK, AssignedWork, At, CandOf, WorkerRecord, WorkerPC, InLane, Outcome
    <2>2. SharedOK'  BY <1>18, <1>0, Framed DEF FormResponse
    <2> QED BY <2>1, <2>2 DEF TypeInv, TypeOK, SharedOK
  <1>19. CASE Settle(w)
    <2>1. WorkersOK' /\ AssignedWork'
      BY <1>19, <1>0, ThrowType, RecordType
      DEF Settle, At, Result
    <2>2. SharedOK'  BY <1>19, <1>0, Framed DEF Settle
    <2> QED BY <2>1, <2>2 DEF TypeInv, TypeOK, SharedOK
  <1>20. CASE Caught(w)
    <2>1. WorkersOK' /\ AssignedWork'
      BY <1>20, <1>0, RecordType
      DEF Caught, At, Result
    <2>2. SharedOK'  BY <1>20, <1>0, Framed DEF Caught
    <2> QED BY <2>1, <2>2 DEF TypeInv, TypeOK, SharedOK
  <1>21. CASE WriteAttempt(w)
    <2>1. WorkersOK' /\ AssignedWork'
      BY <1>21, <1>0, GoType
      DEF WriteAttempt, WorkersOK, AssignedWork, At, WorkerRecord, WorkerPC, InLane
    <2>2. worker[w].result \in Result  BY <1>0 DEF WorkersOK, WorkerRecord
    <2>3. TrailOK'
      BY <1>21, <1>0, <2>2, StatusTypes DEF WriteAttempt, SharedOK, TrailOK, AttemptRecord
    <2>4. SharedOK'
      BY <1>21, <1>0, <2>3, Unchanged DEF WriteAttempt, SharedOK
    <2> QED BY <2>1, <2>4 DEF TypeInv, TypeOK, SharedOK
  <1>22. CASE WriteCandidate(w)
    <2>1. WorkersOK' /\ AssignedWork'
      BY <1>22, <1>0, GoType
      DEF WriteCandidate, WorkersOK, AssignedWork, At, WorkerRecord, WorkerPC, BeforeLane, InLane, AfterLane
    <2>2. SharedOK'
      BY <1>22, <1>0, Unchanged, SetCandidateType
      DEF WriteCandidate, SharedOK, CandidateStatus, CandidateStatusOf
    <2> QED BY <2>1, <2>2 DEF TypeInv, TypeOK, SharedOK
  <1>23. CASE WriteApplication(w)
    <2>1. WorkersOK' /\ AssignedWork'
      BY <1>23, <1>0, GoType
      DEF WriteApplication, WorkersOK, AssignedWork, At, WorkerRecord, WorkerPC, BeforeLane, InLane, AfterLane
    <2>2. SharedOK'
      BY <1>23, <1>0, Unchanged
      DEF WriteApplication, SharedOK, RowsOK, AppStatus
    <2> QED BY <2>1, <2>2 DEF TypeInv, TypeOK, SharedOK
  <1>24. CASE Prepare(w)
    <2>1. CandOf(w) \in Candidate /\ attempts[CandOf(w)] \in 0..MaxAttempts
      BY <1>24, <1>0 DEF Prepare, At, AssignedWork, CandOf, Dispatch, SharedOK, TrailOK
    <2>2. WorkersOK' /\ AssignedWork'
      BY <1>24, <1>0, <2>1, GoType, BoundAssumption
      DEF Prepare, WorkersOK, AssignedWork, At, CandOf, WorkerRecord, WorkerPC, InLane, AfterLane
    <2>3. TrailOK'
      BY <1>24, <1>0, <2>1, Unchanged, InsertAttemptType
      DEF Prepare, SharedOK, AttemptStatus
    <2>4. SharedOK'  BY <1>24, <1>0, <2>3, Unchanged DEF Prepare, SharedOK
    <2> QED BY <2>2, <2>4 DEF TypeInv, TypeOK, SharedOK
  <1> QED
    BY <1>1, <1>2, <1>3, <1>4, <1>5, <1>6, <1>7, <1>8, <1>9, <1>10, <1>11, <1>12, <1>13, <1>14,
       <1>15, <1>16, <1>17, <1>18, <1>19, <1>20, <1>21, <1>22, <1>23, <1>24 DEF ApplyStep
-----------------------------------------------------------------------------
(* Users.                                                                   *)

LEMMA WorkersUnchanged ==
  ASSUME WorkersOK, AssignedWork, UNCHANGED worker
  PROVE  WorkersOK' /\ AssignedWork'
  BY DEF WorkersOK, AssignedWork, At

LEMMA PublishAfterType ==
  ASSUME ServicesOK, PublishAfter, UNCHANGED <<handler, sweep>>,
         retrying' \in [Candidate -> {"no", "safe", "confirmed"}]
  PROVE  ServicesOK'
  BY DEF ServicesOK, PublishAfter, Publisher

LEMMA ApiTypes ==
  ASSUME TypeInv, ApiNext
  PROVE  TypeInv'
  <1>0. SharedOK /\ WorkersOK /\ AssignedWork  BY TypeInvParts
  <1>1. ASSUME NEW queued \in SUBSET Candidate, NEW unavailable \in SUBSET Candidate,
               Approve(queued, unavailable)
        PROVE  TypeInv'
    <2>1. RowsOK'
      BY <1>0, <1>1 DEF Approve, SharedOK, RowsOK, CandidateStatus, AppStatus, RunStatus
    <2>2. OutboxOK'
      BY <1>0, <1>1, BoundAssumption DEF Approve, SharedOK, OutboxOK
    <2>3. ServicesOK'
      BY <1>0, <1>1, PublishAfterType DEF Approve, SharedOK, ServicesOK
    <2>4. TrailOK' /\ RedisOK' /\ HistoryOK'
      BY <1>0, <1>1, Unchanged DEF Approve, SharedOK
    <2>5. WorkersOK' /\ AssignedWork'  BY <1>0, <1>1, WorkersUnchanged DEF Approve
    <2> QED BY <2>1, <2>2, <2>3, <2>4, <2>5 DEF TypeInv, TypeOK
  <1>2. CASE Stop
    <2>1. RowsOK'  BY <1>0, <1>2 DEF Stop, SharedOK, RowsOK, RunStatus
    <2>2. SharedOK'  BY <1>0, <1>2, <2>1, Unchanged DEF Stop, SharedOK, actors
    <2>3. WorkersOK' /\ AssignedWork'
      BY <1>0, <1>2, WorkersUnchanged DEF Stop, actors
    <2> QED BY <2>2, <2>3 DEF TypeInv, TypeOK, SharedOK
  <1>3. ASSUME NEW c \in Candidate, Cancel(c)  PROVE TypeInv'
    <2>1. RowsOK'
      BY <1>0, <1>3 DEF Cancel, SharedOK, RowsOK, SetCandidate, CandidateStatus, AppStatus
    <2>2. OutboxOK'
      BY <1>0, <1>3, BoundAssumption DEF Cancel, SharedOK, OutboxOK, DispatchesOf, Dispatch
    <2>3. RedisOK'
      BY <1>0, <1>3 DEF Cancel, SharedOK, RedisOK, RemoveJobs, JobState
    <2>4. SharedOK'
      BY <1>0, <1>3, <2>1, <2>2, <2>3, Unchanged DEF Cancel, SharedOK, actors
    <2>5. WorkersOK' /\ AssignedWork'
      BY <1>0, <1>3, WorkersUnchanged DEF Cancel, actors
    <2> QED BY <2>4, <2>5 DEF TypeInv, TypeOK, SharedOK
  <1>4. ASSUME NEW c \in Candidate, CancelRollback(c)  PROVE TypeInv'
    <2>1. RedisOK'
      BY <1>0, <1>4 DEF CancelRollback, SharedOK, RedisOK, RemoveJobs, JobState
    <2>2. HistoryOK'  BY <1>0, <1>4, FaultType DEF CancelRollback, SharedOK
    <2>3. SharedOK'
      BY <1>0, <1>4, <2>1, <2>2, Unchanged DEF CancelRollback, SharedOK, actors
    <2>4. WorkersOK' /\ AssignedWork'
      BY <1>0, <1>4, WorkersUnchanged DEF CancelRollback, actors
    <2> QED BY <2>3, <2>4 DEF TypeInv, TypeOK, SharedOK
  <1>5. ASSUME NEW c \in Candidate, Flag(c)  PROVE TypeInv'
    <2>1. attempts[c] \in 1..MaxAttempts
      BY <1>0, <1>5, BoundAssumption DEF Flag, HasAttempt, SharedOK, TrailOK
    <2>2. TrailOK'  BY <1>0, <1>5, <2>1 DEF Flag, SharedOK, TrailOK, Attempt
    <2>3. SharedOK'  BY <1>0, <1>5, <2>2, Unchanged DEF Flag, SharedOK, actors
    <2>4. WorkersOK' /\ AssignedWork'
      BY <1>0, <1>5, WorkersUnchanged DEF Flag, actors
    <2> QED BY <2>3, <2>4 DEF TypeInv, TypeOK, SharedOK
  <1>6. ASSUME NEW c \in Candidate, NEW confirmed \in BOOLEAN, RetryCheck(c, confirmed)
        PROVE  TypeInv'
    <2>1. ServicesOK'  BY <1>0, <1>6 DEF RetryCheck, SharedOK, ServicesOK
    <2>2. SharedOK'  BY <1>0, <1>6, <2>1, Unchanged DEF RetryCheck, SharedOK
    <2>3. WorkersOK' /\ AssignedWork'  BY <1>0, <1>6, WorkersUnchanged DEF RetryCheck
    <2> QED BY <2>2, <2>3 DEF TypeInv, TypeOK, SharedOK
  <1>7. ASSUME NEW c \in Candidate, RetryCommit(c)  PROVE TypeInv'
    <2>1. RowsOK'
      BY <1>0, <1>7
      DEF RetryCommit, SharedOK, RowsOK, SetCandidate, CandidateStatus, AppStatus, RunStatus
    <2>2. OutboxOK'
      BY <1>0, <1>7, BoundAssumption
      DEF RetryCommit, SharedOK, OutboxOK, DispatchesOf, Dispatch
    <2>3. ServicesOK'
      BY <1>0, <1>7, PublishAfterType DEF RetryCommit, SharedOK, ServicesOK
    <2>4. HistoryOK'  BY <1>0, <1>7 DEF RetryCommit, SharedOK, HistoryOK
    <2>5. TrailOK' /\ RedisOK'  BY <1>0, <1>7, Unchanged DEF RetryCommit, SharedOK
    <2>6. WorkersOK' /\ AssignedWork'  BY <1>0, <1>7, WorkersUnchanged DEF RetryCommit
    <2> QED BY <2>1, <2>2, <2>3, <2>4, <2>5, <2>6 DEF TypeInv, TypeOK
  <1>8. ASSUME NEW c \in Candidate, RetryAbandon(c)  PROVE TypeInv'
    <2>1. ServicesOK'  BY <1>0, <1>8 DEF RetryAbandon, SharedOK, ServicesOK
    <2>2. SharedOK'  BY <1>0, <1>8, <2>1, Unchanged DEF RetryAbandon, SharedOK
    <2>3. WorkersOK' /\ AssignedWork'  BY <1>0, <1>8, WorkersUnchanged DEF RetryAbandon
    <2> QED BY <2>2, <2>3 DEF TypeInv, TypeOK, SharedOK
  <1>9. ASSUME NEW a \in Attempt, ResolveFlag(a)  PROVE TypeInv'
    <2>1. TrailOK'  BY <1>0, <1>9 DEF ResolveFlag, SharedOK, TrailOK
    <2>2. SharedOK'  BY <1>0, <1>9, <2>1, Unchanged DEF ResolveFlag, SharedOK, actors
    <2>3. WorkersOK' /\ AssignedWork'
      BY <1>0, <1>9, WorkersUnchanged DEF ResolveFlag, actors
    <2> QED BY <2>2, <2>3 DEF TypeInv, TypeOK, SharedOK
  <1> QED
    BY <1>1, <1>2, <1>3, <1>4, <1>5, <1>6, <1>7, <1>8, <1>9 DEF ApiNext
-----------------------------------------------------------------------------
(* Publishers, BullMQ and crashes.                                          *)

LEMMA DispatchTypes ==
  ASSUME TypeInv, DispatchNext
  PROVE  TypeInv'
  <1>0. SharedOK /\ WorkersOK /\ AssignedWork  BY TypeInvParts
  <1>1. ASSUME NEW p \in Publisher, NEW d \in Dispatch, PublishAdd(p, d)  PROVE TypeInv'
    <2>1. RedisOK'  BY <1>0, <1>1 DEF PublishAdd, SharedOK, RedisOK, JobState
    <2>2. ServicesOK'  BY <1>0, <1>1 DEF PublishAdd, SharedOK, ServicesOK
    <2>3. SharedOK'  BY <1>0, <1>1, <2>1, <2>2, Unchanged DEF PublishAdd, SharedOK
    <2>4. WorkersOK' /\ AssignedWork'  BY <1>0, <1>1, WorkersUnchanged DEF PublishAdd
    <2> QED BY <2>3, <2>4 DEF TypeInv, TypeOK, SharedOK
  <1>2. ASSUME NEW p \in Publisher, PublishGiveUp(p)  PROVE TypeInv'
    <2>1. ServicesOK'
      BY <1>0, <1>2, SweepIdleType DEF PublishGiveUp, SharedOK, ServicesOK
    <2>2. HistoryOK'  BY <1>0, <1>2, FaultType DEF PublishGiveUp, SharedOK
    <2>3. SharedOK'  BY <1>0, <1>2, <2>1, <2>2, Unchanged DEF PublishGiveUp, SharedOK
    <2>4. WorkersOK' /\ AssignedWork'  BY <1>0, <1>2, WorkersUnchanged DEF PublishGiveUp
    <2> QED BY <2>3, <2>4 DEF TypeInv, TypeOK, SharedOK
  <1>3. ASSUME NEW w \in Worker, NEW d \in Dispatch, PickUp(w, d)  PROVE TypeInv'
    <2> DEFINE pc == IF flags = {} THEN "started" ELSE "flagged"
               r  == [Idle EXCEPT !.disp = d, !.pc = pc]
    <2>1. pc \in WorkerPC  BY DEF WorkerPC, BeforeLane
    <2>2. worker' = [worker EXCEPT ![w] = r]  BY <1>3 DEF PickUp
    <2> HIDE DEF pc
    <2>3. r \in WorkerRecord /\ r.disp \in Dispatch  BY <2>1, IdleType DEF WorkerRecord
    <2> HIDE DEF r
    <2>4. WorkersOK' /\ AssignedWork'  BY <1>0, <2>2, <2>3, UpdateType
    <2>5. RedisOK'  BY <1>0, <1>3 DEF PickUp, SharedOK, RedisOK, JobState
    <2>6. SharedOK'  BY <1>0, <1>3, <2>5, Unchanged DEF PickUp, SharedOK
    <2> QED BY <2>4, <2>6 DEF TypeInv, TypeOK, SharedOK
  <1>4. ASSUME NEW w \in Worker, LoseLease(w)  PROVE TypeInv'
    <2> DEFINE r == [worker[w] EXCEPT !.aborted = TRUE]
    <2>1. r \in WorkerRecord /\ r.disp \in Dispatch
      BY <1>0, <1>4 DEF LoseLease, WorkersOK, AssignedWork, At, InLane, WorkerRecord
    <2>2. worker' = [worker EXCEPT ![w] = r]  BY <1>4 DEF LoseLease
    <2>3. WorkersOK' /\ AssignedWork'  BY <1>0, <2>1, <2>2, UpdateType
    <2>4. HistoryOK'  BY <1>0, <1>4, FaultType DEF LoseLease, SharedOK
    <2>5. SharedOK'  BY <1>0, <1>4, <2>4, Unchanged DEF LoseLease, SharedOK
    <2> QED BY <2>3, <2>5 DEF TypeInv, TypeOK, SharedOK
  <1>5. ASSUME NEW w \in Worker, Crash(w)  PROVE TypeInv'
    <2>1. WorkersOK' /\ AssignedWork'  BY <1>0, <1>5, RestType DEF Crash
    <2>2. HistoryOK'  BY <1>0, <1>5, FaultType DEF Crash, SharedOK
    <2>3. SharedOK'  BY <1>0, <1>5, <2>2, Unchanged DEF Crash, SharedOK
    <2> QED BY <2>1, <2>3 DEF TypeInv, TypeOK, SharedOK
  <1>6. ASSUME NEW d \in Dispatch, LockExpires(d)  PROVE TypeInv'
    <2>1. RedisOK'  BY <1>0, <1>6 DEF LockExpires, SharedOK, RedisOK
    <2>2. SharedOK'  BY <1>0, <1>6, <2>1, Unchanged DEF LockExpires, SharedOK, actors
    <2>3. WorkersOK' /\ AssignedWork'
      BY <1>0, <1>6, WorkersUnchanged DEF LockExpires, actors
    <2> QED BY <2>2, <2>3 DEF TypeInv, TypeOK, SharedOK
  <1>7. ASSUME NEW d \in Dispatch, LockLapses(d)  PROVE TypeInv'
    <2>1. RedisOK'  BY <1>0, <1>7 DEF LockLapses, SharedOK, RedisOK
    <2>2. HistoryOK'  BY <1>0, <1>7, FaultType DEF LockLapses, SharedOK
    <2>3. SharedOK'
      BY <1>0, <1>7, <2>1, <2>2, Unchanged DEF LockLapses, SharedOK, actors
    <2>4. WorkersOK' /\ AssignedWork'
      BY <1>0, <1>7, WorkersUnchanged DEF LockLapses, actors
    <2> QED BY <2>3, <2>4 DEF TypeInv, TypeOK, SharedOK
  <1>8. ASSUME NEW d \in Dispatch, Stalled(d)  PROVE TypeInv'
    <2>1. RedisOK'  BY <1>0, <1>8 DEF Stalled, SharedOK, RedisOK, JobState
    <2>2. ServicesOK'  BY <1>0, <1>8 DEF Stalled, SharedOK, ServicesOK, HandlerPC
    <2>3. SharedOK'  BY <1>0, <1>8, <2>1, <2>2, Unchanged DEF Stalled, SharedOK
    <2>4. WorkersOK' /\ AssignedWork'  BY <1>0, <1>8, WorkersUnchanged DEF Stalled
    <2> QED BY <2>3, <2>4 DEF TypeInv, TypeOK, SharedOK
  <1>9. CASE RedisFlush
    <2>1. RedisOK'  BY <1>0, <1>9 DEF RedisFlush, SharedOK, RedisOK, JobState
    <2>2. HistoryOK'  BY <1>0, <1>9, FaultType DEF RedisFlush, SharedOK
    <2>3. SharedOK'
      BY <1>0, <1>9, <2>1, <2>2, Unchanged DEF RedisFlush, SharedOK, actors
    <2>4. WorkersOK' /\ AssignedWork'
      BY <1>0, <1>9, WorkersUnchanged DEF RedisFlush, actors
    <2> QED BY <2>3, <2>4 DEF TypeInv, TypeOK, SharedOK
  <1> QED
    BY <1>1, <1>2, <1>3, <1>4, <1>5, <1>6, <1>7, <1>8, <1>9, JobTypes
    DEF DispatchNext, PublishStep
-----------------------------------------------------------------------------
(* The 'failed' handler and the recovery sweep.                             *)

LEMMA HandlerTypes ==
  ASSUME TypeInv, NEW d \in Dispatch, HandlerStep(d) \/ HandlerLost(d)
  PROVE  TypeInv'
  <1>0. SharedOK /\ WorkersOK /\ AssignedWork  BY TypeInvParts
  <1>1. ServicesOK'
    BY <1>0
    DEF HandlerStep, HandleAttempts, HandleCandidate, HandleApplication, HandleCount,
        HandleFinish, HandlerLost, SharedOK, ServicesOK, HandlerPC
  <1>2. WorkersOK' /\ AssignedWork'
    BY <1>0, WorkersUnchanged
    DEF HandlerStep, HandleAttempts, HandleCandidate, HandleApplication, HandleCount,
        HandleFinish, HandlerLost
  <1>3. CASE HandleAttempts(d)
    <2>1. TrailOK'
      BY <1>0, <1>3
      DEF HandleAttempts, SharedOK, TrailOK, Unfinish, AttemptRecord, AttemptStatus, ErrorKind
    <2> QED BY <1>0, <1>1, <1>2, <1>3, <2>1, Unchanged
            DEF HandleAttempts, SharedOK, TypeInv, TypeOK
  <1>4. CASE HandleCandidate(d)
    <2>1. RowsOK'
      BY <1>0, <1>4
      DEF HandleCandidate, SharedOK, RowsOK, SetCandidate, CandidateStatus
    <2> QED BY <1>0, <1>1, <1>2, <1>4, <2>1, Unchanged
            DEF HandleCandidate, SharedOK, TypeInv, TypeOK
  <1>5. CASE HandleApplication(d)
    BY <1>0, <1>1, <1>2, <1>5, ReviewType, Unchanged
    DEF HandleApplication, SharedOK, TypeInv, TypeOK
  <1>6. CASE HandleCount(d)
    BY <1>0, <1>1, <1>2, <1>6, Unchanged DEF HandleCount, SharedOK, TypeInv, TypeOK
  <1>7. CASE HandleFinish(d)
    <2>1. RowsOK'  BY <1>0, <1>7 DEF HandleFinish, SharedOK, RowsOK, RunStatus
    <2> QED BY <1>0, <1>1, <1>2, <1>7, <2>1, Unchanged
            DEF HandleFinish, SharedOK, TypeInv, TypeOK
  <1>8. CASE HandlerLost(d)
    BY <1>0, <1>1, <1>2, <1>8, FaultType, Unchanged
    DEF HandlerLost, SharedOK, TypeInv, TypeOK
  <1> QED BY <1>3, <1>4, <1>5, <1>6, <1>7, <1>8 DEF HandlerStep

LEMMA StaleRowsType == TrailOK => StaleRows \subseteq SweepRow
  <1> SUFFICES ASSUME TrailOK, NEW row \in StaleRows PROVE row \in SweepRow  OBVIOUS
  <1>1. \A c \in Candidate : {a[2] : a \in {b \in AttemptsOf(c) : InFlight(b)}}
                               \subseteq 0..MaxAttempts
    BY BoundAssumption DEF TrailOK, AttemptsOf
  <1>2. PICK c \in Candidate :
          row \in {c} \X (IF {a[2] : a \in {b \in AttemptsOf(c) : InFlight(b)}} = {}
                          THEN {0} ELSE {a[2] : a \in {b \in AttemptsOf(c) : InFlight(b)}})
    BY DEF StaleRows
  <1> QED BY <1>1, <1>2, BoundAssumption DEF SweepRow

LEMMA SweepTypes ==
  ASSUME TypeInv, SweepStep \/ SweepLost
  PROVE  TypeInv'
  <1>0. SharedOK /\ WorkersOK /\ AssignedWork  BY TypeInvParts
  <1>1. WorkersOK' /\ AssignedWork'
    BY <1>0, WorkersUnchanged
    DEF SweepStep, SweepStart, SweepLive, SweepRead, SweepCandidate, SweepAttempt,
        SweepApplication, SweepSettle, SweepFail, SweepLost
  <1>2. sweep \in SweepRecord  BY <1>0 DEF SharedOK, ServicesOK
  <1>3. CASE SweepStart
    <2>1. sweep' \in SweepRecord  BY <1>2, <1>3 DEF SweepStart, SweepRecord, SweepPC
    <2>2. ServicesOK'  BY <1>0, <1>3, <2>1 DEF SweepStart, SharedOK, ServicesOK
    <2> QED BY <1>0, <1>1, <1>3, <2>2, Unchanged DEF SweepStart, SharedOK, TypeInv, TypeOK
  <1>4. CASE SweepLive
    <2>1. LivingCandidates \subseteq Candidate  BY DEF LivingCandidates, Dispatch
    <2>2. sweep' \in SweepRecord
      BY <1>2, <1>4, <2>1, SweepIdleType DEF SweepLive, SweepRecord, SweepPC
    <2>3. ServicesOK'  BY <1>0, <1>4, <2>2 DEF SweepLive, SharedOK, ServicesOK
    <2> QED BY <1>0, <1>1, <1>4, <2>3, Unchanged DEF SweepLive, SharedOK, TypeInv, TypeOK
  <1>5. CASE SweepRead
    <2>1. StaleRows \subseteq SweepRow  BY <1>0, StaleRowsType DEF SharedOK
    <2>2. sweep' \in SweepRecord
      BY <1>5, <2>1, SweepIdleType DEF SweepRead, SweepRecord, SweepPC
    <2>3. ServicesOK'  BY <1>0, <1>5, <2>2 DEF SweepRead, SharedOK, ServicesOK
    <2> QED BY <1>0, <1>1, <1>5, <2>3, Unchanged DEF SweepRead, SharedOK, TypeInv, TypeOK
  <1>6. CASE SweepCandidate
    <2>1. sweep' \in SweepRecord
      BY <1>2, <1>6 DEF SweepCandidate, SweepRecord, SweepPC
    <2>2. ServicesOK'  BY <1>0, <1>6, <2>1 DEF SweepCandidate, SharedOK, ServicesOK
    <2>3. RowsOK'
      BY <1>0, <1>6
      DEF SweepCandidate, SharedOK, RowsOK, SetCandidate, CandidateStatus
    <2> QED BY <1>0, <1>1, <1>6, <2>2, <2>3, Unchanged
            DEF SweepCandidate, SharedOK, TypeInv, TypeOK
  <1>7. CASE SweepAttempt
    <2>1. sweep' \in SweepRecord  BY <1>2, <1>7 DEF SweepAttempt, SweepRecord, SweepPC
    <2>2. ServicesOK'  BY <1>0, <1>7, <2>1 DEF SweepAttempt, SharedOK, ServicesOK
    <2>3. TrailOK'
      <3> DEFINE r == [attempt[sweep.row] EXCEPT !.status = "unknown", !.error = "interrupted"]
      <3>1. TrailOK  BY <1>0 DEF SharedOK
      <3>2. attempt' = [attempt EXCEPT ![sweep.row] = r]  BY <1>7 DEF SweepAttempt
      <3>3. sweep.row \in Attempt => r \in AttemptRecord
        BY <3>1 DEF TrailOK, AttemptRecord, AttemptStatus, ErrorKind
      <3>4. attempt' \in [Attempt -> AttemptRecord]  BY <3>1, <3>2, <3>3 DEF TrailOK
      <3> QED BY <3>1, <3>4, <1>7 DEF TrailOK, SweepAttempt
    <2> QED BY <1>0, <1>1, <1>7, <2>2, <2>3, Unchanged
            DEF SweepAttempt, SharedOK, TypeInv, TypeOK
  <1>8. CASE SweepApplication
    <2>1. sweep' \in SweepRecord
      BY <1>2, <1>8, SweepIdleType DEF SweepApplication, SweepRecord, SweepPC
    <2>2. ServicesOK'  BY <1>0, <1>8, <2>1 DEF SweepApplication, SharedOK, ServicesOK
    <2> QED BY <1>0, <1>1, <1>8, <2>2, ReviewType, Unchanged
            DEF SweepApplication, SharedOK, TypeInv, TypeOK
  <1>9. CASE SweepSettle
    <2>1. sweep' \in SweepRecord
      BY <1>9, SweepIdleType DEF SweepSettle, SweepRecord, SweepPC
    <2>2. ServicesOK'  BY <1>0, <1>9, <2>1 DEF SweepSettle, SharedOK, ServicesOK
    <2> QED BY <1>0, <1>1, <1>9, <2>2, Unchanged DEF SweepSettle, SharedOK, TypeInv, TypeOK
  <1>10. CASE SweepFail
    <2>1. ServicesOK'
      BY <1>0, <1>10, SweepIdleType DEF SweepFail, SharedOK, ServicesOK
    <2>2. RowsOK'  BY <1>0, <1>10 DEF SweepFail, SharedOK, RowsOK, RunStatus
    <2> QED BY <1>0, <1>1, <1>10, <2>1, <2>2, Unchanged
            DEF SweepFail, SharedOK, TypeInv, TypeOK
  <1>11. CASE SweepLost
    <2>1. ServicesOK'
      BY <1>0, <1>11, SweepIdleType DEF SweepLost, SharedOK, ServicesOK
    <2> QED BY <1>0, <1>1, <1>11, <2>1, FaultType, Unchanged
            DEF SweepLost, SharedOK, TypeInv, TypeOK
  <1> QED
    BY <1>3, <1>4, <1>5, <1>6, <1>7, <1>8, <1>9, <1>10, <1>11 DEF SweepStep

LEMMA AgeTypes ==
  ASSUME TypeInv, NEW c \in Candidate, Age(c)
  PROVE  TypeInv'
  <1>0. SharedOK /\ WorkersOK /\ AssignedWork  BY TypeInvParts
  <1>1. RowsOK'  BY <1>0 DEF Age, SharedOK, RowsOK
  <1>2. WorkersOK' /\ AssignedWork'  BY <1>0, WorkersUnchanged DEF Age, actors
  <1> QED BY <1>0, <1>1, <1>2, Unchanged DEF Age, actors, SharedOK, TypeInv, TypeOK

LEMMA NextTypes ==
  ASSUME TypeInv, [Next]_vars
  PROVE  TypeInv'
  <1>1. CASE UNCHANGED vars
    <2>1. SharedOK /\ WorkersOK /\ AssignedWork  BY TypeInvParts
    <2>2. SharedOK'  BY <1>1, <2>1, Framed DEF vars, actors
    <2>3. WorkersOK' /\ AssignedWork'  BY <1>1, <2>1, WorkersUnchanged DEF vars, actors
    <2> QED BY <2>2, <2>3 DEF TypeInv, TypeOK, SharedOK
  <1> QED
    BY <1>1, ApiTypes, DispatchTypes, ApplyTypes, HandlerTypes, SweepTypes, AgeTypes
    DEF Next, ApplyNext, RecoveryNext

\* Type correctness, for any number of candidates, workers, rows and faults:
\* whatever interleaving, every row, job and local variable keeps its type.
THEOREM TypesAreKept == Spec => []TypeOK
  <1>1. TypeInv => TypeOK  BY DEF TypeInv
  <1> QED BY InitTypeInv, NextTypes, <1>1, PTL DEF Spec

(***************************************************************************)
(* Dispatches and claims.                                                  *)
(***************************************************************************)

Fresh            == \A c \in Candidate : application[c] = "none" => dispatches[c] = 0
PublishedExist   == \A p \in Publisher : \A d \in publishing[p] : Exists(d)
JobsExist        == \A d \in Dispatch : job[d] # "none" => Exists(d)
AssignmentsExist == \A w \in Worker : At(w, "idle") \/ Exists(worker[w].disp)
DispatchInv == Fresh /\ PublishedExist /\ JobsExist /\ AssignmentsExist /\ OnlyNewestOpen

LEMMA InitDispatchInv == Init => DispatchInv
  BY DEF Init, DispatchInv, Fresh, PublishedExist, JobsExist, AssignmentsExist, At, Idle,
         OnlyNewestOpen, DispatchesOf

\* A step that adds no dispatch keeps the invariant, if what it publishes, makes
\* a job of or hands to a worker exists.
LEMMA NoNewDispatch ==
  ASSUME DispatchInv, UNCHANGED dispatches, cancelled \subseteq cancelled',
         \A c \in Candidate : application'[c] = "none" => application[c] = "none",
         \A p \in Publisher : \A d \in publishing'[p] : d \in publishing[p] \/ Exists(d),
         \A d \in Dispatch : job'[d] # "none" => job[d] # "none" \/ Exists(d),
         \A w \in Worker : \/ worker'[w].pc = "idle"
                           \/ Exists(worker'[w].disp)
                           \/ worker[w].pc # "idle" /\ worker'[w].disp = worker[w].disp
  PROVE  DispatchInv'
  <1>1. \A d : Exists(d) <=> Exists(d)'  BY DEF Exists
  <1>2. Fresh'  BY DEF DispatchInv, Fresh
  <1>3. PublishedExist'  BY <1>1 DEF DispatchInv, PublishedExist
  <1>4. JobsExist'  BY <1>1 DEF DispatchInv, JobsExist
  <1>5. AssignmentsExist'  BY <1>1 DEF DispatchInv, AssignmentsExist, At
  <1>6. OnlyNewestOpen'
    BY <1>1 DEF DispatchInv, OnlyNewestOpen, OpenDispatch, DispatchesOf, Newest
  <1> QED BY <1>2, <1>3, <1>4, <1>5, <1>6 DEF DispatchInv

\* A busy worker keeps its dispatch until it is idle, and touches no other worker.
Kept == \A v \in Worker : \/ worker'[v].pc = "idle"
                          \/ worker[v].pc # "idle" /\ worker'[v].disp = worker[v].disp
                          \/ worker'[v] = worker[v]

LEMMA UpdateKeeps ==
  ASSUME WorkersOK, NEW w \in Worker, ~At(w, "idle"), NEW r, r.disp = worker[w].disp,
         worker' = [worker EXCEPT ![w] = r]
  PROVE  Kept
  BY DEF WorkersOK, At, Kept

LEMMA MovesKeep ==
  ASSUME WorkersOK, NEW w \in Worker, ~At(w, "idle")
  PROVE  /\ \A pc : Go(w, pc) => Kept
         /\ \A result : Record(w, result) => Kept
         /\ Throw(w) => Kept
  <1>0. worker[w] \in WorkerRecord  BY DEF WorkersOK
  <1>1. ASSUME NEW pc, Go(w, pc)  PROVE Kept
    <2>1. [worker[w] EXCEPT !.pc = pc].disp = worker[w].disp  BY <1>0 DEF WorkerRecord
    <2> QED BY <1>1, <2>1, UpdateKeeps DEF Go
  <1>2. ASSUME NEW result, Record(w, result)  PROVE Kept
    BY <1>2, UpdateKeeps DEF Record, Idle
  <1>3. ASSUME Throw(w)  PROVE Kept
    <2> DEFINE r == [worker[w] EXCEPT !.pc = "caught", !.outcome = "none", !.rounds = 0]
    <2>1. r.disp = worker[w].disp  BY <1>0 DEF WorkerRecord
    <2>2. worker' = [worker EXCEPT ![w] = r]  BY <1>3 DEF Throw
    <2> QED BY <2>1, <2>2, UpdateKeeps
  <1> QED BY <1>1, <1>2, <1>3

LEMMA JobStepsKeep == ASSUME WorkersOK, NEW w \in Worker, JobStep(w)  PROVE Kept
  BY DEF JobStep, ReadCandidate, AcquireLanes, Claim, CountActive, FinishRun, EndJob, Go, At,
         Idle, WorkersOK, WorkerRecord, Kept

LEMMA ApplyStepsKeep == ASSUME WorkersOK, NEW w \in Worker, ApplyStep(w)  PROVE Kept
  <1>1. CASE \/ Enter(w) \/ Tailor(w) \/ CheckCandidate(w) \/ Repeat(w) \/ ParkApplication(w)
             \/ ParkCandidate(w) \/ ParkAttempt(w) \/ Mark(w) \/ AgentFence(w)
             \/ WriteAttempt(w) \/ WriteCandidate(w) \/ WriteApplication(w)
    BY <1>1, MovesKeep
    DEF Enter, Tailor, CheckCandidate, Repeat, ParkApplication, ParkCandidate, ParkAttempt,
        Mark, AgentFence, WriteAttempt, WriteCandidate, WriteApplication, At
  <1>2. CASE Open(w) \/ FillForm(w) \/ Settle(w) \/ Caught(w)
    BY <1>2, MovesKeep DEF Open, FillForm, Settle, Caught, At
  <1>3. CASE Prepare(w)
    BY <1>3, MovesKeep DEF Prepare, At, Kept, WorkersOK, WorkerRecord
  <1>4. CASE WriteFence(w)
    BY <1>4 DEF WriteFence, At, Kept, WorkersOK, WorkerRecord
  <1>5. CASE AgentClick(w)
    <2>1. PICK accepted : worker' = [worker EXCEPT ![w].pc = "seen", ![w].accepted = accepted]
      BY <1>5 DEF AgentClick
    <2> DEFINE r == [worker[w] EXCEPT !.pc = "seen", !.accepted = accepted]
    <2>2. worker[w] \in WorkerRecord  BY DEF WorkersOK
    <2>3. r.disp = worker[w].disp  BY <2>2 DEF WorkerRecord
    <2>4. worker' = [worker EXCEPT ![w] = r]  BY <2>1
    <2>5. ~At(w, "idle")  BY <1>5 DEF AgentClick, At
    <2>6. worker'[w].disp = worker[w].disp /\ \A v \in Worker \ {w} : worker'[v] = worker[v]
      BY <2>3, <2>4 DEF WorkersOK
    <2> QED BY <2>5, <2>6 DEF Kept, At
  <1>6. ASSUME worker' = [worker EXCEPT ![w].pc = "outcome", ![w].outcome = "confirmed"],
               ~At(w, "idle")
        PROVE  Kept
    BY <1>6 DEF At, Kept, WorkersOK, WorkerRecord
  <1>7. CASE AgentReport(w)
    BY <1>7, <1>6, MovesKeep DEF AgentReport, At
  <1>8. CASE StepClick(w)
    BY <1>8 DEF StepClick, At, Kept, WorkersOK, WorkerRecord
  <1>9. CASE NoticeStep(w)
    <2>1. CASE worker' = [worker EXCEPT ![w].pc = "caught", ![w].attempted = TRUE]
      BY <1>9, <2>1 DEF NoticeStep, At, Kept, WorkersOK, WorkerRecord
    <2> QED BY <1>9, <1>6, <2>1, MovesKeep DEF NoticeStep, At
  <1>10. CASE FormClick(w)
    BY <1>10 DEF FormClick, At, Kept, WorkersOK, WorkerRecord
  <1>11. CASE FormResponse(w)
    BY <1>11, MovesKeep DEF FormResponse, At, Kept, WorkersOK, WorkerRecord
  <1> QED
    BY <1>1, <1>2, <1>3, <1>4, <1>5, <1>7, <1>8, <1>9, <1>10, <1>11 DEF ApplyStep

\* These steps publish nothing and add no row.
LEMMA WorkerStepsFrame ==
  ASSUME TypeInv, DispatchInv, NEW w \in Worker, JobStep(w) \/ ApplyStep(w)
  PROVE  DispatchInv'
  <1>1. WorkersOK /\ RowsOK /\ RedisOK  BY TypeInvParts DEF SharedOK
  <1>2. Kept  BY <1>1, JobStepsKeep, ApplyStepsKeep
  <1>3. UNCHANGED <<outbox, publishing>> /\ (UNCHANGED job \/ EndJob(w))
    BY DEF JobStep, ReadCandidate, AcquireLanes, Claim, CountActive, FinishRun, EndJob,
        ApplyStep, Enter, Tailor, CheckCandidate, Prepare, Repeat, ParkApplication,
        ParkCandidate, ParkAttempt, Mark, Open, FillForm, AgentFence, WriteFence, AgentClick,
        AgentReport, StepClick, NoticeStep, FormClick, FormResponse, Settle, Caught,
        WriteAttempt, WriteCandidate, WriteApplication, redis
  <1>4. \A d \in Dispatch : job'[d] # "none" => job[d] # "none" \/ Exists(d)
    <2>1. CASE EndJob(w)  BY <1>1, <2>1 DEF EndJob, RedisOK, Owns
    <2> QED BY <1>3, <2>1
  <1>5. UNCHANGED application \/ ParkApplication(w) \/ WriteApplication(w)
    BY DEF JobStep, ReadCandidate, AcquireLanes, Claim, CountActive, FinishRun, EndJob,
        ApplyStep, Enter, Tailor, CheckCandidate, Prepare, Repeat,
        ParkCandidate, ParkAttempt, Mark, Open, FillForm, AgentFence, WriteFence, AgentClick,
        AgentReport, StepClick, NoticeStep, FormClick, FormResponse, Settle, Caught,
        WriteAttempt, WriteCandidate, rows
  <1>6. \A c \in Candidate : application'[c] = "none" => application[c] = "none"
    BY <1>1, <1>5 DEF ParkApplication, WriteApplication, RowsOK
  <1>7. \A v \in Worker : \/ worker'[v].pc = "idle" \/ Exists(worker'[v].disp)
                          \/ worker[v].pc # "idle" /\ worker'[v].disp = worker[v].disp
    BY <1>2 DEF Kept, DispatchInv, AssignmentsExist, At
  <1> QED BY <1>3, <1>4, <1>6, <1>7, NoNewDispatch DEF outbox

LEMMA DispatchFrame ==
  ASSUME TypeInv, DispatchInv, DispatchNext
  PROVE  DispatchInv'
  <1>0. WorkersOK /\ RowsOK /\ RedisOK /\ ServicesOK  BY TypeInvParts DEF SharedOK
  <1>1. ASSUME NEW p \in Publisher, NEW d \in Dispatch, PublishAdd(p, d)  PROVE DispatchInv'
    <2>1. \A e \in Dispatch : job'[e] # "none" => job[e] # "none" \/ Exists(e)
      BY <1>0, <1>1 DEF PublishAdd, RedisOK, DispatchInv, PublishedExist
    <2>2. \A q \in Publisher : \A e \in publishing'[q] : e \in publishing[q] \/ Exists(e)
      BY <1>0, <1>1 DEF PublishAdd, ServicesOK
    <2> QED
      BY <1>1, <2>1, <2>2, NoNewDispatch
      DEF PublishAdd, rows, outbox, DispatchInv, AssignmentsExist, At
  <1>2. ASSUME NEW p \in Publisher, PublishGiveUp(p)  PROVE DispatchInv'
    <2>1. \A q \in Publisher : \A e \in publishing'[q] : e \in publishing[q] \/ Exists(e)
      BY <1>0, <1>2 DEF PublishGiveUp, ServicesOK
    <2> QED
      BY <1>2, <2>1, NoNewDispatch
      DEF PublishGiveUp, rows, outbox, redis, DispatchInv, AssignmentsExist, At
  <1>3. ASSUME NEW w \in Worker, NEW d \in Dispatch, PickUp(w, d)  PROVE DispatchInv'
    <2>1. Exists(d)  BY <1>3 DEF PickUp, DispatchInv, JobsExist
    <2>2. \A e \in Dispatch : job'[e] # "none" => job[e] # "none" \/ Exists(e)
      BY <1>0, <1>3, <2>1 DEF PickUp, RedisOK
    <2>3. worker'[w].disp = d /\ \A v \in Worker \ {w} : worker'[v] = worker[v]
      BY <1>0, <1>3 DEF PickUp, WorkersOK, Idle
    <2>4. \A v \in Worker : \/ worker'[v].pc = "idle" \/ Exists(worker'[v].disp)
                            \/ worker[v].pc # "idle" /\ worker'[v].disp = worker[v].disp
      BY <2>1, <2>3 DEF DispatchInv, AssignmentsExist, At
    <2> QED BY <1>3, <2>2, <2>4, NoNewDispatch DEF PickUp, rows, outbox
  <1>4. ASSUME NEW w \in Worker, LoseLease(w) \/ Crash(w)  PROVE DispatchInv'
    <2>1. \A v \in Worker : \/ worker'[v].pc = "idle"
                            \/ worker'[v].pc = worker[v].pc /\ worker'[v].disp = worker[v].disp
      BY <1>0, <1>4 DEF LoseLease, Crash, Idle, WorkersOK, WorkerRecord
    <2> QED
      BY <1>4, <2>1, NoNewDispatch
      DEF LoseLease, Crash, rows, outbox, redis, DispatchInv, AssignmentsExist, At
  <1>5. ASSUME NEW d \in Dispatch, LockExpires(d) \/ LockLapses(d) \/ Stalled(d)
        PROVE  DispatchInv'
    <2>1. \A e \in Dispatch : job'[e] # "none" => job[e] # "none"
      BY <1>0, <1>5 DEF LockExpires, LockLapses, Stalled, RedisOK
    <2> QED
      BY <1>5, <2>1, NoNewDispatch
      DEF LockExpires, LockLapses, Stalled, rows, outbox, actors, DispatchInv,
          AssignmentsExist, At
  <1>6. CASE RedisFlush
    BY <1>6, NoNewDispatch
    DEF RedisFlush, rows, outbox, actors, DispatchInv, AssignmentsExist, At
  <1> QED
    BY <1>1, <1>2, <1>3, <1>4, <1>5, <1>6, WorkerStepsFrame DEF DispatchNext, PublishStep

LEMMA RecoveryFrame ==
  ASSUME TypeInv, DispatchInv, RecoveryNext
  PROVE  DispatchInv'
  <1>1. RowsOK /\ ServicesOK  BY TypeInvParts DEF SharedOK
  <1>2. UNCHANGED <<dispatches, cancelled, job, worker>>
    BY DEF RecoveryNext, HandlerStep, HandleAttempts, HandleCandidate, HandleApplication,
           HandleCount, HandleFinish, HandlerLost, Age, SweepStep, SweepStart, SweepLive,
           SweepRead, SweepCandidate, SweepAttempt, SweepApplication, SweepSettle, SweepFail,
           SweepLost, outbox, redis, actors
  <1>3. UNCHANGED publishing \/ SweepStart
    BY DEF RecoveryNext, HandlerStep, HandleAttempts, HandleCandidate, HandleApplication,
           HandleCount, HandleFinish, HandlerLost, Age, SweepStep, SweepLive,
           SweepRead, SweepCandidate, SweepAttempt, SweepApplication, SweepSettle, SweepFail,
           SweepLost, actors
  <1>4. \A p \in Publisher : \A d \in publishing'[p] : d \in publishing[p] \/ Exists(d)
    BY <1>1, <1>3 DEF SweepStart, ServicesOK, Runnable, OpenDispatch
  <1>5. UNCHANGED application \/ \E c \in Candidate : ReviewApplication(c)
    BY <1>1
    DEF RecoveryNext, HandlerStep, HandleAttempts, HandleCandidate, HandleApplication,
        HandleCount, HandleFinish, HandlerLost, Age, SweepStep, SweepStart, SweepLive,
        SweepRead, SweepCandidate, SweepAttempt, SweepApplication, SweepSettle, SweepFail,
        SweepLost, rows, Dispatch, ServicesOK, SweepRecord, SweepRow
  <1>6. \A c \in Candidate : application'[c] = "none" => application[c] = "none"
    BY <1>1, <1>5 DEF ReviewApplication, RowsOK
  <1> QED
    BY <1>2, <1>4, <1>6, NoNewDispatch DEF DispatchInv, AssignmentsExist, At
-----------------------------------------------------------------------------
(* The API is what adds dispatches.                                         *)

LEMMA DispatchesGrow ==
  ASSUME OutboxOK, OutboxOK', \A c \in Candidate : dispatches[c] <= dispatches'[c]
  PROVE  \A d \in Dispatch : Exists(d) => Exists(d)'
  BY DEF OutboxOK, Exists, Dispatch

LEMMA PublishAfterExists ==
  ASSUME ServicesOK, PublishAfter, PublishedExist, \A d \in Dispatch : Exists(d) => Exists(d)'
  PROVE  PublishedExist'
  <1>1. ASSUME NEW p \in Publisher, NEW d \in publishing'[p]  PROVE Exists(d)'
    <2>1. d \in publishing[p] \/ (d \in Dispatch /\ Runnable(d)')
      BY <1>1 DEF PublishAfter, ServicesOK
    <2>2. CASE d \in publishing[p]
      BY <1>1, <2>2 DEF ServicesOK, PublishedExist
    <2>3. CASE Runnable(d)'  BY <2>3 DEF Runnable, OpenDispatch
    <2> QED BY <2>1, <2>2, <2>3
  <1> QED BY <1>1 DEF PublishedExist

LEMMA ApproveKeeps ==
  ASSUME TypeInv, DispatchInv, NEW queued \in SUBSET Candidate,
         NEW unavailable \in SUBSET Candidate, Approve(queued, unavailable)
  PROVE  DispatchInv'
  <1>1. RowsOK /\ OutboxOK /\ ServicesOK /\ OutboxOK'
    BY ApiTypes, TypeInvParts DEF ApiNext, TypeInv, TypeOK
  <1>2. \A c \in queued : dispatches[c] = 0 /\ dispatches'[c] = 1
    BY <1>1 DEF Approve, DispatchInv, Fresh, OutboxOK
  <1>3. \A c \in Candidate \ queued : dispatches'[c] = dispatches[c]
    BY <1>1 DEF Approve, OutboxOK
  <1>4. \A d \in Dispatch : Exists(d) => Exists(d)'
    BY <1>1, <1>2, <1>3, DispatchesGrow DEF OutboxOK
  <1>5. Fresh'
    BY <1>1, <1>3 DEF Approve, DispatchInv, Fresh, RowsOK
  <1>6. PublishedExist'
    BY <1>1, <1>4, PublishAfterExists DEF Approve, DispatchInv
  <1>7. JobsExist'  BY <1>4 DEF Approve, redis, DispatchInv, JobsExist
  <1>8. AssignmentsExist'
    BY <1>4 DEF Approve, DispatchInv, AssignmentsExist, At, TypeInv, AssignedWork
  <1>9. OnlyNewestOpen'
    <2>1. ASSUME NEW c \in Candidate, NEW d \in DispatchesOf(c)', OpenDispatch(d)'
          PROVE  d = Newest(c)'
      <3>1. CASE c \in queued
        BY <1>2, <2>1, <3>1 DEF DispatchesOf, Newest
      <3>2. CASE c \notin queued
        <4>1. d \in DispatchesOf(c) /\ OpenDispatch(d)
          BY <1>3, <2>1, <3>2 DEF DispatchesOf, OpenDispatch, Exists, Approve
        <4> QED BY <1>3, <3>2, <4>1 DEF DispatchInv, OnlyNewestOpen, Newest
      <3> QED BY <3>1, <3>2
    <2> QED BY <2>1 DEF OnlyNewestOpen
  <1> QED BY <1>5, <1>6, <1>7, <1>8, <1>9 DEF DispatchInv

LEMMA RetryKeeps ==
  ASSUME TypeInv, DispatchInv, NEW c \in Candidate, RetryCommit(c)
  PROVE  DispatchInv'
  <1>1. RowsOK /\ OutboxOK /\ ServicesOK /\ OutboxOK'
    BY ApiTypes, TypeInvParts DEF ApiNext, TypeInv, TypeOK
  <1>2. dispatches' = [dispatches EXCEPT ![c] = @ + 1]  BY DEF RetryCommit
  <1>3. \A d \in Dispatch : Exists(d) => Exists(d)'
    BY <1>1, <1>2, DispatchesGrow DEF OutboxOK
  <1>4. Fresh'
    BY <1>1, <1>2 DEF RetryCommit, DispatchInv, Fresh, RowsOK, OutboxOK
  <1>5. PublishedExist'
    BY <1>1, <1>3, PublishAfterExists DEF RetryCommit, DispatchInv
  <1>6. JobsExist'  BY <1>3 DEF RetryCommit, redis, DispatchInv, JobsExist
  <1>7. AssignmentsExist'
    BY <1>3 DEF RetryCommit, DispatchInv, AssignmentsExist, At, TypeInv, AssignedWork
  <1>8. OnlyNewestOpen'
    <2>1. ASSUME NEW e \in Candidate, NEW d \in DispatchesOf(e)', OpenDispatch(d)'
          PROVE  d = Newest(e)'
      <3>1. CASE e = c
        <4>1. PICK k \in 1..(dispatches[c] + 1) : d = <<c, k>>
          BY <1>1, <1>2, <2>1, <3>1 DEF DispatchesOf, OutboxOK
        <4>2. k \notin 1..dispatches[c]
          BY <2>1, <4>1 DEF OpenDispatch, RetryCommit, DispatchesOf
        <4>3. k = dispatches[c] + 1  BY <1>1, <4>1, <4>2 DEF OutboxOK
        <4> QED BY <1>1, <1>2, <3>1, <4>1, <4>3 DEF Newest, OutboxOK
      <3>2. CASE e # c
        <4>1. d \in DispatchesOf(e) /\ OpenDispatch(d)
          BY <1>1, <1>2, <2>1, <3>2
          DEF DispatchesOf, OpenDispatch, Exists, RetryCommit, OutboxOK
        <4> QED BY <1>1, <1>2, <3>2, <4>1 DEF DispatchInv, OnlyNewestOpen, Newest, OutboxOK
      <3> QED BY <3>1, <3>2
    <2> QED BY <2>1 DEF OnlyNewestOpen
  <1> QED BY <1>4, <1>5, <1>6, <1>7, <1>8 DEF DispatchInv

LEMMA ApiKeeps ==
  ASSUME TypeInv, DispatchInv, ApiNext
  PROVE  DispatchInv'
  <1>0. RowsOK /\ RedisOK  BY TypeInvParts DEF SharedOK
  <1>1. ASSUME NEW c \in Candidate, Cancel(c) \/ CancelRollback(c)  PROVE DispatchInv'
    <2>1. \A d \in Dispatch : job'[d] # "none" => job[d] # "none"
      BY <1>0, <1>1 DEF Cancel, CancelRollback, RemoveJobs, RedisOK
    <2>2. \A e \in Candidate : application'[e] = "none" => application[e] = "none"
      BY <1>0, <1>1 DEF Cancel, CancelRollback, RowsOK, rows
    <2> QED
      BY <1>1, <2>1, <2>2, NoNewDispatch
      DEF Cancel, CancelRollback, outbox, actors, DispatchInv, AssignmentsExist, At
  <1>2. ASSUME Stop \/ (\E c \in Candidate : Flag(c) \/ RetryAbandon(c))
               \/ (\E c \in Candidate, confirmed \in BOOLEAN : RetryCheck(c, confirmed))
               \/ (\E a \in Attempt : ResolveFlag(a))
        PROVE  DispatchInv'
    <2>1. UNCHANGED <<dispatches, cancelled, application, job, publishing, worker>>
      BY <1>2 DEF Stop, Flag, RetryAbandon, RetryCheck, ResolveFlag, rows, outbox, redis, actors
    <2> QED BY <2>1, NoNewDispatch DEF DispatchInv, AssignmentsExist, At
  <1> QED BY <1>1, <1>2, ApproveKeeps, RetryKeeps DEF ApiNext

-----------------------------------------------------------------------------

LEMMA NextKeeps == TypeInv /\ DispatchInv /\ [Next]_vars => DispatchInv'
  <1> SUFFICES ASSUME TypeInv, DispatchInv, [Next]_vars  PROVE DispatchInv'
    OBVIOUS
  <1>1. CASE UNCHANGED vars
    BY <1>1, NoNewDispatch
    DEF vars, rows, outbox, redis, actors, DispatchInv, AssignmentsExist, At
  <1>2. CASE ApplyNext  BY <1>2, WorkerStepsFrame DEF ApplyNext
  <1> QED BY <1>1, <1>2, ApiKeeps, DispatchFrame, RecoveryFrame DEF Next

LEMMA DispatchInvariant == Spec => [](TypeInv /\ DispatchInv)
  <1>1. Init => TypeInv /\ DispatchInv  BY InitTypeInv, InitDispatchInv
  <1>2. TypeInv /\ DispatchInv /\ [Next]_vars => (TypeInv /\ DispatchInv)'
    BY NextTypes, NextKeeps
  <1> QED BY <1>1, <1>2, PTL DEF Spec

\* Of a candidate's dispatches only the newest can be open, whatever was
\* approved, cancelled and retried, in whatever order (applications/actions.ts:62,
\* application-queue.ts:226-240).
THEOREM OnlyNewestIsOpen == Spec => []OnlyNewestOpen
  BY DispatchInvariant, PTL DEF DispatchInv

-----------------------------------------------------------------------------
(* Who can take a worker from its claim into its operation.                 *)

LEMMA OneWorkerMoves ==
  ASSUME WorkersOK, NEW v \in Worker, NEW w \in Worker \ {v}, JobStep(v) \/ ApplyStep(v)
  PROVE  worker'[w] = worker[w]
  <1>1. \A pc : Go(v, pc) => worker'[w] = worker[w]  BY DEF Go, WorkersOK
  <1>2. \A result : Record(v, result) => worker'[w] = worker[w]  BY DEF Record, WorkersOK
  <1>3. Throw(v) => worker'[w] = worker[w]  BY Zenon DEF Throw, WorkersOK
  <1>4. CASE JobStep(v)
    BY <1>1, <1>4
    DEF JobStep, ReadCandidate, AcquireLanes, Claim, CountActive, FinishRun, EndJob, WorkersOK
  <1>5. CASE ApplyStep(v)
    <2>1. CASE \/ Enter(v) \/ Tailor(v) \/ CheckCandidate(v) \/ Repeat(v)
               \/ ParkApplication(v) \/ ParkCandidate(v) \/ ParkAttempt(v) \/ Mark(v)
               \/ Open(v) \/ FillForm(v) \/ AgentFence(v) \/ Settle(v) \/ Caught(v)
               \/ WriteAttempt(v) \/ WriteCandidate(v) \/ WriteApplication(v)
      BY <1>1, <1>2, <1>3, <2>1
      DEF Enter, Tailor, CheckCandidate, Repeat, ParkApplication, ParkCandidate, ParkAttempt,
          Mark, Open, FillForm, AgentFence, Settle, Caught, WriteAttempt, WriteCandidate,
          WriteApplication
    <2>2. CASE Prepare(v)  BY <1>1, <2>2 DEF Prepare, WorkersOK
    <2>3. CASE WriteFence(v)  BY <2>3, Zenon DEF WriteFence, WorkersOK
    <2>4. CASE AgentClick(v)  BY <2>4, Zenon DEF AgentClick, WorkersOK
    <2>5. CASE AgentReport(v)  BY <1>3, <2>5 DEF AgentReport, WorkersOK
    <2>6. CASE StepClick(v)  BY <2>6, Zenon DEF StepClick, WorkersOK
    <2>7. CASE NoticeStep(v)
      <3>1. worker' = [worker EXCEPT ![v].pc = "caught", ![v].attempted = TRUE]
              => worker'[w] = worker[w]
        BY Zenon DEF WorkersOK
      <3>2. worker' = [worker EXCEPT ![v].pc = "outcome", ![v].outcome = "confirmed"]
              => worker'[w] = worker[w]
        BY DEF WorkersOK
      <3> QED BY <1>1, <1>3, <2>7, <3>1, <3>2 DEF NoticeStep
    <2>8. CASE FormClick(v)  BY <2>8, Zenon DEF FormClick, WorkersOK
    <2>9. CASE FormResponse(v)  BY <1>3, <2>9 DEF FormResponse, WorkersOK
    <2> QED BY <1>5, <2>1, <2>2, <2>3, <2>4, <2>5, <2>6, <2>7, <2>8, <2>9 DEF ApplyStep
  <1> QED BY <1>4, <1>5

LEMMA OnlyClaimAtClaim ==
  ASSUME NEW w \in Worker, At(w, "claim"), JobStep(w) \/ ApplyStep(w)
  PROVE  Claim(w)
  BY DEF At, JobStep, ReadCandidate, AcquireLanes, CountActive, FinishRun, EndJob,
         ApplyStep, Enter, Tailor, CheckCandidate, Prepare, Repeat, ParkApplication,
         ParkCandidate, ParkAttempt, Mark, Open, FillForm, AgentFence, WriteFence, AgentClick,
         AgentReport, StepClick, NoticeStep, FormClick, FormResponse, Settle, Caught,
         WriteAttempt, WriteCandidate, WriteApplication

LEMMA OnlyClaimEnters ==
  ASSUME TypeInv, [Next]_vars, NEW w \in Worker, At(w, "claim"), worker'[w].pc = "enter"
  PROVE  MayClaim(w)
  <1>0. WorkersOK  BY TypeInvParts
  <1>1. worker'[w].pc # worker[w].pc  BY DEF At
  <1>2. ASSUME NEW v \in Worker, JobStep(v) \/ ApplyStep(v)  PROVE MayClaim(w)
    <2>1. v = w  BY <1>0, <1>1, <1>2, OneWorkerMoves
    <2>2. Claim(w)  BY <1>2, <2>1, OnlyClaimAtClaim
    <2>3. Go(w, "complete") => worker'[w].pc = "complete"
      BY <1>0 DEF Go, WorkersOK, WorkerRecord
    <2> QED BY <2>2, <2>3 DEF Claim
  <1>3. ASSUME NEW v \in Worker, LoseLease(v) \/ Crash(v)  PROVE MayClaim(w)
    BY <1>0, <1>1, <1>3 DEF LoseLease, Crash, Idle, WorkersOK, WorkerRecord
  <1>4. ASSUME NEW v \in Worker, NEW d \in Dispatch, PickUp(v, d)  PROVE MayClaim(w)
    BY <1>0, <1>1, <1>4 DEF PickUp, At, WorkersOK
  <1>5. CASE UNCHANGED worker  BY <1>1, <1>5
  <1>6. CASE ApiNext
    BY <1>5, <1>6
    DEF ApiNext, Approve, Stop, Cancel, CancelRollback, RetryCheck, RetryCommit, RetryAbandon,
        Flag, ResolveFlag, actors
  <1>7. CASE RecoveryNext
    BY <1>5, <1>7
    DEF RecoveryNext, HandlerStep, HandleAttempts, HandleCandidate, HandleApplication,
        HandleCount, HandleFinish, HandlerLost, Age, SweepStep, SweepStart, SweepLive,
        SweepRead, SweepCandidate, SweepAttempt, SweepApplication, SweepSettle, SweepFail,
        SweepLost, actors
  <1>8. CASE DispatchNext
    BY <1>2, <1>3, <1>4, <1>5, <1>8
    DEF DispatchNext, PublishStep, PublishAdd, PublishGiveUp, LockExpires, LockLapses,
        Stalled, RedisFlush, actors
  <1>9. CASE UNCHANGED vars  BY <1>5, <1>9 DEF vars, actors
  <1> QED BY <1>2, <1>6, <1>7, <1>8, <1>9 DEF Next, ApplyNext

\* The claim's one condition on its dispatch is enough to shut out every obsolete
\* job (application-queue.ts:478-486), however late it runs, and even if its lock
\* has lapsed or Redis was lost meanwhile.
THEOREM ClaimsUseNewest == Spec => ClaimUsesNewestDispatch
  <1> DEFINE NewestClaim == \A w \in Worker : (At(w, "claim") /\ worker'[w].pc = "enter") =>
                              worker[w].disp = Newest(CandOf(w)) /\ worker[w].disp \notin cancelled
  <1>1. TypeInv /\ DispatchInv /\ [Next]_vars => [NewestClaim]_vars
    <2> SUFFICES ASSUME TypeInv, DispatchInv, [Next]_vars, NEW w \in Worker,
                        At(w, "claim"), worker'[w].pc = "enter"
                 PROVE  worker[w].disp = Newest(CandOf(w)) /\ worker[w].disp \notin cancelled
      OBVIOUS
    <2>1. worker[w].disp \notin cancelled  BY OnlyClaimEnters DEF MayClaim
    <2>2. Exists(worker[w].disp)  BY DEF DispatchInv, AssignmentsExist, At
    <2>3. worker[w].disp \in Dispatch  BY DEF TypeInv, AssignedWork, At
    <2>4. OutboxOK  BY TypeInvParts DEF SharedOK
    <2>5. worker[w].disp \in DispatchesOf(CandOf(w)) /\ CandOf(w) \in Candidate
      BY <2>2, <2>3, <2>4 DEF Dispatch, DispatchesOf, Exists, CandOf, OutboxOK
    <2> QED BY <2>1, <2>2, <2>5 DEF DispatchInv, OnlyNewestOpen, OpenDispatch
  <1> QED BY <1>1, DispatchInvariant, PTL DEF Spec, ClaimUsesNewestDispatch
=============================================================================
