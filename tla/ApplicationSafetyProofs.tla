------------------------ MODULE ApplicationSafetyProofs ------------------------
(****************************************************************************)
(* For any number of candidates, workers, approvals, retries, cancellations *)
(* and faults: two browsers never work on one candidate, a cancelled        *)
(* application stays out and an applied one stays applied, of a candidate's *)
(* attempts at most one is in flight, the owner confirmed all but one of    *)
(* the fenced ones, and what the reasoning agent submits is fenced.  All of *)
(* it together is that the queue implements ApplicationPromise.             *)
(*                                                                          *)
(* The invariants build on one another:                                     *)
(*   OwnInv       who may work on a candidate: a worker that is not idle    *)
(*                holds the lock of its active job, an operation's dispatch *)
(*                is open, and where somebody decides about a retry nobody  *)
(*                works and no job of the candidate can start;              *)
(*   AppliedInv   what is applied has been put to rest;                     *)
(*   TraceInv     an operation's attempt is its candidate's newest;         *)
(*   RestInv      none is in flight but the newest, and not that one when   *)
(*                the candidate can be claimed;                             *)
(*   EvidenceInv  fenced attempts are confirmed but for the newest, and all *)
(*                of them before another attempt is made;                   *)
(*   SubmitInv    the agent's clicks come after a fence of their own;       *)
(*   SentInv      who records a submission has seen it accepted.            *)
(*                                                                          *)
(* Recovery parks a candidate with two updates, its row first and its       *)
(* application second (application-queue.ts:436-453, 326-356).  A retry     *)
(* that commits between the two, of a candidate that was already parked, is *)
(* overwritten by the second: the application goes back to needs_review     *)
(* under a candidate that is queued, the next retry is let through, and two *)
(* browsers meet.  TLC finds that after two retries, a crash and three      *)
(* dispatches.  OwnerStandsBack keeps the owner out of that window; every   *)
(* theorem here but AppliedMeansSent and the lemmas of a step assumes it.   *)
(****************************************************************************)
EXTENDS ApplicationQueueProofs, FiniteSetTheorems

Waiting(c)  == candidate[c] \in {"queued", "tailored"}
NobodyOn(c) == \A w \in Worker : ~OperatesOn(w, c)
\* Recovery has set the candidate to needs_review, its application not yet.
Reviewing(c) == \/ \E d \in Dispatch : d[1] = c /\ handler[d] = "application"
                \/ sweep.pc \in {"attempt", "application"} /\ sweep.row[1] = c

\* No retry commits, and no cancellation fails after its jobs were removed,
\* between the two updates with which recovery parks a candidate.
OwnerStandsBack ==
  \A c \in Candidate : Reviewing(c) => ~RetryCommit(c) /\ ~CancelRollback(c)

HoldsItsJob  == \A w \in Worker : At(w, "idle") \/ Owns(w, worker[w].disp)
OperatesOpen == \A w \in Worker : worker[w].pc \in Operating => worker[w].disp \notin cancelled
RetriesAlone == \A c \in Candidate : retrying[c] # "no" =>
                  NobodyOn(c) /\ application[c] \in {"needs_review", "closed"}
RetriesIdle  == \A d \in Dispatch :
                  retrying[d[1]] # "no" /\ Waiting(d[1]) /\ OpenDispatch(d) =>
                    job[d] \in {"completed", "failed"}
ParkedHasJob == \A d \in Dispatch :
                  /\ application[d[1]] = "needs_review" \/ Reviewing(d[1])
                  /\ Waiting(d[1]) /\ OpenDispatch(d)
                  => job[d] # "none"
ActiveIsKnown == \A c \in Candidate :
                   Reviewing(c) \/ candidate[c] \in ActiveCandidate => application[c] # "none"
OwnInv == /\ HoldsItsJob /\ OperatesOpen /\ RetriesAlone /\ RetriesIdle
          /\ ParkedHasJob /\ ActiveIsKnown /\ CancelledStaysOut

LEMMA InitOwnInv == Init => OwnInv
  <1> SUFFICES ASSUME Init  PROVE OwnInv
    OBVIOUS
  <1>1. \A w \in Worker : At(w, "idle") /\ worker[w].pc \notin Operating
    BY DEF Init, At, Idle, Operating, InLane
  <1>2. \A d \in Dispatch : d[1] \in Candidate /\ ~Waiting(d[1])
    BY DEF Init, Dispatch, Waiting
  <1>3. \A c \in Candidate : ~Reviewing(c)  BY DEF Init, SweepIdle, Reviewing
  <1> QED
    BY <1>1, <1>2, <1>3
    DEF Init, OwnInv, HoldsItsJob, OperatesOpen, RetriesAlone, RetriesIdle, ParkedHasJob,
        ActiveIsKnown, ActiveCandidate, CancelledStaysOut

\* Of a candidate's dispatches at most one is open, and an operation has it.
LEMMA OneOpen ==
  ASSUME TypeInv, DispatchInv, NEW d \in Dispatch, NEW e \in Dispatch, d[1] = e[1],
         OpenDispatch(d), OpenDispatch(e)
  PROVE  d = e
  <1>1. OutboxOK  BY TypeInvParts DEF SharedOK
  <1>2. PICK k \in 1..MaxDispatches, c \in Candidate : d = <<c, k>>  BY DEF Dispatch
  <1>3. PICK l \in 1..MaxDispatches : e = <<c, l>>  BY <1>2 DEF Dispatch
  <1>4. d \in DispatchesOf(c) /\ e \in DispatchesOf(c)
    BY <1>1, <1>2, <1>3 DEF DispatchesOf, OpenDispatch, Exists, OutboxOK
  <1> QED BY <1>2, <1>4 DEF DispatchInv, OnlyNewestOpen

LEMMA OperationHolds ==
  ASSUME TypeInv, DispatchInv, OwnInv, NEW w \in Worker, worker[w].pc \in Operating
  PROVE  /\ CandOf(w) \in Candidate /\ worker[w].disp \in Dispatch
         /\ worker[w].disp[1] = CandOf(w)
         /\ OpenDispatch(worker[w].disp) /\ Owns(w, worker[w].disp)
         /\ application[CandOf(w)] # "none" /\ application[CandOf(w)] # "closed"
         /\ retrying[CandOf(w)] = "no"
         /\ \A d \in Dispatch : d[1] = CandOf(w) /\ OpenDispatch(d) => job[d] = "active"
  <1>1. ~At(w, "idle")  BY DEF At, Operating, InLane
  <1>2. worker[w].disp \in Dispatch  BY <1>1 DEF TypeInv, AssignedWork
  <1>3. CandOf(w) \in Candidate /\ worker[w].disp[1] = CandOf(w)  BY <1>2 DEF Dispatch, CandOf
  <1>4. OpenDispatch(worker[w].disp)
    BY <1>1 DEF OwnInv, OperatesOpen, OpenDispatch, DispatchInv, AssignmentsExist
  <1>5. Owns(w, worker[w].disp)  BY <1>1 DEF OwnInv, HoldsItsJob
  <1>6. OperatesOn(w, CandOf(w))  BY DEF OperatesOn
  <1>7. application[CandOf(w)] # "none"
    <2>1. OutboxOK  BY TypeInvParts DEF SharedOK
    <2>2. dispatches[CandOf(w)] # 0
      BY <1>2, <1>3, <1>4, <2>1 DEF OpenDispatch, Exists, Dispatch, OutboxOK
    <2> QED BY <1>3, <2>2 DEF DispatchInv, Fresh
  <1>8. application[CandOf(w)] # "closed" /\ retrying[CandOf(w)] = "no"
    BY <1>3, <1>6 DEF OwnInv, CancelledStaysOut, RetriesAlone, NobodyOn
  <1>9. ASSUME NEW d \in Dispatch, d[1] = CandOf(w), OpenDispatch(d)  PROVE job[d] = "active"
    BY <1>2, <1>3, <1>4, <1>5, <1>9, OneOpen DEF Owns
  <1> QED BY <1>2, <1>3, <1>4, <1>5, <1>7, <1>8, <1>9

\* What a step may do that touches no row, outbox or approval lock.
LEMMA OwnFrame ==
  ASSUME OwnInv, HoldsItsJob', UNCHANGED <<candidate, application, dispatches, cancelled>>,
         \A c \in Candidate : retrying'[c] # "no" => retrying[c] # "no",
         \A c \in Candidate : Reviewing(c)' => Reviewing(c),
         \A w \in Worker : worker'[w].pc \in Operating =>
           worker[w].pc \in Operating /\ worker'[w].disp = worker[w].disp,
         \A d \in Dispatch : /\ job[d] # "none" => job'[d] # "none"
                             /\ job[d] \in {"completed", "failed"} =>
                                  job'[d] \in {"completed", "failed"}
  PROVE  OwnInv'
  <1>1. \A c \in Candidate : NobodyOn(c) => NobodyOn(c)'
    BY DEF NobodyOn, OperatesOn, CandOf
  <1>2. \A d : OpenDispatch(d)' <=> OpenDispatch(d)  BY DEF OpenDispatch, Exists
  <1>3. \A c : Waiting(c)' <=> Waiting(c)  BY DEF Waiting
  <1>4. \A d \in Dispatch : d[1] \in Candidate  BY DEF Dispatch
  <1>5. OperatesOpen'  BY DEF OwnInv, OperatesOpen
  <1>6. RetriesAlone'  BY <1>1 DEF OwnInv, RetriesAlone
  <1>7. RetriesIdle'  BY <1>2, <1>3, <1>4 DEF OwnInv, RetriesIdle
  <1>8. ParkedHasJob'  BY <1>2, <1>3, <1>4 DEF OwnInv, ParkedHasJob
  <1>9. ActiveIsKnown'  BY DEF OwnInv, ActiveIsKnown
  <1>10. CancelledStaysOut'
    BY <1>1 DEF OwnInv, CancelledStaysOut, NobodyOn, OperatesOn, CandOf
  <1> QED BY <1>5, <1>6, <1>7, <1>8, <1>9, <1>10 DEF OwnInv

LEMMA JobsKept ==
  ASSUME HoldsItsJob, UNCHANGED redis,
         \A w \in Worker : \/ worker'[w].pc = "idle"
                           \/ worker[w].pc # "idle" /\ worker'[w].disp = worker[w].disp
  PROVE  HoldsItsJob'
  BY DEF HoldsItsJob, redis, At, Owns
-----------------------------------------------------------------------------
(* Job handlers.                                                            *)

\* Only the claim starts an operation.
LEMMA OnlyClaimOperates ==
  ASSUME WorkersOK, NEW w \in Worker, JobStep(w), worker'[w].pc \in Operating
  PROVE  Claim(w) /\ MayClaim(w)
  <1>1. \A pc : Go(w, pc) => worker'[w].pc = pc  BY DEF Go, WorkersOK, WorkerRecord
  <1>2. {"complete", "delaying", "lanes", "claim", "finish"} \cap Operating = {}
    BY DEF Operating, InLane
  <1>3. CASE EndJob(w)
    <2>1. worker'[w].pc = "idle"  BY <1>3 DEF EndJob, WorkersOK, Idle
    <2> QED BY <2>1 DEF Operating, InLane
  <1> QED
    BY <1>1, <1>2, <1>3
    DEF JobStep, ReadCandidate, AcquireLanes, Claim, CountActive, FinishRun

LEMMA JobStepsOwn ==
  ASSUME TypeInv, DispatchInv, OwnInv, NEW w \in Worker, JobStep(w)
  PROVE  OwnInv'
  <1>0. WorkersOK /\ RowsOK /\ RedisOK  BY TypeInvParts DEF SharedOK
  <1>1. Kept  BY <1>0, JobStepsKeep
  <1>2. \A v \in Worker \ {w} : worker'[v] = worker[v]  BY <1>0, OneWorkerMoves
  <1>3. worker[w].pc # "idle"
    BY DEF JobStep, ReadCandidate, AcquireLanes, Claim, CountActive, FinishRun, EndJob, At
  <1>4. worker'[w].pc = "idle" \/ worker'[w].disp = worker[w].disp  BY <1>1, <1>3 DEF Kept
  <1>5. UNCHANGED <<dispatches, cancelled, application, retrying, sweep>>
    BY DEF JobStep, ReadCandidate, AcquireLanes, Claim, CountActive, FinishRun, EndJob,
           outbox, rows
  <1>6. \A c \in Candidate : Reviewing(c)' => Reviewing(c)
    <2>1. CASE EndJob(w)
      BY <1>5, <2>1 DEF EndJob, Reviewing, ServicesOK
    <2>2. CASE ~EndJob(w)
      <3>1. UNCHANGED handler
        BY <2>2 DEF JobStep, ReadCandidate, AcquireLanes, Claim, CountActive, FinishRun
      <3> QED BY <1>5, <3>1 DEF Reviewing
    <2> QED BY <2>1, <2>2
  <1>7. CASE Claim(w) /\ MayClaim(w)
    <2> DEFINE c == CandOf(w)
               d == worker[w].disp
    <2>1. /\ candidate' = [candidate EXCEPT ![c] = "applying"]
          /\ worker' = [worker EXCEPT ![w].pc = "enter"] /\ UNCHANGED <<job, lock>>
      BY <1>7 DEF Claim, SetCandidate, Go, redis
    <2>2. d \in Dispatch /\ Exists(d) /\ Owns(w, d)
      BY <1>3 DEF TypeInv, AssignedWork, At, DispatchInv, AssignmentsExist, OwnInv, HoldsItsJob
    <2>3. c \in Candidate /\ d[1] = c  BY <2>2 DEF Dispatch, CandOf
    <2>4. OpenDispatch(d) /\ Waiting(c)  BY <1>7, <2>2 DEF MayClaim, OpenDispatch, Waiting
    <2>5. \A e : OpenDispatch(e)' <=> OpenDispatch(e)  BY <1>5 DEF OpenDispatch, Exists
    <2>6. retrying[c] = "no"  BY <2>2, <2>3, <2>4 DEF OwnInv, RetriesIdle, Owns
    <2>7. application[c] # "none" /\ application[c] # "closed"
      BY <2>3, <2>4 DEF OwnInv, ActiveIsKnown, ActiveCandidate, CancelledStaysOut, Waiting
    <2>8. \A e \in Candidate : Waiting(e)' => Waiting(e) /\ e # c
      BY <1>0, <2>1, <2>3 DEF Waiting, RowsOK
    <2>9. \A e \in Candidate : e # c /\ NobodyOn(e) => NobodyOn(e)'
      BY <1>2, <1>4, <2>1 DEF NobodyOn, OperatesOn, CandOf, Operating, InLane
    <2>10. HoldsItsJob'
      BY <1>2, <1>4, <2>1, <2>2 DEF OwnInv, HoldsItsJob, At, Owns
    <2>11. OperatesOpen'
      BY <1>2, <1>4, <1>5, <2>4, <2>1 DEF OwnInv, OperatesOpen, OpenDispatch, Operating, InLane
    <2>12. RetriesAlone'
      BY <1>5, <2>6, <2>9 DEF OwnInv, RetriesAlone
    <2>13. \A e \in Dispatch : e[1] \in Candidate  BY DEF Dispatch
    <2>14. RetriesIdle'
      BY <1>5, <2>1, <2>5, <2>8, <2>13 DEF OwnInv, RetriesIdle
    <2>15. ParkedHasJob'
      BY <1>5, <1>6, <2>1, <2>5, <2>8, <2>13 DEF OwnInv, ParkedHasJob
    <2>16. ActiveIsKnown'
      BY <1>0, <1>5, <1>6, <2>1, <2>7 DEF OwnInv, ActiveIsKnown, RowsOK
    <2>17. CancelledStaysOut'
      <3>1. ASSUME NEW e \in Candidate, application'[e] = "closed"
            PROVE  candidate'[e] = "rejected" /\ NobodyOn(e)'
        BY <1>0, <1>5, <2>1, <2>7, <2>9, <3>1 DEF OwnInv, CancelledStaysOut, NobodyOn, RowsOK
      <3> QED BY <3>1 DEF CancelledStaysOut, NobodyOn
    <2> QED BY <2>10, <2>11, <2>12, <2>14, <2>15, <2>16, <2>17 DEF OwnInv
  <1>8. CASE ~(Claim(w) /\ MayClaim(w))
    <2>1. \A v \in Worker : worker'[v].pc \in Operating =>
            worker[v].pc \in Operating /\ worker'[v].disp = worker[v].disp
      BY <1>0, <1>2, <1>8, OnlyClaimOperates
    <2>2. UNCHANGED candidate
      BY <1>8 DEF JobStep, ReadCandidate, AcquireLanes, Claim, CountActive, FinishRun, EndJob, rows
    <2>3. CASE UNCHANGED <<job, lock>>
      <3>1. HoldsItsJob'
        BY <1>2, <1>3, <1>4, <2>3, JobsKept DEF OwnInv, redis
      <3> QED BY <1>5, <1>6, <2>1, <2>2, <2>3, <3>1, OwnFrame
    <2>4. CASE EndJob(w)
      <3> DEFINE d == worker[w].disp
      <3>1. d \in Dispatch /\ Owns(w, d)
        BY <1>3 DEF TypeInv, AssignedWork, At, OwnInv, HoldsItsJob
      <3>2. PICK state \in {"completed", "failed", "delayed"} :
              job' = [job EXCEPT ![d] = IF Owns(w, d) THEN state ELSE @]
        BY <2>4 DEF EndJob, At
      <3>3. /\ \A e \in Dispatch \ {d} : job'[e] = job[e] /\ lock'[e] = lock[e]
            /\ job'[d] = state
        BY <1>0, <2>4, <3>1, <3>2 DEF RedisOK, EndJob
      <3>4. worker'[w].pc = "idle"  BY <1>0, <2>4 DEF EndJob, WorkersOK, Idle
      <3>5. ASSUME NEW v \in Worker, worker'[v].pc # "idle"
            PROVE  lock'[worker'[v].disp] = v /\ job'[worker'[v].disp] = "active"
        <4>1. v # w /\ worker'[v] = worker[v]  BY <1>2, <3>4, <3>5
        <4>2. Owns(v, worker[v].disp) /\ worker[v].disp \in Dispatch
          BY <3>5, <4>1 DEF OwnInv, HoldsItsJob, At, TypeInv, AssignedWork
        <4>3. worker[v].disp # d  BY <3>1, <4>1, <4>2 DEF Owns
        <4> QED BY <3>3, <4>1, <4>2, <4>3 DEF Owns
      <3>6. HoldsItsJob'  BY <3>5 DEF HoldsItsJob, At, Owns
      <3>7. \A e \in Dispatch : /\ job[e] # "none" => job'[e] # "none"
                                /\ job[e] \in {"completed", "failed"} =>
                                     job'[e] \in {"completed", "failed"}
        BY <3>1, <3>3 DEF Owns
      <3> QED BY <1>5, <1>6, <2>1, <2>2, <3>6, <3>7, OwnFrame
    <2> QED
      BY <2>3, <2>4
      DEF JobStep, ReadCandidate, AcquireLanes, Claim, CountActive, FinishRun, redis
  <1> QED BY <1>7, <1>8

\* Whatever an operation does, it does to its own candidate, and it ends
\* neither its job nor the assignment.
LEMMA ApplyStepsFrame ==
  ASSUME TypeInv, NEW w \in Worker, ApplyStep(w)
  PROVE  /\ worker[w].pc \in Operating
         /\ UNCHANGED <<outbox, redis, handler, publishing, sweep, retrying, confirms>>
         /\ \A c \in Candidate \ {CandOf(w)} :
              candidate'[c] = candidate[c] /\ application'[c] = application[c]
         /\ \/ application'[CandOf(w)] = application[CandOf(w)]
            \/ application'[CandOf(w)] \in {"needs_review", "applied"}
  <1>0. RowsOK  BY TypeInvParts DEF SharedOK
  <1>1. worker[w].pc \in Operating
    BY DEF At, Operating, InLane,
        ApplyStep, Enter, Tailor, CheckCandidate, Prepare, Repeat, ParkApplication,
        ParkCandidate, ParkAttempt, Mark, Open, FillForm, AgentFence, WriteFence, AgentClick,
        AgentReport, StepClick, NoticeStep, FormClick, FormResponse, Settle, Caught,
        WriteAttempt, WriteCandidate, WriteApplication
  <1>2. UNCHANGED <<outbox, redis, handler, publishing, sweep, retrying, confirms>>
    BY DEF ApplyStep, Enter, Tailor, CheckCandidate, Prepare, Repeat, ParkApplication,
        ParkCandidate, ParkAttempt, Mark, Open, FillForm, AgentFence, WriteFence, AgentClick,
        AgentReport, StepClick, NoticeStep, FormClick, FormResponse, Settle, Caught,
        WriteAttempt, WriteCandidate, WriteApplication, history
  <1>3. UNCHANGED <<candidate, application>> \/ Tailor(w) \/ Repeat(w) \/ ParkCandidate(w)
        \/ Mark(w) \/ WriteCandidate(w) \/ ParkApplication(w) \/ WriteApplication(w)
    BY DEF ApplyStep, Enter, CheckCandidate, Prepare, ParkAttempt, Open, FillForm, AgentFence,
        WriteFence, AgentClick, AgentReport, StepClick, NoticeStep, FormClick, FormResponse,
        Settle, Caught, WriteAttempt, rows
  <1>4. CASE Tailor(w) \/ Repeat(w) \/ ParkCandidate(w) \/ Mark(w) \/ WriteCandidate(w)
    <2>1. UNCHANGED application
      BY <1>4 DEF Tailor, Repeat, ParkCandidate, Mark, WriteCandidate
    <2>2. UNCHANGED candidate \/ \E status : SetCandidate(CandOf(w), status)
      BY <1>4 DEF Tailor, Repeat, ParkCandidate, Mark, WriteCandidate
    <2>3. \A c \in Candidate \ {CandOf(w)} : candidate'[c] = candidate[c]
      BY <1>0, <2>2 DEF SetCandidate, RowsOK
    <2> QED BY <1>1, <1>2, <2>1, <2>3
  <1>5. CASE ParkApplication(w) \/ WriteApplication(w)
    <2>1. UNCHANGED candidate  BY <1>5 DEF ParkApplication, WriteApplication
    <2>2. PICK status \in {"needs_review", "applied"} :
            application' = [application EXCEPT ![CandOf(w)] = status]
      BY <1>5 DEF ParkApplication, WriteApplication
    <2> QED BY <1>0, <1>1, <1>2, <2>1, <2>2 DEF RowsOK
  <1> QED BY <1>1, <1>2, <1>3, <1>4, <1>5

LEMMA ApplyStepsOwn ==
  ASSUME TypeInv, DispatchInv, OwnInv, NEW w \in Worker, ApplyStep(w)
  PROVE  OwnInv'
  <1> DEFINE c == CandOf(w)
             d == worker[w].disp
  <1>0. WorkersOK  BY TypeInvParts DEF SharedOK
  <1>1. /\ worker[w].pc \in Operating
        /\ UNCHANGED <<dispatches, cancelled, job, lock, handler, sweep, retrying>>
        /\ \A e \in Candidate \ {c} :
              candidate'[e] = candidate[e] /\ application'[e] = application[e]
        /\ application'[c] = application[c] \/ application'[c] \in {"needs_review", "applied"}
    BY ApplyStepsFrame DEF outbox, redis
  <1>2. /\ c \in Candidate /\ d \in Dispatch /\ d[1] = c /\ OpenDispatch(d) /\ Owns(w, d)
        /\ application[c] # "none" /\ application[c] # "closed" /\ retrying[c] = "no"
        /\ \A e \in Dispatch : e[1] = c /\ OpenDispatch(e) => job[e] = "active"
    BY <1>1, OperationHolds
  <1>3. \A v \in Worker \ {w} : worker'[v] = worker[v]  BY <1>0, OneWorkerMoves
  <1>4. worker'[w].pc = "idle" \/ worker'[w].disp = d
    BY <1>0, <1>1, ApplyStepsKeep DEF Kept
  <1>5. \A e \in Candidate : Reviewing(e)' <=> Reviewing(e)  BY <1>1 DEF Reviewing
  <1>6. \A e : OpenDispatch(e)' <=> OpenDispatch(e)  BY <1>1 DEF OpenDispatch, Exists
  <1>7. \A e \in Candidate \ {c} : Waiting(e)' <=> Waiting(e)  BY <1>1 DEF Waiting
  <1>8. "idle" \notin Operating  BY DEF Operating, InLane
  <1>9. \A e \in Candidate : NobodyOn(e) => e # c /\ NobodyOn(e)'
    BY <1>1, <1>3, <1>4, <1>8 DEF NobodyOn, OperatesOn, CandOf
  <1>10. \A e \in Dispatch : e[1] \in Candidate  BY DEF Dispatch
  <1>11. HoldsItsJob'
    BY <1>1, <1>3, <1>4, <1>8, JobsKept DEF OwnInv, redis
  <1>12. OperatesOpen'  BY <1>1, <1>3, <1>4, <1>8 DEF OwnInv, OperatesOpen
  <1>13. RetriesAlone'  BY <1>1, <1>9 DEF OwnInv, RetriesAlone
  <1>14. RetriesIdle'  BY <1>1, <1>2, <1>6, <1>7, <1>10 DEF OwnInv, RetriesIdle
  <1>15. ParkedHasJob'
    <2>1. ASSUME NEW e \in Dispatch, application'[e[1]] = "needs_review" \/ Reviewing(e[1])',
                 Waiting(e[1])', OpenDispatch(e)'
          PROVE  job'[e] # "none"
      <3>1. CASE e[1] = c  BY <1>1, <1>2, <1>6, <2>1, <3>1
      <3>2. CASE e[1] # c
        BY <1>1, <1>5, <1>6, <1>7, <1>10, <2>1, <3>2 DEF OwnInv, ParkedHasJob
      <3> QED BY <3>1, <3>2
    <2> QED BY <2>1 DEF ParkedHasJob
  <1>16. ActiveIsKnown'
    BY <1>1, <1>2, <1>5 DEF OwnInv, ActiveIsKnown
  <1>17. CancelledStaysOut'
    <2>1. ASSUME NEW e \in Candidate, application'[e] = "closed"
          PROVE  candidate'[e] = "rejected" /\ NobodyOn(e)'
      BY <1>1, <1>2, <1>9, <2>1 DEF OwnInv, CancelledStaysOut, NobodyOn
    <2> QED BY <2>1 DEF CancelledStaysOut, NobodyOn
  <1> QED BY <1>11, <1>12, <1>13, <1>14, <1>15, <1>16, <1>17 DEF OwnInv
-----------------------------------------------------------------------------
(* Publishers, BullMQ and crashes.                                          *)

LEMMA DispatchStepsOwn ==
  ASSUME TypeInv, DispatchInv, OwnInv, ~Zombies, DispatchNext
  PROVE  OwnInv'
  <1>0. WorkersOK /\ RedisOK /\ ServicesOK  BY TypeInvParts DEF SharedOK
  <1>1. ASSUME NEW p \in Publisher, NEW d \in Dispatch, PublishAdd(p, d)  PROVE OwnInv'
    <2>1. job' = [job EXCEPT ![d] = IF @ = "none" THEN "waiting" ELSE @]
      BY <1>1 DEF PublishAdd
    <2>2. UNCHANGED <<candidate, application, dispatches, cancelled, lock, handler, worker, sweep,
                      retrying>>
      BY <1>1 DEF PublishAdd, rows, outbox
    <2>3. \A e \in Dispatch : job'[e] = job[e] \/ (job[e] = "none" /\ job'[e] = "waiting")
      BY <1>0, <2>1 DEF RedisOK
    <2>4. HoldsItsJob'
      BY <2>2, <2>3 DEF OwnInv, HoldsItsJob, At, Owns, TypeInv, AssignedWork
    <2> QED BY <2>2, <2>3, <2>4, OwnFrame DEF Reviewing
  <1>2. ASSUME NEW p \in Publisher, PublishGiveUp(p)  PROVE OwnInv'
    <2>1. UNCHANGED <<candidate, application, dispatches, cancelled, job, lock, handler, worker,
                      retrying>>
      BY <1>2 DEF PublishGiveUp, rows, outbox, redis
    <2>2. \A c \in Candidate : Reviewing(c)' => Reviewing(c)
      BY <1>2, <2>1 DEF PublishGiveUp, Reviewing, SweepIdle
    <2>3. HoldsItsJob'  BY <2>1 DEF OwnInv, HoldsItsJob, At, Owns
    <2> QED BY <2>1, <2>2, <2>3, OwnFrame
  <1>3. ASSUME NEW w \in Worker, NEW d \in Dispatch, PickUp(w, d)  PROVE OwnInv'
    <2>1. UNCHANGED <<candidate, application, dispatches, cancelled, handler, sweep, retrying>>
      BY <1>3 DEF PickUp, rows, outbox
    <2>2. /\ job[d] \in {"waiting", "delayed"} /\ job'[d] = "active" /\ lock'[d] = w
          /\ \A e \in Dispatch \ {d} : job'[e] = job[e] /\ lock'[e] = lock[e]
      BY <1>0, <1>3 DEF PickUp, RedisOK
    <2>3. /\ worker'[w].disp = d /\ worker'[w].pc \in {"started", "flagged"}
          /\ \A v \in Worker \ {w} : worker'[v] = worker[v]
      BY <1>0, <1>3 DEF PickUp, WorkersOK, Idle
    <2>4. HoldsItsJob'
      <3>1. ASSUME NEW v \in Worker \ {w}, worker'[v].pc # "idle"
            PROVE  lock'[worker'[v].disp] = v /\ job'[worker'[v].disp] = "active"
        <4>1. Owns(v, worker[v].disp) /\ worker[v].disp \in Dispatch
          BY <2>3, <3>1 DEF OwnInv, HoldsItsJob, At, TypeInv, AssignedWork
        <4>2. worker[v].disp # d  BY <2>2, <4>1 DEF Owns
        <4> QED BY <2>2, <2>3, <3>1, <4>1, <4>2 DEF Owns
      <3> QED BY <2>2, <2>3, <3>1 DEF HoldsItsJob, At, Owns
    <2>5. \A v \in Worker : worker'[v].pc \in Operating =>
            worker[v].pc \in Operating /\ worker'[v].disp = worker[v].disp
      BY <2>3 DEF Operating, InLane
    <2> QED BY <2>1, <2>2, <2>4, <2>5, OwnFrame DEF Reviewing
  <1>4. ASSUME NEW w \in Worker, LoseLease(w) \/ Crash(w)  PROVE OwnInv'
    <2>1. UNCHANGED <<candidate, application, dispatches, cancelled, job, lock, handler, sweep,
                      retrying>>
      BY <1>4 DEF LoseLease, Crash, rows, outbox, redis
    <2>2. \A v \in Worker : \/ worker'[v].pc = "idle"
                            \/ worker'[v].pc = worker[v].pc /\ worker'[v].disp = worker[v].disp
      BY <1>0, <1>4 DEF LoseLease, Crash, Idle, WorkersOK, WorkerRecord
    <2>3. HoldsItsJob'
      BY <2>1, <2>2 DEF OwnInv, HoldsItsJob, At, Owns
    <2>4. \A v \in Worker : worker'[v].pc \in Operating =>
            worker[v].pc \in Operating /\ worker'[v].disp = worker[v].disp
      BY <2>2 DEF Operating, InLane
    <2> QED BY <2>1, <2>3, <2>4, OwnFrame DEF Reviewing
  <1>5. ASSUME NEW d \in Dispatch, LockExpires(d) \/ Stalled(d)  PROVE OwnInv'
    <2>1. UNCHANGED <<candidate, application, dispatches, cancelled, worker, sweep, retrying>>
      BY <1>5 DEF LockExpires, Stalled, rows, outbox, actors
    <2>2. /\ \A e \in Dispatch \ {d} : job'[e] = job[e] /\ lock'[e] = lock[e]
          /\ job'[d] = job[d] \/ (job[d] = "active" /\ job'[d] = "failed")
      BY <1>0, <1>5 DEF LockExpires, Stalled, RedisOK
    <2>3. \A w \in Worker : worker[w].disp = d => At(w, "idle")
      <3>1. ASSUME NEW w \in Worker, worker[w].disp = d, ~At(w, "idle")  PROVE FALSE
        <4>1. lock[d] = w  BY <3>1 DEF OwnInv, HoldsItsJob, Owns
        <4> QED BY <1>5, <3>1, <4>1, NullAssumption DEF LockExpires, Stalled
      <3> QED BY <3>1
    <2>4. HoldsItsJob'
      BY <2>1, <2>2, <2>3 DEF OwnInv, HoldsItsJob, At, Owns, TypeInv, AssignedWork
    <2>5. \A c \in Candidate : Reviewing(c)' => Reviewing(c)
      BY <1>0, <1>5, <2>1 DEF LockExpires, Stalled, Reviewing, ServicesOK, actors
    <2> QED BY <2>1, <2>2, <2>4, <2>5, OwnFrame
  <1>6. ~RedisFlush /\ \A d : ~LockLapses(d)  BY DEF RedisFlush, LockLapses
  <1> QED
    BY <1>1, <1>2, <1>3, <1>4, <1>5, <1>6, JobStepsOwn DEF DispatchNext, PublishStep
-----------------------------------------------------------------------------
(* Recovery: it parks a candidate, then its application.                    *)

LEMMA ParkingOwn ==
  ASSUME TypeInv, OwnInv, NEW c \in Candidate, candidate[c] \in {"queued", "applying"},
         SetCandidate(c, "needs_review"),
         UNCHANGED <<application, dispatches, cancelled, job, lock, worker, retrying>>,
         \A e \in Candidate \ {c} : Reviewing(e)' => Reviewing(e)
  PROVE  OwnInv'
  <1>0. RowsOK  BY TypeInvParts DEF SharedOK
  <1>1. candidate' = [candidate EXCEPT ![c] = "needs_review"]  BY DEF SetCandidate
  <1>2. application[c] # "none" /\ application[c] # "closed"
    BY DEF OwnInv, ActiveIsKnown, ActiveCandidate, CancelledStaysOut
  <1>3. \A e \in Candidate : Waiting(e)' => Waiting(e) /\ e # c
    BY <1>0, <1>1 DEF Waiting, RowsOK
  <1>4. \A e : OpenDispatch(e)' <=> OpenDispatch(e)  BY DEF OpenDispatch, Exists
  <1>5. \A e : NobodyOn(e)' <=> NobodyOn(e)  BY DEF NobodyOn, OperatesOn, CandOf
  <1>6. \A d \in Dispatch : d[1] \in Candidate  BY DEF Dispatch
  <1>7. HoldsItsJob'  BY DEF OwnInv, HoldsItsJob, At, Owns
  <1>8. OperatesOpen'  BY DEF OwnInv, OperatesOpen
  <1>9. RetriesAlone'  BY <1>5 DEF OwnInv, RetriesAlone
  <1>10. RetriesIdle'  BY <1>3, <1>4, <1>6 DEF OwnInv, RetriesIdle
  <1>11. ParkedHasJob'  BY <1>3, <1>4, <1>6 DEF OwnInv, ParkedHasJob
  <1>12. ActiveIsKnown'  BY <1>0, <1>1, <1>2 DEF OwnInv, ActiveIsKnown, RowsOK
  <1>13. CancelledStaysOut'
    BY <1>0, <1>1, <1>2, <1>5 DEF OwnInv, CancelledStaysOut, NobodyOn, RowsOK
  <1> QED BY <1>7, <1>8, <1>9, <1>10, <1>11, <1>12, <1>13 DEF OwnInv

LEMMA ReviewOwn ==
  ASSUME TypeInv, OwnInv, NEW c \in Candidate, Reviewing(c), ReviewApplication(c),
         UNCHANGED <<candidate, dispatches, cancelled, job, lock, worker, retrying>>,
         \A e \in Candidate : Reviewing(e)' => Reviewing(e)
  PROVE  OwnInv'
  <1>0. RowsOK  BY TypeInvParts DEF SharedOK
  <1>1. \A e \in Candidate :
          \/ application'[e] = application[e]
          \/ e = c /\ application[e] = "queued" /\ application'[e] = "needs_review"
    BY <1>0 DEF ReviewApplication, RowsOK
  <1>2. \A e : Waiting(e)' <=> Waiting(e)  BY DEF Waiting
  <1>3. \A e : OpenDispatch(e)' <=> OpenDispatch(e)  BY DEF OpenDispatch, Exists
  <1>4. \A e : NobodyOn(e)' <=> NobodyOn(e)  BY DEF NobodyOn, OperatesOn, CandOf
  <1>5. \A d \in Dispatch : d[1] \in Candidate  BY DEF Dispatch
  <1>6. HoldsItsJob'  BY DEF OwnInv, HoldsItsJob, At, Owns
  <1>7. OperatesOpen'  BY DEF OwnInv, OperatesOpen
  <1>8. RetriesAlone'  BY <1>1, <1>4 DEF OwnInv, RetriesAlone
  <1>9. RetriesIdle'  BY <1>2, <1>3 DEF OwnInv, RetriesIdle
  <1>10. ParkedHasJob'  BY <1>1, <1>2, <1>3, <1>5 DEF OwnInv, ParkedHasJob
  <1>11. ActiveIsKnown'  BY <1>1 DEF OwnInv, ActiveIsKnown
  <1>12. CancelledStaysOut'
    BY <1>1, <1>4 DEF OwnInv, CancelledStaysOut, NobodyOn
  <1> QED BY <1>6, <1>7, <1>8, <1>9, <1>10, <1>11, <1>12 DEF OwnInv

LEMMA RecoveryStepsOwn ==
  ASSUME TypeInv, OwnInv, RecoveryNext
  PROVE  OwnInv'
  <1>0. ServicesOK  BY TypeInvParts DEF SharedOK
  <1>1. UNCHANGED <<dispatches, cancelled, job, lock, worker, retrying>>
    BY DEF RecoveryNext, HandlerStep, HandleAttempts, HandleCandidate, HandleApplication,
           HandleCount, HandleFinish, HandlerLost, Age, SweepStep, SweepStart, SweepLive,
           SweepRead, SweepCandidate, SweepAttempt, SweepApplication, SweepSettle, SweepFail,
           SweepLost, outbox, redis, actors
  <1>2. HoldsItsJob'  BY <1>1 DEF OwnInv, HoldsItsJob, At, Owns
  <1>3. ASSUME UNCHANGED <<candidate, application>>,
               \A c \in Candidate : Reviewing(c)' => Reviewing(c)
        PROVE  OwnInv'
    BY <1>1, <1>2, <1>3, OwnFrame
  <1>4. ASSUME NEW d \in Dispatch, HandlerStep(d) \/ HandlerLost(d)  PROVE OwnInv'
    <2>0. d[1] \in Candidate  BY DEF Dispatch
    <2>1. UNCHANGED sweep /\ \A e \in Dispatch \ {d} : handler'[e] = handler[e]
      BY <1>0, <1>4
      DEF HandlerStep, HandleAttempts, HandleCandidate, HandleApplication, HandleCount,
          HandleFinish, HandlerLost, ServicesOK
    <2>2. \A c \in Candidate \ {d[1]} : Reviewing(c)' => Reviewing(c)
      BY <2>1 DEF Reviewing
    <2>3. handler'[d] # "application" => \A c \in Candidate : Reviewing(c)' => Reviewing(c)
      BY <2>1 DEF Reviewing
    <2>4. CASE HandleCandidate(d) /\ candidate[d[1]] \in {"queued", "applying"}
      BY <1>1, <2>0, <2>2, <2>4, ParkingOwn DEF HandleCandidate
    <2>5. CASE HandleApplication(d)
      <3>1. handler[d] = "application" /\ handler'[d] # "application"
        BY <1>0, <2>5 DEF HandleApplication, ServicesOK
      <3>2. Reviewing(d[1])  BY <3>1 DEF Reviewing
      <3> QED BY <1>1, <2>0, <2>3, <2>5, <3>1, <3>2, ReviewOwn DEF HandleApplication
    <2>6. CASE ~HandleApplication(d) /\ ~(HandleCandidate(d) /\ candidate[d[1]] \in {"queued", "applying"})
      <3>1. UNCHANGED <<candidate, application>> /\ handler'[d] # "application"
        BY <1>0, <1>4, <2>6
        DEF HandlerStep, HandleAttempts, HandleCandidate, HandleApplication, HandleCount,
            HandleFinish, HandlerLost, ServicesOK, rows
      <3> QED BY <1>3, <2>3, <3>1
    <2> QED BY <2>4, <2>5, <2>6
  <1>5. ASSUME NEW c \in Candidate, Age(c)  PROVE OwnInv'
    BY <1>3, <1>5 DEF Age, actors, Reviewing
  <1>6. ASSUME SweepStep \/ SweepLost  PROVE OwnInv'
    <2>1. UNCHANGED handler
      BY <1>6 DEF SweepStep, SweepStart, SweepLive, SweepRead, SweepCandidate, SweepAttempt,
                  SweepApplication, SweepSettle, SweepFail, SweepLost
    <2>2. CASE SweepCandidate
      <3>1. PICK row \in sweep.rows :
              \/ /\ candidate[row[1]] \in {"queued", "applying"}
                 /\ SetCandidate(row[1], "needs_review")
                 /\ sweep' = [sweep EXCEPT !.pc = IF row[2] = 0 THEN "application" ELSE "attempt",
                                    !.rows = @ \ {row}, !.row = row, !.repaired = TRUE]
              \/ /\ sweep' = [sweep EXCEPT !.rows = @ \ {row}]
                 /\ UNCHANGED <<candidate, stale>>
        BY <2>2 DEF SweepCandidate
      <3>2. row[1] \in Candidate /\ UNCHANGED application /\ sweep.pc = "repair"
        BY <1>0, <2>2, <3>1 DEF ServicesOK, SweepRecord, SweepRow, SweepCandidate
      <3>3. CASE sweep' = [sweep EXCEPT !.rows = @ \ {row}] /\ UNCHANGED candidate
        <4>1. sweep'.pc = "repair"  BY <1>0, <3>2, <3>3 DEF ServicesOK, SweepRecord
        <4> QED BY <1>3, <2>1, <3>2, <3>3, <4>1 DEF Reviewing
      <3>4. CASE sweep' = [sweep EXCEPT !.pc = IF row[2] = 0 THEN "application" ELSE "attempt",
                                    !.rows = @ \ {row}, !.row = row, !.repaired = TRUE]
                 /\ candidate[row[1]] \in {"queued", "applying"}
                 /\ SetCandidate(row[1], "needs_review")
        <4>1. sweep'.row = row  BY <1>0, <3>4 DEF ServicesOK, SweepRecord
        <4>2. \A e \in Candidate \ {row[1]} : Reviewing(e)' => Reviewing(e)
          BY <2>1, <4>1 DEF Reviewing
        <4> QED BY <1>1, <3>2, <3>4, <4>2, ParkingOwn
      <3> QED BY <3>1, <3>3, <3>4
    <2>3. CASE SweepApplication
      <3>1. sweep.row[1] \in Candidate /\ Reviewing(sweep.row[1])
        BY <1>0, <2>3 DEF SweepApplication, ServicesOK, SweepRecord, SweepRow, Reviewing
      <3>2. sweep'.pc = "repair"
        BY <1>0, <2>3 DEF SweepApplication, ServicesOK, SweepRecord
      <3> QED BY <1>1, <2>1, <2>3, <3>1, <3>2, ReviewOwn DEF SweepApplication, Reviewing
    <2>4. CASE SweepAttempt
      <3>1. sweep'.row = sweep.row /\ sweep.pc = "attempt"
        BY <1>0, <2>4 DEF SweepAttempt, ServicesOK, SweepRecord
      <3> QED BY <1>3, <2>1, <2>4, <3>1 DEF SweepAttempt, rows, Reviewing
    <2>5. CASE SweepStart \/ SweepLive \/ SweepRead \/ SweepSettle \/ SweepFail \/ SweepLost
      <3>1. sweep'.pc \in {"idle", "publish", "read", "repair", "fail"}
        <4>1. sweep \in SweepRecord /\ SweepIdle \in SweepRecord /\ SweepIdle.pc = "idle"
          BY <1>0, SweepIdleType DEF ServicesOK, SweepIdle
        <4>2. CASE SweepStart  BY <4>1, <4>2 DEF SweepStart, SweepRecord
        <4>3. CASE SweepLive  BY <4>1, <4>3 DEF SweepLive, SweepRecord
        <4>4. CASE SweepRead  BY <4>1, <4>4 DEF SweepRead, SweepRecord
        <4>5. CASE SweepSettle  BY <4>1, <4>5 DEF SweepSettle, SweepRecord
        <4> QED BY <2>5, <4>1, <4>2, <4>3, <4>4, <4>5 DEF SweepFail, SweepLost
      <3>2. UNCHANGED <<candidate, application>>
        BY <2>5
        DEF SweepStart, SweepLive, SweepRead, SweepSettle, SweepFail, SweepLost, rows
      <3> QED BY <1>3, <2>1, <3>1, <3>2 DEF Reviewing
    <2> QED BY <1>6, <2>2, <2>3, <2>4, <2>5 DEF SweepStep
  <1> QED BY <1>4, <1>5, <1>6 DEF RecoveryNext
-----------------------------------------------------------------------------
(* The API.                                                                 *)

LEMMA ApproveOwn ==
  ASSUME TypeInv, DispatchInv, OwnInv, NEW queued \in SUBSET Candidate,
         NEW unavailable \in SUBSET Candidate, Approve(queued, unavailable)
  PROVE  OwnInv'
  <1>0. RowsOK /\ OutboxOK  BY TypeInvParts DEF SharedOK
  <1>1. UNCHANGED <<cancelled, job, lock, handler, worker, sweep, retrying>>
    BY DEF Approve, redis
  <1>2. \A c \in Candidate : retrying[c] = "no"  BY DEF Approve, ApprovalLockFree
  <1>3. \A c \in queued \cup unavailable : application[c] = "none" /\ ~Reviewing(c)
    BY DEF Approve, OwnInv, ActiveIsKnown
  <1>4. \A c \in Candidate :
          /\ c \in queued => candidate'[c] = "queued" /\ application'[c] = "queued"
          /\ c \notin queued => application'[c] = application[c] /\ dispatches'[c] = dispatches[c]
          /\ c \in unavailable => candidate'[c] = "needs_review"
          /\ c \notin queued \cup unavailable => candidate'[c] = candidate[c]
    BY DEF Approve
  <1>5. \A c : (Reviewing(c)' <=> Reviewing(c)) /\ (NobodyOn(c)' <=> NobodyOn(c))
    BY <1>1 DEF Reviewing, NobodyOn, OperatesOn, CandOf
  <1>6. HoldsItsJob'  BY <1>1 DEF OwnInv, HoldsItsJob, At, Owns
  <1>7. OperatesOpen'  BY <1>1 DEF OwnInv, OperatesOpen
  <1>8. RetriesAlone'  BY <1>1, <1>2 DEF RetriesAlone
  <1>9. RetriesIdle'  BY <1>1, <1>2 DEF RetriesIdle, Dispatch
  <1>10. ParkedHasJob'
    <2>1. ASSUME NEW d \in Dispatch, application'[d[1]] = "needs_review" \/ Reviewing(d[1])',
                 Waiting(d[1])', OpenDispatch(d)'
          PROVE  job'[d] # "none"
      <3>1. d[1] \in Candidate  BY DEF Dispatch
      <3>2. d[1] \notin queued \cup unavailable
        BY <1>3, <1>4, <1>5, <2>1, <3>1 DEF Waiting
      <3>3. Waiting(d[1]) /\ OpenDispatch(d)
        BY <1>1, <1>4, <2>1, <3>1, <3>2 DEF Waiting, OpenDispatch, Exists
      <3> QED BY <1>1, <1>4, <1>5, <2>1, <3>1, <3>2, <3>3 DEF OwnInv, ParkedHasJob
    <2> QED BY <2>1 DEF ParkedHasJob
  <1>11. ActiveIsKnown'
    BY <1>3, <1>4, <1>5 DEF OwnInv, ActiveIsKnown, ActiveCandidate
  <1>12. CancelledStaysOut'
    BY <1>3, <1>4, <1>5 DEF OwnInv, CancelledStaysOut, NobodyOn
  <1> QED BY <1>6, <1>7, <1>8, <1>9, <1>10, <1>11, <1>12 DEF OwnInv

LEMMA CancelOwn ==
  ASSUME TypeInv, DispatchInv, OwnInv, NEW c \in Candidate,
         Cancel(c) \/ (CancelRollback(c) /\ ~Reviewing(c))
  PROVE  OwnInv'
  <1>0. RowsOK /\ OutboxOK /\ RedisOK  BY TypeInvParts DEF SharedOK
  <1>1. UNCHANGED <<dispatches, lock, handler, worker, sweep, retrying>>
    BY DEF Cancel, CancelRollback, actors, outbox
  <1>2. /\ \A e \in Candidate : retrying[e] = "no"
        /\ application[c] = "queued" /\ Removable(c)
    BY DEF Cancel, CancelRollback, MayCancel, ApprovalLockFree
  <1>3. \A d \in Dispatch : d[1] \in Candidate /\ (d \in DispatchesOf(c) => d[1] = c)
                            /\ (d[1] = c /\ Exists(d) => d \in DispatchesOf(c))
    BY <1>0 DEF Dispatch, DispatchesOf, Exists, OutboxOK
  <1>4. \A d \in Dispatch : \/ job'[d] = job[d]
                            \/ d[1] = c /\ OpenDispatch(d) /\ job[d] # "active"
    BY <1>0, <1>2, <1>3 DEF Cancel, CancelRollback, RemoveJobs, Removable
  <1>5. NobodyOn(c)
    <2>1. ASSUME NEW w \in Worker, OperatesOn(w, c)  PROVE FALSE
      <3>1. /\ worker[w].disp \in Dispatch /\ worker[w].disp[1] = c
            /\ OpenDispatch(worker[w].disp) /\ job[worker[w].disp] = "active"
        BY <2>1, OperationHolds DEF OperatesOn, Owns
      <3> QED BY <1>2, <1>3, <3>1 DEF Removable, OpenDispatch
    <2> QED BY <2>1 DEF NobodyOn
  <1>6. \A e : (Reviewing(e)' <=> Reviewing(e)) /\ (NobodyOn(e)' <=> NobodyOn(e))
    BY <1>1 DEF Reviewing, NobodyOn, OperatesOn, CandOf
  <1>7. /\ candidate'[c] = "rejected" \/ UNCHANGED candidate
        /\ \A e \in Candidate \ {c} : candidate'[e] = candidate[e]
        /\ \A e \in Candidate \ {c} : application'[e] = application[e]
        /\ \/ UNCHANGED <<candidate, application, cancelled>> /\ ~Reviewing(c)
           \/ candidate'[c] = "rejected" /\ application'[c] = "closed"
        /\ \A d \in Dispatch : d \in cancelled' => d \in cancelled \/ d[1] = c
        /\ cancelled \subseteq cancelled'
    BY <1>0, <1>3 DEF Cancel, CancelRollback, SetCandidate, RowsOK, rows, outbox
  <1>8. HoldsItsJob'
    BY <1>1, <1>4 DEF OwnInv, HoldsItsJob, At, Owns, TypeInv, AssignedWork
  <1>9. OperatesOpen'
    <2>1. ASSUME NEW w \in Worker, worker'[w].pc \in Operating
          PROVE  worker'[w].disp \notin cancelled'
      <3>1. CandOf(w) # c  BY <1>1, <1>5, <2>1 DEF NobodyOn, OperatesOn
      <3>2. worker[w].disp \in Dispatch /\ worker[w].disp[1] = CandOf(w)
        BY <1>1, <2>1, OperationHolds
      <3> QED BY <1>1, <1>7, <2>1, <3>1, <3>2 DEF OwnInv, OperatesOpen
    <2> QED BY <2>1 DEF OperatesOpen
  <1>10. RetriesAlone'  BY <1>1, <1>2 DEF RetriesAlone
  <1>11. RetriesIdle'  BY <1>1, <1>2, <1>3 DEF RetriesIdle
  <1>12. ParkedHasJob'
    <2>1. ASSUME NEW d \in Dispatch, application'[d[1]] = "needs_review" \/ Reviewing(d[1])',
                 Waiting(d[1])', OpenDispatch(d)'
          PROVE  job'[d] # "none"
      <3>1. d[1] # c  BY <1>2, <1>6, <1>7, <2>1 DEF Waiting
      <3>2. Waiting(d[1]) /\ OpenDispatch(d) /\ job'[d] = job[d]
        BY <1>1, <1>3, <1>4, <1>7, <2>1, <3>1 DEF Waiting, OpenDispatch, Exists
      <3> QED BY <1>3, <1>6, <1>7, <2>1, <3>1, <3>2 DEF OwnInv, ParkedHasJob
    <2> QED BY <2>1 DEF ParkedHasJob
  <1>13. ActiveIsKnown'
    BY <1>6, <1>7 DEF OwnInv, ActiveIsKnown, ActiveCandidate
  <1>14. CancelledStaysOut'
    BY <1>2, <1>5, <1>6, <1>7 DEF OwnInv, CancelledStaysOut, NobodyOn
  <1> QED BY <1>8, <1>9, <1>10, <1>11, <1>12, <1>13, <1>14 DEF OwnInv

\* A retry that passed its checks has no operation beside it, and none can
\* start: the candidate's open dispatch, if any, has ended its job.
LEMMA RetryCheckOwn ==
  ASSUME TypeInv, DispatchInv, OwnInv, ~InfoFails, NEW c \in Candidate,
         NEW confirmed \in BOOLEAN, RetryCheck(c, confirmed)
  PROVE  OwnInv'
  <1>0. RowsOK /\ OutboxOK /\ RedisOK /\ ServicesOK  BY TypeInvParts DEF SharedOK
  <1>1. /\ UNCHANGED <<candidate, application, dispatches, cancelled, job, lock, handler, worker,
                       sweep>>
        /\ \A e \in Candidate \ {c} : retrying'[e] = retrying[e]
    BY <1>0 DEF RetryCheck, rows, outbox, redis, ServicesOK
  <1>2. application[c] \in {"needs_review", "closed"}
    BY <1>0 DEF RetryCheck, RetryAllowed, SafeRetry, RowsOK, AppStatus
  <1>3. ASSUME NEW d \in Dispatch, d[1] = c, OpenDispatch(d)  PROVE ~Live(d)
    <2>1. \A e \in DispatchesOf(c) : e \in Dispatch /\ e[1] = c
      <3>1. dispatches[c] \in 0..MaxDispatches  BY <1>0 DEF OutboxOK
      <3>2. 1..dispatches[c] \subseteq 1..MaxDispatches  BY <3>1, BoundAssumption
      <3> QED BY <3>2 DEF DispatchesOf, Dispatch
    <2>2. d \in DispatchesOf(c)
      BY <1>0, <1>3 DEF DispatchesOf, Dispatch, OpenDispatch, Exists, OutboxOK
    <2>3. \A e \in DispatchesOf(c) : OpenDispatch(e) => e = d
      BY <1>3, <2>1, OneOpen
    <2>4. d[2] <= d[2]  BY DEF Dispatch
    <2>5. \A e \in DispatchesOf(c) : OpenDispatch(e) => e[2] <= d[2]  BY <2>3, <2>4
    <2>6. QueueIdle(c)  BY DEF RetryCheck
    <2> QED BY <1>3, <2>2, <2>5, <2>6 DEF QueueIdle
  <1>4. NobodyOn(c)
    BY <1>3, OperationHolds DEF NobodyOn, OperatesOn, Live, Owns
  <1>5. \A d \in Dispatch : d[1] = c /\ Waiting(c) /\ OpenDispatch(d) =>
          job[d] \in {"completed", "failed"}
    <2>1. Waiting(c) => application[c] = "needs_review"
      BY <1>2 DEF OwnInv, CancelledStaysOut, Waiting
    <2> QED BY <1>0, <1>3, <2>1 DEF Live, OwnInv, ParkedHasJob, RedisOK, JobState
  <1>6. \A e : /\ (NobodyOn(e)' <=> NobodyOn(e)) /\ (Reviewing(e)' <=> Reviewing(e))
               /\ (Waiting(e)' <=> Waiting(e)) /\ (OpenDispatch(e)' <=> OpenDispatch(e))
    BY <1>1 DEF NobodyOn, OperatesOn, CandOf, Reviewing, Waiting, OpenDispatch, Exists
  <1>7. \A d \in Dispatch : d[1] \in Candidate  BY DEF Dispatch
  <1>8. HoldsItsJob'  BY <1>1 DEF OwnInv, HoldsItsJob, At, Owns
  <1>9. OperatesOpen'  BY <1>1 DEF OwnInv, OperatesOpen
  <1>10. RetriesAlone'  BY <1>1, <1>2, <1>4, <1>6 DEF OwnInv, RetriesAlone
  <1>11. RetriesIdle'  BY <1>1, <1>5, <1>6, <1>7 DEF OwnInv, RetriesIdle
  <1>12. ParkedHasJob'  BY <1>1, <1>6, <1>7 DEF OwnInv, ParkedHasJob
  <1>13. ActiveIsKnown'  BY <1>1, <1>6 DEF OwnInv, ActiveIsKnown
  <1>14. CancelledStaysOut'  BY <1>1, <1>6 DEF OwnInv, CancelledStaysOut, NobodyOn
  <1> QED BY <1>8, <1>9, <1>10, <1>11, <1>12, <1>13, <1>14 DEF OwnInv

LEMMA RetryCommitOwn ==
  ASSUME TypeInv, DispatchInv, OwnInv, NEW c \in Candidate, RetryCommit(c), ~Reviewing(c)
  PROVE  OwnInv'
  <1>0. RowsOK /\ OutboxOK /\ ServicesOK  BY TypeInvParts DEF SharedOK
  <1>1. /\ UNCHANGED <<job, lock, handler, worker, sweep>>
        /\ cancelled' = cancelled \cup DispatchesOf(c)
        /\ candidate'[c] = "queued" /\ application'[c] = "queued" /\ retrying'[c] = "no"
        /\ \A e \in Candidate \ {c} :
             /\ candidate'[e] = candidate[e] /\ application'[e] = application[e]
             /\ retrying'[e] = retrying[e] /\ dispatches'[e] = dispatches[e]
    BY <1>0 DEF RetryCommit, SetCandidate, redis, RowsOK, ServicesOK, OutboxOK
  <1>2. NobodyOn(c)  BY DEF RetryCommit, OwnInv, RetriesAlone
  <1>3. \A d \in DispatchesOf(c) : d[1] = c  BY DEF DispatchesOf
  <1>4. \A e : (NobodyOn(e)' <=> NobodyOn(e)) /\ (Reviewing(e)' <=> Reviewing(e))
    BY <1>1 DEF NobodyOn, OperatesOn, CandOf, Reviewing
  <1>5. \A d \in Dispatch : d[1] \in Candidate  BY DEF Dispatch
  <1>6. \A d \in Dispatch : d[1] # c => /\ (Waiting(d[1])' <=> Waiting(d[1]))
                                        /\ (OpenDispatch(d)' <=> OpenDispatch(d))
    BY <1>1, <1>3, <1>5 DEF Waiting, OpenDispatch, Exists
  <1>7. HoldsItsJob'  BY <1>1 DEF OwnInv, HoldsItsJob, At, Owns
  <1>8. OperatesOpen'
    BY <1>1, <1>2, <1>3 DEF OwnInv, OperatesOpen, NobodyOn, OperatesOn, CandOf
  <1>9. RetriesAlone'  BY <1>1, <1>4 DEF OwnInv, RetriesAlone
  <1>10. RetriesIdle'
    <2>1. ASSUME NEW d \in Dispatch, retrying'[d[1]] # "no", Waiting(d[1])', OpenDispatch(d)'
          PROVE  job'[d] \in {"completed", "failed"}
      BY <1>1, <1>5, <1>6, <2>1 DEF OwnInv, RetriesIdle
    <2> QED BY <2>1 DEF RetriesIdle
  <1>11. ParkedHasJob'
    <2>1. ASSUME NEW d \in Dispatch, application'[d[1]] = "needs_review" \/ Reviewing(d[1])',
                 Waiting(d[1])', OpenDispatch(d)'
          PROVE  job'[d] # "none"
      <3>1. d[1] # c  BY <1>1, <1>4, <2>1
      <3> QED BY <1>1, <1>4, <1>5, <1>6, <2>1, <3>1 DEF OwnInv, ParkedHasJob
    <2> QED BY <2>1 DEF ParkedHasJob
  <1>12. ActiveIsKnown'  BY <1>1, <1>4 DEF OwnInv, ActiveIsKnown
  <1>13. CancelledStaysOut'
    BY <1>1, <1>2, <1>4 DEF OwnInv, CancelledStaysOut, NobodyOn
  <1> QED BY <1>7, <1>8, <1>9, <1>10, <1>11, <1>12, <1>13 DEF OwnInv

LEMMA ApiStepsOwn ==
  ASSUME TypeInv, DispatchInv, OwnInv, ~InfoFails, OwnerStandsBack, ApiNext
  PROVE  OwnInv'
  <1>0. ServicesOK  BY TypeInvParts DEF SharedOK
  <1>1. ASSUME Stop \/ (\E c \in Candidate : Flag(c) \/ RetryAbandon(c))
               \/ (\E a \in Attempt : ResolveFlag(a))
        PROVE  OwnInv'
    <2>1. UNCHANGED <<candidate, application, dispatches, cancelled, job, lock, handler, worker,
                      sweep>>
      BY <1>1 DEF Stop, Flag, RetryAbandon, ResolveFlag, rows, outbox, redis, actors
    <2>2. \A c \in Candidate : retrying'[c] # "no" => retrying[c] # "no"
      BY <1>0, <1>1 DEF Stop, Flag, RetryAbandon, ResolveFlag, actors, ServicesOK
    <2>3. HoldsItsJob'  BY <2>1 DEF OwnInv, HoldsItsJob, At, Owns
    <2> QED BY <2>1, <2>2, <2>3, OwnFrame DEF Reviewing
  <1> QED
    BY <1>1, ApproveOwn, CancelOwn, RetryCheckOwn, RetryCommitOwn DEF ApiNext, OwnerStandsBack
-----------------------------------------------------------------------------

LEMMA NextOwn ==
  ASSUME ~Zombies, ~InfoFails, TypeInv, DispatchInv, OwnInv, [Next]_vars,
         [OwnerStandsBack]_vars
  PROVE  OwnInv'
  <1>1. CASE UNCHANGED vars
    <2>1. HoldsItsJob'
      BY <1>1 DEF vars, redis, actors, OwnInv, HoldsItsJob, At, Owns
    <2> QED
      BY <1>1, <2>1, OwnFrame DEF vars, rows, outbox, redis, actors, Reviewing
  <1>2. CASE Next /\ OwnerStandsBack
    BY <1>2, ApiStepsOwn, DispatchStepsOwn, ApplyStepsOwn, RecoveryStepsOwn DEF Next, ApplyNext
  <1> QED BY <1>1, <1>2

LEMMA OwnInvariant ==
  ASSUME ~Zombies, ~InfoFails
  PROVE  Spec /\ [][OwnerStandsBack]_vars => [](TypeInv /\ DispatchInv /\ OwnInv)
  <1>1. Init => OwnInv  BY InitOwnInv
  <1>2. TypeInv /\ DispatchInv /\ OwnInv /\ [Next]_vars /\ [OwnerStandsBack]_vars => OwnInv'
    BY NextOwn
  <1> QED BY <1>1, <1>2, DispatchInvariant, PTL DEF Spec

LEMMA OneOperation ==
  ASSUME TypeInv, DispatchInv, OwnInv, NEW c \in Candidate, NEW v \in Worker, NEW w \in Worker,
         OperatesOn(v, c), OperatesOn(w, c)
  PROVE  v = w
  <1>1. worker[v].disp = worker[w].disp
    BY OperationHolds, OneOpen DEF OperatesOn
  <1> QED BY <1>1, OperationHolds DEF OperatesOn, Owns

\* However many approvals, retries, cancellations, redeliveries and crashes,
\* two browsers never work on one candidate (application-queue.ts:478-486,
\* applications/actions.ts:40-76), as long as the owner stands back while
\* recovery parks it.
THEOREM OneBrowser ==
  ASSUME ~Zombies, ~InfoFails
  PROVE  Spec /\ [][OwnerStandsBack]_vars => []OneBrowserPerCandidate
  <1>1. TypeInv /\ DispatchInv /\ OwnInv => OneBrowserPerCandidate
    BY OneOperation DEF OneBrowserPerCandidate
  <1> QED BY <1>1, OwnInvariant, PTL

\* A cancelled application stays out: nobody works on it and none of its jobs
\* may start, and no retry, handler or sweep puts it back
\* (applications/actions.ts:100-140), as long as the owner stands back.
THEOREM CancelledIsOut ==
  ASSUME ~Zombies, ~InfoFails
  PROVE  Spec /\ [][OwnerStandsBack]_vars => []CancelledStaysOut
  <1>1. OwnInv => CancelledStaysOut  BY DEF OwnInv
  <1> QED BY <1>1, OwnInvariant, PTL
-----------------------------------------------------------------------------
(* What the other invariants of this module need to know of a step that is  *)
(* not one of a browser operation.                                          *)

\* The operation of a worker is where it was, but for its lost lease.
Stays(w) == /\ worker'[w].pc = worker[w].pc /\ worker'[w].disp = worker[w].disp
            /\ worker'[w].att = worker[w].att /\ worker'[w].result = worker[w].result
            /\ worker'[w].outcome = worker[w].outcome
            /\ worker'[w].accepted = worker[w].accepted
Claims(w) == Claim(w) /\ MayClaim(w) /\ worker'[w].pc = "enter" /\ worker'[w].disp = worker[w].disp

LEMMA OperationsStay ==
  ASSUME TypeInv, NEW w \in Worker, ApiNext \/ DispatchNext \/ RecoveryNext,
         worker'[w].pc \in Operating
  PROVE  Claims(w) \/ (worker[w].pc \in Operating /\ Stays(w))
  <1>0. WorkersOK  BY TypeInvParts DEF SharedOK
  <1>1. CASE UNCHANGED worker  BY <1>1 DEF Stays
  <1>2. CASE ApiNext \/ RecoveryNext
    BY <1>1, <1>2
    DEF ApiNext, Approve, Stop, Cancel, CancelRollback, RetryCheck, RetryCommit, RetryAbandon,
        Flag, ResolveFlag, actors,
        RecoveryNext, HandlerStep, HandleAttempts, HandleCandidate, HandleApplication,
        HandleCount, HandleFinish, HandlerLost, Age, SweepStep, SweepStart, SweepLive,
        SweepRead, SweepCandidate, SweepAttempt, SweepApplication, SweepSettle, SweepFail,
        SweepLost
  <1>3. ASSUME NEW v \in Worker, JobStep(v)
        PROVE  Claims(w) \/ (worker[w].pc \in Operating /\ Stays(w))
    <2>1. CASE v # w
      BY <1>0, <1>1, <1>3, <2>1, OneWorkerMoves DEF Stays
    <2>2. CASE v = w
      <3>1. Claim(w) /\ MayClaim(w)  BY <1>0, <1>3, <2>2, OnlyClaimOperates
      <3> QED BY <1>0, <3>1 DEF Claim, Claims, Go, WorkersOK, WorkerRecord
    <2> QED BY <2>1, <2>2
  <1>4. ASSUME NEW v \in Worker, NEW d \in Dispatch, PickUp(v, d)
        PROVE  Claims(w) \/ (worker[w].pc \in Operating /\ Stays(w))
    <2>1. v # w
      BY <1>0, <1>4 DEF PickUp, WorkersOK, Idle, Operating, InLane
    <2> QED BY <1>0, <1>4, <2>1 DEF PickUp, WorkersOK, Stays
  <1>5. ASSUME NEW v \in Worker, LoseLease(v) \/ Crash(v)
        PROVE  Claims(w) \/ (worker[w].pc \in Operating /\ Stays(w))
    BY <1>0, <1>5
    DEF LoseLease, Crash, Idle, WorkersOK, WorkerRecord, Stays, Operating, InLane
  <1> QED
    BY <1>1, <1>2, <1>3, <1>4, <1>5
    DEF DispatchNext, PublishStep, PublishAdd, PublishGiveUp, LockExpires, LockLapses,
        Stalled, RedisFlush, actors

\* An application leaves 'applied' by none of these steps, and a candidate its
\* status only from one that is active, or unknown so far, or by a retry.
LEMMA RowsStay ==
  ASSUME TypeInv, OwnInv, ApiNext \/ DispatchNext \/ RecoveryNext, NEW c \in Candidate
  PROVE  /\ \/ application'[c] = application[c]
            \/ application[c] # "applied" /\ application'[c] # "applied" /\ application'[c] # "none"
         /\ \/ candidate'[c] = candidate[c] \/ RetryCommit(c) \/ application[c] = "none"
            \/ candidate[c] \in ActiveCandidate /\ ~Waiting(c)'
  <1>0. RowsOK  BY TypeInvParts DEF SharedOK
  <1>1. CASE UNCHANGED <<candidate, application>>  BY <1>1
  <1>2. ASSUME NEW queued \in SUBSET Candidate, NEW unavailable \in SUBSET Candidate,
               Approve(queued, unavailable)
        PROVE  /\ \/ application'[c] = application[c]
                  \/ /\ application[c] # "applied" /\ application'[c] # "applied"
                     /\ application'[c] # "none"
               /\ candidate'[c] = candidate[c] \/ application[c] = "none"
    BY <1>2 DEF Approve
  <1>3. ASSUME NEW e \in Candidate, NEW status \in {"rejected", "needs_review", "applying"},
               SetCandidate(e, status), candidate[e] \in ActiveCandidate,
               UNCHANGED application \/ /\ application[e] = "queued"
                                        /\ application' = [application EXCEPT ![e] = "closed"]
        PROVE  /\ \/ application'[c] = application[c]
                  \/ /\ application[c] # "applied" /\ application'[c] # "applied"
                     /\ application'[c] # "none"
               /\ \/ candidate'[c] = candidate[c]
                  \/ candidate[c] \in ActiveCandidate /\ ~Waiting(c)'
    BY <1>0, <1>3 DEF SetCandidate, RowsOK, Waiting
  <1>4. ASSUME NEW e \in Candidate, RetryCommit(e)
        PROVE  /\ \/ application'[c] = application[c]
                  \/ /\ application[c] # "applied" /\ application'[c] # "applied"
                     /\ application'[c] # "none"
               /\ candidate'[c] = candidate[c] \/ RetryCommit(c)
    BY <1>0, <1>4 DEF RetryCommit, SetCandidate, RowsOK, OwnInv, RetriesAlone
  <1>5. ASSUME NEW e \in Candidate, ReviewApplication(e), UNCHANGED candidate
        PROVE  /\ \/ application'[c] = application[c]
                  \/ /\ application[c] # "applied" /\ application'[c] # "applied"
                     /\ application'[c] # "none"
               /\ candidate'[c] = candidate[c]
    BY <1>0, <1>5 DEF ReviewApplication, RowsOK
  <1>6. ASSUME NEW e \in Candidate, Cancel(e)
        PROVE  \E status \in {"rejected", "needs_review", "applying"} :
                 /\ SetCandidate(e, status) /\ candidate[e] \in ActiveCandidate
                 /\ application[e] = "queued"
                 /\ application' = [application EXCEPT ![e] = "closed"]
    BY <1>6 DEF Cancel, MayCancel, ActiveCandidate
  <1>7. CASE ApiNext
    <2>1. ASSUME Stop \/ (\E e \in Candidate : CancelRollback(e) \/ Flag(e) \/ RetryAbandon(e))
                 \/ (\E e \in Candidate, confirmed \in BOOLEAN : RetryCheck(e, confirmed))
                 \/ (\E a \in Attempt : ResolveFlag(a))
          PROVE  UNCHANGED <<candidate, application>>
      BY <2>1 DEF Stop, CancelRollback, Flag, RetryAbandon, RetryCheck, ResolveFlag, rows
    <2> QED BY <1>1, <1>2, <1>3, <1>4, <1>6, <1>7, <2>1 DEF ApiNext
  <1>8. CASE DispatchNext
    <2>1. ASSUME NEW w \in Worker, Claim(w)
          PROVE  /\ UNCHANGED application
                 /\ \/ UNCHANGED candidate
                    \/ /\ CandOf(w) \in Candidate /\ candidate[CandOf(w)] \in ActiveCandidate
                       /\ SetCandidate(CandOf(w), "applying")
      BY <2>1 DEF Claim, MayClaim, ActiveCandidate, TypeInv, AssignedWork, At, CandOf, Dispatch
    <2>2. UNCHANGED <<candidate, application>> \/ \E w \in Worker : Claim(w)
      BY <1>8
      DEF DispatchNext, PublishStep, PublishAdd, PublishGiveUp, PickUp, JobStep, ReadCandidate,
          AcquireLanes, CountActive, FinishRun, EndJob, LoseLease, Crash, LockExpires,
          LockLapses, Stalled, RedisFlush, rows
    <2> QED BY <1>1, <1>3, <2>1, <2>2
  <1>9. CASE RecoveryNext
    <2>1. ASSUME NEW d \in Dispatch, HandleCandidate(d)
          PROVE  /\ UNCHANGED application
                 /\ \/ UNCHANGED candidate
                    \/ /\ d[1] \in Candidate /\ candidate[d[1]] \in ActiveCandidate
                       /\ SetCandidate(d[1], "needs_review")
      BY <2>1 DEF HandleCandidate, ActiveCandidate, Dispatch
    <2>2. ASSUME SweepCandidate
          PROVE  /\ UNCHANGED application
                 /\ \/ UNCHANGED candidate
                    \/ \E e \in Candidate : /\ candidate[e] \in ActiveCandidate
                                            /\ SetCandidate(e, "needs_review")
      <3>1. ServicesOK  BY TypeInvParts DEF SharedOK
      <3>2. \A row \in sweep.rows : row[1] \in Candidate
        BY <3>1 DEF ServicesOK, SweepRecord, SweepRow
      <3> QED BY <2>2, <3>2 DEF SweepCandidate, ActiveCandidate
    <2>3. ASSUME SweepApplication \/ \E d \in Dispatch : HandleApplication(d)
          PROVE  UNCHANGED candidate /\ \E e \in Candidate : ReviewApplication(e)
      <3>1. ServicesOK  BY TypeInvParts DEF SharedOK
      <3>2. sweep.row[1] \in Candidate  BY <3>1 DEF ServicesOK, SweepRecord, SweepRow
      <3> QED BY <2>3, <3>2 DEF SweepApplication, HandleApplication, Dispatch
    <2>4. \/ UNCHANGED <<candidate, application>>
          \/ SweepCandidate \/ SweepApplication
          \/ \E d \in Dispatch : HandleCandidate(d) \/ HandleApplication(d)
      BY <1>9
      DEF RecoveryNext, HandlerStep, HandleAttempts, HandleCount, HandleFinish, HandlerLost,
          Age, SweepStep, SweepStart, SweepLive, SweepRead, SweepAttempt, SweepSettle,
          SweepFail, SweepLost, rows
    <2> QED BY <1>1, <1>3, <1>5, <2>1, <2>2, <2>3, <2>4
  <1> QED BY <1>7, <1>8, <1>9
-----------------------------------------------------------------------------
(* The steps of an operation, by what they do to its worker.                *)

Kin(w) == worker'[w].disp = worker[w].disp /\ worker'[w].att = worker[w].att

LEMMA MovesTo ==
  ASSUME WorkersOK, NEW w \in Worker
  PROVE  /\ \A pc : Go(w, pc) => /\ worker'[w].pc = pc /\ Kin(w)
                                 /\ worker'[w].result = worker[w].result
                                 /\ worker'[w].outcome = worker[w].outcome
                                 /\ worker'[w].accepted = worker[w].accepted
         /\ \A result : Record(w, result) => /\ worker'[w].pc = "wAttempt" /\ Kin(w)
                                             /\ worker'[w].result = result
                                             /\ worker'[w].outcome = "none"
                                             /\ worker'[w].accepted = FALSE
         /\ Throw(w) => /\ worker'[w].pc = "caught" /\ Kin(w)
                        /\ worker'[w].result = worker[w].result
                        /\ worker'[w].outcome = "none"
                        /\ worker'[w].accepted = worker[w].accepted
  <1>0. worker[w] \in WorkerRecord  BY DEF WorkersOK
  <1>1. ASSUME NEW pc, Go(w, pc)
        PROVE  /\ worker'[w].pc = pc /\ Kin(w) /\ worker'[w].result = worker[w].result
               /\ worker'[w].outcome = worker[w].outcome
               /\ worker'[w].accepted = worker[w].accepted
    BY <1>0, <1>1 DEF Go, WorkersOK, WorkerRecord, Kin
  <1>2. ASSUME NEW result, Record(w, result)
        PROVE  /\ worker'[w].pc = "wAttempt" /\ Kin(w) /\ worker'[w].result = result
               /\ worker'[w].outcome = "none" /\ worker'[w].accepted = FALSE
    BY <1>0, <1>2 DEF Record, WorkersOK, WorkerRecord, Idle, Kin
  <1>3. ASSUME Throw(w)
        PROVE  /\ worker'[w].pc = "caught" /\ Kin(w) /\ worker'[w].result = worker[w].result
               /\ worker'[w].outcome = "none" /\ worker'[w].accepted = worker[w].accepted
    <2> DEFINE r == [worker[w] EXCEPT !.pc = "caught", !.outcome = "none", !.rounds = 0]
    <2>1. worker'[w] = r  BY <1>3 DEF Throw, WorkersOK
    <2>2. /\ r.pc = "caught" /\ r.disp = worker[w].disp /\ r.att = worker[w].att
          /\ r.result = worker[w].result /\ r.outcome = "none"
          /\ r.accepted = worker[w].accepted
      BY <1>0 DEF WorkerRecord
    <2> QED BY <2>1, <2>2 DEF Kin
  <1> QED BY <1>1, <1>2, <1>3

\* An operation up to its attempt row, and from it.
BeforeAttempt == {"enter", "tailor", "check", "prepare", "acctApplication", "acctCandidate",
                  "acctAttempt", "repeat"}
OnTheForm     == {"form", "fence", "click", "seen", "accident", "response", "outcome", "caught"}
WithAttempt   == {"mark", "open", "wAttempt", "wCandidate", "wApplication"} \cup OnTheForm

\* The steps that touch no row and no attempt: they stay before the attempt, or
\* on the form, until the operation records what came of it.
Quiet(w) == \/ Enter(w) \/ CheckCandidate(w) \/ Open(w) \/ FillForm(w) \/ AgentFence(w)
            \/ AgentReport(w) \/ NoticeStep(w) \/ FormResponse(w) \/ Settle(w) \/ Caught(w)
            \/ AgentClick(w) \/ StepClick(w) \/ FormClick(w)
            \/ Prepare(w) /\ UNCHANGED trail

LEMMA QuietSteps ==
  ASSUME TypeInv, NEW w \in Worker, Quiet(w)
  PROVE  /\ UNCHANGED <<candidate, application, attempts, attempt>>
         /\ \/ worker'[w].pc \in {"count", "failing"}
            \/ /\ Kin(w)
               /\ \/ worker[w].pc \in BeforeAttempt /\ worker'[w].pc \in BeforeAttempt
                  \/ /\ worker[w].pc \in {"open"} \cup OnTheForm
                     /\ \/ worker'[w].pc \in OnTheForm
                        \/ /\ worker'[w].pc = "wAttempt"
                           /\ worker'[w].result = "deferred" => worker[w].pc = "open"
  <1>0. WorkersOK  BY TypeInvParts DEF SharedOK
  <1>1. CASE Enter(w) \/ CheckCandidate(w) \/ (Prepare(w) /\ UNCHANGED trail)
    <2>1. UNCHANGED <<candidate, application, attempts, attempt>>
      BY <1>1 DEF Enter, CheckCandidate, Prepare, rows, trail
    <2>2. \E pc \in {"count", "failing"} \cup BeforeAttempt : Go(w, pc)
      <3>1. CASE Enter(w)  BY <3>1 DEF Enter, BeforeAttempt
      <3>2. CASE CheckCandidate(w)
        BY <3>2 DEF CheckCandidate, BeforeAttempt
      <3>3. CASE Prepare(w) /\ UNCHANGED trail
        <4>1. ~InsertAttempt(CandOf(w), "submitting")
          BY <3>3 DEF InsertAttempt, trail, TypeInv, TypeOK, TrailOK, AssignedWork, Prepare, At, CandOf,
                      Dispatch
        <4> QED BY <3>3, <4>1 DEF Prepare, BeforeAttempt
      <3> QED BY <1>1, <3>1, <3>2, <3>3
    <2>3. worker[w].pc \in BeforeAttempt
      BY <1>1 DEF Enter, CheckCandidate, Prepare, At, BeforeAttempt
    <2> QED BY <1>0, <2>1, <2>2, <2>3, MovesTo
  <1>2. CASE Open(w)
    <2>1. UNCHANGED <<candidate, application, attempts, attempt>> /\ worker[w].pc = "open"
      BY <1>2 DEF Open, rows, trail, At
    <2>2. Throw(w) \/ Record(w, "deferred") \/ Go(w, "form")  BY <1>2 DEF Open
    <2> QED BY <1>0, <2>1, <2>2, MovesTo DEF OnTheForm
  <1>3. CASE FillForm(w) \/ AgentFence(w) \/ AgentReport(w) \/ NoticeStep(w) \/ FormResponse(w)
             \/ Settle(w) \/ Caught(w) \/ AgentClick(w) \/ StepClick(w) \/ FormClick(w)
    <2>1. UNCHANGED <<candidate, application, attempts, attempt>> /\ worker[w].pc \in OnTheForm
      BY <1>3 DEF FillForm, AgentFence, AgentReport, NoticeStep, FormResponse, Settle, Caught,
                  AgentClick, StepClick, FormClick, rows, trail, At, OnTheForm
    <2>2. CASE FillForm(w) \/ AgentFence(w) \/ Settle(w) \/ Caught(w)
      <3>1. Throw(w) \/ Go(w, "fence")
            \/ \E result \in Result \ {"deferred"} : Record(w, result)
        BY <2>2 DEF FillForm, AgentFence, Settle, Caught, Result
      <3> QED BY <1>0, <2>1, <3>1, MovesTo DEF OnTheForm
    <2>3. CASE AgentReport(w) \/ NoticeStep(w) \/ FormResponse(w) \/ AgentClick(w)
               \/ StepClick(w) \/ FormClick(w)
      <3>1. Kin(w) /\ worker'[w].pc \in OnTheForm
        <4>1. Throw(w) => Kin(w) /\ worker'[w].pc \in OnTheForm
          BY <1>0, MovesTo DEF OnTheForm
        <4>2. Go(w, "fence") => Kin(w) /\ worker'[w].pc \in OnTheForm
          BY <1>0, MovesTo DEF OnTheForm
        <4>3. ASSUME NEW pc \in OnTheForm, NEW outcome,
                     worker' = [worker EXCEPT ![w].pc = pc, ![w].outcome = outcome]
              PROVE  Kin(w) /\ worker'[w].pc \in OnTheForm
          <5> DEFINE r == [worker[w] EXCEPT !.pc = pc, !.outcome = outcome]
          <5>1. worker'[w] = r  BY <1>0, <4>3 DEF WorkersOK
          <5>2. r.pc = pc /\ r.disp = worker[w].disp /\ r.att = worker[w].att
            BY <1>0 DEF WorkersOK, WorkerRecord
          <5> QED BY <5>1, <5>2 DEF Kin
        <4>4. CASE AgentReport(w)  BY <4>1, <4>3, <4>4 DEF AgentReport, OnTheForm
        <4>5. CASE NoticeStep(w)
          <5>1. ASSUME worker' = [worker EXCEPT ![w].pc = "caught", ![w].attempted = TRUE]
                PROVE  Kin(w) /\ worker'[w].pc \in OnTheForm
            <6> DEFINE r == [worker[w] EXCEPT !.pc = "caught", !.attempted = TRUE]
            <6>1. worker'[w] = r  BY <1>0, <5>1 DEF WorkersOK
            <6>2. r.pc = "caught" /\ r.disp = worker[w].disp /\ r.att = worker[w].att
              BY <1>0 DEF WorkersOK, WorkerRecord
            <6> QED BY <6>1, <6>2 DEF Kin, OnTheForm
          <5> QED BY <4>1, <4>2, <4>3, <4>5, <5>1 DEF NoticeStep, OnTheForm
        <4>6. CASE FormResponse(w)  BY <4>1, <4>3, <4>6 DEF FormResponse, OnTheForm
        <4>7. ASSUME NEW pc \in OnTheForm, NEW accepted,
                     worker' = [worker EXCEPT ![w].pc = pc, ![w].accepted = accepted]
              PROVE  Kin(w) /\ worker'[w].pc \in OnTheForm
          <5> DEFINE r == [worker[w] EXCEPT !.pc = pc, !.accepted = accepted]
          <5>1. worker'[w] = r  BY <1>0, <4>7 DEF WorkersOK
          <5>2. r.pc = pc /\ r.disp = worker[w].disp /\ r.att = worker[w].att
            BY <1>0 DEF WorkersOK, WorkerRecord
          <5> QED BY <5>1, <5>2 DEF Kin
        <4>8. CASE AgentClick(w) \/ StepClick(w)
          BY <4>7, <4>8 DEF AgentClick, StepClick, OnTheForm
        <4>9. CASE FormClick(w)
          <5>1. PICK accepted, rounds :
                  worker' = [worker EXCEPT ![w].pc = "response", ![w].outcome = "none",
                               ![w].accepted = accepted, ![w].rounds = rounds]
            BY <4>9 DEF FormClick
          <5> DEFINE r == [worker[w] EXCEPT !.pc = "response", !.outcome = "none",
                             !.accepted = accepted, !.rounds = rounds]
          <5>2. worker'[w] = r  BY <1>0, <5>1 DEF WorkersOK
          <5>3. r.pc = "response" /\ r.disp = worker[w].disp /\ r.att = worker[w].att
            BY <1>0 DEF WorkersOK, WorkerRecord
          <5> QED BY <5>2, <5>3 DEF Kin, OnTheForm
        <4> QED BY <2>3, <4>4, <4>5, <4>6, <4>8, <4>9
      <3> QED BY <2>1, <3>1
    <2> QED BY <1>3, <2>1, <2>2, <2>3
  <1> QED BY <1>1, <1>2, <1>3 DEF Quiet

\* The attempt row of an operation is inserted.
Begins(w) == /\ At(w, "prepare") /\ attempts[CandOf(w)] < MaxAttempts
             /\ InsertAttempt(CandOf(w), "submitting") /\ UNCHANGED rows
             /\ worker' = [worker EXCEPT ![w].pc = "mark", ![w].att = attempts[CandOf(w)] + 1]

LEMMA ApplySplit ==
  ASSUME NEW w \in Worker, ApplyStep(w)
  PROVE  \/ Quiet(w) \/ Begins(w) \/ Tailor(w) \/ Repeat(w) \/ ParkApplication(w)
         \/ ParkCandidate(w) \/ ParkAttempt(w) \/ Mark(w) \/ WriteFence(w) \/ WriteAttempt(w)
         \/ WriteCandidate(w) \/ WriteApplication(w)
  <1>1. Prepare(w) => Begins(w) \/ UNCHANGED trail  BY DEF Prepare, Begins, trail
  <1> QED BY <1>1 DEF ApplyStep, Quiet

LEMMA LoudSteps ==
  ASSUME WorkersOK, NEW w \in Worker
  PROVE  /\ Begins(w) => /\ worker'[w].pc = "mark" /\ worker'[w].disp = worker[w].disp
                         /\ worker'[w].att = attempts[CandOf(w)] + 1
         /\ Tailor(w) => worker'[w].pc \in {"check", "failing"} /\ Kin(w)
         /\ Repeat(w) \/ ParkAttempt(w) \/ WriteApplication(w) =>
              worker'[w].pc \in {"count", "failing"}
         /\ ParkApplication(w) => worker'[w].pc = "acctCandidate" /\ Kin(w)
         /\ ParkCandidate(w) => worker'[w].pc = "acctAttempt" /\ Kin(w)
         /\ Mark(w) => worker'[w].pc \in {"open", "failing"} /\ Kin(w)
         /\ WriteFence(w) => worker'[w].pc \in {"outcome", "seen", "click"} /\ Kin(w)
         /\ WriteAttempt(w) => /\ worker'[w].pc = "wCandidate" /\ Kin(w)
                               /\ worker'[w].result = worker[w].result
         /\ WriteCandidate(w) =>
              /\ worker'[w].pc = IF worker[w].result = "deferred" THEN "delaying"
                                 ELSE "wApplication"
              /\ Kin(w) /\ worker'[w].result = worker[w].result
  <1>0. worker[w] \in WorkerRecord  BY DEF WorkersOK
  <1>1. Begins(w) => /\ worker'[w].pc = "mark" /\ worker'[w].disp = worker[w].disp
                     /\ worker'[w].att = attempts[CandOf(w)] + 1
    <2> DEFINE r == [worker[w] EXCEPT !.pc = "mark", !.att = attempts[CandOf(w)] + 1]
    <2>1. Begins(w) => worker'[w] = r  BY DEF Begins, WorkersOK
    <2>2. r.pc = "mark" /\ r.disp = worker[w].disp /\ r.att = attempts[CandOf(w)] + 1
      BY <1>0 DEF WorkerRecord
    <2> QED BY <2>1, <2>2
  <1>2. Tailor(w) => worker'[w].pc \in {"check", "failing"} /\ Kin(w)
    BY MovesTo DEF Tailor
  <1>3. Repeat(w) \/ ParkAttempt(w) \/ WriteApplication(w) =>
          worker'[w].pc \in {"count", "failing"}
    BY MovesTo DEF Repeat, ParkAttempt, WriteApplication
  <1>4. ParkApplication(w) => worker'[w].pc = "acctCandidate" /\ Kin(w)
    BY MovesTo DEF ParkApplication
  <1>5. ParkCandidate(w) => worker'[w].pc = "acctAttempt" /\ Kin(w)
    BY MovesTo DEF ParkCandidate
  <1>6. Mark(w) => worker'[w].pc \in {"open", "failing"} /\ Kin(w)
    BY MovesTo DEF Mark
  <1>7. ASSUME WriteFence(w)  PROVE worker'[w].pc \in {"outcome", "seen", "click"} /\ Kin(w)
    <2>1. PICK pc \in {"outcome", "seen", "click"} :
            worker' = [worker EXCEPT ![w].attempted = TRUE, ![w].pc = pc]
      BY <1>7 DEF WriteFence
    <2> DEFINE r == [worker[w] EXCEPT !.attempted = TRUE, !.pc = pc]
    <2>2. worker'[w] = r  BY <2>1 DEF WorkersOK
    <2>3. r.pc = pc /\ r.disp = worker[w].disp /\ r.att = worker[w].att
      BY <1>0 DEF WorkerRecord
    <2> QED BY <2>2, <2>3 DEF Kin
  <1>8. WriteAttempt(w) => /\ worker'[w].pc = "wCandidate" /\ Kin(w)
                           /\ worker'[w].result = worker[w].result
    BY MovesTo DEF WriteAttempt
  <1>9. WriteCandidate(w) =>
          /\ worker'[w].pc = IF worker[w].result = "deferred" THEN "delaying" ELSE "wApplication"
          /\ Kin(w) /\ worker'[w].result = worker[w].result
    BY MovesTo DEF WriteCandidate
  <1> QED BY <1>1, <1>2, <1>3, <1>4, <1>5, <1>6, <1>7, <1>8, <1>9

-----------------------------------------------------------------------------
(* An application recorded as applied.                                      *)

AppliedRests  == \A c \in Candidate : application[c] = "applied" =>
                   candidate[c] = "applied" /\ NobodyOn(c)
AppliedFirst  == \A w \in Worker : At(w, "wApplication") /\ worker[w].result = "submitted" =>
                   candidate[CandOf(w)] = "applied"
AppliedInv == AppliedRests /\ AppliedFirst

LEMMA AppliedElsewhere ==
  ASSUME TypeInv, DispatchInv, OwnInv, AppliedInv, ApiNext \/ DispatchNext \/ RecoveryNext
  PROVE  AppliedInv'
  <1>1. AppliedRests'
    <2>1. ASSUME NEW c \in Candidate, application'[c] = "applied"
          PROVE  candidate'[c] = "applied" /\ NobodyOn(c)'
      <3>1. application[c] = "applied"  BY <2>1, RowsStay
      <3>2. candidate[c] = "applied" /\ NobodyOn(c)  BY <3>1 DEF AppliedInv, AppliedRests
      <3>3. ~RetryCommit(c)  BY <3>1 DEF RetryCommit, OwnInv, RetriesAlone
      <3>4. candidate'[c] = "applied"
        BY <3>1, <3>2, <3>3, RowsStay DEF ActiveCandidate
      <3>5. ASSUME NEW w \in Worker, OperatesOn(w, c)'  PROVE FALSE
        <4>1. Claims(w) \/ (worker[w].pc \in Operating /\ Stays(w))
          BY <3>5, OperationsStay DEF OperatesOn
        <4> QED
          BY <3>2, <3>5, <4>1 DEF Claims, Stays, MayClaim, NobodyOn, OperatesOn, CandOf
      <3> QED BY <3>4, <3>5 DEF NobodyOn
    <2> QED BY <2>1 DEF AppliedRests
  <1>2. AppliedFirst'
    <2>1. ASSUME NEW w \in Worker, worker'[w].pc = "wApplication",
                 worker'[w].result = "submitted"
          PROVE  candidate'[CandOf(w)'] = "applied"
      <3>1. worker[w].pc \in Operating /\ Stays(w)
        BY <2>1, OperationsStay DEF Operating, InLane, Claims
      <3>2. candidate[CandOf(w)] = "applied" /\ CandOf(w)' = CandOf(w)
        BY <2>1, <3>1 DEF AppliedInv, AppliedFirst, At, Stays, CandOf
      <3>3. CandOf(w) \in Candidate /\ application[CandOf(w)] # "none"
        BY <3>1, OperationHolds
      <3>4. ~RetryCommit(CandOf(w))
        BY <3>1, OperationHolds DEF RetryCommit
      <3> QED BY <3>2, <3>3, <3>4, RowsStay DEF ActiveCandidate
    <2> QED BY <2>1 DEF AppliedFirst, At
  <1> QED BY <1>1, <1>2 DEF AppliedInv

\* Only the last write of an operation records what was submitted.
LEMMA AppliedByWrite ==
  ASSUME TypeInv, NEW w \in Worker, ApplyStep(w), NEW c \in Candidate, c = CandOf(w),
         application[c] # "applied", application'[c] = "applied"
  PROVE  WriteApplication(w) /\ worker[w].result = "submitted"
  <1>0. WorkersOK /\ RowsOK  BY TypeInvParts DEF SharedOK
  <1>1. ~Quiet(w)  BY QuietSteps
  <1>2. ~ParkApplication(w)  BY <1>0 DEF ParkApplication, RowsOK
  <1>3. ~(Begins(w) \/ Tailor(w) \/ Repeat(w) \/ ParkCandidate(w) \/ ParkAttempt(w)
          \/ Mark(w) \/ WriteFence(w) \/ WriteAttempt(w) \/ WriteCandidate(w))
    BY DEF Begins, Tailor, Repeat, ParkCandidate, ParkAttempt, Mark, WriteFence, WriteAttempt,
           WriteCandidate, rows
  <1>4. WriteApplication(w)  BY <1>1, <1>2, <1>3, ApplySplit
  <1> QED BY <1>0, <1>4 DEF WriteApplication, RowsOK

LEMMA AppliedByOperation ==
  ASSUME TypeInv, DispatchInv, OwnInv, AppliedInv, NEW w \in Worker, ApplyStep(w)
  PROVE  AppliedInv'
  <1> SUFFICES ASSUME NEW c, c = CandOf(w)  PROVE AppliedInv'
    OBVIOUS
  <1>0. WorkersOK /\ RowsOK  BY TypeInvParts DEF SharedOK
  <1>1. worker[w].pc \in Operating /\ c \in Candidate /\ application[c] # "applied"
    BY ApplyStepsFrame, OperationHolds DEF AppliedInv, AppliedRests, NobodyOn, OperatesOn
  <1>2. \A e \in Candidate \ {c} : candidate'[e] = candidate[e] /\ application'[e] = application[e]
    BY ApplyStepsFrame
  <1>3. \A v \in Worker \ {w} : worker'[v] = worker[v]  BY <1>0, OneWorkerMoves
  <1>4. \A v \in Worker \ {w} : ~OperatesOn(v, c)
    BY <1>1, OneOperation DEF OperatesOn
  <1>5. worker'[w].pc \in Operating => CandOf(w)' = c
    BY <1>0, <1>1, ApplyStepsKeep DEF Kept, CandOf, Operating, InLane
  <1>6. \A e \in Candidate \ {c} : NobodyOn(e) => NobodyOn(e)'
    BY <1>3, <1>5 DEF NobodyOn, OperatesOn, CandOf
  <1>7. AppliedRests'
    <2>1. CASE application'[c] # "applied"
      BY <1>2, <1>6, <2>1 DEF AppliedInv, AppliedRests
    <2>2. CASE application'[c] = "applied"
      <3>1. WriteApplication(w) /\ worker[w].result = "submitted"
        BY <1>1, <2>2, AppliedByWrite
      <3>2. candidate'[c] = "applied"
        BY <3>1 DEF WriteApplication, AppliedInv, AppliedFirst
      <3>3. NobodyOn(c)'
        <4>1. worker'[w].pc \notin Operating
          BY <1>0, <3>1, LoudSteps DEF Operating, InLane
        <4> QED BY <1>3, <1>4, <4>1 DEF NobodyOn, OperatesOn, CandOf
      <3> QED BY <1>2, <1>6, <3>2, <3>3 DEF AppliedInv, AppliedRests
    <2> QED BY <2>1, <2>2
  <1>8. AppliedFirst'
    <2>1. ASSUME NEW v \in Worker \ {w}, worker'[v].pc = "wApplication",
                 worker'[v].result = "submitted"
          PROVE  candidate'[CandOf(v)'] = "applied"
      <3>1. worker[v].pc = "wApplication" /\ worker[v].result = "submitted" /\ CandOf(v)' = CandOf(v)
        BY <1>3, <2>1 DEF CandOf
      <3>2. CandOf(v) \in Candidate /\ CandOf(v) # c
        BY <1>4, <3>1, OperationHolds DEF OperatesOn, Operating, InLane
      <3> QED BY <1>2, <3>1, <3>2 DEF AppliedInv, AppliedFirst, At
    <2>2. ASSUME worker'[w].pc = "wApplication", worker'[w].result = "submitted"
          PROVE  candidate'[CandOf(w)'] = "applied"
      <3>1. ~Quiet(w)
        BY <2>2, QuietSteps DEF BeforeAttempt, OnTheForm, Operating, InLane
      <3>2. WriteCandidate(w)
        BY <1>0, <2>2, <3>1, ApplySplit, LoudSteps
      <3>3. worker[w].result = "submitted"  BY <1>0, <2>2, <3>2, LoudSteps
      <3>4. candidate' = [candidate EXCEPT ![c] = "applied"]
        BY <3>2, <3>3 DEF WriteCandidate, CandidateStatusOf, SetCandidate
      <3> QED BY <1>0, <1>1, <1>5, <2>2, <3>4 DEF RowsOK, Operating, InLane
    <2> QED BY <2>1, <2>2 DEF AppliedFirst, At
  <1> QED BY <1>7, <1>8 DEF AppliedInv

LEMMA AppliedInvariant ==
  ASSUME ~Zombies, ~InfoFails
  PROVE  Spec /\ [][OwnerStandsBack]_vars => [](TypeInv /\ DispatchInv /\ OwnInv /\ AppliedInv)
  <1>1. Init => AppliedInv
    BY DEF Init, AppliedInv, AppliedRests, AppliedFirst, At, Idle
  <1>2. TypeInv /\ DispatchInv /\ OwnInv /\ AppliedInv /\ [Next]_vars => AppliedInv'
    <2> SUFFICES ASSUME TypeInv, DispatchInv, OwnInv, AppliedInv, [Next]_vars  PROVE AppliedInv'
      OBVIOUS
    <2>1. CASE UNCHANGED vars
      BY <2>1 DEF vars, rows, actors, AppliedInv, AppliedRests, AppliedFirst, NobodyOn,
                  OperatesOn, CandOf, At
    <2> QED BY <2>1, AppliedElsewhere, AppliedByOperation DEF Next, ApplyNext
  <1> QED BY <1>1, <1>2, OwnInvariant, PTL DEF Spec

\* An application recorded as applied is never taken back: not by a retry
\* (safeRetryReason), a late failure handler or the sweep, which update only
\* one still queued, nor by a cancellation (application-queue.ts:419-453), as
\* long as the owner stands back.
THEOREM AppliedStays ==
  ASSUME ~Zombies, ~InfoFails
  PROVE  Spec /\ [][OwnerStandsBack]_vars => AppliedIsFinal
  <1> DEFINE Final == \A c \in Candidate : application[c] = "applied" =>
                        application'[c] = "applied" /\ candidate'[c] \in {"applied", "applying"}
  <1>1. TypeInv /\ DispatchInv /\ OwnInv /\ AppliedInv /\ AppliedInv' /\ [Next]_vars => [Final]_vars
    <2> SUFFICES ASSUME TypeInv, DispatchInv, OwnInv, AppliedInv, AppliedInv', [Next]_vars,
                        NEW c \in Candidate, application[c] = "applied", vars' # vars
                 PROVE  application'[c] = "applied" /\ candidate'[c] \in {"applied", "applying"}
      BY DEF Final
    <2>1. application'[c] = "applied"
      <3>1. ASSUME NEW w \in Worker, ApplyStep(w)  PROVE application'[c] = "applied"
        <4>1. c # CandOf(w)
          BY <3>1, ApplyStepsFrame DEF AppliedInv, AppliedRests, NobodyOn, OperatesOn
        <4> QED BY <3>1, <4>1, ApplyStepsFrame
      <3>2. ASSUME ApiNext \/ DispatchNext \/ RecoveryNext  PROVE application'[c] = "applied"
        BY <3>2, RowsStay
      <3> QED BY <3>1, <3>2 DEF Next, ApplyNext
    <2> QED BY <2>1 DEF AppliedInv, AppliedRests
  <1> QED BY <1>1, AppliedInvariant, PTL DEF Spec, AppliedIsFinal
-----------------------------------------------------------------------------
(* The attempts, as every step but an operation's own leaves them.          *)

AtRest(c) == \A a \in AttemptsOf(c) : ~InFlight(a)

LEMMA TrailElsewhere ==
  ASSUME TypeInv, ApiNext \/ DispatchNext \/ RecoveryNext
  PROVE  /\ UNCHANGED <<attempts, submissions>>
         /\ \A a \in Attempt : /\ attempt'[a].fenced = attempt[a].fenced
                                /\ attempt'[a].status \in {attempt[a].status, "unknown"}
  <1>0. TrailOK /\ ServicesOK  BY TypeInvParts DEF SharedOK
  <1>1. UNCHANGED <<attempts, submissions>>
    BY DEF ApiNext, Approve, Stop, Cancel, CancelRollback, RetryCheck, RetryCommit, RetryAbandon,
           Flag, ResolveFlag,
           RecoveryNext, HandlerStep, HandleAttempts, HandleCandidate, HandleApplication,
           HandleCount, HandleFinish, HandlerLost, Age, SweepStep, SweepStart, SweepLive,
           SweepRead, SweepCandidate, SweepAttempt, SweepApplication, SweepSettle, SweepFail,
           SweepLost,
           DispatchNext, PublishStep, PublishAdd, PublishGiveUp, PickUp, JobStep, ReadCandidate,
           AcquireLanes, Claim, CountActive, FinishRun, EndJob, LoseLease, Crash, LockExpires,
           LockLapses, Stalled, RedisFlush, trail, history
  <1>2. UNCHANGED attempt \/ SweepAttempt \/ \E d \in Dispatch : HandleAttempts(d)
    BY DEF ApiNext, Approve, Stop, Cancel, CancelRollback, RetryCheck, RetryCommit, RetryAbandon,
           Flag, ResolveFlag,
           RecoveryNext, HandlerStep, HandleCandidate, HandleApplication,
           HandleCount, HandleFinish, HandlerLost, Age, SweepStep, SweepStart, SweepLive,
           SweepRead, SweepCandidate, SweepApplication, SweepSettle, SweepFail,
           SweepLost,
           DispatchNext, PublishStep, PublishAdd, PublishGiveUp, PickUp, JobStep, ReadCandidate,
           AcquireLanes, Claim, CountActive, FinishRun, EndJob, LoseLease, Crash, LockExpires,
           LockLapses, Stalled, RedisFlush, trail
  <1>3. ASSUME NEW d \in Dispatch, HandleAttempts(d), NEW a \in Attempt
        PROVE  attempt'[a].fenced = attempt[a].fenced
               /\ attempt'[a].status \in {attempt[a].status, "unknown"}
    <2>1. attempt[a] \in AttemptRecord  BY <1>0 DEF TrailOK
    <2>2. attempt'[a] = attempt[a] \/ attempt'[a] = Unfinish(a)  BY <1>3 DEF HandleAttempts
    <2> QED BY <2>1, <2>2 DEF Unfinish, AttemptRecord
  <1>4. ASSUME SweepAttempt, NEW a \in Attempt
        PROVE  attempt'[a].fenced = attempt[a].fenced
               /\ attempt'[a].status \in {attempt[a].status, "unknown"}
    <2> DEFINE r == [attempt[a] EXCEPT !.status = "unknown", !.error = "interrupted"]
    <2>1. attempt'[a] = attempt[a] \/ attempt'[a] = r  BY <1>0, <1>4 DEF SweepAttempt, TrailOK
    <2>2. r.fenced = attempt[a].fenced /\ r.status = "unknown"
      BY <1>0 DEF TrailOK, AttemptRecord
    <2> QED BY <2>1, <2>2
  <1> QED BY <1>1, <1>2, <1>3, <1>4

\* A retry is in progress because it was, or because its checks passed now.
LEMMA RetriesElsewhere ==
  ASSUME TypeInv, Next, NEW c \in Candidate
  PROVE  /\ \/ retrying'[c] = "no" \/ retrying'[c] = retrying[c]
            \/ \E confirmed \in BOOLEAN : RetryCheck(c, confirmed)
         /\ \/ confirms'[c] = confirms[c]
            \/ /\ RetryCommit(c) /\ retrying[c] = "confirmed"
               /\ confirms'[c] = confirms[c] + 1
  <1>0. ServicesOK /\ HistoryOK  BY TypeInvParts DEF SharedOK
  <1>1. ASSUME NEW e \in Candidate, NEW confirmed \in BOOLEAN, RetryCheck(e, confirmed)
        PROVE  /\ \/ retrying'[c] = retrying[c]
                  \/ \E x \in BOOLEAN : RetryCheck(c, x)
               /\ confirms' = confirms
    BY <1>0, <1>1 DEF RetryCheck, ServicesOK, history
  <1>2. ASSUME NEW e \in Candidate, RetryCommit(e)
        PROVE  /\ retrying'[c] = "no" \/ retrying'[c] = retrying[c]
               /\ \/ confirms'[c] = confirms[c]
                  \/ /\ RetryCommit(c) /\ retrying[c] = "confirmed"
                     /\ confirms'[c] = confirms[c] + 1
    BY <1>0, <1>2 DEF RetryCommit, ServicesOK, HistoryOK
  <1>3. ASSUME NEW e \in Candidate, RetryAbandon(e)
        PROVE  /\ retrying'[c] = "no" \/ retrying'[c] = retrying[c]
               /\ confirms' = confirms
    BY <1>0, <1>3 DEF RetryAbandon, ServicesOK, history
  <1>4. CASE ApiNext
    <2>1. ASSUME Stop \/ (\E e \in Candidate : Cancel(e) \/ CancelRollback(e) \/ Flag(e))
                 \/ (\E a \in Attempt : ResolveFlag(a))
                 \/ (\E queued, unavailable \in SUBSET Candidate : Approve(queued, unavailable))
          PROVE  UNCHANGED <<retrying, confirms>>
      BY <2>1 DEF Stop, Cancel, CancelRollback, Flag, ResolveFlag, Approve, actors, history
    <2> QED BY <1>1, <1>2, <1>3, <1>4, <2>1 DEF ApiNext
  <1>5. CASE DispatchNext \/ RecoveryNext
    <2>1. UNCHANGED <<retrying, confirms>>
      BY <1>5
      DEF RecoveryNext, HandlerStep, HandleAttempts, HandleCandidate, HandleApplication,
          HandleCount, HandleFinish, HandlerLost, Age, SweepStep, SweepStart, SweepLive,
          SweepRead, SweepCandidate, SweepAttempt, SweepApplication, SweepSettle, SweepFail,
          SweepLost,
          DispatchNext, PublishStep, PublishAdd, PublishGiveUp, PickUp, JobStep, ReadCandidate,
          AcquireLanes, Claim, CountActive, FinishRun, EndJob, LoseLease, Crash, LockExpires,
          LockLapses, Stalled, RedisFlush, actors, history
    <2> QED BY <2>1
  <1>6. CASE ApplyNext
    BY <1>6, ApplyStepsFrame DEF ApplyNext
  <1> QED BY <1>4, <1>5, <1>6 DEF Next

\* A step of an operation leaves every other candidate, and whoever works on
\* it, alone.
LEMMA OthersUntouched ==
  ASSUME TypeInv, DispatchInv, OwnInv, NEW w \in Worker, ApplyStep(w), NEW c, c = CandOf(w)
  PROVE  /\ c \in Candidate /\ worker[w].pc \in Operating
         /\ UNCHANGED <<dispatches, cancelled, job, lock, retrying, confirms>>
         /\ \A e \in Candidate \ {c} :
              /\ candidate'[e] = candidate[e] /\ application'[e] = application[e]
              /\ attempts'[e] = attempts[e]
              /\ \A k \in 1..MaxAttempts : attempt'[<<e, k>>] = attempt[<<e, k>>]
         /\ \A v \in Worker \ {w} :
              /\ worker'[v] = worker[v]
              /\ worker[v].pc \in Operating => CandOf(v) \in Candidate \ {c}
         /\ worker'[w].pc = "idle" \/ CandOf(w)' = c
  <1>0. WorkersOK /\ TrailOK  BY TypeInvParts DEF SharedOK
  <1>1. worker[w].pc \in Operating /\ c \in Candidate  BY ApplyStepsFrame, OperationHolds
  <1>2. \A e \in Candidate \ {c} : candidate'[e] = candidate[e] /\ application'[e] = application[e]
    BY ApplyStepsFrame
  <1>3. UNCHANGED <<dispatches, cancelled, job, lock, retrying, confirms>>
    BY ApplyStepsFrame DEF outbox, redis
  <1>4. \A v \in Worker \ {w} : worker'[v] = worker[v]  BY <1>0, OneWorkerMoves
  <1>5. \A v \in Worker \ {w} : worker[v].pc \in Operating => CandOf(v) \in Candidate \ {c}
    BY <1>1, OneOperation, OperationHolds DEF OperatesOn
  <1>6. worker'[w].pc = "idle" \/ CandOf(w)' = c
    BY <1>0, <1>1, ApplyStepsKeep DEF Kept, CandOf, Operating, InLane
  <1>7. ASSUME NEW e \in Candidate \ {c}
        PROVE  /\ attempts'[e] = attempts[e]
               /\ \A k \in 1..MaxAttempts : attempt'[<<e, k>>] = attempt[<<e, k>>]
    <2>1. CASE UNCHANGED <<attempts, attempt>>  BY <2>1
    <2>2. CASE Begins(w) \/ ParkAttempt(w)
      <3>1. \E status : InsertAttempt(c, status)  BY <2>2 DEF Begins, ParkAttempt
      <3> QED BY <1>0, <1>7, <3>1 DEF InsertAttempt, TrailOK, Attempt
    <2>3. CASE WriteFence(w) \/ WriteAttempt(w)
      <3>1. UNCHANGED attempts /\ \A k : AttOf(w) # <<e, k>>
        BY <1>7, <2>3 DEF WriteFence, WriteAttempt, AttOf
      <3> QED BY <1>0, <1>7, <2>3, <3>1 DEF WriteFence, WriteAttempt, TrailOK, Attempt
    <2>4. CASE Tailor(w) \/ Repeat(w) \/ ParkApplication(w) \/ ParkCandidate(w) \/ Mark(w)
               \/ WriteCandidate(w) \/ WriteApplication(w)
      BY <2>1, <2>4 DEF Tailor, Repeat, ParkApplication, ParkCandidate, Mark, WriteCandidate,
                        WriteApplication, trail
    <2> QED BY <2>1, <2>2, <2>3, <2>4, ApplySplit, QuietSteps
  <1> QED BY <1>1, <1>2, <1>3, <1>4, <1>5, <1>6, <1>7

\* A row is added, before anything is on the form.
Adds(w, c, status) ==
  /\ worker[w].pc \in BeforeAttempt
  /\ attempts'[c] = attempts[c] + 1 /\ attempts[c] + 1 \in 1..MaxAttempts
  /\ attempt'[<<c, attempts[c] + 1>>].status = status
  /\ attempt'[<<c, attempts[c] + 1>>].fenced = FALSE
  /\ \A k \in 1..attempts[c] : attempt'[<<c, k>>] = attempt[<<c, k>>]
\* The operation's row is updated, and no other.
Rewrites(c, att, status, fenced) ==
  /\ attempts'[c] = attempts[c]
  /\ \A k \in (1..MaxAttempts) \ {att} : attempt'[<<c, k>>] = attempt[<<c, k>>]
  /\ att \in 1..MaxAttempts =>
       attempt'[<<c, att>>].status = status /\ attempt'[<<c, att>>].fenced = fenced

LEMMA OwnTrail ==
  ASSUME TypeInv, NEW w \in Worker, ApplyStep(w), NEW c \in Candidate, c = CandOf(w),
         NEW att, att = worker[w].att
  PROVE  /\ Begins(w) => Adds(w, c, "submitting")
         /\ ParkAttempt(w) => Adds(w, c, "needs_review")
         /\ WriteFence(w) => Rewrites(c, att, "submitting", TRUE)
         /\ WriteAttempt(w) => \E status \in AttemptStatus \ {"pending", "submitting"} :
                                 Rewrites(c, att, status, attempt[<<c, att>>].fenced)
         /\ Begins(w) \/ ParkAttempt(w) \/ WriteFence(w) \/ WriteAttempt(w)
            \/ UNCHANGED <<attempts, attempt>>
  <1>0. TrailOK /\ attempts[c] \in 0..MaxAttempts /\ MaxAttempts \in Nat
    BY TypeInvParts, BoundAssumption DEF SharedOK, TrailOK
  <1>1. ASSUME NEW status, InsertAttempt(c, status), worker[w].pc \in BeforeAttempt,
               attempts[c] < MaxAttempts
        PROVE  Adds(w, c, status)
    <2>1. attempts'[c] = attempts[c] + 1 /\ attempts[c] + 1 \in 1..MaxAttempts
      BY <1>0, <1>1 DEF InsertAttempt, TrailOK
    <2>2. <<c, attempts[c] + 1>> \in Attempt  BY <2>1 DEF Attempt
    <2>3. attempt'[<<c, attempts[c] + 1>>] =
            [status |-> status, fenced |-> FALSE, error |-> "none", epoch |-> dispatches[c]]
      BY <1>0, <1>1, <2>2 DEF InsertAttempt, TrailOK
    <2>4. ASSUME NEW k \in 1..attempts[c]  PROVE attempt'[<<c, k>>] = attempt[<<c, k>>]
      <3>1. <<c, k>> \in Attempt /\ <<c, k>> # <<c, attempts[c] + 1>>
        BY <1>0 DEF Attempt
      <3> QED BY <1>0, <1>1, <3>1 DEF InsertAttempt, TrailOK
    <2> QED BY <1>1, <2>1, <2>3, <2>4 DEF Adds
  <1>2. Begins(w) => Adds(w, c, "submitting")
    BY <1>1 DEF Begins, At, BeforeAttempt
  <1>3. ParkAttempt(w) => Adds(w, c, "needs_review")
    BY <1>1 DEF ParkAttempt, At, BeforeAttempt
  <1>4. ASSUME WriteFence(w)  PROVE Rewrites(c, att, "submitting", TRUE)
    <2>1. UNCHANGED attempts  BY <1>4 DEF WriteFence
    <2>2. \A k \in (1..MaxAttempts) \ {att} : attempt'[<<c, k>>] = attempt[<<c, k>>]
      BY <1>0, <1>4 DEF WriteFence, AttOf, TrailOK, Attempt
    <2>3. ASSUME att \in 1..MaxAttempts
          PROVE  attempt'[<<c, att>>].status = "submitting" /\ attempt'[<<c, att>>].fenced = TRUE
      <3> DEFINE r == [attempt[<<c, att>>] EXCEPT !.fenced = TRUE, !.status = "submitting"]
      <3>1. <<c, att>> \in Attempt /\ AttOf(w) = <<c, att>>  BY <2>3 DEF Attempt, AttOf
      <3>2. attempt'[<<c, att>>] = r  BY <1>0, <1>4, <3>1 DEF WriteFence, TrailOK
      <3>3. r.status = "submitting" /\ r.fenced = TRUE
        BY <1>0, <3>1 DEF TrailOK, AttemptRecord
      <3> QED BY <3>2, <3>3
    <2> QED BY <2>1, <2>2, <2>3 DEF Rewrites
  <1>5. ASSUME WriteAttempt(w)
        PROVE  \E status \in AttemptStatus \ {"pending", "submitting"} :
                 Rewrites(c, att, status, attempt[<<c, att>>].fenced)
    <2> DEFINE status == AttemptStatusOf(worker[w].result)
    <2>0. status \in AttemptStatus \ {"pending", "submitting"}
      BY DEF AttemptStatusOf, AttemptStatus
    <2>1. UNCHANGED attempts  BY <1>5 DEF WriteAttempt
    <2>2. \A k \in (1..MaxAttempts) \ {att} : attempt'[<<c, k>>] = attempt[<<c, k>>]
      BY <1>0, <1>5 DEF WriteAttempt, AttOf, TrailOK, Attempt
    <2>3. ASSUME att \in 1..MaxAttempts
          PROVE  /\ attempt'[<<c, att>>].status = status
                 /\ attempt'[<<c, att>>].fenced = attempt[<<c, att>>].fenced
      <3> DEFINE r == [attempt[<<c, att>>] EXCEPT !.status = status,
                                                  !.error = ErrorOf(worker[w].result)]
      <3>1. <<c, att>> \in Attempt /\ AttOf(w) = <<c, att>>  BY <2>3 DEF Attempt, AttOf
      <3>2. attempt'[<<c, att>>] = r  BY <1>0, <1>5, <3>1 DEF WriteAttempt, TrailOK
      <3> HIDE DEF status
      <3>3. r.status = status /\ r.fenced = attempt[<<c, att>>].fenced
        BY <1>0, <3>1 DEF TrailOK, AttemptRecord
      <3> QED BY <3>2, <3>3
    <2> HIDE DEF status
    <2> QED BY <2>0, <2>1, <2>2, <2>3 DEF Rewrites
  <1>6. Tailor(w) \/ Repeat(w) \/ ParkApplication(w) \/ ParkCandidate(w) \/ Mark(w)
        \/ WriteCandidate(w) \/ WriteApplication(w) => UNCHANGED <<attempts, attempt>>
    BY DEF Tailor, Repeat, ParkApplication, ParkCandidate, Mark, WriteCandidate,
                WriteApplication, trail
  <1>7. Begins(w) \/ ParkAttempt(w) \/ WriteFence(w) \/ WriteAttempt(w)
        \/ UNCHANGED <<attempts, attempt>>
    BY <1>6, ApplySplit, QuietSteps
  <1> QED BY <1>2, <1>3, <1>4, <1>5, <1>7
-----------------------------------------------------------------------------
(* The attempt an operation works on is the candidate's newest.             *)

AttemptsKnown == \A c \in Candidate : application[c] = "none" => attempts[c] = 0
AttIsLatest   == \A w \in Worker : worker[w].pc \in WithAttempt =>
                   worker[w].att = attempts[CandOf(w)] /\ worker[w].att > 0
TraceInv == AttemptsKnown /\ AttIsLatest

LEMMA TraceElsewhere ==
  ASSUME TypeInv, DispatchInv, OwnInv, TraceInv, ApiNext \/ DispatchNext \/ RecoveryNext
  PROVE  TraceInv'
  <1>1. AttemptsKnown'
    BY RowsStay, TrailElsewhere DEF TraceInv, AttemptsKnown
  <1>2. ASSUME NEW w \in Worker, worker'[w].pc \in WithAttempt
        PROVE  worker'[w].att = attempts'[CandOf(w)'] /\ worker'[w].att > 0
    <2>1. worker[w].pc \in Operating /\ Stays(w)
      BY <1>2, OperationsStay DEF WithAttempt, OnTheForm, Operating, InLane, Claims
    <2> QED BY <1>2, <2>1, TrailElsewhere DEF Stays, TraceInv, AttIsLatest, CandOf
  <1> QED BY <1>1, <1>2 DEF TraceInv, AttIsLatest

LEMMA TraceByOperation ==
  ASSUME TypeInv, DispatchInv, OwnInv, TraceInv, NEW w \in Worker, ApplyStep(w)
  PROVE  TraceInv'
  <1> SUFFICES ASSUME NEW c, c = CandOf(w)  PROVE TraceInv'
    OBVIOUS
  <1>0. WorkersOK /\ TrailOK  BY TypeInvParts DEF SharedOK
  <1>1. c \in Candidate /\ worker[w].pc \in Operating  BY OthersUntouched
  <1>2. application[c] # "none" /\ application'[c] # "none"
    BY <1>1, OperationHolds, ApplyStepsFrame
  <1>3. AttemptsKnown'
    BY <1>2, OthersUntouched DEF TraceInv, AttemptsKnown
  <1>4. ASSUME NEW v \in Worker \ {w}, worker'[v].pc \in WithAttempt
        PROVE  worker'[v].att = attempts'[CandOf(v)'] /\ worker'[v].att > 0
    <2>1. worker'[v] = worker[v] /\ CandOf(v) \in Candidate \ {c} /\ CandOf(v)' = CandOf(v)
      BY <1>4, OthersUntouched DEF WithAttempt, OnTheForm, Operating, InLane, CandOf
    <2>2. attempts'[CandOf(v)] = attempts[CandOf(v)]  BY <2>1, OthersUntouched
    <2> QED BY <1>4, <2>1, <2>2 DEF TraceInv, AttIsLatest
  <1>5. ASSUME worker'[w].pc \in WithAttempt
        PROVE  worker'[w].att = attempts'[CandOf(w)'] /\ worker'[w].att > 0
    <2>0. CandOf(w)' = c  BY <1>5, OthersUntouched DEF WithAttempt, OnTheForm
    <2>1. CASE Begins(w)
      <3>1. attempts'[c] = attempts[c] + 1  BY <1>1, <2>1, OwnTrail DEF Adds
      <3>2. worker'[w].att = attempts[c] + 1  BY <1>0, <2>1, LoudSteps
      <3> QED BY <1>0, <1>1, <2>0, <3>1, <3>2 DEF TrailOK
    <2>2. CASE ~Begins(w)
      <3>1. Kin(w) /\ worker[w].pc \in WithAttempt
        <4>1. CASE Quiet(w)
          BY <1>5, <4>1, QuietSteps DEF WithAttempt, OnTheForm, BeforeAttempt
        <4>2. CASE Tailor(w) \/ Repeat(w) \/ ParkAttempt(w) \/ ParkApplication(w)
                   \/ ParkCandidate(w) \/ WriteApplication(w)
          BY <1>0, <1>5, <4>2, LoudSteps DEF WithAttempt, OnTheForm
        <4>3. CASE Mark(w) \/ WriteFence(w) \/ WriteAttempt(w) \/ WriteCandidate(w)
          <5>1. worker[w].pc \in WithAttempt
            BY <4>3 DEF Mark, WriteFence, WriteAttempt, WriteCandidate, At, WithAttempt, OnTheForm
          <5> QED BY <1>0, <4>3, <5>1, LoudSteps
        <4> QED BY <2>2, <4>1, <4>2, <4>3, ApplySplit
      <3>2. attempts'[c] = attempts[c]
        <4>1. ~ParkAttempt(w)  BY <3>1 DEF ParkAttempt, At, WithAttempt, OnTheForm
        <4> QED BY <1>1, <2>2, <4>1, OwnTrail DEF Rewrites
      <3> QED BY <1>1, <2>0, <3>1, <3>2 DEF Kin, TraceInv, AttIsLatest
    <2> QED BY <2>1, <2>2
  <1> QED BY <1>3, <1>4, <1>5 DEF TraceInv, AttIsLatest

LEMMA TraceInvariant ==
  ASSUME ~Zombies, ~InfoFails
  PROVE  Spec /\ [][OwnerStandsBack]_vars => [](TypeInv /\ DispatchInv /\ OwnInv /\ TraceInv)
  <1>1. Init => TraceInv
    BY DEF Init, TraceInv, AttemptsKnown, AttIsLatest, Idle, WithAttempt, OnTheForm
  <1>2. TypeInv /\ DispatchInv /\ OwnInv /\ TraceInv /\ [Next]_vars => TraceInv'
    <2> SUFFICES ASSUME TypeInv, DispatchInv, OwnInv, TraceInv, [Next]_vars  PROVE TraceInv'
      OBVIOUS
    <2>1. CASE UNCHANGED vars
      BY <2>1 DEF vars, rows, trail, actors, TraceInv, AttemptsKnown, AttIsLatest, CandOf
    <2> QED BY <2>1, TraceElsewhere, TraceByOperation DEF Next, ApplyNext
  <1> QED BY <1>1, <1>2, OwnInvariant, PTL DEF Spec
-----------------------------------------------------------------------------
(* Of a candidate's attempts only the newest may be in flight, and none is  *)
(* when the candidate can be claimed again.                                 *)

\* No cancellation removes a job and then fails to commit.  After a crash
\* between createMinimalResumeVariant and the end of the operation, such a one
\* takes away the failed job before its handler has closed the attempt, and a
\* publisher that still holds the row adds the job again: TLC then finds a
\* second attempt beside the first.
CancelsCommit == \A c \in Candidate : ~CancelRollback(c)

Claimant(w) == worker[w].pc \in {"started", "flagged", "lanes", "claim", "delaying"}
\* The dispatch has, or may yet get, a job that claims the candidate.
Offered(d)  == /\ OpenDispatch(d)
               /\ \/ job[d] \in {"none", "waiting", "delayed"}
                  \/ \E w \in Worker : Claimant(w) /\ worker[w].disp = d

InFlightIsLatest == \A c \in Candidate : \A a \in AttemptsOf(c) : InFlight(a) => a[2] = attempts[c]
StartsAtRest  == \A w \in Worker : worker[w].pc \in BeforeAttempt => AtRest(CandOf(w))
ResultAtRest  == \A w \in Worker : worker[w].pc \in {"wCandidate", "wApplication"} =>
                   ~InFlight(AttOf(w))
OfferedAtRest == \A d \in Dispatch : Waiting(d[1]) /\ Offered(d) => AtRest(d[1])
RetriesAtRest == \A c \in Candidate : retrying[c] # "no" => AtRest(c)
RestInv == InFlightIsLatest /\ StartsAtRest /\ ResultAtRest /\ OfferedAtRest /\ RetriesAtRest

LEMMA RestElsewhere ==
  ASSUME TypeInv, ApiNext \/ DispatchNext \/ RecoveryNext, NEW c \in Candidate
  PROVE  /\ AttemptsOf(c)' = AttemptsOf(c) /\ AttemptsOf(c) \subseteq Attempt
         /\ \A a \in Attempt : InFlight(a)' => InFlight(a)
         /\ AtRest(c) => AtRest(c)'
  <1>1. TrailOK  BY TypeInvParts DEF SharedOK
  <1>2. AttemptsOf(c) \subseteq Attempt
    BY <1>1, BoundAssumption DEF TrailOK, AttemptsOf, Attempt
  <1>3. AttemptsOf(c)' = AttemptsOf(c)  BY TrailElsewhere DEF AttemptsOf
  <1>4. \A a \in Attempt : InFlight(a)' => InFlight(a)  BY TrailElsewhere DEF InFlight
  <1> QED BY <1>2, <1>3, <1>4 DEF AtRest

\* A worker claims for a dispatch whose job it found waiting or delayed.
LEMMA ClaimantsStay ==
  ASSUME TypeInv, ApiNext \/ DispatchNext \/ RecoveryNext, NEW w \in Worker, Claimant(w)'
  PROVE  \/ Claimant(w) /\ worker'[w].disp = worker[w].disp
         \/ worker'[w].disp \in Dispatch /\ job[worker'[w].disp] \in {"waiting", "delayed"}
  <1>0. WorkersOK  BY TypeInvParts DEF SharedOK
  <1>1. CASE UNCHANGED worker  BY <1>1 DEF Claimant
  <1>2. CASE ApiNext \/ RecoveryNext
    BY <1>1, <1>2
    DEF ApiNext, Approve, Stop, Cancel, CancelRollback, RetryCheck, RetryCommit, RetryAbandon,
        Flag, ResolveFlag, actors,
        RecoveryNext, HandlerStep, HandleAttempts, HandleCandidate, HandleApplication,
        HandleCount, HandleFinish, HandlerLost, Age, SweepStep, SweepStart, SweepLive,
        SweepRead, SweepCandidate, SweepAttempt, SweepApplication, SweepSettle, SweepFail,
        SweepLost
  <1>3. ASSUME NEW v \in Worker, JobStep(v)
        PROVE  Claimant(w) /\ worker'[w].disp = worker[w].disp
    <2>1. CASE v # w
      BY <1>0, <1>3, <2>1, OneWorkerMoves DEF Claimant
    <2>2. CASE v = w
      <3>1. worker'[w].disp = worker[w].disp
        <4>1. Kept  BY <1>0, <1>3, JobStepsKeep
        <4> QED BY <4>1 DEF Kept, Claimant
      <3>2. CASE CountActive(w) \/ FinishRun(w) \/ EndJob(w)
        BY <1>0, <3>2 DEF CountActive, FinishRun, EndJob, Go, WorkersOK, WorkerRecord, Idle, Claimant
      <3>3. CASE ReadCandidate(w) \/ AcquireLanes(w) \/ Claim(w)
        BY <3>1, <3>3 DEF ReadCandidate, AcquireLanes, Claim, At, Claimant
      <3> QED BY <1>3, <2>2, <3>1, <3>2, <3>3 DEF JobStep
    <2> QED BY <2>1, <2>2
  <1>4. ASSUME NEW v \in Worker, NEW d \in Dispatch, PickUp(v, d)
        PROVE  \/ Claimant(w) /\ worker'[w].disp = worker[w].disp
               \/ worker'[w].disp \in Dispatch /\ job[worker'[w].disp] \in {"waiting", "delayed"}
    BY <1>0, <1>4 DEF PickUp, WorkersOK, Idle, Claimant
  <1>5. ASSUME NEW v \in Worker, LoseLease(v) \/ Crash(v)
        PROVE  Claimant(w) /\ worker'[w].disp = worker[w].disp
    BY <1>0, <1>5 DEF LoseLease, Crash, Idle, WorkersOK, WorkerRecord, Claimant
  <1> QED
    BY <1>1, <1>2, <1>3, <1>4, <1>5
    DEF DispatchNext, PublishStep, PublishAdd, PublishGiveUp, LockExpires, LockLapses,
        Stalled, RedisFlush, actors

\* Only an approval and a retry open a dispatch; nothing else offers one again
\* whose job has ended.
LEMMA OffersStay ==
  ASSUME TypeInv, DispatchInv, ~Zombies, ApiNext \/ DispatchNext \/ RecoveryNext, CancelsCommit,
         NEW d \in Dispatch, Offered(d)', ~RetryCommit(d[1]), application[d[1]] # "none"
  PROVE  Offered(d)
  <1>0. OutboxOK /\ RedisOK /\ WorkersOK /\ d[1] \in Candidate
    BY TypeInvParts DEF SharedOK, Dispatch
  <1>1. OpenDispatch(d)' => OpenDispatch(d)
    <2>1. CASE UNCHANGED <<dispatches, cancelled>>  BY <2>1 DEF OpenDispatch, Exists
    <2>2. ASSUME NEW queued \in SUBSET Candidate, NEW unavailable \in SUBSET Candidate,
                 Approve(queued, unavailable)
          PROVE  UNCHANGED cancelled /\ dispatches'[d[1]] = dispatches[d[1]]
      BY <1>0, <2>2 DEF Approve
    <2>3. ASSUME NEW e \in Candidate, RetryCommit(e)
          PROVE  cancelled \subseteq cancelled' /\ dispatches'[d[1]] = dispatches[d[1]]
      BY <1>0, <2>3 DEF RetryCommit, OutboxOK
    <2>4. ASSUME NEW e \in Candidate, Cancel(e)
          PROVE  cancelled \subseteq cancelled' /\ UNCHANGED dispatches
      BY <2>4 DEF Cancel
    <2>5. CASE ApiNext
      <3>1. ASSUME Stop \/ (\E e \in Candidate : CancelRollback(e) \/ Flag(e) \/ RetryAbandon(e))
                   \/ (\E e \in Candidate, confirmed \in BOOLEAN : RetryCheck(e, confirmed))
                   \/ (\E a \in Attempt : ResolveFlag(a))
            PROVE  UNCHANGED <<dispatches, cancelled>>
        BY <3>1 DEF Stop, CancelRollback, Flag, RetryAbandon, RetryCheck, ResolveFlag, outbox
      <3> QED BY <2>1, <2>2, <2>3, <2>4, <2>5, <3>1 DEF ApiNext, OpenDispatch, Exists
    <2>6. CASE DispatchNext \/ RecoveryNext
      BY <2>1, <2>6
      DEF RecoveryNext, HandlerStep, HandleAttempts, HandleCandidate, HandleApplication,
          HandleCount, HandleFinish, HandlerLost, Age, SweepStep, SweepStart, SweepLive,
          SweepRead, SweepCandidate, SweepAttempt, SweepApplication, SweepSettle, SweepFail,
          SweepLost,
          DispatchNext, PublishStep, PublishAdd, PublishGiveUp, PickUp, JobStep, ReadCandidate,
          AcquireLanes, Claim, CountActive, FinishRun, EndJob, LoseLease, Crash, LockExpires,
          LockLapses, Stalled, RedisFlush, outbox
    <2> QED BY <2>5, <2>6
  <1>2. ASSUME job'[d] \in {"none", "waiting", "delayed"}
        PROVE  \/ job[d] \in {"none", "waiting", "delayed"}
               \/ \E w \in Worker : Claimant(w) /\ worker[w].disp = d
    <2>1. CASE UNCHANGED job  BY <1>2, <2>1
    <2>2. ASSUME NEW e \in Candidate, Cancel(e)  PROVE job'[d] = job[d]
      <3>1. d \notin DispatchesOf(e)  BY <2>2 DEF Cancel, Offered, OpenDispatch
      <3> QED BY <2>2, <3>1 DEF Cancel, RemoveJobs
    <2>3. ASSUME NEW p \in Publisher, NEW e \in Dispatch, PublishAdd(p, e)
          PROVE  job[d] \in {"none", "waiting", "delayed"}
      BY <1>0, <1>2, <2>3 DEF PublishAdd, RedisOK
    <2>4. ASSUME NEW w \in Worker, NEW e \in Dispatch, PickUp(w, e)
          PROVE  job[d] \in {"none", "waiting", "delayed"}
      BY <1>0, <1>2, <2>4 DEF PickUp, RedisOK
    <2>5. ASSUME NEW w \in Worker, EndJob(w)
          PROVE  \/ job[d] \in {"none", "waiting", "delayed"}
                 \/ Claimant(w) /\ worker[w].disp = d
      BY <1>0, <1>2, <2>5 DEF EndJob, At, RedisOK, Claimant
    <2>6. ASSUME NEW e \in Dispatch, Stalled(e)  PROVE job[d] \in {"none", "waiting", "delayed"}
      BY <1>0, <1>2, <2>6 DEF Stalled, RedisOK
    <2>7. CASE ApiNext
      BY <1>2, <2>1, <2>2, <2>7
      DEF ApiNext, CancelsCommit, Approve, Stop, Flag, RetryAbandon, RetryCheck, RetryCommit,
          ResolveFlag, redis
    <2>8. CASE RecoveryNext
      BY <2>1, <2>8
      DEF RecoveryNext, HandlerStep, HandleAttempts, HandleCandidate, HandleApplication,
          HandleCount, HandleFinish, HandlerLost, Age, SweepStep, SweepStart, SweepLive,
          SweepRead, SweepCandidate, SweepAttempt, SweepApplication, SweepSettle, SweepFail,
          SweepLost, redis
    <2>9. CASE DispatchNext
      <3>1. ASSUME \/ \E p \in Publisher : PublishGiveUp(p)
                   \/ \E w \in Worker : \/ ReadCandidate(w) \/ AcquireLanes(w) \/ Claim(w)
                                        \/ CountActive(w) \/ FinishRun(w) \/ LoseLease(w) \/ Crash(w)
                   \/ \E e \in Dispatch : LockExpires(e)
            PROVE  UNCHANGED job
        BY <3>1 DEF PublishGiveUp, ReadCandidate, AcquireLanes, Claim, CountActive, FinishRun,
                    LoseLease, Crash, LockExpires, redis
      <3>2. ~RedisFlush /\ \A e : ~LockLapses(e)  BY DEF RedisFlush, LockLapses
      <3> QED
        BY <2>1, <2>3, <2>4, <2>5, <2>6, <2>9, <3>1, <3>2
        DEF DispatchNext, PublishStep, JobStep
    <2> QED BY <2>7, <2>8, <2>9
  <1>3. ASSUME NEW w \in Worker, Claimant(w)', worker'[w].disp = d
        PROVE  \/ job[d] \in {"none", "waiting", "delayed"}
               \/ Claimant(w) /\ worker[w].disp = d
    BY <1>3, ClaimantsStay
  <1> QED BY <1>1, <1>2, <1>3 DEF Offered

LEMMA RestByOthers ==
  ASSUME TypeInv, DispatchInv, OwnInv, TraceInv, RestInv, ~Zombies, CancelsCommit,
         ApiNext \/ DispatchNext \/ RecoveryNext
  PROVE  RestInv'
  <1>1. InFlightIsLatest'
    <2>1. ASSUME NEW c \in Candidate, NEW a \in AttemptsOf(c)', InFlight(a)'
          PROVE  a[2] = attempts'[c]
      BY <2>1, RestElsewhere, TrailElsewhere DEF RestInv, InFlightIsLatest
    <2> QED BY <2>1 DEF InFlightIsLatest
  <1>2. ASSUME NEW w \in Worker, worker'[w].pc \in BeforeAttempt  PROVE AtRest(CandOf(w))'
    <2>1. Claims(w) \/ (worker[w].pc \in Operating /\ Stays(w))
      BY <1>2, OperationsStay DEF BeforeAttempt, Operating, InLane
    <2>2. CASE Claims(w)
      <3>1. ~At(w, "idle") /\ Claimant(w)  BY <2>2 DEF Claims, Claim, At, Claimant
      <3>2. worker[w].disp \in Dispatch /\ OpenDispatch(worker[w].disp)
        BY <2>2, <3>1 DEF TypeInv, AssignedWork, DispatchInv, AssignmentsExist, Claims, MayClaim,
                          OpenDispatch
      <3>3. Waiting(CandOf(w)) /\ Offered(worker[w].disp) /\ CandOf(w) = worker[w].disp[1]
        BY <2>2, <3>1, <3>2 DEF Claims, MayClaim, Waiting, Offered, CandOf
      <3>4. CandOf(w) \in Candidate  BY <3>2, <3>3 DEF Dispatch
      <3>5. AtRest(CandOf(w))  BY <3>2, <3>3 DEF RestInv, OfferedAtRest
      <3>6. CandOf(w)' = CandOf(w)  BY <2>2 DEF Claims, CandOf
      <3> QED BY <3>4, <3>5, <3>6, RestElsewhere DEF AtRest
    <2>3. CASE worker[w].pc \in Operating /\ Stays(w)
      <3>1. AtRest(CandOf(w)) /\ CandOf(w) \in Candidate /\ CandOf(w)' = CandOf(w)
        BY <1>2, <2>3, OperationHolds DEF Stays, CandOf, RestInv, StartsAtRest
      <3> QED BY <3>1, RestElsewhere DEF AtRest
    <2> QED BY <2>1, <2>2, <2>3
  <1>3. ASSUME NEW w \in Worker, worker'[w].pc \in {"wCandidate", "wApplication"}
        PROVE  ~InFlight(AttOf(w))'
    <2>1. worker[w].pc \in Operating /\ Stays(w)
      BY <1>3, OperationsStay DEF Operating, InLane, Claims
    <2>2. AttOf(w)' = AttOf(w) /\ ~InFlight(AttOf(w))
      BY <1>3, <2>1 DEF Stays, AttOf, CandOf, RestInv, ResultAtRest
    <2>3. AttOf(w) \in Attempt
      <3>1. worker[w].att = attempts[CandOf(w)] /\ worker[w].att > 0
        BY <1>3, <2>1 DEF Stays, TraceInv, AttIsLatest, WithAttempt
      <3>2. CandOf(w) \in Candidate /\ TrailOK
        BY <2>1, OperationHolds, TypeInvParts DEF SharedOK
      <3> QED BY <3>1, <3>2, BoundAssumption DEF TrailOK, AttOf, Attempt
    <2> QED BY <2>2, <2>3, TrailElsewhere DEF InFlight
  <1>4. OfferedAtRest'
    <2>1. ASSUME NEW d \in Dispatch, NEW c, c = d[1], Waiting(c)', Offered(d)'
          PROVE  AtRest(c)'
      <3>0. c \in Candidate  BY <2>1 DEF Dispatch
      <3>1. CASE RetryCommit(c)
        BY <3>0, <3>1, RestElsewhere DEF RetryCommit, RestInv, RetriesAtRest
      <3>2. CASE application[c] = "none"
        <4>1. attempts[c] = 0  BY <3>0, <3>2 DEF TraceInv, AttemptsKnown
        <4>2. AtRest(c)  BY <4>1 DEF AtRest, AttemptsOf
        <4> QED BY <3>0, <4>2, RestElsewhere
      <3>3. CASE ~RetryCommit(c) /\ application[c] # "none"
        <4>1. Offered(d)  BY <2>1, <3>3, OffersStay
        <4>2. Waiting(c)  BY <2>1, <3>0, <3>3, RowsStay DEF Waiting
        <4> QED BY <2>1, <3>0, <4>1, <4>2, RestElsewhere DEF RestInv, OfferedAtRest
      <3> QED BY <3>1, <3>2, <3>3
    <2> QED BY <2>1 DEF OfferedAtRest
  <1>5. ASSUME NEW c \in Candidate, retrying'[c] # "no"  PROVE AtRest(c)'
    <2>1. CASE retrying[c] # "no"
      BY <2>1, RestElsewhere DEF RestInv, RetriesAtRest
    <2>2. ASSUME NEW confirmed \in BOOLEAN, RetryCheck(c, confirmed)  PROVE AtRest(c)
      <3>1. HasAttempt(c) => ~InFlight(<<c, attempts[c]>>)
        BY <2>2 DEF RetryCheck, RetryAllowed, SafeRetry, InFlight, Latest
      <3>2. ASSUME NEW a \in AttemptsOf(c), InFlight(a)  PROVE FALSE
        <4>1. a[2] = attempts[c]  BY <3>2 DEF RestInv, InFlightIsLatest
        <4>2. attempts[c] \in Nat
          BY TypeInvParts, BoundAssumption DEF SharedOK, TrailOK
        <4>3. a = <<c, attempts[c]>> /\ attempts[c] > 0
          BY <3>2, <4>1, <4>2 DEF AttemptsOf
        <4> QED BY <3>1, <3>2, <4>3 DEF HasAttempt
      <3> QED BY <3>2 DEF AtRest
    <2> QED BY <1>5, <2>1, <2>2, RetriesElsewhere, RestElsewhere DEF Next
  <1> QED
    BY <1>1, <1>2, <1>3, <1>4, <1>5
    DEF RestInv, StartsAtRest, ResultAtRest, RetriesAtRest

\* What a step of an operation does to the candidate's attempts, given that
\* the operation works on the newest.
LEMMA OwnRest ==
  ASSUME TypeInv, TraceInv, RestInv, NEW w \in Worker, ApplyStep(w),
         NEW c \in Candidate, c = CandOf(w)
  PROVE  /\ \A a \in AttemptsOf(c)' : InFlight(a)' => a[2] = attempts'[c]
         /\ AtRest(c)' \/ Begins(w) \/ worker[w].pc \in WithAttempt
         /\ WriteAttempt(w) => ~InFlight(AttOf(w))'
  <1>0. TrailOK /\ attempts[c] \in 0..MaxAttempts /\ MaxAttempts \in Nat
    BY TypeInvParts, BoundAssumption DEF SharedOK, TrailOK
  <1>1. \A a \in AttemptsOf(c) : InFlight(a) => a[2] = attempts[c]
    BY DEF RestInv, InFlightIsLatest
  <1>2. CASE UNCHANGED <<attempts, attempt>> /\ ~WriteAttempt(w)
    <2>2. AttemptsOf(c)' = AttemptsOf(c) /\ \A a : InFlight(a)' <=> InFlight(a)
      BY <1>2 DEF AttemptsOf, InFlight
    <2>3. AtRest(c)' \/ Begins(w) \/ worker[w].pc \in WithAttempt
      <3>1. worker[w].pc \in BeforeAttempt => AtRest(c)
        BY DEF RestInv, StartsAtRest
      <3>2. worker[w].pc \in BeforeAttempt \/ worker[w].pc \in WithAttempt
        BY ApplyStepsFrame DEF Operating, InLane, BeforeAttempt, WithAttempt, OnTheForm
      <3> QED BY <2>2, <3>1, <3>2 DEF AtRest
    <2> QED BY <1>1, <1>2, <2>2, <2>3
  <1>3. ASSUME NEW status, Adds(w, c, status)
        PROVE  /\ \A a \in AttemptsOf(c)' : InFlight(a)' => a[2] = attempts'[c]
               /\ status = "needs_review" => AtRest(c)'
    <2>1. AtRest(c)  BY <1>3 DEF Adds, RestInv, StartsAtRest
    <2>2. ASSUME NEW a \in AttemptsOf(c)'
          PROVE  \/ a \in AttemptsOf(c) /\ attempt'[a] = attempt[a]
                 \/ a = <<c, attempts'[c]>> /\ attempt'[a].status = status
      <3>1. PICK k \in 1..(attempts[c] + 1) : a = <<c, k>>  BY <1>3 DEF Adds, AttemptsOf
      <3>2. k \in 1..attempts[c] \/ k = attempts[c] + 1  BY <1>0
      <3> QED BY <1>3, <3>1, <3>2 DEF Adds, AttemptsOf
    <2>3. ASSUME NEW a \in AttemptsOf(c)', InFlight(a)'
          PROVE  a[2] = attempts'[c] /\ status # "needs_review"
      BY <2>1, <2>2, <2>3 DEF AtRest, InFlight
    <2> QED BY <2>3 DEF AtRest
  <1>4. ASSUME NEW status, NEW fenced, Rewrites(c, worker[w].att, status, fenced),
               worker[w].pc \in WithAttempt
        PROVE  \A a \in AttemptsOf(c)' : InFlight(a)' => a[2] = attempts'[c]
    <2>1. worker[w].att = attempts[c] /\ attempts'[c] = attempts[c]
      BY <1>4 DEF TraceInv, AttIsLatest, Rewrites
    <2>2. ASSUME NEW a \in AttemptsOf(c)', InFlight(a)', a[2] # attempts[c]  PROVE FALSE
      <3>1. PICK k \in 1..attempts[c] : a = <<c, k>>  BY <2>1 DEF AttemptsOf
      <3>2. k \in (1..MaxAttempts) \ {worker[w].att}  BY <1>0, <2>1, <2>2, <3>1
      <3>3. InFlight(a) /\ a \in AttemptsOf(c)
        BY <1>4, <2>2, <3>1, <3>2 DEF Rewrites, InFlight, AttemptsOf
      <3> QED BY <1>1, <2>2, <3>3
    <2> QED BY <2>1, <2>2
  <1>5. CASE Begins(w)
    <2>1. Adds(w, c, "submitting")  BY <1>5, OwnTrail
    <2>2. ~WriteAttempt(w)  BY <1>5 DEF Begins, WriteAttempt, At
    <2> QED BY <1>3, <1>5, <2>1, <2>2
  <1>6. CASE ParkAttempt(w)
    <2>1. Adds(w, c, "needs_review")  BY <1>6, OwnTrail
    <2>2. ~WriteAttempt(w)  BY <1>6 DEF ParkAttempt, WriteAttempt, At
    <2> QED BY <1>3, <2>1, <2>2
  <1>7. CASE WriteFence(w)
    <2>1. worker[w].pc \in WithAttempt /\ ~WriteAttempt(w)
      BY <1>7 DEF WriteFence, WriteAttempt, At, WithAttempt, OnTheForm
    <2>2. Rewrites(c, worker[w].att, "submitting", TRUE)  BY <1>7, OwnTrail
    <2> QED BY <1>4, <2>1, <2>2
  <1>8. CASE WriteAttempt(w)
    <2> DEFINE att == worker[w].att
    <2>1. worker[w].pc \in WithAttempt  BY <1>8 DEF WriteAttempt, At, WithAttempt
    <2>2. att \in 1..MaxAttempts  BY <1>0, <2>1 DEF TraceInv, AttIsLatest
    <2>3. PICK status \in AttemptStatus \ {"pending", "submitting"} :
            Rewrites(c, att, status, attempt[<<c, att>>].fenced)
      BY <1>8, OwnTrail
    <2>4. Kin(w)  BY <1>8, TypeInvParts, LoudSteps
    <2>5. AttOf(w)' = <<c, att>>  BY <2>4 DEF Kin, AttOf, CandOf
    <2>6. ~InFlight(AttOf(w))'  BY <2>2, <2>3, <2>5 DEF Rewrites, InFlight
    <2> QED BY <1>4, <2>1, <2>3, <2>6
  <1> QED BY <1>2, <1>5, <1>6, <1>7, <1>8, OwnTrail

LEMMA RestByOperation ==
  ASSUME TypeInv, DispatchInv, OwnInv, TraceInv, TraceInv', RestInv, NEW w \in Worker, ApplyStep(w)
  PROVE  RestInv'
  <1> SUFFICES ASSUME NEW c, c = CandOf(w)  PROVE RestInv'
    OBVIOUS
  <1>0. WorkersOK /\ TrailOK /\ MaxAttempts \in Nat
    BY TypeInvParts, BoundAssumption DEF SharedOK
  <1>1. c \in Candidate /\ worker[w].pc \in Operating  BY OthersUntouched
  <1>2. ASSUME NEW e \in Candidate \ {c}
        PROVE  /\ AttemptsOf(e)' = AttemptsOf(e) /\ attempts'[e] = attempts[e]
               /\ \A a \in AttemptsOf(e) : InFlight(a)' <=> InFlight(a)
               /\ AtRest(e)' <=> AtRest(e)
    <2>1. attempts'[e] = attempts[e] /\ attempts[e] \in 0..MaxAttempts
      BY <1>0, <1>2, OthersUntouched DEF TrailOK
    <2>2. \A a \in AttemptsOf(e) : attempt'[a] = attempt[a]
      <3>1. 1..attempts[e] \subseteq 1..MaxAttempts  BY <1>0, <2>1
      <3> QED BY <1>2, <3>1, OthersUntouched DEF AttemptsOf
    <2>3. AttemptsOf(e)' = AttemptsOf(e)  BY <2>1 DEF AttemptsOf
    <2>4. \A a \in AttemptsOf(e) : InFlight(a)' <=> InFlight(a)  BY <2>2 DEF InFlight
    <2> QED BY <2>1, <2>3, <2>4 DEF AtRest
  <1>3. \A v \in Worker \ {w} : /\ worker'[v] = worker[v]
                                /\ worker[v].pc \in Operating => CandOf(v) \in Candidate \ {c}
    BY OthersUntouched
  <1>4. worker'[w].pc # "idle" => CandOf(w)' = c  BY OthersUntouched
  <1>5. InFlightIsLatest'
    <2>1. ASSUME NEW e \in Candidate, NEW a \in AttemptsOf(e)', InFlight(a)'
          PROVE  a[2] = attempts'[e]
      <3>1. CASE e = c  BY <1>1, <2>1, <3>1, OwnRest
      <3>2. CASE e # c
        BY <1>2, <2>1, <3>2 DEF RestInv, InFlightIsLatest
      <3> QED BY <3>1, <3>2
    <2> QED BY <2>1 DEF InFlightIsLatest
  <1>6. ASSUME NEW v \in Worker, worker'[v].pc \in BeforeAttempt  PROVE AtRest(CandOf(v))'
    <2>1. CASE v # w
      <3>1. CandOf(v) \in Candidate \ {c} /\ CandOf(v)' = CandOf(v) /\ AtRest(CandOf(v))
        BY <1>3, <1>6, <2>1 DEF BeforeAttempt, Operating, InLane, RestInv, StartsAtRest, CandOf
      <3> QED BY <1>2, <3>1 DEF AtRest
    <2>2. CASE v = w
      <3>1. worker[w].pc \notin WithAttempt /\ ~Begins(w)
        <4>1. ~Begins(w)  BY <1>0, <1>6, <2>2, LoudSteps DEF BeforeAttempt
        <4>2. Quiet(w) => worker[w].pc \notin WithAttempt
          BY <1>6, <2>2, QuietSteps DEF BeforeAttempt, WithAttempt, OnTheForm
        <4>3. ~(Repeat(w) \/ ParkAttempt(w) \/ Mark(w) \/ WriteFence(w) \/ WriteAttempt(w)
                \/ WriteCandidate(w) \/ WriteApplication(w))
          BY <1>0, <1>6, <2>2, LoudSteps DEF BeforeAttempt
        <4>4. Tailor(w) \/ ParkApplication(w) \/ ParkCandidate(w) => worker[w].pc \notin WithAttempt
          BY DEF Tailor, ParkApplication, ParkCandidate, At, WithAttempt, OnTheForm
        <4> QED BY <4>1, <4>2, <4>3, <4>4, ApplySplit
      <3>2. AtRest(c)'  BY <1>1, <3>1, OwnRest
      <3>3. CandOf(w)' = c  BY <1>4, <1>6, <2>2 DEF BeforeAttempt
      <3> QED BY <2>2, <3>2, <3>3 DEF AtRest
    <2> QED BY <2>1, <2>2
  <1>7. ASSUME WriteCandidate(w)
        PROVE  /\ UNCHANGED <<attempts, attempt>> /\ Kin(w) /\ ~InFlight(AttOf(w))
               /\ ~InFlight(AttOf(w))' /\ AtRest(c)'
    <2>1. UNCHANGED <<attempts, attempt>>  BY <1>7 DEF WriteCandidate, trail
    <2>2. Kin(w)  BY <1>0, <1>7, LoudSteps
    <2>3. ~InFlight(AttOf(w))  BY <1>7 DEF WriteCandidate, At, RestInv, ResultAtRest
    <2>4. worker[w].att = attempts[c]
      BY <1>7 DEF WriteCandidate, At, TraceInv, AttIsLatest, WithAttempt
    <2>5. AtRest(c)
      <3>1. ASSUME NEW a \in AttemptsOf(c), InFlight(a)  PROVE FALSE
        <4>1. a = <<c, attempts[c]>>
          BY <1>1, <3>1 DEF RestInv, InFlightIsLatest, AttemptsOf
        <4> QED BY <2>3, <2>4, <3>1, <4>1 DEF AttOf
      <3> QED BY <3>1 DEF AtRest
    <2> QED
      BY <2>1, <2>2, <2>3, <2>5 DEF AtRest, AttemptsOf, InFlight, Kin, AttOf, CandOf
  <1>8. ASSUME NEW v \in Worker, worker'[v].pc \in {"wCandidate", "wApplication"}
        PROVE  ~InFlight(AttOf(v))'
    <2>1. CASE v # w
      <3>1. CandOf(v) \in Candidate \ {c} /\ worker'[v] = worker[v]
        BY <1>3, <1>8, <2>1 DEF Operating, InLane
      <3>2. ~InFlight(AttOf(v)) /\ AttOf(v)' = AttOf(v)
        BY <1>8, <3>1 DEF RestInv, ResultAtRest, AttOf, CandOf
      <3>3. worker[v].att = attempts[CandOf(v)] /\ worker[v].att > 0
        BY <1>8, <3>1 DEF TraceInv, AttIsLatest, WithAttempt
      <3>4. AttOf(v) \in AttemptsOf(CandOf(v))
        BY <1>0, <3>1, <3>3 DEF AttOf, AttemptsOf, TrailOK
      <3> QED BY <1>2, <3>1, <3>2, <3>4 DEF InFlight
    <2>2. CASE v = w
      <3>1. ~Quiet(w)
        BY <1>8, <2>2, QuietSteps DEF BeforeAttempt, OnTheForm
      <3>2. WriteAttempt(w) \/ WriteCandidate(w)
        BY <1>0, <1>8, <2>2, <3>1, ApplySplit, LoudSteps
      <3> QED BY <1>1, <1>7, <2>2, <3>2, OwnRest
    <2> QED BY <2>1, <2>2
  <1>9. OfferedAtRest'
    <2>1. ASSUME NEW d \in Dispatch, Waiting(d[1])', Offered(d)'  PROVE AtRest(d[1])'
      <3>0. d[1] \in Candidate  BY DEF Dispatch
      <3>1. OpenDispatch(d)  BY <2>1, OthersUntouched DEF Offered, OpenDispatch, Exists
      <3>2. \A v \in Worker \ {w} : Claimant(v)' => Claimant(v) /\ worker'[v].disp = worker[v].disp
        BY <1>3 DEF Claimant
      <3>3. CASE d[1] # c
        <4>1. ~(Claimant(w)' /\ worker'[w].disp = d)
          BY <1>4, <3>3 DEF Claimant, CandOf
        <4>2. Offered(d)
          BY <2>1, <3>1, <3>2, <4>1, OthersUntouched DEF Offered
        <4>3. Waiting(d[1])  BY <2>1, <3>0, <3>3, OthersUntouched DEF Waiting
        <4> QED BY <1>2, <3>0, <3>3, <4>2, <4>3 DEF RestInv, OfferedAtRest
      <3>4. CASE d[1] = c
        <4>1. job'[d] = "active" /\ d = worker[w].disp /\ Owns(w, d)
          BY <1>1, <3>1, <3>4, OperationHolds, OneOpen, OthersUntouched DEF Owns
        <4>2. PICK v \in Worker : Claimant(v)' /\ worker'[v].disp = d
          BY <2>1, <4>1 DEF Offered
        <4>3. v = w
          <5>1. SUFFICES ASSUME v # w  PROVE FALSE
            OBVIOUS
          <5>2. ~At(v, "idle") /\ worker[v].disp = d
            BY <3>2, <4>2, <5>1 DEF Claimant, At
          <5> QED BY <4>1, <5>1, <5>2 DEF OwnInv, HoldsItsJob, Owns
        <4>4. WriteCandidate(w)
          <5>1. ~Quiet(w)
            BY <4>2, <4>3, QuietSteps DEF Claimant, BeforeAttempt, OnTheForm
          <5> QED BY <1>0, <4>2, <4>3, <5>1, ApplySplit, LoudSteps DEF Claimant
        <4> QED BY <1>7, <3>4, <4>4
      <3> QED BY <3>3, <3>4
    <2> QED BY <2>1 DEF OfferedAtRest
  <1>10. ASSUME NEW e \in Candidate, retrying'[e] # "no"  PROVE AtRest(e)'
    <2>1. retrying[e] # "no"  BY <1>10, OthersUntouched
    <2>2. e # c  BY <1>1, <2>1, OperationHolds
    <2> QED BY <1>2, <2>1, <2>2 DEF RestInv, RetriesAtRest
  <1> QED
    BY <1>5, <1>6, <1>8, <1>9, <1>10
    DEF RestInv, StartsAtRest, ResultAtRest, RetriesAtRest

LEMMA RestInvariant ==
  ASSUME ~Zombies, ~InfoFails
  PROVE  Spec /\ [][OwnerStandsBack /\ CancelsCommit]_vars => [](TypeInv /\ RestInv)
  <1>1. Init => RestInv
    <2> SUFFICES ASSUME Init  PROVE RestInv
      OBVIOUS
    <2>1. \A c \in Candidate : AttemptsOf(c) = {} /\ retrying[c] = "no" /\ ~Waiting(c)
      BY DEF Init, AttemptsOf, Waiting
    <2>2. \A w \in Worker : worker[w].pc = "idle"  BY DEF Init, Idle
    <2> QED
      BY <2>1, <2>2
      DEF RestInv, InFlightIsLatest, StartsAtRest, ResultAtRest, OfferedAtRest, RetriesAtRest,
          BeforeAttempt, Dispatch
  <1>2. /\ TypeInv /\ DispatchInv /\ OwnInv /\ TraceInv /\ TraceInv' /\ RestInv
        /\ [Next]_vars /\ [OwnerStandsBack /\ CancelsCommit]_vars
        => RestInv'
    <2> SUFFICES ASSUME TypeInv, DispatchInv, OwnInv, TraceInv, TraceInv', RestInv, [Next]_vars,
                        [OwnerStandsBack /\ CancelsCommit]_vars
                 PROVE  RestInv'
      OBVIOUS
    <2>1. CASE UNCHANGED vars
      <3>1. UNCHANGED <<candidate, dispatches, cancelled, attempts, attempt, job, worker, retrying>>
        BY <2>1 DEF vars, rows, outbox, trail, redis, actors
      <3>2. \A c : /\ AttemptsOf(c)' = AttemptsOf(c) /\ (Waiting(c)' <=> Waiting(c))
                   /\ (AtRest(c)' <=> AtRest(c))
        BY <3>1 DEF AttemptsOf, AtRest, InFlight, Waiting
      <3>3. \A d : Offered(d)' <=> Offered(d)
        BY <3>1 DEF Offered, OpenDispatch, Exists, Claimant
      <3>4. OfferedAtRest' /\ RetriesAtRest'
        BY <3>1, <3>2, <3>3 DEF RestInv, OfferedAtRest, RetriesAtRest
      <3>5. InFlightIsLatest'
        BY <3>1, <3>2 DEF RestInv, InFlightIsLatest, InFlight
      <3>6. StartsAtRest' /\ ResultAtRest'
        BY <3>1 DEF RestInv, StartsAtRest, ResultAtRest, AtRest, AttemptsOf, InFlight, AttOf, CandOf
      <3> QED BY <3>4, <3>5, <3>6 DEF RestInv
    <2>2. CASE Next /\ OwnerStandsBack /\ CancelsCommit
      BY <2>2, RestByOthers, RestByOperation DEF Next, ApplyNext
    <2> QED BY <2>1, <2>2
  <1>3. [OwnerStandsBack /\ CancelsCommit]_vars => [OwnerStandsBack]_vars
    OBVIOUS
  <1> QED BY <1>1, <1>2, <1>3, TraceInvariant, PTL DEF Spec

\* Of a candidate's attempts at most one is in flight (hunt/apply.ts:167-183,
\* application-queue.ts:419-435): a second operation starts only when the first
\* one's attempt has been settled, as long as the owner stands back and
\* cancellations commit.
THEOREM OneAttemptInFlight ==
  ASSUME ~Zombies, ~InfoFails
  PROVE  Spec /\ [][OwnerStandsBack /\ CancelsCommit]_vars => []OneInFlightAttempt
  <1>1. TypeInv /\ RestInv => OneInFlightAttempt
    <2> SUFFICES ASSUME TypeInv, RestInv, NEW c \in Candidate
                 PROVE  Cardinality({a \in AttemptsOf(c) : InFlight(a)}) <= 1
      BY DEF OneInFlightAttempt
    <2>1. {a \in AttemptsOf(c) : InFlight(a)} \in SUBSET {<<c, attempts[c]>>}
      BY DEF RestInv, InFlightIsLatest, AttemptsOf
    <2>2. IsFiniteSet({<<c, attempts[c]>>}) /\ Cardinality({<<c, attempts[c]>>}) = 1
      BY FS_Singleton
    <2>3. Cardinality({a \in AttemptsOf(c) : InFlight(a)}) <= Cardinality({<<c, attempts[c]>>})
      BY <2>1, <2>2, FS_Subset
    <2> QED BY <2>2, <2>3
  <1> QED BY <1>1, RestInvariant, PTL
-----------------------------------------------------------------------------
(* Fenced attempts: all but the newest were confirmed by the owner not to   *)
(* have submitted, and the newest too before another can be made.           *)

LatestFenced(c) == attempts[c] > 0 /\ Latest(c).fenced
Confirmed(c)    == Cardinality(Fenced(c)) <= confirms[c]

OlderConfirmed   == \A c \in Candidate :
                      Cardinality(Fenced(c)) <= confirms[c] + (IF LatestFenced(c) THEN 1 ELSE 0)
WaitingConfirmed == \A c \in Candidate : Waiting(c) => Confirmed(c)
StartsConfirmed  == \A w \in Worker : worker[w].pc \in BeforeAttempt => Confirmed(CandOf(w))
FormHeld         == \A w \in Worker : worker[w].pc \in WithAttempt \ {"mark", "wApplication"} =>
                      ~Waiting(CandOf(w))
\* Before the form is open, and when it could not be opened.
Unopened(w)      == \/ worker[w].pc \in {"mark", "open"}
                    \/ /\ worker[w].pc \in {"wAttempt", "wCandidate"}
                       /\ worker[w].result = "deferred"
UnopenedUnfenced == \A w \in Worker : Unopened(w) => ~attempt[AttOf(w)].fenced
SafeUnfenced     == \A c \in Candidate : retrying[c] = "safe" => ~LatestFenced(c)
EvidenceInv == /\ OlderConfirmed /\ WaitingConfirmed /\ StartsConfirmed /\ FormHeld
               /\ UnopenedUnfenced /\ SafeUnfenced

LEMMA FencedFinite ==
  ASSUME TypeInv, NEW c \in Candidate
  PROVE  /\ IsFiniteSet(Fenced(c)) /\ Cardinality(Fenced(c)) \in Nat
         /\ confirms[c] \in Nat /\ submissions[c] \in Nat /\ attempts[c] \in 0..MaxAttempts
         /\ MaxAttempts \in Nat
         /\ AttemptsOf(c) \subseteq Attempt
  <1>1. /\ attempts[c] \in 0..MaxAttempts /\ confirms[c] \in Nat /\ submissions[c] \in Nat
        /\ MaxAttempts \in Nat
    BY TypeInvParts, BoundAssumption DEF SharedOK, TrailOK, HistoryOK
  <1> DEFINE f == [k \in 1..attempts[c] |-> <<c, k>>]
  <1>2. f \in Surjection(1..attempts[c], AttemptsOf(c))
    <2>1. f \in [1..attempts[c] -> AttemptsOf(c)]  BY DEF AttemptsOf
    <2>2. \A a \in AttemptsOf(c) : \E k \in 1..attempts[c] : f[k] = a  BY DEF AttemptsOf
    <2> HIDE DEF f
    <2> QED BY <2>1, <2>2 DEF Surjection
  <1>3. IsFiniteSet(1..attempts[c])
    <2>1. 1 \in Int /\ attempts[c] \in Int  BY <1>1
    <2> HIDE DEF f
    <2> QED BY <2>1, FS_Interval
  <1>4. IsFiniteSet(AttemptsOf(c))
    <2> HIDE DEF f
    <2> QED BY <1>2, <1>3, FS_Surjection
  <1>5. Fenced(c) \in SUBSET AttemptsOf(c)  BY DEF Fenced
  <1>6. IsFiniteSet(Fenced(c))  BY <1>4, <1>5, FS_Subset
  <1>7. AttemptsOf(c) \subseteq Attempt  BY <1>1 DEF AttemptsOf, Attempt
  <1> QED BY <1>1, <1>6, <1>7, FS_CardinalityType

\* An operation stays before its attempt only by steps that touch none.
LEMMA StaysBefore ==
  ASSUME TypeInv, NEW w \in Worker, ApplyStep(w), worker'[w].pc \in BeforeAttempt
  PROVE  worker[w].pc \in BeforeAttempt /\ UNCHANGED <<attempts, attempt>>
  <1>0. WorkersOK  BY TypeInvParts DEF SharedOK
  <1>1. Quiet(w) => worker[w].pc \in BeforeAttempt /\ UNCHANGED <<attempts, attempt>>
    BY QuietSteps DEF BeforeAttempt, OnTheForm
  <1>2. ~(Begins(w) \/ Repeat(w) \/ ParkAttempt(w) \/ Mark(w) \/ WriteFence(w) \/ WriteAttempt(w)
          \/ WriteCandidate(w) \/ WriteApplication(w))
    BY <1>0, LoudSteps DEF BeforeAttempt
  <1>3. Tailor(w) \/ ParkApplication(w) \/ ParkCandidate(w) =>
          worker[w].pc \in BeforeAttempt /\ UNCHANGED <<attempts, attempt>>
    BY DEF Tailor, ParkApplication, ParkCandidate, At, BeforeAttempt, trail
  <1> QED BY <1>1, <1>2, <1>3, ApplySplit

LEMMA EvidenceElsewhere ==
  ASSUME TypeInv, DispatchInv, OwnInv, TraceInv, EvidenceInv, ApiNext \/ DispatchNext \/ RecoveryNext
  PROVE  EvidenceInv'
  <1>1. ASSUME NEW c \in Candidate
        PROVE  /\ Fenced(c)' = Fenced(c) /\ (LatestFenced(c)' <=> LatestFenced(c))
               /\ confirms'[c] \in {confirms[c], confirms[c] + 1}
               /\ Confirmed(c) => Confirmed(c)'
    <2>1. UNCHANGED attempts /\ \A a \in Attempt : attempt'[a].fenced = attempt[a].fenced
      BY TrailElsewhere
    <2>2. AttemptsOf(c)' = AttemptsOf(c)  BY <2>1 DEF AttemptsOf
    <2>3. Fenced(c)' = Fenced(c)  BY <2>1, <2>2, FencedFinite DEF Fenced
    <2>4. attempts[c] > 0 => <<c, attempts[c]>> \in Attempt
      BY FencedFinite DEF Attempt
    <2>5. LatestFenced(c)' <=> LatestFenced(c)  BY <2>1, <2>4 DEF LatestFenced, Latest
    <2>6. confirms'[c] \in {confirms[c], confirms[c] + 1}  BY RetriesElsewhere DEF Next
    <2> QED BY <2>3, <2>5, <2>6, FencedFinite DEF Confirmed
  <1>2. OlderConfirmed'
    <2>1. ASSUME NEW c \in Candidate
          PROVE  Cardinality(Fenced(c)') <= confirms'[c] + (IF LatestFenced(c)' THEN 1 ELSE 0)
      BY <1>1, FencedFinite DEF EvidenceInv, OlderConfirmed
    <2> QED BY <2>1 DEF OlderConfirmed
  <1>3. ASSUME NEW c \in Candidate, Waiting(c)'  PROVE Confirmed(c)'
    <2>1. CASE RetryCommit(c)
      <3>1. retrying[c] \in {"safe", "confirmed"}
        BY <2>1, TypeInvParts DEF RetryCommit, SharedOK, ServicesOK
      <3>2. CASE retrying[c] = "safe"
        <4>1. Confirmed(c)
          BY <3>2, FencedFinite DEF EvidenceInv, SafeUnfenced, OlderConfirmed, Confirmed
        <4> QED BY <1>1, <4>1
      <3>3. CASE retrying[c] = "confirmed"
        <4>1. confirms'[c] = confirms[c] + 1
          BY <2>1, <3>3, TypeInvParts DEF RetryCommit, SharedOK, HistoryOK
        <4> QED
          BY <1>1, <4>1, FencedFinite DEF EvidenceInv, OlderConfirmed, Confirmed
      <3> QED BY <3>1, <3>2, <3>3
    <2>2. CASE application[c] = "none"
      <3>1. attempts[c] = 0  BY <2>2 DEF TraceInv, AttemptsKnown
      <3>2. Fenced(c) = {}  BY <3>1 DEF Fenced, AttemptsOf
      <3>3. Confirmed(c)  BY <3>2, FS_EmptySet, FencedFinite DEF Confirmed
      <3> QED BY <1>1, <3>3
    <2>3. CASE ~RetryCommit(c) /\ application[c] # "none"
      <3>1. Waiting(c)  BY <1>3, <2>3, RowsStay DEF Waiting
      <3> QED BY <1>1, <3>1 DEF EvidenceInv, WaitingConfirmed
    <2> QED BY <2>1, <2>2, <2>3
  <1>4. ASSUME NEW w \in Worker, worker'[w].pc \in BeforeAttempt,
               NEW c, c = CandOf(w)'
        PROVE  Confirmed(c)'
    <2>1. Claims(w) \/ (worker[w].pc \in Operating /\ Stays(w))
      BY <1>4, OperationsStay DEF BeforeAttempt, Operating, InLane
    <2>2. CASE Claims(w)
      <3>1. worker[w].disp \in Dispatch
        BY <2>2 DEF Claims, Claim, At, TypeInv, AssignedWork
      <3>2. c \in Candidate /\ Waiting(c)
        BY <1>4, <2>2, <3>1 DEF Claims, MayClaim, Waiting, CandOf, Dispatch
      <3> QED BY <1>1, <3>2 DEF EvidenceInv, WaitingConfirmed
    <2>3. CASE worker[w].pc \in Operating /\ Stays(w)
      <3>1. c = CandOf(w) /\ worker[w].pc \in BeforeAttempt
        BY <1>4, <2>3 DEF Stays, CandOf
      <3>2. c \in Candidate /\ Confirmed(c)
        BY <2>3, <3>1, OperationHolds DEF EvidenceInv, StartsConfirmed
      <3> QED BY <1>1, <3>2
    <2> QED BY <2>1, <2>2, <2>3
  <1>5. ASSUME NEW w \in Worker, worker'[w].pc \in WithAttempt \ {"mark", "wApplication"}
        PROVE  ~Waiting(CandOf(w))'
    <2>1. worker[w].pc \in Operating /\ Stays(w)
      BY <1>5, OperationsStay DEF WithAttempt, OnTheForm, Operating, InLane, Claims
    <2>2. /\ CandOf(w) \in Candidate /\ CandOf(w)' = CandOf(w) /\ ~Waiting(CandOf(w))
          /\ application[CandOf(w)] # "none" /\ ~RetryCommit(CandOf(w))
      BY <1>5, <2>1, OperationHolds DEF Stays, CandOf, EvidenceInv, FormHeld, RetryCommit
    <2> QED BY <2>2, RowsStay DEF Waiting
  <1>6. ASSUME NEW w \in Worker, Unopened(w)'  PROVE ~attempt'[AttOf(w)'].fenced
    <2>1. worker[w].pc \in Operating /\ Stays(w)
      BY <1>6, OperationsStay DEF Unopened, Operating, InLane, Claims
    <2>2. Unopened(w) /\ AttOf(w)' = AttOf(w)  BY <1>6, <2>1 DEF Unopened, Stays, AttOf, CandOf
    <2>3. AttOf(w) \in Attempt
      <3>1. worker[w].att = attempts[CandOf(w)] /\ worker[w].att > 0
        BY <2>2 DEF TraceInv, AttIsLatest, WithAttempt, Unopened
      <3> QED BY <2>1, <3>1, OperationHolds, FencedFinite DEF AttOf, Attempt
    <2> QED BY <2>2, <2>3, TrailElsewhere DEF EvidenceInv, UnopenedUnfenced
  <1>7. ASSUME NEW c \in Candidate, retrying'[c] = "safe"  PROVE ~LatestFenced(c)'
    <2>1. CASE retrying[c] = "safe"
      BY <1>1, <2>1 DEF EvidenceInv, SafeUnfenced
    <2>2. ASSUME NEW confirmed \in BOOLEAN, RetryCheck(c, confirmed)  PROVE ~LatestFenced(c)
      <3>1. RetryAllowed(c, FALSE)
        BY <1>7, <2>2, TypeInvParts DEF RetryCheck, SharedOK, ServicesOK
      <3> QED BY <3>1 DEF RetryAllowed, SafeRetry, HasAttempt, LatestFenced
    <2> QED BY <1>1, <1>7, <2>1, <2>2, RetriesElsewhere DEF Next
  <1>8. WaitingConfirmed' /\ StartsConfirmed'
    BY <1>3, <1>4 DEF WaitingConfirmed, StartsConfirmed, Confirmed
  <1> QED
    BY <1>2, <1>5, <1>6, <1>7, <1>8 DEF EvidenceInv, FormHeld, UnopenedUnfenced, SafeUnfenced

LEMMA OthersFenced ==
  ASSUME TypeInv, DispatchInv, OwnInv, NEW w \in Worker, ApplyStep(w), NEW e \in Candidate \ {CandOf(w)}
  PROVE  /\ Fenced(e)' = Fenced(e) /\ (LatestFenced(e)' <=> LatestFenced(e))
         /\ (Confirmed(e)' <=> Confirmed(e))
  <1>1. /\ attempts'[e] = attempts[e] /\ confirms' = confirms
        /\ \A k \in 1..MaxAttempts : attempt'[<<e, k>>] = attempt[<<e, k>>]
    BY OthersUntouched
  <1>2. attempts[e] \in 0..MaxAttempts /\ MaxAttempts \in Nat  BY FencedFinite
  <1>3. AttemptsOf(e)' = AttemptsOf(e) /\ \A a \in AttemptsOf(e) : attempt'[a] = attempt[a]
    BY <1>1, <1>2 DEF AttemptsOf
  <1>4. Fenced(e)' = Fenced(e)  BY <1>3 DEF Fenced
  <1>5. LatestFenced(e)' <=> LatestFenced(e)  BY <1>1, <1>2 DEF LatestFenced, Latest
  <1> QED BY <1>1, <1>4, <1>5 DEF Confirmed

\* What a step of an operation does to its own candidate's fenced attempts.
LEMMA OwnFenced ==
  ASSUME TypeInv, TraceInv, NEW w \in Worker, ApplyStep(w), NEW c \in Candidate, c = CandOf(w)
  PROVE  /\ WriteFence(w) => /\ Fenced(c)' = Fenced(c) \cup {<<c, attempts[c]>>}
                             /\ LatestFenced(c)' /\ attempts[c] > 0 /\ UNCHANGED attempts
                             /\ AttOf(w) = <<c, attempts[c]>>
         /\ ~WriteFence(w) => Fenced(c)' = Fenced(c)
         /\ Begins(w) \/ ParkAttempt(w) => ~LatestFenced(c)'
         /\ Begins(w) \/ ParkAttempt(w) \/ WriteFence(w) \/ (LatestFenced(c)' <=> LatestFenced(c))
  <1>0. attempts[c] \in 0..MaxAttempts /\ MaxAttempts \in Nat  BY FencedFinite
  <1>1. CASE UNCHANGED <<attempts, attempt>> /\ ~WriteFence(w) /\ ~Begins(w) /\ ~ParkAttempt(w)
    BY <1>1 DEF Fenced, AttemptsOf, LatestFenced, Latest
  <1>2. ASSUME NEW status, Adds(w, c, status)
        PROVE  Fenced(c)' = Fenced(c) /\ ~LatestFenced(c)'
    <2>1. ~LatestFenced(c)'  BY <1>2 DEF Adds, LatestFenced, Latest
    <2>2. ASSUME NEW a  PROVE a \in Fenced(c)' <=> a \in Fenced(c)
      <3>1. CASE a \in AttemptsOf(c)
        <4>1. a \in AttemptsOf(c)' /\ attempt'[a] = attempt[a]
          BY <1>0, <1>2, <3>1 DEF Adds, AttemptsOf
        <4> QED BY <3>1, <4>1 DEF Fenced
      <3>2. CASE a \notin AttemptsOf(c)
        <4>1. a \in AttemptsOf(c)' => a = <<c, attempts[c] + 1>>
          <5>1. \A k \in 1..(attempts[c] + 1) : k \in 1..attempts[c] \/ k = attempts[c] + 1
            BY <1>0
          <5> QED BY <1>2, <3>2, <5>1 DEF Adds, AttemptsOf
        <4> QED BY <1>2, <3>2, <4>1 DEF Adds, Fenced
      <3> QED BY <3>1, <3>2
    <2> QED BY <2>1, <2>2 DEF Fenced
  <1>3. ASSUME NEW status, NEW fenced, Rewrites(c, worker[w].att, status, fenced),
               worker[w].pc \in WithAttempt, fenced \in {TRUE, attempt[<<c, worker[w].att>>].fenced}
        PROVE  /\ fenced = TRUE =>
                    /\ Fenced(c)' = Fenced(c) \cup {<<c, attempts[c]>>} /\ LatestFenced(c)'
                    /\ attempts[c] > 0 /\ attempts'[c] = attempts[c]
               /\ fenced = attempt[<<c, worker[w].att>>].fenced =>
                    Fenced(c)' = Fenced(c) /\ (LatestFenced(c)' <=> LatestFenced(c))
               /\ AttOf(w) = <<c, attempts[c]>>
    <2>1. /\ worker[w].att = attempts[c] /\ attempts[c] \in 1..MaxAttempts
          /\ attempts'[c] = attempts[c] /\ AttOf(w) = <<c, attempts[c]>>
      BY <1>0, <1>3 DEF TraceInv, AttIsLatest, Rewrites, AttOf
    <2>2. /\ attempt'[<<c, attempts[c]>>].fenced = fenced
          /\ \A k \in 1..attempts[c] : k # attempts[c] => attempt'[<<c, k>>] = attempt[<<c, k>>]
      BY <1>0, <1>3, <2>1 DEF Rewrites
    <2>3. AttemptsOf(c)' = AttemptsOf(c) /\ <<c, attempts[c]>> \in AttemptsOf(c)
      BY <2>1 DEF AttemptsOf
    <2>4. LatestFenced(c)' <=> fenced = TRUE
      <3>1. attempt[<<c, attempts[c]>>].fenced \in BOOLEAN
        BY <2>3, FencedFinite, TypeInvParts DEF SharedOK, TrailOK, AttemptRecord
      <3> QED BY <1>3, <2>1, <2>2, <3>1 DEF LatestFenced, Latest
    <2>5. \A a \in AttemptsOf(c) : a # <<c, attempts[c]>> => attempt'[a] = attempt[a]
      BY <2>2 DEF AttemptsOf
    <2>6. CASE fenced = TRUE
      <3>1. Fenced(c)' = Fenced(c) \cup {<<c, attempts[c]>>}
        BY <2>2, <2>3, <2>5, <2>6 DEF Fenced
      <3>2. fenced = attempt[<<c, worker[w].att>>].fenced => <<c, attempts[c]>> \in Fenced(c)
        BY <2>1, <2>3, <2>6 DEF Fenced
      <3>3. fenced = attempt[<<c, worker[w].att>>].fenced => Fenced(c)' = Fenced(c)
        BY <3>1, <3>2
      <3>4. fenced = attempt[<<c, worker[w].att>>].fenced => LatestFenced(c)
        BY <2>1, <2>6 DEF LatestFenced, Latest
      <3>5. LatestFenced(c)'  BY <2>4, <2>6
      <3>6. attempts[c] > 0 /\ attempts'[c] = attempts[c] /\ AttOf(w) = <<c, attempts[c]>>
        BY <2>1
      <3>7. fenced = attempt[<<c, worker[w].att>>].fenced =>
              Fenced(c)' = Fenced(c) /\ (LatestFenced(c)' <=> LatestFenced(c))
        BY <3>3, <3>4, <3>5
      <3> HIDE DEF Fenced, LatestFenced, AttOf
      <3> QED BY <3>1, <3>5, <3>6, <3>7
    <2>7. CASE fenced = attempt[<<c, worker[w].att>>].fenced /\ fenced # TRUE
      <3>1. Fenced(c)' = Fenced(c)
        BY <2>1, <2>2, <2>3, <2>5, <2>7 DEF Fenced
      <3>2. LatestFenced(c)' <=> LatestFenced(c)
        <4>1. attempt[<<c, attempts[c]>>].fenced \in BOOLEAN
          BY <2>3, FencedFinite, TypeInvParts DEF SharedOK, TrailOK, AttemptRecord
        <4> QED BY <2>1, <2>4, <2>7, <4>1 DEF LatestFenced, Latest
      <3> QED BY <2>1, <2>7, <3>1, <3>2
    <2> QED BY <1>3, <2>6, <2>7
  <1>4. CASE Begins(w) \/ ParkAttempt(w)
    <2>1. \E status : Adds(w, c, status)  BY <1>4, OwnTrail
    <2>2. ~WriteFence(w)  BY <1>4 DEF Begins, ParkAttempt, WriteFence, At
    <2> QED BY <1>2, <1>4, <2>1, <2>2
  <1>5. CASE WriteFence(w)
    <2>1. Rewrites(c, worker[w].att, "submitting", TRUE)  BY <1>5, OwnTrail
    <2>2. worker[w].pc \in WithAttempt /\ UNCHANGED attempts
      BY <1>5 DEF WriteFence, At, WithAttempt, OnTheForm
    <2>3. ~Begins(w) /\ ~ParkAttempt(w)  BY <1>5 DEF Begins, ParkAttempt, WriteFence, At
    <2> QED BY <1>3, <1>5, <2>1, <2>2, <2>3
  <1>6. CASE WriteAttempt(w)
    <2>1. \E status : Rewrites(c, worker[w].att, status, attempt[<<c, worker[w].att>>].fenced)
      BY <1>6, OwnTrail
    <2>2. worker[w].pc \in WithAttempt /\ ~WriteFence(w) /\ ~Begins(w) /\ ~ParkAttempt(w)
      BY <1>6 DEF WriteAttempt, WriteFence, Begins, ParkAttempt, At, WithAttempt
    <2> QED BY <1>3, <2>1, <2>2
  <1> QED BY <1>1, <1>4, <1>5, <1>6, OwnTrail

LEMMA EvidenceByOperation ==
  ASSUME TypeInv, DispatchInv, OwnInv, TraceInv, EvidenceInv, NEW w \in Worker, ApplyStep(w)
  PROVE  EvidenceInv'
  <1> SUFFICES ASSUME NEW c, c = CandOf(w)  PROVE EvidenceInv'
    OBVIOUS
  <1>0. WorkersOK /\ RowsOK  BY TypeInvParts DEF SharedOK
  <1>1. c \in Candidate /\ worker[w].pc \in Operating  BY OthersUntouched
  <1>2. confirms'[c] = confirms[c]  BY OthersUntouched
  <1>3. Confirmed(c) /\ ~WriteFence(w) => Confirmed(c)'
    BY <1>1, <1>2, OwnFenced DEF Confirmed
  <1>4. OlderConfirmed'
    <2>1. ASSUME NEW e \in Candidate \ {c}
          PROVE  Cardinality(Fenced(e)') <= confirms'[e] + (IF LatestFenced(e)' THEN 1 ELSE 0)
      BY OthersFenced, OthersUntouched DEF EvidenceInv, OlderConfirmed
    <2>2. Cardinality(Fenced(c)') <= confirms'[c] + (IF LatestFenced(c)' THEN 1 ELSE 0)
      <3>1. CASE WriteFence(w)
        <4>1. Fenced(c)' = Fenced(c) \cup {<<c, attempts[c]>>} /\ LatestFenced(c)' /\ attempts[c] > 0
          BY <1>1, <3>1, OwnFenced
        <4>2. CASE LatestFenced(c)
          <5>1. <<c, attempts[c]>> \in Fenced(c)
            <6>1. attempts[c] \in 1..attempts[c]  BY <1>1, <4>1, FencedFinite
            <6>2. attempt[<<c, attempts[c]>>].fenced  BY <4>2 DEF LatestFenced, Latest
            <6> QED BY <6>1, <6>2 DEF Fenced, AttemptsOf
          <5>2. Fenced(c)' = Fenced(c)  BY <4>1, <5>1
          <5> QED BY <1>1, <1>2, <4>1, <4>2, <5>2 DEF EvidenceInv, OlderConfirmed
        <4>3. CASE ~LatestFenced(c)
          <5>1. Cardinality(Fenced(c)) <= confirms[c]
            BY <1>1, <4>3, FencedFinite DEF EvidenceInv, OlderConfirmed
          <5>2. IsFiniteSet(Fenced(c)) /\ Cardinality(Fenced(c)) \in Nat /\ confirms[c] \in Nat
            BY <1>1, FencedFinite
          <5>3. \/ Cardinality(Fenced(c) \cup {<<c, attempts[c]>>}) = Cardinality(Fenced(c))
                \/ Cardinality(Fenced(c) \cup {<<c, attempts[c]>>}) = Cardinality(Fenced(c)) + 1
            BY <5>2, FS_AddElement
          <5>4. \/ Cardinality(Fenced(c)') = Cardinality(Fenced(c))
                \/ Cardinality(Fenced(c)') = Cardinality(Fenced(c)) + 1
            BY <4>1, <5>3
          <5>5. (IF LatestFenced(c)' THEN 1 ELSE 0) = 1  BY <4>1
          <5> QED BY <1>2, <5>1, <5>2, <5>4, <5>5
        <4> QED BY <4>2, <4>3
      <3>2. CASE Begins(w) \/ ParkAttempt(w)
        <4>1. Confirmed(c)
          BY <3>2 DEF Begins, ParkAttempt, At, BeforeAttempt, EvidenceInv, StartsConfirmed
        <4>2. ~WriteFence(w)  BY <3>2 DEF Begins, ParkAttempt, WriteFence, At
        <4>3. ~LatestFenced(c)'  BY <1>1, <3>2, OwnFenced
        <4>4. Fenced(c)' = Fenced(c)  BY <1>1, <4>2, OwnFenced
        <4> QED BY <1>1, <1>2, <4>1, <4>3, <4>4, FencedFinite DEF Confirmed
      <3>3. CASE ~WriteFence(w) /\ ~Begins(w) /\ ~ParkAttempt(w)
        BY <1>1, <1>2, <3>3, OwnFenced DEF EvidenceInv, OlderConfirmed
      <3> QED BY <3>1, <3>2, <3>3
    <2> QED BY <2>1, <2>2 DEF OlderConfirmed
  <1>5. ASSUME NEW e \in Candidate, Waiting(e)'  PROVE Confirmed(e)'
    <2>1. CASE e # c
      <3>1. Waiting(e)  BY <1>5, <2>1, OthersUntouched DEF Waiting
      <3> QED BY <2>1, <3>1, OthersFenced DEF EvidenceInv, WaitingConfirmed
    <2>2. CASE e = c
      <3>1. CASE WriteFence(w)
        <4>1. UNCHANGED candidate /\ worker[w].pc = "fence"  BY <3>1 DEF WriteFence, rows, At
        <4>2. ~Waiting(c)  BY <4>1 DEF EvidenceInv, FormHeld, WithAttempt, OnTheForm
        <4> QED BY <1>5, <2>2, <4>1, <4>2 DEF Waiting
      <3>2. CASE ~WriteFence(w) /\ Waiting(c)
        BY <1>1, <1>3, <2>2, <3>2 DEF EvidenceInv, WaitingConfirmed
      <3>3. CASE ~WriteFence(w) /\ ~Waiting(c)
        <4>1. Tailor(w) \/ WriteCandidate(w)
          <5>1. ~Repeat(w) /\ ~ParkCandidate(w) /\ ~Mark(w)
            BY <1>0, <1>1, <1>5, <2>2
            DEF Repeat, ParkCandidate, Mark, SetCandidate, Waiting, RowsOK
          <5>2. UNCHANGED candidate \/ Tailor(w) \/ WriteCandidate(w)
            BY <3>3, <5>1, ApplySplit, QuietSteps
            DEF Begins, ParkApplication, ParkAttempt, WriteAttempt, WriteApplication, rows
          <5> QED BY <1>5, <2>2, <3>3, <5>2 DEF Waiting
        <4>2. CASE Tailor(w)
          <5>1. Confirmed(c)
            BY <4>2 DEF Tailor, At, BeforeAttempt, EvidenceInv, StartsConfirmed
          <5> QED BY <1>3, <2>2, <3>3, <5>1
        <4>3. CASE WriteCandidate(w)
          <5>1. worker[w].result = "deferred"
            BY <1>0, <1>1, <1>5, <2>2, <4>3
            DEF WriteCandidate, CandidateStatusOf, SetCandidate, Waiting, RowsOK
          <5>2. ~attempt[AttOf(w)].fenced
            BY <4>3, <5>1 DEF WriteCandidate, At, EvidenceInv, UnopenedUnfenced, Unopened
          <5>3. AttOf(w) = <<c, attempts[c]>>
            BY <4>3 DEF WriteCandidate, At, TraceInv, AttIsLatest, WithAttempt, AttOf
          <5>4. ~LatestFenced(c)  BY <5>2, <5>3 DEF LatestFenced, Latest
          <5>5. Confirmed(c)
            BY <1>1, <5>4, FencedFinite DEF EvidenceInv, OlderConfirmed, Confirmed
          <5> QED BY <1>3, <2>2, <3>3, <5>5
        <4> QED BY <4>1, <4>2, <4>3
      <3> QED BY <3>1, <3>2, <3>3
    <2> QED BY <2>1, <2>2
  <1>6. ASSUME NEW v \in Worker, worker'[v].pc \in BeforeAttempt, NEW e, e = CandOf(v)'
        PROVE  Confirmed(e)'
    <2>1. CASE v # w
      <3>1. e = CandOf(v) /\ e \in Candidate \ {c} /\ worker[v].pc \in BeforeAttempt
        BY <1>6, <2>1, OthersUntouched DEF CandOf, BeforeAttempt, Operating, InLane
      <3> QED BY <3>1, OthersFenced DEF EvidenceInv, StartsConfirmed
    <2>2. CASE v = w
      <3>1. e = c  BY <1>6, <2>2, OthersUntouched DEF BeforeAttempt
      <3>2. worker[w].pc \in BeforeAttempt  BY <1>6, <2>2, StaysBefore
      <3>3. ~WriteFence(w)  BY <3>2 DEF WriteFence, At, BeforeAttempt
      <3> QED BY <1>3, <3>1, <3>2, <3>3 DEF EvidenceInv, StartsConfirmed
    <2> QED BY <2>1, <2>2
  <1>7. ASSUME NEW v \in Worker, worker'[v].pc \in WithAttempt \ {"mark", "wApplication"},
               NEW e, e = CandOf(v)'
        PROVE  ~Waiting(e)'
    <2>1. CASE v # w
      <3>1. e = CandOf(v) /\ e \in Candidate \ {c} /\ worker[v] = worker'[v]
        BY <1>7, <2>1, OthersUntouched DEF CandOf, WithAttempt, OnTheForm, Operating, InLane
      <3> QED BY <1>7, <3>1, OthersUntouched DEF EvidenceInv, FormHeld, Waiting
    <2>2. CASE v = w
      <3>1. e = c  BY <1>7, <2>2, OthersUntouched DEF WithAttempt, OnTheForm
      <3>2. CASE Mark(w)
        BY <1>0, <1>1, <3>1, <3>2 DEF Mark, SetCandidate, Waiting, RowsOK
      <3>3. CASE Quiet(w)
        <4>1. UNCHANGED candidate /\ worker[w].pc \in {"open"} \cup OnTheForm
          BY <1>7, <2>2, <3>3, QuietSteps DEF WithAttempt, OnTheForm, BeforeAttempt
        <4> QED BY <3>1, <4>1 DEF EvidenceInv, FormHeld, WithAttempt, OnTheForm, Waiting
      <3>4. CASE WriteFence(w) \/ WriteAttempt(w)
        <4>1. UNCHANGED candidate /\ worker[w].pc \in {"fence", "wAttempt"}
          BY <3>4 DEF WriteFence, WriteAttempt, rows, At
        <4> QED BY <3>1, <4>1 DEF EvidenceInv, FormHeld, WithAttempt, OnTheForm, Waiting
      <3>5. ~(Begins(w) \/ Tailor(w) \/ Repeat(w) \/ ParkApplication(w) \/ ParkCandidate(w)
              \/ ParkAttempt(w) \/ WriteCandidate(w) \/ WriteApplication(w))
        BY <1>0, <1>7, <2>2, LoudSteps DEF WithAttempt, OnTheForm
      <3> QED BY <3>2, <3>3, <3>4, <3>5, ApplySplit
    <2> QED BY <2>1, <2>2
  <1>8. ASSUME NEW v \in Worker, Unopened(v)'  PROVE ~attempt'[AttOf(v)'].fenced
    <2>1. CASE v # w
      <3>1. /\ worker'[v] = worker[v] /\ CandOf(v) \in Candidate \ {c}
            /\ worker[v].att = attempts[CandOf(v)] /\ worker[v].att > 0
        BY <1>8, <2>1, OthersUntouched
        DEF Unopened, Operating, InLane, TraceInv, AttIsLatest, WithAttempt
      <3>2. Unopened(v) /\ AttOf(v)' = AttOf(v) /\ AttOf(v) = <<CandOf(v), worker[v].att>>
        BY <1>8, <3>1 DEF Unopened, AttOf, CandOf
      <3>3. attempt'[AttOf(v)] = attempt[AttOf(v)]
        BY <3>1, <3>2, OthersUntouched, FencedFinite
      <3> QED BY <3>2, <3>3 DEF EvidenceInv, UnopenedUnfenced
    <2>2. CASE v = w
      <3>0. CandOf(w)' = c  BY <1>8, <2>2, OthersUntouched DEF Unopened
      <3>1. CASE Begins(w)
        <4>1. AttOf(w)' = <<c, attempts[c] + 1>>  BY <1>0, <3>0, <3>1, LoudSteps DEF AttOf
        <4>2. Adds(w, c, "submitting")  BY <1>1, <3>1, OwnTrail
        <4> QED BY <2>2, <4>1, <4>2 DEF Adds
      <3>2. CASE Mark(w) \/ Quiet(w)
        <4>1. UNCHANGED attempt /\ Kin(w) /\ worker[w].pc \in {"mark", "open"}
          <5>1. Mark(w) => UNCHANGED attempt /\ Kin(w) /\ worker[w].pc \in {"mark", "open"}
            BY <1>0, LoudSteps DEF Mark, At, trail
          <5>2. Quiet(w) => UNCHANGED attempt /\ Kin(w) /\ worker[w].pc \in {"mark", "open"}
            BY <1>8, <2>2, QuietSteps DEF Unopened, BeforeAttempt, OnTheForm
          <5> QED BY <3>2, <5>1, <5>2
        <4>2. AttOf(w)' = AttOf(w)  BY <4>1 DEF Kin, AttOf, CandOf
        <4> QED BY <2>2, <4>1, <4>2 DEF EvidenceInv, UnopenedUnfenced, Unopened
      <3>3. CASE WriteAttempt(w)
        <4>1. worker'[w].result = worker[w].result /\ Kin(w)  BY <1>0, <3>3, LoudSteps
        <4>2. worker[w].pc = "wAttempt" /\ worker'[w].pc = "wCandidate"
          BY <1>0, <3>3, LoudSteps DEF WriteAttempt, At
        <4>3. ~attempt[AttOf(w)].fenced
          BY <1>8, <2>2, <4>1, <4>2 DEF Unopened, EvidenceInv, UnopenedUnfenced
        <4>4. AttOf(w)' = AttOf(w) /\ AttOf(w) = <<c, worker[w].att>>  BY <4>1 DEF Kin, AttOf, CandOf
        <4>5. worker[w].att \in 1..MaxAttempts
          BY <1>1, <4>2, FencedFinite DEF TraceInv, AttIsLatest, WithAttempt
        <4>6. \E status : Rewrites(c, worker[w].att, status, attempt[<<c, worker[w].att>>].fenced)
          BY <1>1, <3>3, OwnTrail
        <4> QED BY <2>2, <4>3, <4>4, <4>5, <4>6 DEF Rewrites
      <3>4. ~(Tailor(w) \/ Repeat(w) \/ ParkApplication(w) \/ ParkCandidate(w) \/ ParkAttempt(w)
              \/ WriteFence(w) \/ WriteCandidate(w) \/ WriteApplication(w))
        BY <1>0, <1>8, <2>2, LoudSteps DEF Unopened
      <3> QED BY <3>1, <3>2, <3>3, <3>4, ApplySplit
    <2> QED BY <2>1, <2>2
  <1>9. ASSUME NEW e \in Candidate, retrying'[e] = "safe"  PROVE ~LatestFenced(e)'
    <2>1. retrying[e] = "safe"  BY <1>9, OthersUntouched
    <2>2. e # c  BY <1>1, <2>1, OperationHolds
    <2> QED BY <2>1, <2>2, OthersFenced DEF EvidenceInv, SafeUnfenced
  <1>10. WaitingConfirmed' /\ StartsConfirmed'
    BY <1>5, <1>6 DEF WaitingConfirmed, StartsConfirmed, Confirmed
  <1>11. FormHeld'  BY <1>7 DEF FormHeld, Waiting
  <1> QED BY <1>4, <1>8, <1>9, <1>10, <1>11 DEF EvidenceInv, UnopenedUnfenced, SafeUnfenced

LEMMA EvidenceInvariant ==
  ASSUME ~Zombies, ~InfoFails
  PROVE  Spec /\ [][OwnerStandsBack]_vars =>
           [](TypeInv /\ DispatchInv /\ OwnInv /\ TraceInv /\ EvidenceInv)
  <1>1. Init => EvidenceInv
    <2> SUFFICES ASSUME Init  PROVE EvidenceInv
      OBVIOUS
    <2>1. \A c \in Candidate : Fenced(c) = {} /\ confirms[c] = 0 /\ ~LatestFenced(c)
      BY DEF Init, Fenced, AttemptsOf, LatestFenced
    <2>2. \A w \in Worker : worker[w].pc = "idle"  BY DEF Init, Idle
    <2> QED
      BY <2>1, <2>2, FS_EmptySet
      DEF EvidenceInv, OlderConfirmed, WaitingConfirmed, StartsConfirmed, FormHeld,
          UnopenedUnfenced, SafeUnfenced, Confirmed, BeforeAttempt, WithAttempt, OnTheForm,
          Unopened
  <1>2. TypeInv /\ DispatchInv /\ OwnInv /\ TraceInv /\ EvidenceInv /\ [Next]_vars => EvidenceInv'
    <2> SUFFICES ASSUME TypeInv, DispatchInv, OwnInv, TraceInv, EvidenceInv, [Next]_vars
                 PROVE  EvidenceInv'
      OBVIOUS
    <2>1. CASE UNCHANGED vars
      <3>1. UNCHANGED <<candidate, attempts, attempt, worker, retrying, confirms>>
        BY <2>1 DEF vars, rows, trail, actors, history
      <3>2. \A c \in Candidate : /\ Fenced(c)' = Fenced(c) /\ (LatestFenced(c)' <=> LatestFenced(c))
                                 /\ (Waiting(c)' <=> Waiting(c))
        BY <3>1 DEF Fenced, AttemptsOf, LatestFenced, Latest, Waiting
      <3>3. \A w \in Worker : CandOf(w)' = CandOf(w) /\ AttOf(w)' = AttOf(w)
        BY <3>1 DEF CandOf, AttOf
      <3>4. OlderConfirmed' /\ SafeUnfenced'
        BY <3>1, <3>2 DEF EvidenceInv, OlderConfirmed, SafeUnfenced
      <3>5. WaitingConfirmed'
        BY <3>1, <3>2 DEF EvidenceInv, WaitingConfirmed, Confirmed
      <3>6. StartsConfirmed'
        BY <3>1 DEF EvidenceInv, StartsConfirmed, Confirmed, Fenced, AttemptsOf, CandOf
      <3>7. FormHeld' /\ UnopenedUnfenced'
        BY <3>1, <3>3 DEF EvidenceInv, FormHeld, Waiting, UnopenedUnfenced, Unopened, CandOf
      <3> QED BY <3>4, <3>5, <3>6, <3>7 DEF EvidenceInv
    <2> QED BY <2>1, EvidenceElsewhere, EvidenceByOperation DEF Next, ApplyNext
  <1> QED BY <1>1, <1>2, TraceInvariant, PTL DEF Spec

\* A second fenced attempt of a candidate exists only where the owner confirmed
\* that the one before did not submit (api/applications/actions.ts, the
\* confirmedNotSubmitted of retryApplication), however many were made, as long
\* as the owner stands back.
THEOREM FencesAreConfirmed ==
  ASSUME ~Zombies, ~InfoFails
  PROVE  Spec /\ [][OwnerStandsBack]_vars => []FencedAttemptsAreConfirmed
  <1>1. TypeInv /\ EvidenceInv => FencedAttemptsAreConfirmed
    <2> SUFFICES ASSUME TypeInv, EvidenceInv, NEW c \in Candidate
                 PROVE  Cardinality(Fenced(c)) <= 1 + confirms[c]
      BY DEF FencedAttemptsAreConfirmed
    <2>1. Cardinality(Fenced(c)) <= confirms[c] + (IF LatestFenced(c) THEN 1 ELSE 0)
      BY DEF EvidenceInv, OlderConfirmed
    <2> QED BY <2>1, FencedFinite
  <1> QED BY <1>1, EvidenceInvariant, PTL
-----------------------------------------------------------------------------
(* Submissions.  The reasoning agent's tool fences before it clicks, so     *)
(* that no submission is without a fenced attempt of its own.  submitForm   *)
(* and the steps taken for a submission fence after the click, or not at    *)
(* all: nothing bounds what they submit, and they are left out here.        *)

NoAccidents       == \A w \in Worker : worker[w].pc \notin {"accident", "response"}
FormUnfenced      == \A w \in Worker : worker[w].pc \in {"form", "fence"} =>
                       ~attempt[AttOf(w)].fenced
SubmissionsFenced == \A c \in Candidate : submissions[c] <= Cardinality(Fenced(c))
ClicksFenced      == \A w \in Worker : At(w, "click") =>
                       submissions[CandOf(w)] < Cardinality(Fenced(CandOf(w)))
SubmitInv == NoAccidents /\ FormUnfenced /\ SubmissionsFenced /\ ClicksFenced

\* How the agent's operation comes to the form, the fence and the click.
LEMMA AgentPath ==
  ASSUME TypeInv, NEW w \in Worker, ApplyStep(w), SubmitPaths \subseteq {"agent"},
         worker[w].pc \notin {"accident", "response"}
  PROVE  /\ worker'[w].pc \notin {"accident", "response"}
         /\ worker'[w].pc = "form" => Quiet(w) /\ worker[w].pc = "open"
         /\ worker'[w].pc = "fence" => Quiet(w) /\ worker[w].pc = "form"
         /\ worker'[w].pc = "click" => WriteFence(w)
         /\ AgentClick(w) \/ UNCHANGED submissions
         /\ AgentClick(w) => Quiet(w) /\ worker'[w].pc = "seen"
  <1>0. WorkersOK /\ worker[w] \in WorkerRecord  BY TypeInvParts DEF SharedOK, WorkersOK
  <1>1. ~StepClick(w) /\ ~FormClick(w) /\ ~NoticeStep(w) /\ ~FormResponse(w)
    BY DEF StepClick, FormClick, NoticeStep, FormResponse, At
  <1>2. CASE Enter(w) \/ CheckCandidate(w) \/ (Prepare(w) /\ UNCHANGED trail)
    <2>1. Quiet(w) /\ UNCHANGED submissions
      BY <1>2 DEF Quiet, Enter, CheckCandidate, Prepare, history
    <2>2. worker[w].pc \notin {"open"} \cup OnTheForm
      BY <1>2 DEF Enter, CheckCandidate, Prepare, At, OnTheForm
    <2>3. worker'[w].pc \in {"count", "failing"} \cup BeforeAttempt
      BY <2>1, <2>2, QuietSteps
    <2>4. ~AgentClick(w)  BY <1>2 DEF Enter, CheckCandidate, Prepare, AgentClick, At
    <2> QED BY <2>1, <2>3, <2>4 DEF BeforeAttempt
  <1>3. CASE Open(w)
    <2>1. Quiet(w) /\ worker[w].pc = "open" /\ UNCHANGED submissions /\ ~AgentClick(w)
      BY <1>3 DEF Quiet, Open, At, AgentClick
    <2>2. Throw(w) \/ Record(w, "deferred") \/ Go(w, "form")  BY <1>3 DEF Open
    <2>3. worker'[w].pc \in {"caught", "wAttempt", "form"}  BY <1>0, <2>2, MovesTo
    <2> QED BY <2>1, <2>3
  <1>4. CASE FillForm(w) \/ AgentFence(w) \/ Settle(w) \/ Caught(w)
    <2>1. Quiet(w) /\ UNCHANGED submissions /\ ~AgentClick(w)
      BY <1>4 DEF Quiet, FillForm, AgentFence, Settle, Caught, At, AgentClick, history
    <2>2. \/ Throw(w) \/ \E result : Record(w, result)
          \/ Go(w, "fence") /\ worker[w].pc = "form"
      BY <1>4 DEF FillForm, AgentFence, Settle, Caught, At
    <2>3. \/ worker'[w].pc \in {"caught", "wAttempt"}
          \/ worker'[w].pc = "fence" /\ worker[w].pc = "form"
      BY <1>0, <2>2, MovesTo
    <2> QED BY <2>1, <2>3
  <1>5. CASE AgentReport(w)
    <2>1. Quiet(w) /\ UNCHANGED submissions /\ ~AgentClick(w)
      BY <1>5 DEF Quiet, AgentReport, At, AgentClick, history
    <2>2. CASE Throw(w)  BY <1>0, <2>1, <2>2, MovesTo
    <2>3. CASE worker' = [worker EXCEPT ![w].pc = "outcome", ![w].outcome = "confirmed"]
      <3> DEFINE r == [worker[w] EXCEPT !.pc = "outcome", !.outcome = "confirmed"]
      <3>1. worker'[w] = r  BY <1>0, <2>3 DEF WorkersOK
      <3>2. r.pc = "outcome"  BY <1>0 DEF WorkerRecord
      <3> QED BY <2>1, <3>1, <3>2
    <2> QED BY <1>5, <2>2, <2>3 DEF AgentReport
  <1>6. CASE AgentClick(w)
    <2>1. Quiet(w)  BY <1>6 DEF Quiet
    <2>2. PICK accepted : worker' = [worker EXCEPT ![w].pc = "seen", ![w].accepted = accepted]
      BY <1>6 DEF AgentClick
    <2> DEFINE r == [worker[w] EXCEPT !.pc = "seen", !.accepted = accepted]
    <2>3. worker'[w] = r  BY <1>0, <2>2 DEF WorkersOK
    <2>4. r.pc = "seen"  BY <1>0 DEF WorkerRecord
    <2> QED BY <1>6, <2>1, <2>3, <2>4
  <1>7. CASE Begins(w) \/ Tailor(w) \/ Repeat(w) \/ ParkApplication(w) \/ ParkCandidate(w)
             \/ ParkAttempt(w) \/ Mark(w) \/ WriteAttempt(w) \/ WriteCandidate(w)
             \/ WriteApplication(w)
    <2>1. worker'[w].pc \notin {"accident", "response", "form", "fence", "click"}
      BY <1>0, <1>7, LoudSteps
    <2>2. ~At(w, "click")
      BY <1>7 DEF Begins, Tailor, Repeat, ParkApplication, ParkCandidate, ParkAttempt, Mark,
                  WriteAttempt, WriteCandidate, WriteApplication, At
    <2>3. ~AgentClick(w)  BY <2>2 DEF AgentClick
    <2>4. UNCHANGED submissions
      BY <1>1, <2>3
      DEF ApplyStep, Enter, Tailor, CheckCandidate, Prepare, Repeat, ParkApplication,
          ParkCandidate, ParkAttempt, Mark, Open, FillForm, AgentFence, WriteFence, AgentReport,
          Settle, Caught, WriteAttempt, WriteCandidate, WriteApplication, history
    <2> QED BY <2>1, <2>3, <2>4
  <1>8. CASE WriteFence(w)
    <2>1. worker'[w].pc \in {"outcome", "seen", "click"}  BY <1>0, <1>8, LoudSteps
    <2>2. UNCHANGED submissions /\ ~AgentClick(w)
      BY <1>8 DEF WriteFence, history, AgentClick, At
    <2> QED BY <1>8, <2>1, <2>2
  <1>9. Prepare(w) => Begins(w) \/ UNCHANGED trail  BY DEF Prepare, Begins, trail
  <1> QED
    BY <1>1, <1>2, <1>3, <1>4, <1>5, <1>6, <1>7, <1>8, <1>9 DEF ApplyStep

LEMMA SubmitElsewhere ==
  ASSUME TypeInv, SubmitInv, TraceInv, ApiNext \/ DispatchNext \/ RecoveryNext
  PROVE  SubmitInv'
  <1>1. UNCHANGED <<attempts, submissions>>
        /\ \A a \in Attempt : attempt'[a].fenced = attempt[a].fenced
    BY TrailElsewhere
  <1>2. ASSUME NEW c \in Candidate  PROVE Fenced(c)' = Fenced(c)
    <2>1. AttemptsOf(c)' = AttemptsOf(c)  BY <1>1 DEF AttemptsOf
    <2> QED BY <1>1, <2>1, FencedFinite DEF Fenced
  <1>3. ASSUME NEW w \in Worker, worker'[w].pc \in OnTheForm
        PROVE  /\ worker[w].pc = worker'[w].pc /\ CandOf(w)' = CandOf(w) /\ AttOf(w)' = AttOf(w)
               /\ CandOf(w) \in Candidate /\ AttOf(w) \in Attempt
    <2>1. worker[w].pc \in Operating /\ Stays(w)
      BY <1>3, OperationsStay DEF OnTheForm, Operating, InLane, Claims
    <2>2. CandOf(w) \in Candidate
      <3>1. ~At(w, "idle")  BY <2>1 DEF At, Operating, InLane
      <3>2. worker[w].disp \in Dispatch  BY <3>1 DEF TypeInv, AssignedWork
      <3> QED BY <3>2 DEF Dispatch, CandOf
    <2>3. AttOf(w) \in Attempt
      <3>1. worker[w].att = attempts[CandOf(w)] /\ worker[w].att > 0
        BY <1>3, <2>1 DEF Stays, TraceInv, AttIsLatest, WithAttempt
      <3> QED BY <2>2, <3>1, FencedFinite DEF AttOf, Attempt
    <2> QED BY <2>1, <2>2, <2>3 DEF Stays, AttOf, CandOf
  <1>4. NoAccidents'  BY <1>3 DEF SubmitInv, NoAccidents, OnTheForm
  <1>5. FormUnfenced'  BY <1>1, <1>3 DEF SubmitInv, FormUnfenced, OnTheForm
  <1>6. SubmissionsFenced'  BY <1>1, <1>2 DEF SubmitInv, SubmissionsFenced
  <1>7. ASSUME NEW w \in Worker, At(w, "click")', NEW c, c = CandOf(w)'
        PROVE  submissions'[c] < Cardinality(Fenced(c)')
    <2>1. At(w, "click") /\ c = CandOf(w) /\ c \in Candidate
      BY <1>3, <1>7 DEF At, OnTheForm
    <2> QED BY <1>1, <1>2, <2>1 DEF SubmitInv, ClicksFenced
  <1>8. ClicksFenced'  BY <1>7 DEF ClicksFenced
  <1> QED BY <1>4, <1>5, <1>6, <1>8 DEF SubmitInv

LEMMA SubmitByOperation ==
  ASSUME TypeInv, DispatchInv, OwnInv, TraceInv, EvidenceInv, SubmitInv,
         SubmitPaths \subseteq {"agent"}, NEW w \in Worker, ApplyStep(w)
  PROVE  SubmitInv'
  <1> SUFFICES ASSUME NEW c, c = CandOf(w)  PROVE SubmitInv'
    OBVIOUS
  <1>0. WorkersOK /\ HistoryOK  BY TypeInvParts DEF SharedOK
  <1>1. c \in Candidate /\ worker[w].pc \in Operating /\ worker[w].pc \notin {"accident", "response"}
    BY OthersUntouched DEF SubmitInv, NoAccidents
  <1>2. /\ IsFiniteSet(Fenced(c)) /\ Cardinality(Fenced(c)) \in Nat /\ submissions[c] \in Nat
        /\ submissions[c] <= Cardinality(Fenced(c))
    BY <1>1, FencedFinite DEF SubmitInv, SubmissionsFenced
  <1>3. \A e \in Candidate \ {c} : submissions'[e] = submissions[e] /\ Fenced(e)' = Fenced(e)
    <2>1. AgentClick(w) \/ UNCHANGED submissions  BY <1>1, AgentPath
    <2>2. ASSUME AgentClick(w), NEW e \in Candidate \ {c}  PROVE submissions'[e] = submissions[e]
      BY <1>0, <1>1, <2>2 DEF AgentClick, Click, HistoryOK
    <2> QED BY <2>1, <2>2, OthersFenced
  <1>4. CASE WriteFence(w)
    <2>1. UNCHANGED submissions  BY <1>4 DEF WriteFence, history
    <2>2. Fenced(c)' = Fenced(c) \cup {<<c, attempts[c]>>} /\ AttOf(w) = <<c, attempts[c]>>
      BY <1>1, <1>4, OwnFenced
    <2>3. <<c, attempts[c]>> \notin Fenced(c)
      <3>1. ~attempt[AttOf(w)].fenced  BY <1>4 DEF WriteFence, At, SubmitInv, FormUnfenced
      <3> QED BY <2>2, <3>1 DEF Fenced
    <2>4. Cardinality(Fenced(c) \cup {<<c, attempts[c]>>}) = Cardinality(Fenced(c)) + 1
      BY <1>2, <2>3, FS_AddElement
    <2>5. submissions'[c] < Cardinality(Fenced(c)')
      <3>1. Cardinality(Fenced(c)') = Cardinality(Fenced(c)) + 1  BY <2>2, <2>4
      <3> QED BY <1>2, <2>1, <3>1
    <2>6. ASSUME NEW v \in Worker  PROVE worker'[v] = worker[v] \/ v = w
      BY OthersUntouched
    <2>7. worker'[w].pc \in {"outcome", "seen", "click"}  BY <1>0, <1>4, LoudSteps
    <2>8. CandOf(w)' = c  BY <2>7, OthersUntouched
    <2>9. NoAccidents'  BY <2>6, <2>7 DEF SubmitInv, NoAccidents
    <2>10. ASSUME NEW v \in Worker, worker'[v].pc \in {"form", "fence"}
           PROVE  ~attempt'[AttOf(v)'].fenced
      <3>1. /\ v # w /\ worker'[v] = worker[v] /\ CandOf(v) \in Candidate \ {c}
            /\ worker[v].att = attempts[CandOf(v)] /\ worker[v].att > 0
        BY <2>6, <2>7, <2>10, OthersUntouched
        DEF Operating, InLane, TraceInv, AttIsLatest, WithAttempt, OnTheForm
      <3>2. AttOf(v)' = AttOf(v) /\ AttOf(v) = <<CandOf(v), worker[v].att>>
        BY <3>1 DEF AttOf, CandOf
      <3>3. attempt'[AttOf(v)] = attempt[AttOf(v)]
        BY <3>1, <3>2, OthersUntouched, FencedFinite
      <3> QED BY <2>10, <3>1, <3>2, <3>3 DEF SubmitInv, FormUnfenced
    <2>11. SubmissionsFenced'
      <3>1. submissions'[c] <= Cardinality(Fenced(c)')
        <4>1. Cardinality(Fenced(c)') = Cardinality(Fenced(c)) + 1  BY <2>2, <2>4
        <4> QED BY <1>2, <2>1, <4>1
      <3> QED BY <1>3, <3>1 DEF SubmitInv, SubmissionsFenced
    <2>12. ASSUME NEW v \in Worker, At(v, "click")', NEW e, e = CandOf(v)'
           PROVE  submissions'[e] < Cardinality(Fenced(e)')
      <3>1. CASE v = w  BY <2>5, <2>8, <2>12, <3>1
      <3>2. CASE v # w
        <4>1. At(v, "click") /\ e = CandOf(v) /\ e \in Candidate \ {c}
          BY <2>12, <3>2, OthersUntouched DEF At, CandOf, Operating, InLane
        <4> QED BY <1>3, <4>1 DEF SubmitInv, ClicksFenced
      <3> QED BY <3>1, <3>2
    <2> QED BY <2>9, <2>10, <2>11, <2>12 DEF SubmitInv, FormUnfenced, ClicksFenced
  <1>5. CASE ~WriteFence(w)
    <2>1. Fenced(c)' = Fenced(c)  BY <1>1, <1>5, OwnFenced
    <2>2. worker'[w].pc \notin {"accident", "response", "click"}  BY <1>1, <1>5, AgentPath
    <2>3. submissions'[c] <= Cardinality(Fenced(c))
      <3>1. CASE UNCHANGED submissions  BY <1>2, <3>1
      <3>2. CASE AgentClick(w)
        <4>1. submissions[c] < Cardinality(Fenced(c))
          BY <3>2 DEF AgentClick, SubmitInv, ClicksFenced
        <4>2. submissions'[c] \in {submissions[c], submissions[c] + 1}
          BY <1>0, <1>1, <3>2 DEF AgentClick, Click, HistoryOK
        <4> QED BY <1>2, <4>1, <4>2
      <3> QED BY <1>1, <3>1, <3>2, AgentPath
    <2>4. SubmissionsFenced'  BY <1>3, <2>1, <2>3 DEF SubmitInv, SubmissionsFenced
    <2>5. NoAccidents'  BY <2>2, OthersUntouched DEF SubmitInv, NoAccidents
    <2>6. ASSUME NEW v \in Worker, At(v, "click")', NEW e, e = CandOf(v)'
          PROVE  submissions'[e] < Cardinality(Fenced(e)')
      <3>1. v # w  BY <2>2, <2>6 DEF At
      <3>2. At(v, "click") /\ e = CandOf(v) /\ e \in Candidate \ {c}
        BY <2>6, <3>1, OthersUntouched DEF At, CandOf, Operating, InLane
      <3> QED BY <1>3, <3>2 DEF SubmitInv, ClicksFenced
    <2>7. ASSUME NEW v \in Worker, worker'[v].pc \in {"form", "fence"}
          PROVE  ~attempt'[AttOf(v)'].fenced
      <3>1. CASE v # w
        <4>1. /\ worker'[v] = worker[v] /\ CandOf(v) \in Candidate \ {c}
              /\ worker[v].att = attempts[CandOf(v)] /\ worker[v].att > 0
          BY <2>7, <3>1, OthersUntouched
          DEF Operating, InLane, TraceInv, AttIsLatest, WithAttempt, OnTheForm
        <4>2. AttOf(v)' = AttOf(v) /\ AttOf(v) = <<CandOf(v), worker[v].att>>
          BY <4>1 DEF AttOf, CandOf
        <4>3. attempt'[AttOf(v)] = attempt[AttOf(v)]
          BY <4>1, <4>2, OthersUntouched, FencedFinite
        <4> QED BY <2>7, <4>1, <4>2, <4>3 DEF SubmitInv, FormUnfenced
      <3>2. CASE v = w
        <4>1. Quiet(w) /\ worker[w].pc \in {"open", "form"}
          BY <1>1, <2>7, <3>2, AgentPath
        <4>2. UNCHANGED attempt /\ Kin(w)
          BY <2>7, <3>2, <4>1, QuietSteps DEF BeforeAttempt
        <4>3. AttOf(w)' = AttOf(w)  BY <4>2 DEF Kin, AttOf, CandOf
        <4>4. ~attempt[AttOf(w)].fenced
          BY <4>1 DEF EvidenceInv, UnopenedUnfenced, Unopened, SubmitInv, FormUnfenced
        <4> QED BY <3>2, <4>2, <4>3, <4>4
      <3> QED BY <3>1, <3>2
    <2> QED BY <2>4, <2>5, <2>6, <2>7 DEF SubmitInv, FormUnfenced, ClicksFenced
  <1> QED BY <1>4, <1>5

LEMMA SubmitInvariant ==
  ASSUME ~Zombies, ~InfoFails, SubmitPaths \subseteq {"agent"}
  PROVE  Spec /\ [][OwnerStandsBack]_vars => [](TypeInv /\ EvidenceInv /\ SubmitInv)
  <1>1. Init => SubmitInv
    <2> SUFFICES ASSUME Init  PROVE SubmitInv
      OBVIOUS
    <2>1. \A c \in Candidate : Fenced(c) = {} /\ submissions[c] = 0
      BY DEF Init, Fenced, AttemptsOf
    <2>2. \A w \in Worker : worker[w].pc = "idle"  BY DEF Init, Idle
    <2> QED
      BY <2>1, <2>2, FS_EmptySet
      DEF SubmitInv, NoAccidents, FormUnfenced, SubmissionsFenced, ClicksFenced, At
  <1>2. TypeInv /\ DispatchInv /\ OwnInv /\ TraceInv /\ EvidenceInv /\ SubmitInv /\ [Next]_vars
          => SubmitInv'
    <2> SUFFICES ASSUME TypeInv, DispatchInv, OwnInv, TraceInv, EvidenceInv, SubmitInv, [Next]_vars
                 PROVE  SubmitInv'
      OBVIOUS
    <2>1. CASE UNCHANGED vars
      <3>1. UNCHANGED <<attempts, attempt, worker, submissions>>
        BY <2>1 DEF vars, trail, actors, history
      <3> QED
        BY <3>1 DEF SubmitInv, NoAccidents, FormUnfenced, SubmissionsFenced, ClicksFenced, At,
                    AttOf, CandOf, Fenced, AttemptsOf
    <2> QED BY <2>1, SubmitElsewhere, SubmitByOperation DEF Next, ApplyNext
  <1> QED BY <1>1, <1>2, EvidenceInvariant, PTL DEF Spec

\* "Never apply twice" (docs/pipeline/01-queue-architecture.md): where only the
\* reasoning agent may press submit, the provider takes no more applications of
\* a candidate than one, and one for each confirmation of the owner, as long
\* as the owner stands back.
THEOREM SubmitsOnce ==
  ASSUME ~Zombies, ~InfoFails, SubmitPaths \subseteq {"agent"}
  PROVE  Spec /\ [][OwnerStandsBack]_vars => []SubmittedOnce
  <1>1. TypeInv /\ EvidenceInv /\ SubmitInv => SubmittedOnce
    <2> SUFFICES ASSUME TypeInv, EvidenceInv, SubmitInv, NEW c \in Candidate
                 PROVE  submissions[c] <= 1 + confirms[c]
      BY DEF SubmittedOnce
    <2>1. Cardinality(Fenced(c)) <= confirms[c] + (IF LatestFenced(c) THEN 1 ELSE 0)
      BY DEF EvidenceInv, OlderConfirmed
    <2>2. submissions[c] <= Cardinality(Fenced(c))
      BY DEF SubmitInv, SubmissionsFenced
    <2> QED BY <2>1, <2>2, FencedFinite
  <1> QED BY <1>1, SubmitInvariant, PTL
-----------------------------------------------------------------------------
(* What was recorded as applied was sent: of no step but the click, and     *)
(* whatever locks lapse and jobs are lost, since the worker that records it *)
(* has itself seen the provider's confirmation.                             *)

SeesSubmission(w) == /\ ~At(w, "idle")
                     /\ \/ worker[w].accepted \/ worker[w].outcome = "confirmed"
                        \/ At(w, "accident") \/ worker[w].result = "submitted"
SeenWasSent == \A w \in Worker : SeesSubmission(w) => submissions[CandOf(w)] > 0
SentInv     == AppliedWasSent /\ SeenWasSent

\* An operation comes to see a submission only by a click that is accepted.
LEMMA SeesByClick ==
  ASSUME TypeInv, NEW w \in Worker, ApplyStep(w), SeesSubmission(w)'
  PROVE  SeesSubmission(w) \/ submissions'[CandOf(w)] = submissions[CandOf(w)] + 1
  <1>0. /\ WorkersOK /\ HistoryOK /\ worker[w] \in WorkerRecord
        /\ CandOf(w) \in Candidate /\ ~At(w, "idle")
    <2>1. ~At(w, "idle")  BY ApplyStepsFrame DEF At, Operating, InLane
    <2>2. worker[w].disp \in Dispatch  BY <2>1 DEF TypeInv, AssignedWork
    <2> QED BY <2>1, <2>2, TypeInvParts DEF SharedOK, WorkersOK, Dispatch, CandOf
  <1>1. SUFFICES ASSUME ~SeesSubmission(w)
                 PROVE  submissions'[CandOf(w)] = submissions[CandOf(w)] + 1
    OBVIOUS
  <1>2. /\ worker[w].accepted = FALSE /\ worker[w].outcome # "confirmed"
        /\ worker[w].pc # "accident" /\ worker[w].result # "submitted"
    BY <1>0, <1>1 DEF SeesSubmission, At, WorkerRecord
  <1>3. Throw(w) => ~SeesSubmission(w)'
    BY <1>0, <1>2, MovesTo DEF SeesSubmission, At
  <1>4. \A pc : pc # "accident" /\ Go(w, pc) => ~SeesSubmission(w)'
    BY <1>0, <1>2, MovesTo DEF SeesSubmission, At
  <1>5. \A result : result # "submitted" /\ Record(w, result) => ~SeesSubmission(w)'
    BY <1>0, <1>2, MovesTo DEF SeesSubmission, At
  <1>6. ASSUME NEW r, worker'[w] = r, r.accepted = FALSE, r.outcome # "confirmed",
               r.pc # "accident", r.result # "submitted"
        PROVE  FALSE
    BY <1>6 DEF SeesSubmission, At
  <1>7. CASE Begins(w)
    <2> DEFINE r == [worker[w] EXCEPT !.pc = "mark", !.att = attempts[CandOf(w)] + 1]
    <2>1. worker'[w] = r  BY <1>0, <1>7 DEF Begins, WorkersOK
    <2>2. /\ r.accepted = worker[w].accepted /\ r.outcome = worker[w].outcome
          /\ r.pc = "mark" /\ r.result = worker[w].result
      BY <1>0 DEF WorkerRecord
    <2> QED BY <1>2, <1>6, <2>1, <2>2
  <1>8. CASE WriteFence(w)
    <2>1. PICK pc \in {"outcome", "seen", "click"} :
            worker' = [worker EXCEPT ![w].attempted = TRUE, ![w].pc = pc]
      BY <1>8 DEF WriteFence
    <2> DEFINE r == [worker[w] EXCEPT !.attempted = TRUE, !.pc = pc]
    <2>2. worker'[w] = r  BY <1>0, <2>1 DEF WorkersOK
    <2>3. /\ r.accepted = worker[w].accepted /\ r.outcome = worker[w].outcome
          /\ r.pc = pc /\ r.result = worker[w].result
      BY <1>0 DEF WorkerRecord
    <2> QED BY <1>2, <1>6, <2>2, <2>3
  <1>9. CASE FormResponse(w)
    <2>1. ASSUME NEW pc \in {"outcome", "fence"},
                 NEW outcome \in {"invalid", "unconfirmed", "spam"},
                 worker' = [worker EXCEPT ![w].pc = pc, ![w].outcome = outcome]
          PROVE  FALSE
      <3> DEFINE r == [worker[w] EXCEPT !.pc = pc, !.outcome = outcome]
      <3>1. worker'[w] = r  BY <1>0, <2>1 DEF WorkersOK
      <3>2. /\ r.accepted = worker[w].accepted /\ r.outcome = outcome
            /\ r.pc = pc /\ r.result = worker[w].result
        BY <1>0 DEF WorkerRecord
      <3> QED BY <1>2, <1>6, <3>1, <3>2
    <2> QED BY <1>2, <1>3, <1>9, <2>1 DEF FormResponse
  <1>10. ASSUME NEW accepts \in BOOLEAN, Click(w, accepts), NEW pc \in {"seen", "accident", "response"},
                worker'[w].accepted = Accepted(w, accepts), worker'[w].pc = pc,
                pc = "accident" => accepts,
                worker'[w].outcome # "confirmed", worker'[w].result = worker[w].result
         PROVE  submissions'[CandOf(w)] = submissions[CandOf(w)] + 1
    <2>1. accepts = TRUE
      BY <1>2, <1>10 DEF Accepted, SeesSubmission, At
    <2> QED BY <1>0, <1>10, <2>1 DEF Click, HistoryOK
  <1>11. CASE AgentClick(w)
    <2>1. PICK accepts \in BOOLEAN :
            /\ Click(w, accepts)
            /\ worker' = [worker EXCEPT ![w].pc = "seen", ![w].accepted = Accepted(w, accepts)]
      BY <1>11 DEF AgentClick
    <2> DEFINE r == [worker[w] EXCEPT !.pc = "seen", !.accepted = Accepted(w, accepts)]
    <2>2. worker'[w] = r  BY <1>0, <2>1 DEF WorkersOK
    <2>3. /\ r.accepted = Accepted(w, accepts) /\ r.outcome = worker[w].outcome
          /\ r.pc = "seen" /\ r.result = worker[w].result
      BY <1>0 DEF WorkerRecord
    <2> QED BY <1>2, <1>10, <2>1, <2>2, <2>3
  <1>12. CASE StepClick(w)
    BY <1>0, <1>12 DEF StepClick, Click, HistoryOK
  <1>13. CASE FormClick(w)
    <2> DEFINE rounds == IF At(w, "outcome") THEN worker[w].rounds + 1 ELSE worker[w].rounds
    <2>1. PICK accepts \in BOOLEAN :
            /\ Click(w, accepts)
            /\ worker' = [worker EXCEPT ![w].pc = "response", ![w].outcome = "none",
                 ![w].accepted = Accepted(w, accepts), ![w].rounds = rounds]
      BY <1>0, <1>13 DEF FormClick, WorkersOK
    <2> HIDE DEF rounds
    <2> DEFINE r == [worker[w] EXCEPT !.pc = "response", !.outcome = "none",
                       !.accepted = Accepted(w, accepts), !.rounds = rounds]
    <2>2. worker'[w] = r  BY <1>0, <2>1 DEF WorkersOK
    <2>3. /\ r.accepted = Accepted(w, accepts) /\ r.outcome = "none"
          /\ r.pc = "response" /\ r.result = worker[w].result
      BY <1>0 DEF WorkerRecord
    <2> QED BY <1>10, <2>1, <2>2, <2>3
  <1>14. CASE Settle(w)
    BY <1>2, <1>3, <1>5, <1>14 DEF Settle
  <1>15. CASE FillForm(w) \/ Open(w) \/ Caught(w)
    BY <1>3, <1>4, <1>5, <1>15 DEF FillForm, Open, Caught
  <1>16. CASE Enter(w) \/ CheckCandidate(w) \/ AgentFence(w) \/ Tailor(w) \/ Repeat(w)
              \/ ParkApplication(w) \/ ParkCandidate(w) \/ ParkAttempt(w) \/ Mark(w)
              \/ WriteAttempt(w) \/ WriteCandidate(w) \/ WriteApplication(w)
    BY <1>4, <1>16
    DEF Enter, CheckCandidate, AgentFence, Tailor, Repeat, ParkApplication, ParkCandidate,
        ParkAttempt, Mark, WriteAttempt, WriteCandidate, WriteApplication
  <1>17. CASE Prepare(w)
    BY <1>4, <1>7, <1>17 DEF Prepare, Begins, rows
  <1>18. CASE AgentReport(w)
    BY <1>2, <1>3, <1>18 DEF AgentReport
  <1>19. CASE NoticeStep(w)
    BY <1>2, <1>19 DEF NoticeStep, At
  <1> QED
    BY <1>8, <1>9, <1>11, <1>12, <1>13, <1>14, <1>15, <1>16, <1>17, <1>18, <1>19
    DEF ApplyStep

\* Sends are never taken back.
LEMMA SendsStay ==
  ASSUME TypeInv, [Next]_vars, NEW c \in Candidate, submissions[c] > 0
  PROVE  submissions'[c] > 0
  <1>1. HistoryOK  BY TypeInvParts DEF SharedOK
  <1>2. CASE UNCHANGED submissions  BY <1>2
  <1>3. ASSUME NEW w \in Worker, NEW accepts \in BOOLEAN, Click(w, accepts)
        PROVE  submissions'[c] > 0
    BY <1>1, <1>3 DEF Click, HistoryOK
  <1>4. ASSUME NEW w \in Worker, ApplyStep(w)  PROVE submissions'[c] > 0
    BY <1>2, <1>3, <1>4
    DEF ApplyStep, Enter, Tailor, CheckCandidate, Prepare, Repeat, ParkApplication,
        ParkCandidate, ParkAttempt, Mark, Open, FillForm, AgentFence, WriteFence, AgentClick,
        AgentReport, StepClick, NoticeStep, FormClick, FormResponse, Settle, Caught,
        WriteAttempt, WriteCandidate, WriteApplication, history
  <1>5. CASE ApiNext \/ DispatchNext \/ RecoveryNext
    BY <1>2, <1>5, TrailElsewhere
  <1>6. CASE UNCHANGED vars  BY <1>2, <1>6 DEF vars, history
  <1> QED BY <1>4, <1>5, <1>6 DEF Next, ApplyNext

\* Nobody but an operation records an application as applied, nor forgets one.
LEMMA OnlyOperationsApply ==
  ASSUME TypeInv, ApiNext \/ DispatchNext \/ RecoveryNext, NEW c \in Candidate,
         application'[c] \in {"none", "applied"}
  PROVE  application'[c] = application[c]
  <1>0. RowsOK  BY TypeInvParts DEF SharedOK
  <1>1. CASE UNCHANGED application  BY <1>1
  <1>2. ASSUME NEW e, NEW status \in {"queued", "closed"},
               application' = [application EXCEPT ![e] = status]
        PROVE  application'[c] = application[c]
    BY <1>0, <1>2 DEF RowsOK
  <1>3. ASSUME NEW e, ReviewApplication(e)  PROVE application'[c] = application[c]
    BY <1>0, <1>3 DEF ReviewApplication, RowsOK
  <1>4. CASE ApiNext
    <2>1. ASSUME NEW queued \in SUBSET Candidate, NEW unavailable \in SUBSET Candidate,
                 Approve(queued, unavailable)
          PROVE  application'[c] = application[c]
      BY <2>1 DEF Approve
    <2>2. ASSUME NEW e \in Candidate, Cancel(e) \/ RetryCommit(e)
          PROVE  application'[c] = application[c]
      BY <1>2, <2>2 DEF Cancel, RetryCommit
    <2>3. ASSUME Stop \/ (\E e \in Candidate : CancelRollback(e) \/ Flag(e) \/ RetryAbandon(e))
                 \/ (\E e \in Candidate, confirmed \in BOOLEAN : RetryCheck(e, confirmed))
                 \/ (\E a \in Attempt : ResolveFlag(a))
          PROVE  UNCHANGED application
      BY <2>3 DEF Stop, CancelRollback, Flag, RetryAbandon, RetryCheck, ResolveFlag, rows
    <2> QED BY <1>1, <1>4, <2>1, <2>2, <2>3 DEF ApiNext
  <1>5. CASE DispatchNext
    BY <1>1, <1>5
    DEF DispatchNext, PublishStep, PublishAdd, PublishGiveUp, PickUp, JobStep, ReadCandidate,
        AcquireLanes, Claim, CountActive, FinishRun, EndJob, LoseLease, Crash, LockExpires,
        LockLapses, Stalled, RedisFlush, rows
  <1>6. CASE RecoveryNext
    BY <1>1, <1>3, <1>6
    DEF RecoveryNext, HandlerStep, HandleAttempts, HandleCandidate, HandleApplication,
        HandleCount, HandleFinish, HandlerLost, Age, SweepStep, SweepStart, SweepLive,
        SweepRead, SweepCandidate, SweepAttempt, SweepApplication, SweepSettle, SweepFail,
        SweepLost, rows
  <1> QED BY <1>4, <1>5, <1>6

\* Nor does a worker see a submission outside its operation.
LEMMA OnlyOperationsSee ==
  ASSUME TypeInv, ApiNext \/ DispatchNext \/ RecoveryNext, NEW w \in Worker,
         SeesSubmission(w)'
  PROVE  SeesSubmission(w) /\ CandOf(w)' = CandOf(w)
  <1>0. WorkersOK  BY TypeInvParts DEF SharedOK
  <1>1. CASE worker'[w] = worker[w]  BY <1>1 DEF SeesSubmission, At, CandOf
  <1>2. ASSUME NEW pc, pc # "accident", Go(w, pc), ~At(w, "idle")
        PROVE  SeesSubmission(w) /\ CandOf(w)' = CandOf(w)
    BY <1>0, <1>2, MovesTo DEF SeesSubmission, At, CandOf, Kin
  <1>3. worker'[w] # Idle  BY DEF Idle, SeesSubmission, At
  <1>4. ASSUME NEW v \in Worker, JobStep(v)
        PROVE  SeesSubmission(w) /\ CandOf(w)' = CandOf(w)
    <2>1. CASE v # w  BY <1>0, <1>1, <1>4, <2>1, OneWorkerMoves
    <2>2. CASE v = w
      <3>1. CASE EndJob(w)  BY <1>0, <1>3, <3>1 DEF EndJob, WorkersOK
      <3> QED
        BY <1>2, <1>4, <2>2, <3>1
        DEF JobStep, ReadCandidate, AcquireLanes, Claim, CountActive, FinishRun, At
    <2> QED BY <2>1, <2>2
  <1>5. ASSUME NEW v \in Worker, NEW d \in Dispatch, PickUp(v, d)
        PROVE  SeesSubmission(w) /\ CandOf(w)' = CandOf(w)
    <2>1. CASE v # w  BY <1>0, <1>1, <1>5, <2>1 DEF PickUp, WorkersOK
    <2>2. CASE v = w
      <3> DEFINE pc == IF flags = {} THEN "started" ELSE "flagged"
                 r  == [Idle EXCEPT !.disp = d, !.pc = pc]
      <3>1. worker'[w] = r  BY <1>0, <1>5, <2>2 DEF PickUp, WorkersOK
      <3>2. r.accepted = FALSE /\ r.outcome = "none" /\ r.pc = pc /\ r.result = "none"
        BY DEF Idle
      <3> QED BY <3>1, <3>2 DEF SeesSubmission, At
    <2> QED BY <2>1, <2>2
  <1>6. ASSUME NEW v \in Worker, LoseLease(v)
        PROVE  SeesSubmission(w) /\ CandOf(w)' = CandOf(w)
    BY <1>0, <1>6 DEF LoseLease, WorkersOK, WorkerRecord, SeesSubmission, At, CandOf
  <1>7. ASSUME NEW v \in Worker, Crash(v)
        PROVE  SeesSubmission(w) /\ CandOf(w)' = CandOf(w)
    BY <1>0, <1>1, <1>3, <1>7 DEF Crash, WorkersOK
  <1>8. CASE UNCHANGED worker  BY <1>1, <1>8
  <1>9. CASE ApiNext \/ RecoveryNext
    BY <1>8, <1>9
    DEF ApiNext, Approve, Stop, Cancel, CancelRollback, RetryCheck, RetryCommit, RetryAbandon,
        Flag, ResolveFlag, actors,
        RecoveryNext, HandlerStep, HandleAttempts, HandleCandidate, HandleApplication,
        HandleCount, HandleFinish, HandlerLost, Age, SweepStep, SweepStart, SweepLive,
        SweepRead, SweepCandidate, SweepAttempt, SweepApplication, SweepSettle, SweepFail,
        SweepLost
  <1> QED
    BY <1>4, <1>5, <1>6, <1>7, <1>8, <1>9
    DEF DispatchNext, PublishStep, PublishAdd, PublishGiveUp, LockExpires, LockLapses,
        Stalled, RedisFlush, actors

LEMMA SentElsewhere ==
  ASSUME TypeInv, SentInv, ApiNext \/ DispatchNext \/ RecoveryNext
  PROVE  SentInv'
  <1>1. UNCHANGED submissions  BY TrailElsewhere
  <1>2. AppliedWasSent'
    BY <1>1, OnlyOperationsApply DEF SentInv, AppliedWasSent
  <1>3. SeenWasSent'
    <2> SUFFICES ASSUME NEW w \in Worker, SeesSubmission(w)'  PROVE submissions'[CandOf(w)'] > 0
      BY DEF SeenWasSent
    <2> QED BY <1>1, OnlyOperationsSee DEF SentInv, SeenWasSent
  <1> QED BY <1>2, <1>3 DEF SentInv

LEMMA SentByOperation ==
  ASSUME TypeInv, SentInv, NEW w \in Worker, ApplyStep(w)
  PROVE  SentInv'
  <1>0. WorkersOK /\ RowsOK /\ HistoryOK  BY TypeInvParts DEF SharedOK
  <1>1. CandOf(w) \in Candidate /\ ~At(w, "idle")
    <2>1. ~At(w, "idle")  BY ApplyStepsFrame DEF At, Operating, InLane
    <2>2. worker[w].disp \in Dispatch  BY <2>1 DEF TypeInv, AssignedWork
    <2> QED BY <2>1, <2>2 DEF Dispatch, CandOf
  <1>2. [Next]_vars  BY DEF Next, ApplyNext
  <1>3. AppliedWasSent'
    <2> SUFFICES ASSUME NEW c \in Candidate, application'[c] = "applied"
                 PROVE  submissions'[c] > 0
      BY DEF AppliedWasSent
    <2>1. CASE application[c] = "applied"
      BY <1>2, <2>1, SendsStay DEF SentInv, AppliedWasSent
    <2>2. CASE application[c] # "applied"
      <3>1. c = CandOf(w)  BY <2>2, ApplyStepsFrame
      <3>2. worker[w].result = "submitted"  BY <2>2, <3>1, AppliedByWrite
      <3>3. submissions[c] > 0  BY <1>1, <3>1, <3>2 DEF SentInv, SeenWasSent, SeesSubmission
      <3> QED BY <1>2, <3>3, SendsStay
    <2> QED BY <2>1, <2>2
  <1>4. ASSUME NEW v \in Worker, SeesSubmission(v)'  PROVE submissions'[CandOf(v)'] > 0
    <2>1. CASE v # w
      <3>1. worker'[v] = worker[v]  BY <1>0, <2>1, OneWorkerMoves
      <3>2. SeesSubmission(v) /\ CandOf(v)' = CandOf(v)
        BY <1>4, <3>1 DEF SeesSubmission, At, CandOf
      <3>3. submissions[CandOf(v)] > 0  BY <3>2 DEF SentInv, SeenWasSent
      <3>4. CandOf(v) \in Candidate
        BY <3>2 DEF SeesSubmission, TypeInv, AssignedWork, Dispatch, CandOf
      <3> QED BY <1>2, <3>2, <3>3, <3>4, SendsStay
    <2>2. CASE v = w
      <3>1. CandOf(w)' = CandOf(w)
        BY <1>0, <1>1, <1>4, <2>2, ApplyStepsKeep DEF Kept, SeesSubmission, At, CandOf
      <3>2. CASE SeesSubmission(w)
        BY <1>1, <1>2, <2>2, <3>1, <3>2, SendsStay DEF SentInv, SeenWasSent
      <3>3. CASE submissions'[CandOf(w)] = submissions[CandOf(w)] + 1
        BY <1>0, <1>1, <2>2, <3>1, <3>3 DEF HistoryOK
      <3> QED BY <1>4, <2>2, <3>2, <3>3, SeesByClick
    <2> QED BY <2>1, <2>2
  <1> QED BY <1>3, <1>4 DEF SentInv, SeenWasSent

LEMMA SentInvariant == Spec => [](TypeInv /\ SentInv)
  <1>1. Init => SentInv
    BY DEF Init, SentInv, AppliedWasSent, SeenWasSent, SeesSubmission, At, Idle
  <1>2. TypeInv /\ SentInv /\ [Next]_vars => SentInv'
    <2> SUFFICES ASSUME TypeInv, SentInv, [Next]_vars  PROVE SentInv'
      OBVIOUS
    <2>1. CASE UNCHANGED vars
      BY <2>1 DEF vars, rows, actors, history, SentInv, AppliedWasSent, SeenWasSent,
                  SeesSubmission, At, CandOf
    <2> QED BY <2>1, SentElsewhere, SentByOperation DEF Next, ApplyNext
  <1> QED BY <1>1, <1>2, DispatchInvariant, PTL DEF Spec

\* An application recorded as applied has reached the provider (apply.ts:775-805),
\* whatever crashes, lapses, is retried or redelivered: no hypothesis on locks,
\* on Redis or on the owner.
THEOREM AppliedMeansSent == Spec => []AppliedWasSent
  BY SentInvariant, PTL DEF SentInv
-----------------------------------------------------------------------------
(* The queue implements ApplicationPromise.  A step of an operation sends,  *)
(* records, ends or changes nothing there; of the other steps, the claim    *)
(* begins, a crash ends, the owner's three transactions are their own, and  *)
(* publishing, locks and recovery are not seen at all.                      *)

\* Only a retry is a confirmation of the owner.
UnaskedUnconfirmed == \A c \in Candidate : application[c] = "none" => confirms[c] = 0

LEMMA UnaskedInvariant == Spec => [](TypeInv /\ UnaskedUnconfirmed)
  <1>1. Init => UnaskedUnconfirmed  BY DEF Init, UnaskedUnconfirmed
  <1>2. TypeInv /\ UnaskedUnconfirmed /\ [Next]_vars => UnaskedUnconfirmed'
    <2> SUFFICES ASSUME TypeInv, UnaskedUnconfirmed, [Next]_vars, NEW c \in Candidate,
                        application'[c] = "none"
                 PROVE  confirms'[c] = 0
      BY DEF UnaskedUnconfirmed
    <2>0. RowsOK /\ HistoryOK  BY TypeInvParts DEF SharedOK
    <2>1. CASE UNCHANGED vars  BY <2>1 DEF vars, rows, history, UnaskedUnconfirmed
    <2>2. ASSUME UNCHANGED confirms, application[c] = "none"  PROVE confirms'[c] = 0
      BY <2>2 DEF UnaskedUnconfirmed
    <2>3. ASSUME NEW w \in Worker, ApplyStep(w)  PROVE confirms'[c] = 0
      BY <2>2, <2>3, ApplyStepsFrame
    <2>4. ASSUME ApiNext \/ DispatchNext \/ RecoveryNext  PROVE confirms'[c] = 0
      <3>1. application[c] = "none"  BY <2>4, OnlyOperationsApply
      <3>2. ~RetryCommit(c)  BY <2>0 DEF RetryCommit, RowsOK
      <3> QED BY <2>4, <3>1, <3>2, RetriesElsewhere DEF Next, UnaskedUnconfirmed
    <2> QED BY <2>1, <2>3, <2>4 DEF Next, ApplyNext
  <1> QED BY <1>1, <1>2, DispatchInvariant, PTL DEF Spec

\* Everything ApplicationPromise sees of a candidate is as it was.
Unseen(c) == /\ Standing(c)' = Standing(c) /\ Permits(c)' = Permits(c)
             /\ submissions'[c] = submissions[c] /\ Browsers(c)' = Browsers(c)
PromiseStep == [Promise!PromiseNext]_(Promise!promiseVars)

LEMMA UnseenSteps ==
  ASSUME TypeInv, TypeInv', \A c \in Candidate : Unseen(c)
  PROVE  PromiseStep
  <1>1. HistoryOK /\ HistoryOK'  BY DEF TypeInv, TypeOK
  <1>2. submissions' = submissions  BY <1>1 DEF HistoryOK, Unseen
  <1>3. UNCHANGED Promise!promiseVars  BY <1>2 DEF Promise!promiseVars, Unseen
  <1> QED BY <1>3 DEF PromiseStep

\* One candidate is seen to change: what its new values have to be.
LEMMA SeenSteps ==
  ASSUME TypeInv, TypeInv', NEW c \in Candidate, NEW w \in Worker,
         \A e \in Candidate \ {c} : Unseen(e),
         Standing(c) = "asked", Permits(c)' = Permits(c)
  PROVE  /\ /\ Browsers(c) = {} /\ Browsers(c)' = {w} /\ Standing(c)' = "asked"
            /\ submissions'[c] = submissions[c]
            => PromiseStep
         /\ /\ Browsers(c) = {w} /\ Browsers(c)' = {w} /\ Standing(c)' = "asked"
            /\ submissions'[c] = submissions[c] + 1
            /\ SubmitPaths \subseteq {"agent"} => submissions[c] < Permits(c)
            => PromiseStep
         /\ /\ Browsers(c) = {w} /\ Browsers(c)' = {} /\ Standing(c)' = "applied"
            /\ submissions'[c] = submissions[c] /\ submissions[c] > 0
            => PromiseStep
         /\ /\ Browsers(c) = {w} /\ Browsers(c)' = {} /\ Standing(c)' = "asked"
            /\ submissions'[c] = submissions[c]
            => PromiseStep
  <1> DEFINE standing == [e \in Candidate |-> Standing(e)]
             permits  == [e \in Candidate |-> Permits(e)]
             browser  == [e \in Candidate |-> Browsers(e)]
  <1>0. HistoryOK /\ HistoryOK'  BY DEF TypeInv, TypeOK
  <1>1. permits' = permits  BY DEF Unseen
  <1>2. standing' = [standing EXCEPT ![c] = Standing(c)']  BY DEF Unseen
  <1>3. browser' = [browser EXCEPT ![c] = Browsers(c)']  BY DEF Unseen
  <1>4. submissions' = [submissions EXCEPT ![c] = submissions'[c]]
    BY <1>0 DEF HistoryOK, Unseen
  <1>5. standing[c] = "asked" /\ permits[c] = Permits(c) /\ browser[c] = Browsers(c)
    OBVIOUS
  <1>6. Standing(c)' = "asked" => standing' = standing
    BY DEF Unseen
  <1>7. submissions'[c] = submissions[c] => submissions' = submissions
    BY <1>0 DEF HistoryOK, Unseen
  <1>8. Browsers(c)' = Browsers(c) => browser' = browser
    BY DEF Unseen
  <1> HIDE DEF standing, permits, browser
  <1>9. ASSUME Browsers(c) = {}, Browsers(c)' = {w}, Standing(c)' = "asked",
               submissions'[c] = submissions[c]
        PROVE  PromiseStep
    <2>1. Promise!Begin(w, c)
      BY <1>1, <1>3, <1>5, <1>6, <1>7, <1>9 DEF Promise!Begin, standing, permits, browser
    <2> QED BY <2>1 DEF PromiseStep, Promise!PromiseNext
  <1>10. ASSUME Browsers(c) = {w}, Browsers(c)' = {w}, Standing(c)' = "asked",
                submissions'[c] = submissions[c] + 1,
                SubmitPaths \subseteq {"agent"} => submissions[c] < Permits(c)
         PROVE  PromiseStep
    <2>1. Promise!Send(w, c)
      BY <1>1, <1>4, <1>5, <1>6, <1>8, <1>10 DEF Promise!Send, standing, permits, browser
    <2> QED BY <2>1 DEF PromiseStep, Promise!PromiseNext
  <1>11. ASSUME Browsers(c) = {w}, Browsers(c)' = {}, Standing(c)' = "applied",
                submissions'[c] = submissions[c], submissions[c] > 0
         PROVE  PromiseStep
    <2>1. Promise!Record(w, c)
      BY <1>1, <1>2, <1>3, <1>5, <1>7, <1>11 DEF Promise!Record, standing, permits, browser
    <2> QED BY <2>1 DEF PromiseStep, Promise!PromiseNext
  <1>12. ASSUME Browsers(c) = {w}, Browsers(c)' = {}, Standing(c)' = "asked",
                submissions'[c] = submissions[c]
         PROVE  PromiseStep
    <2>1. Promise!End(w, c)
      BY <1>1, <1>3, <1>5, <1>6, <1>7, <1>12 DEF Promise!End, standing, permits, browser
    <2> QED BY <2>1 DEF PromiseStep, Promise!PromiseNext
  <1> QED BY <1>9, <1>10, <1>11, <1>12

LEMMA SameView ==
  ASSUME UNCHANGED <<application, confirms, submissions, worker>>, NEW c \in Candidate
  PROVE  Unseen(c)
  BY DEF Unseen, Standing, Permits, Browsers, OperatesOn, CandOf

LEMMA ApproveIsAsk ==
  ASSUME TypeInv, UnaskedUnconfirmed, NEW queued \in SUBSET Candidate,
         NEW unavailable \in SUBSET Candidate, Approve(queued, unavailable)
  PROVE  Promise!Ask(queued)
  <1>0. HistoryOK  BY TypeInvParts DEF SharedOK
  <1>1. UNCHANGED <<submissions, confirms, worker>>  BY DEF Approve, history
  <1>2. \A c \in Candidate : Browsers(c)' = Browsers(c)
    BY <1>1 DEF Browsers, OperatesOn, CandOf
  <1>3. ASSUME NEW c \in queued
        PROVE  /\ Standing(c) = "unasked" /\ Standing(c)' = "asked" /\ Permits(c)' = 1
    <2>1. application[c] = "none" /\ application'[c] = "queued" /\ c \in Candidate
      BY DEF Approve
    <2>2. confirms'[c] = 0  BY <1>1, <2>1 DEF UnaskedUnconfirmed
    <2> QED BY <2>1, <2>2 DEF Standing, Permits
  <1>4. ASSUME NEW c \in Candidate \ queued
        PROVE  Standing(c)' = Standing(c) /\ Permits(c)' = Permits(c)
    <2>1. application'[c] = application[c]  BY DEF Approve
    <2> QED BY <1>1, <2>1 DEF Standing, Permits
  <1> QED BY <1>1, <1>2, <1>3, <1>4 DEF Promise!Ask

LEMMA CancelIsWithdraw ==
  ASSUME TypeInv, TypeInv', DispatchInv, OwnInv, NEW c \in Candidate, Cancel(c)
  PROVE  Promise!Withdraw(c)
  <1>0. RowsOK /\ OutboxOK  BY TypeInvParts DEF SharedOK
  <1>1. UNCHANGED <<submissions, confirms, worker>>  BY DEF Cancel, actors, history
  <1>2. \A e \in Candidate : Browsers(e)' = Browsers(e)
    BY <1>1 DEF Browsers, OperatesOn, CandOf
  <1>3. application[c] = "queued" /\ application' = [application EXCEPT ![c] = "closed"]
    BY DEF Cancel, MayCancel
  <1>4. Standing(c) = "asked" /\ Standing(c)' = "withdrawn"
    BY <1>0, <1>3 DEF Standing, RowsOK
  <1>5. \A e \in Candidate : Permits(e)' = Permits(e) /\ (e # c => Standing(e)' = Standing(e))
    BY <1>0, <1>1, <1>3 DEF Standing, Permits, RowsOK
  <1>6. Browsers(c) = {}
    <2>1. ASSUME NEW w \in Worker, OperatesOn(w, c)  PROVE FALSE
      <3>1. /\ worker[w].disp \in Dispatch /\ worker[w].disp[1] = c
            /\ OpenDispatch(worker[w].disp) /\ job[worker[w].disp] = "active"
        BY <2>1, OperationHolds DEF OperatesOn
      <3>2. worker[w].disp \in DispatchesOf(c)
        BY <1>0, <3>1 DEF Dispatch, DispatchesOf, OpenDispatch, Exists, OutboxOK
      <3> QED BY <3>1, <3>2 DEF Cancel, MayCancel, Removable
    <2> QED BY <2>1 DEF Browsers
  <1> QED BY <1>1, <1>2, <1>4, <1>5, <1>6 DEF Promise!Withdraw

LEMMA RetryIsAskAgain ==
  ASSUME TypeInv, OwnInv, NEW c \in Candidate, RetryCommit(c)
  PROVE  Promise!AskAgain(c)
  <1>0. RowsOK /\ HistoryOK  BY TypeInvParts DEF SharedOK
  <1>1. UNCHANGED <<submissions, worker>>  BY DEF RetryCommit
  <1>2. \A e \in Candidate : Browsers(e)' = Browsers(e)
    BY <1>1 DEF Browsers, OperatesOn, CandOf
  <1>3. NobodyOn(c) /\ application[c] \in {"needs_review", "closed"}
    BY DEF RetryCommit, OwnInv, RetriesAlone
  <1>4. Browsers(c) = {}  BY <1>3 DEF Browsers, NobodyOn
  <1>5. Standing(c) \in {"asked", "withdrawn"} /\ Standing(c)' = "asked"
    BY <1>0, <1>3 DEF RetryCommit, Standing, RowsOK
  <1>6. PICK more \in {0, 1} : confirms' = [confirms EXCEPT ![c] = @ + more]
    <2>1. confirms' = [confirms EXCEPT ![c] = IF retrying[c] = "confirmed" THEN @ + 1 ELSE @]
      BY DEF RetryCommit
    <2>2. confirms[c] + 0 = confirms[c]  BY <1>0 DEF HistoryOK
    <2>3. CASE retrying[c] = "confirmed"  BY <2>1, <2>3
    <2>4. CASE retrying[c] # "confirmed"
      <3>1. confirms' = [confirms EXCEPT ![c] = @ + 0]  BY <2>1, <2>2, <2>4
      <3> QED BY <3>1
    <2> QED BY <2>3, <2>4
  <1>7. Permits(c)' = Permits(c) + more
    BY <1>0, <1>3, <1>6 DEF RetryCommit, Permits, RowsOK, HistoryOK
  <1>8. \A e \in Candidate \ {c} : Permits(e)' = Permits(e) /\ Standing(e)' = Standing(e)
    BY <1>0, <1>6 DEF RetryCommit, Permits, Standing, RowsOK, HistoryOK
  <1> QED BY <1>1, <1>2, <1>4, <1>5, <1>7, <1>8 DEF Promise!AskAgain

LEMMA OwnerSteps ==
  ASSUME TypeInv, TypeInv', DispatchInv, OwnInv, UnaskedUnconfirmed, ApiNext
  PROVE  PromiseStep
  <1>1. ASSUME NEW queued \in SUBSET Candidate, NEW unavailable \in SUBSET Candidate,
               Approve(queued, unavailable)
        PROVE  PromiseStep
    BY <1>1, ApproveIsAsk DEF PromiseStep, Promise!PromiseNext
  <1>2. ASSUME NEW c \in Candidate, Cancel(c) \/ RetryCommit(c)  PROVE PromiseStep
    BY <1>2, CancelIsWithdraw, RetryIsAskAgain DEF PromiseStep, Promise!PromiseNext
  <1>3. ASSUME Stop \/ (\E e \in Candidate : CancelRollback(e) \/ Flag(e) \/ RetryAbandon(e))
               \/ (\E e \in Candidate, confirmed \in BOOLEAN : RetryCheck(e, confirmed))
               \/ (\E a \in Attempt : ResolveFlag(a))
        PROVE  PromiseStep
    <2>1. UNCHANGED <<application, confirms, submissions, worker>>
      BY <1>3 DEF Stop, CancelRollback, Flag, RetryAbandon, RetryCheck, ResolveFlag, rows,
                  actors, history
    <2> QED BY <2>1, SameView, UnseenSteps
  <1> QED BY <1>1, <1>2, <1>3 DEF ApiNext

\* What an operation works on is asked for, and it has the only browser.
LEMMA OperatingIsAsked ==
  ASSUME TypeInv, DispatchInv, OwnInv, AppliedInv, NEW w \in Worker, worker[w].pc \in Operating,
         NEW c, c = CandOf(w)
  PROVE  /\ c \in Candidate /\ Standing(c) = "asked" /\ Browsers(c) = {w}
         /\ application[c] \notin {"none", "closed", "applied"}
  <1>1. c \in Candidate /\ application[c] # "none" /\ application[c] # "closed"
    BY OperationHolds
  <1>2. OperatesOn(w, c)  BY DEF OperatesOn
  <1>3. application[c] # "applied"  BY <1>1, <1>2 DEF AppliedInv, AppliedRests, NobodyOn
  <1>4. Standing(c) = "asked"  BY <1>1, <1>3 DEF Standing
  <1>5. Browsers(c) = {w}  BY <1>1, <1>2, OneOperation DEF Browsers
  <1> QED BY <1>1, <1>3, <1>4, <1>5

\* Outside of its own steps an operation ends only with its process.
LEMMA OperationsEnd ==
  ASSUME WorkersOK, NEW w \in Worker, worker[w].pc \in Operating, DispatchNext
  PROVE  Crash(w) \/ (worker'[w].pc \in Operating /\ worker'[w].disp = worker[w].disp)
  <1>1. CASE worker'[w] = worker[w]  BY <1>1
  <1>2. ASSUME NEW v \in Worker, JobStep(v)  PROVE worker'[w] = worker[w]
    <2>1. v # w
      BY <1>2 DEF JobStep, ReadCandidate, AcquireLanes, Claim, CountActive, FinishRun, EndJob,
                  At, Operating, InLane
    <2> QED BY <1>2, <2>1, OneWorkerMoves
  <1>3. ASSUME NEW v \in Worker, NEW d \in Dispatch, PickUp(v, d)  PROVE worker'[w] = worker[w]
    <2>1. v # w  BY <1>3 DEF PickUp, At, Operating, InLane
    <2> QED BY <1>3, <2>1 DEF PickUp, WorkersOK
  <1>4. ASSUME NEW v \in Worker, LoseLease(v)
        PROVE  worker'[w].pc \in Operating /\ worker'[w].disp = worker[w].disp
    BY <1>4 DEF LoseLease, WorkersOK, WorkerRecord
  <1>5. ASSUME NEW v \in Worker \ {w}, Crash(v)  PROVE worker'[w] = worker[w]
    BY <1>5 DEF Crash, WorkersOK
  <1> QED
    BY <1>1, <1>2, <1>3, <1>4, <1>5
    DEF DispatchNext, PublishStep, PublishAdd, PublishGiveUp, LockExpires, LockLapses,
        Stalled, RedisFlush, actors

LEMMA ClaimBegins ==
  ASSUME TypeInv, TypeInv', DispatchInv, OwnInv, AppliedInv, NEW w \in Worker, Claims(w)
  PROVE  PromiseStep
  <1> SUFFICES ASSUME NEW c, c = CandOf(w), NEW d, d = worker[w].disp  PROVE PromiseStep
    OBVIOUS
  <1>0. WorkersOK /\ RowsOK  BY TypeInvParts DEF SharedOK
  <1>1. At(w, "claim") /\ MayClaim(w) /\ worker'[w].pc = "enter" /\ CandOf(w)' = c
    BY DEF Claims, Claim, CandOf
  <1>2. d \in Dispatch /\ c \in Candidate /\ d[1] = c /\ OpenDispatch(d) /\ lock[d] = w
    <2>1. d \in Dispatch  BY <1>1 DEF At, TypeInv, AssignedWork
    <2>2. Exists(d)  BY <1>1 DEF At, DispatchInv, AssignmentsExist
    <2>3. lock[d] = w  BY <1>1 DEF At, OwnInv, HoldsItsJob, Owns
    <2> QED BY <1>1, <2>1, <2>2, <2>3 DEF Dispatch, CandOf, OpenDispatch, MayClaim
  <1>3. candidate[c] \in {"queued", "tailored"}  BY <1>1 DEF MayClaim
  <1>4. Standing(c) = "asked"
    <2>1. application[c] # "none"
      BY <1>2, <1>3 DEF OwnInv, ActiveIsKnown, ActiveCandidate
    <2>2. application[c] # "closed"  BY <1>2, <1>3 DEF OwnInv, CancelledStaysOut
    <2>3. application[c] # "applied"  BY <1>2, <1>3 DEF AppliedInv, AppliedRests
    <2> QED BY <2>1, <2>2, <2>3 DEF Standing
  <1>5. ASSUME NEW v \in Worker, OperatesOn(v, c)  PROVE FALSE
    <2>1. worker[v].pc # "claim"  BY <1>5 DEF OperatesOn, Operating
    <2>2. v # w  BY <1>1, <2>1 DEF At
    <2>3. /\ worker[v].disp \in Dispatch /\ worker[v].disp[1] = c
          /\ OpenDispatch(worker[v].disp) /\ lock[worker[v].disp] = v
      BY <1>5, OperationHolds DEF OperatesOn, Owns
    <2> QED BY <1>2, <2>2, <2>3, OneOpen
  <1>6. \A v \in Worker \ {w} : worker'[v] = worker[v]
    BY <1>0 DEF Claims, Claim, Go, WorkersOK
  <1>7. Browsers(c) = {}  BY <1>5 DEF Browsers
  <1>8. Browsers(c)' = {w}
    <2>1. OperatesOn(w, c)'  BY <1>1 DEF OperatesOn, Operating, InLane
    <2>2. \A v \in Worker \ {w} : ~OperatesOn(v, c)'
      BY <1>5, <1>6 DEF OperatesOn, CandOf
    <2> QED BY <2>1, <2>2 DEF Browsers
  <1>9. UNCHANGED <<application, confirms, submissions>>
    BY DEF Claims, Claim, history
  <1>10. \A e \in Candidate : /\ Standing(e)' = Standing(e) /\ Permits(e)' = Permits(e)
                              /\ submissions'[e] = submissions[e]
    BY <1>9 DEF Standing, Permits
  <1>11. \A e \in Candidate \ {c} : Browsers(e)' = Browsers(e)
    <2>1. \A e \in Candidate \ {c} : ~OperatesOn(w, e) /\ ~OperatesOn(w, e)'
      BY <1>1 DEF OperatesOn
    <2>2. \A e \in Candidate, v \in Worker \ {w} : OperatesOn(v, e)' <=> OperatesOn(v, e)
      BY <1>6 DEF OperatesOn, CandOf
    <2> QED BY <2>1, <2>2 DEF Browsers
  <1> QED BY <1>2, <1>4, <1>7, <1>8, <1>10, <1>11, SeenSteps DEF Unseen

LEMMA CrashEnds ==
  ASSUME TypeInv, TypeInv', DispatchInv, OwnInv, AppliedInv, NEW w \in Worker, Crash(w),
         worker[w].pc \in Operating
  PROVE  PromiseStep
  <1> SUFFICES ASSUME NEW c, c = CandOf(w)  PROVE PromiseStep
    OBVIOUS
  <1>0. WorkersOK  BY TypeInvParts DEF SharedOK
  <1>1. c \in Candidate /\ Standing(c) = "asked" /\ Browsers(c) = {w}  BY OperatingIsAsked
  <1>2. \A e : ~OperatesOn(w, e)'
    BY <1>0 DEF Crash, WorkersOK, Idle, OperatesOn, Operating, InLane
  <1>3. \A v \in Worker \ {w} : \A e : OperatesOn(v, e)' <=> OperatesOn(v, e)
    BY <1>0 DEF Crash, WorkersOK, OperatesOn, CandOf
  <1>4. Browsers(c)' = {}  BY <1>1, <1>2, <1>3 DEF Browsers
  <1>5. \A e \in Candidate \ {c} : Browsers(e)' = Browsers(e)
    <2>1. \A e \in Candidate \ {c} : ~OperatesOn(w, e)  BY DEF OperatesOn
    <2> QED BY <1>2, <1>3, <2>1 DEF Browsers
  <1>6. UNCHANGED <<application, confirms, submissions>>  BY DEF Crash, rows
  <1>7. \A e \in Candidate : /\ Standing(e)' = Standing(e) /\ Permits(e)' = Permits(e)
                             /\ submissions'[e] = submissions[e]
    BY <1>6 DEF Standing, Permits
  <1> QED BY <1>1, <1>4, <1>5, <1>7, SeenSteps DEF Unseen

\* Publishing, locks, recovery and what a job handler does around the operation.
LEMMA QueueSteps ==
  ASSUME TypeInv, TypeInv', DispatchInv, OwnInv, AppliedInv,
         DispatchNext \/ RecoveryNext
  PROVE  PromiseStep
  <1>0. WorkersOK /\ RowsOK /\ ServicesOK  BY TypeInvParts DEF SharedOK
  <1>1. UNCHANGED <<confirms, submissions>>
    BY DEF RecoveryNext, HandlerStep, HandleAttempts, HandleCandidate, HandleApplication,
           HandleCount, HandleFinish, HandlerLost, Age, SweepStep, SweepStart, SweepLive,
           SweepRead, SweepCandidate, SweepAttempt, SweepApplication, SweepSettle, SweepFail,
           SweepLost,
           DispatchNext, PublishStep, PublishAdd, PublishGiveUp, PickUp, JobStep, ReadCandidate,
           AcquireLanes, Claim, CountActive, FinishRun, EndJob, LoseLease, Crash, LockExpires,
           LockLapses, Stalled, RedisFlush, history
  <1>2. CASE RecoveryNext
    <2>1. UNCHANGED worker
      BY <1>2
      DEF RecoveryNext, HandlerStep, HandleAttempts, HandleCandidate, HandleApplication,
          HandleCount, HandleFinish, HandlerLost, Age, SweepStep, SweepStart, SweepLive,
          SweepRead, SweepCandidate, SweepAttempt, SweepApplication, SweepSettle, SweepFail,
          SweepLost, actors
    <2>2. UNCHANGED application \/ \E e : ReviewApplication(e)
      BY <1>2
      DEF RecoveryNext, HandlerStep, HandleAttempts, HandleCandidate, HandleApplication,
          HandleCount, HandleFinish, HandlerLost, Age, SweepStep, SweepStart, SweepLive,
          SweepRead, SweepCandidate, SweepAttempt, SweepApplication, SweepSettle, SweepFail,
          SweepLost, rows
    <2>3. \A c \in Candidate : \/ application'[c] = application[c]
                               \/ application[c] = "queued" /\ application'[c] = "needs_review"
      BY <1>0, <2>2 DEF ReviewApplication, RowsOK
    <2>4. \A c \in Candidate : Standing(c)' = Standing(c) /\ Permits(c)' = Permits(c)
      BY <1>1, <2>3 DEF Standing, Permits
    <2>5. \A c \in Candidate : Browsers(c)' = Browsers(c)
      BY <2>1 DEF Browsers, OperatesOn, CandOf
    <2> QED BY <1>1, <2>4, <2>5, UnseenSteps DEF Unseen
  <1>3. CASE DispatchNext
    <2>1. UNCHANGED application
      BY <1>3
      DEF DispatchNext, PublishStep, PublishAdd, PublishGiveUp, PickUp, JobStep, ReadCandidate,
          AcquireLanes, Claim, CountActive, FinishRun, EndJob, LoseLease, Crash, LockExpires,
          LockLapses, Stalled, RedisFlush, rows
    <2>2. \A c \in Candidate : Standing(c)' = Standing(c) /\ Permits(c)' = Permits(c)
      BY <1>1, <2>1 DEF Standing, Permits
    <2>3. CASE \E w \in Worker : Claims(w) \/ (Crash(w) /\ worker[w].pc \in Operating)
      BY <2>3, ClaimBegins, CrashEnds
    <2>4. CASE \A w \in Worker : ~Claims(w) /\ ~(Crash(w) /\ worker[w].pc \in Operating)
      <3>1. ASSUME NEW w \in Worker, NEW c  PROVE OperatesOn(w, c)' <=> OperatesOn(w, c)
        <4>1. worker'[w].pc \in Operating => worker[w].pc \in Operating /\ CandOf(w)' = CandOf(w)
          BY <1>3, <2>4, OperationsStay DEF Stays, CandOf
        <4>2. worker[w].pc \in Operating => worker'[w].pc \in Operating /\ CandOf(w)' = CandOf(w)
          BY <1>0, <1>3, <2>4, OperationsEnd DEF CandOf
        <4> QED BY <4>1, <4>2 DEF OperatesOn
      <3>2. \A c \in Candidate : Browsers(c)' = Browsers(c)  BY <3>1 DEF Browsers
      <3> QED BY <1>1, <2>2, <3>2, UnseenSteps DEF Unseen
    <2> QED BY <2>3, <2>4
  <1> QED BY <1>2, <1>3

\* Of an operation's steps only its clicks reach the provider.
LEMMA ClicksSend ==
  ASSUME TypeInv, NEW w \in Worker, ApplyStep(w), NEW c \in Candidate, c = CandOf(w)
  PROVE  /\ \A e \in Candidate \ {c} : submissions'[e] = submissions[e]
         /\ \/ submissions'[c] = submissions[c]
            \/ /\ submissions'[c] = submissions[c] + 1 /\ UNCHANGED application
               /\ worker'[w].pc \in OnTheForm
  <1>0. WorkersOK /\ HistoryOK /\ worker[w] \in WorkerRecord
    BY TypeInvParts DEF SharedOK, WorkersOK
  <1>1. CASE AgentClick(w) \/ StepClick(w) \/ FormClick(w)
    <2>1. PICK accepts \in BOOLEAN : Click(w, accepts)
      BY <1>1 DEF AgentClick, StepClick, FormClick
    <2>2. /\ \A e \in Candidate \ {c} : submissions'[e] = submissions[e]
          /\ submissions'[c] \in {submissions[c], submissions[c] + 1}
      BY <1>0, <2>1 DEF Click, HistoryOK
    <2>3. Quiet(w) /\ UNCHANGED application  BY <1>1, QuietSteps DEF Quiet
    <2>4. worker'[w].pc \in OnTheForm
      <3>1. CASE AgentClick(w)
        <4>1. PICK a \in BOOLEAN :
                worker' = [worker EXCEPT ![w].pc = "seen", ![w].accepted = Accepted(w, a)]
          BY <3>1 DEF AgentClick
        <4>2. worker'[w].pc = "seen"  BY <1>0, <4>1 DEF WorkersOK, WorkerRecord
        <4> QED BY <4>2 DEF OnTheForm
      <3>2. CASE StepClick(w)
        <4>1. worker' = [worker EXCEPT ![w].pc = "accident", ![w].accepted = TRUE]
          BY <3>2 DEF StepClick
        <4>2. worker'[w].pc = "accident"  BY <1>0, <4>1 DEF WorkersOK, WorkerRecord
        <4> QED BY <4>2 DEF OnTheForm
      <3>3. CASE FormClick(w)
        <4>1. PICK a \in BOOLEAN :
                worker' = [worker EXCEPT ![w].pc = "response", ![w].outcome = "none",
                             ![w].accepted = Accepted(w, a),
                             ![w].rounds = IF At(w, "outcome") THEN @ + 1 ELSE @]
          BY <3>3 DEF FormClick
        <4>2. worker'[w].pc = "response"  BY <1>0, <4>1 DEF WorkersOK, WorkerRecord
        <4> QED BY <4>2 DEF OnTheForm
      <3> QED BY <1>1, <3>1, <3>2, <3>3
    <2> QED BY <2>2, <2>3, <2>4
  <1>2. CASE ~(AgentClick(w) \/ StepClick(w) \/ FormClick(w))
    <2>1. UNCHANGED submissions
      BY <1>2
      DEF ApplyStep, Enter, Tailor, CheckCandidate, Prepare, Repeat, ParkApplication,
          ParkCandidate, ParkAttempt, Mark, Open, FillForm, AgentFence, WriteFence, AgentReport,
          NoticeStep, FormResponse, Settle, Caught, WriteAttempt, WriteCandidate,
          WriteApplication, history
    <2> QED BY <2>1
  <1> QED BY <1>1, <1>2

LEMMA OperationSteps ==
  ASSUME TypeInv, TypeInv', DispatchInv, OwnInv, AppliedInv, SentInv,
         SubmitPaths \subseteq {"agent"} => SubmittedOnce', NEW w \in Worker, ApplyStep(w)
  PROVE  PromiseStep
  <1> SUFFICES ASSUME NEW c, c = CandOf(w)  PROVE PromiseStep
    OBVIOUS
  <1>0. WorkersOK /\ RowsOK /\ HistoryOK  BY TypeInvParts DEF SharedOK
  <1>1. /\ c \in Candidate /\ Standing(c) = "asked" /\ Browsers(c) = {w}
        /\ application[c] \notin {"none", "closed", "applied"}
    BY OperatingIsAsked, ApplyStepsFrame
  <1>2. /\ UNCHANGED confirms
        /\ \A e \in Candidate \ {c} : application'[e] = application[e]
        /\ application'[c] = application[c] \/ application'[c] \in {"needs_review", "applied"}
    BY ApplyStepsFrame
  <1>3. /\ \A v \in Worker \ {w} : worker'[v] = worker[v]
        /\ worker'[w].pc = "idle" \/ CandOf(w)' = c
    BY OthersUntouched
  <1>4. \A v \in Worker \ {w} : \A e : OperatesOn(v, e)' <=> OperatesOn(v, e)
    BY <1>3 DEF OperatesOn, CandOf
  <1>5. \A e \in Candidate \ {c} : ~OperatesOn(w, e) /\ ~OperatesOn(w, e)'
    BY <1>3 DEF OperatesOn, Operating, InLane
  <1>6. OperatesOn(w, c)' <=> worker'[w].pc \in Operating
    BY <1>3 DEF OperatesOn, Operating, InLane
  <1>7. Browsers(c)' = IF worker'[w].pc \in Operating THEN {w} ELSE {}
    BY <1>1, <1>4, <1>6 DEF Browsers
  <1>8. \A e \in Candidate \ {c} : Unseen(e)
    <2>1. \A e \in Candidate \ {c} : Browsers(e)' = Browsers(e)
      BY <1>4, <1>5 DEF Browsers
    <2>2. \A e \in Candidate \ {c} : Standing(e)' = Standing(e) /\ Permits(e)' = Permits(e)
      BY <1>2 DEF Standing, Permits
    <2>3. \A e \in Candidate \ {c} : submissions'[e] = submissions[e]
      BY <1>1, ClicksSend
    <2> QED BY <2>1, <2>2, <2>3 DEF Unseen
  <1>9. Permits(c) = 1 + confirms[c] /\ Permits(c)' = Permits(c)
    BY <1>1, <1>2 DEF Permits
  <1>10. Standing(c)' = IF application'[c] = "applied" THEN "applied" ELSE "asked"
    BY <1>1, <1>2 DEF Standing
  <1>11. CASE submissions'[c] = submissions[c] + 1 /\ UNCHANGED application
              /\ worker'[w].pc \in OnTheForm
    <2>1. Standing(c)' = "asked"  BY <1>1, <1>10, <1>11
    <2>2. Browsers(c)' = {w}  BY <1>7, <1>11 DEF OnTheForm, Operating, InLane
    <2>3. SubmitPaths \subseteq {"agent"} => submissions[c] < Permits(c)
      <3> SUFFICES ASSUME SubmitPaths \subseteq {"agent"}  PROVE submissions[c] < Permits(c)
        OBVIOUS
      <3>1. submissions'[c] <= 1 + confirms'[c]  BY <1>1 DEF SubmittedOnce
      <3> QED BY <1>0, <1>1, <1>2, <1>9, <1>11, <3>1 DEF HistoryOK
    <2> QED BY <1>1, <1>8, <1>9, <1>11, <2>1, <2>2, <2>3, SeenSteps
  <1>12. CASE submissions'[c] = submissions[c]
    <2>1. CASE application'[c] = "applied"
      <3>1. WriteApplication(w) /\ worker[w].result = "submitted"
        BY <1>1, <2>1, AppliedByWrite
      <3>2. worker'[w].pc \notin Operating
        BY <1>0, <3>1, LoudSteps DEF Operating, InLane
      <3>3. submissions[c] > 0
        BY <3>1 DEF WriteApplication, At, SentInv, SeenWasSent, SeesSubmission
      <3> QED BY <1>1, <1>7, <1>8, <1>9, <1>10, <1>12, <2>1, <3>2, <3>3, SeenSteps
    <2>2. CASE application'[c] # "applied" /\ worker'[w].pc \notin Operating
      BY <1>1, <1>7, <1>8, <1>9, <1>10, <1>12, <2>2, SeenSteps
    <2>3. CASE application'[c] # "applied" /\ worker'[w].pc \in Operating
      <3>1. Unseen(c)  BY <1>1, <1>7, <1>9, <1>10, <1>12, <2>3 DEF Unseen
      <3> QED BY <1>8, <3>1, UnseenSteps
    <2> QED BY <2>1, <2>2, <2>3
  <1> QED BY <1>1, <1>11, <1>12, ClicksSend

\* The queue keeps the promise: every state of it is one of ApplicationPromise's,
\* and every step one of its steps or none (application-queue.ts, apply.ts,
\* applications/actions.ts), as long as the owner stands back. Where only the
\* reasoning agent may press submit, that includes that nothing is sent that the
\* owner did not permit.
THEOREM PromiseIsKept ==
  ASSUME ~Zombies, ~InfoFails
  PROVE  Spec /\ [][OwnerStandsBack]_vars => ImplementsPromise
  <1>1. Init => Promise!PromiseInit
    <2> SUFFICES ASSUME Init  PROVE Promise!PromiseInit
      OBVIOUS
    <2>1. \A c \in Candidate : Standing(c) = "unasked" /\ Permits(c) = 0
      BY DEF Init, Standing, Permits
    <2>2. \A c \in Candidate : Browsers(c) = {}
      BY DEF Init, Idle, Browsers, OperatesOn, Operating, InLane
    <2>3. submissions = [c \in Candidate |-> 0]  BY DEF Init
    <2> QED BY <2>1, <2>2, <2>3 DEF Promise!PromiseInit
  <1>2. TypeInv /\ TypeInv' /\ DispatchInv /\ OwnInv /\ AppliedInv /\ SentInv
        /\ UnaskedUnconfirmed /\ (SubmitPaths \subseteq {"agent"} => SubmittedOnce')
        /\ [Next]_vars => [Promise!PromiseNext]_(Promise!promiseVars)
    <2> SUFFICES ASSUME TypeInv, TypeInv', DispatchInv, OwnInv, AppliedInv, SentInv,
                        UnaskedUnconfirmed, SubmitPaths \subseteq {"agent"} => SubmittedOnce',
                        [Next]_vars
                 PROVE  PromiseStep
      BY DEF PromiseStep
    <2>1. CASE UNCHANGED vars
      <3>1. UNCHANGED <<application, confirms, submissions, worker>>
        BY <2>1 DEF vars, rows, actors, history
      <3> QED BY <3>1, SameView, UnseenSteps
    <2> QED BY <2>1, OwnerSteps, QueueSteps, OperationSteps DEF Next, ApplyNext
  <1>3. CASE SubmitPaths \subseteq {"agent"}
    <2>1. Spec /\ [][OwnerStandsBack]_vars => []SubmittedOnce  BY <1>3, SubmitsOnce
    <2> QED
      BY <1>1, <1>2, <2>1, AppliedInvariant, SentInvariant, UnaskedInvariant, PTL
      DEF Spec, ImplementsPromise, Promise!PromiseSpec
  <1>4. CASE ~(SubmitPaths \subseteq {"agent"})
    <2>1. TypeInv /\ TypeInv' /\ DispatchInv /\ OwnInv /\ AppliedInv /\ SentInv
          /\ UnaskedUnconfirmed /\ [Next]_vars => [Promise!PromiseNext]_(Promise!promiseVars)
      BY <1>2, <1>4
    <2> QED
      BY <1>1, <2>1, AppliedInvariant, SentInvariant, UnaskedInvariant, PTL
      DEF Spec, ImplementsPromise, Promise!PromiseSpec
  <1> QED BY <1>3, <1>4
=============================================================================
