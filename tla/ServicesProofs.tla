--------------------------- MODULE ServicesProofs ---------------------------
(***************************************************************************)
(* The smaller services, for every value of their constants: the reasoning *)
(* loop, the gate of a job board, the questions of an attempt, and the     *)
(* playground's runs. Each part has an invariant of its own; the assumption *)
(* of a component is in use within its part only.                          *)
(***************************************************************************)
EXTENDS AgentLoop, PoliteFetch, LiveQuestions, Playground, FiniteSetTheorems, SequenceTheorems,
        TLAPS

(***************************************************************************)
(* The reasoning loop. A run that the agent ended itself ended after its   *)
(* last failure was made good: only the count of the acting part matters;  *)
(* what fails leaves it above zero, and only an action that works brings it *)
(* back.                                                                   *)
(***************************************************************************)

USE AgentAssumption DEF AgentAssumption

TurnType == [pc : {"unborn", "ended", "thrown"} \cup Part, step : 0..AgMaxSteps]
ErrorType == [key : ErrorKey \cup {AgNone}, times : 0..AgRecovery]
ReportType == [stopped : {"no", "done", "max-steps", "error"},
               reachedForm : BOOLEAN, canSubmit : BOOLEAN]
PastType == [action : {"none", "ok", "failed"}, sent : {"no", "timely", "late"}]

\* While the loop runs, no part has used up its errors, and a turn that has
\* begun is one of the steps.
Budget == ~Over => \A p \in Part : errors[p].times < AgRecovery
InTurn == turn.pc \in {"think", "act"} => turn.step < AgMaxSteps

AgentIInv == AgentTypeOK /\ AgentInv /\ Budget /\ InTurn

LEMMA ErrorFacts ==
  ASSUME AgentIInv, NEW p \in Part
  PROVE  errors[p] \in ErrorType /\ errors[p].times \in 0..AgRecovery
BY DEF AgentIInv, AgentTypeOK, ErrorType

LEMMA TurnFacts ==
  ASSUME AgentIInv
  PROVE  turn \in TurnType /\ turn.step \in 0..AgMaxSteps
BY DEF AgentIInv, AgentTypeOK, TurnType

LEMMA ClearKeeps ==
  ASSUME AgentIInv, NEW p \in Part, errors' = [errors EXCEPT ![p] = NoError]
  PROVE  /\ errors' \in [Part -> ErrorType]
         /\ errors'[p].times = 0
         /\ \A q \in Part \ {p} : errors'[q] = errors[q]
<1>1. NoError \in ErrorType /\ NoError.times = 0
  BY DEF NoError, ErrorType
<1>2. errors \in [Part -> ErrorType]
  BY DEF AgentIInv, AgentTypeOK, ErrorType
<1> QED
  BY <1>1, <1>2

LEMMA GoType ==
  ASSUME AgentIInv, NEW pc \in {"ended", "thrown"} \cup Part, AgGo(pc)
  PROVE  turn' \in TurnType /\ turn'.pc = pc /\ turn'.step = turn.step
BY TurnFacts DEF AgGo, TurnType

LEMMA NextTurnType ==
  ASSUME AgentIInv, NextTurn, turn.step < AgMaxSteps
  PROVE  turn' \in TurnType /\ turn'.pc = "observe"
<1>1. turn.step + 1 \in 0..AgMaxSteps
  BY TurnFacts
<1> QED
  BY <1>1 DEF NextTurn, TurnType, Part

LEMMA StopType ==
  ASSUME AgentIInv, NEW reached \in BOOLEAN, NEW why \in {"done", "max-steps", "error"},
         AgStop(reached, why)
  PROVE  /\ turn' \in TurnType /\ turn'.pc = "ended" /\ report' \in ReportType
         /\ report'.stopped = why /\ (report'.canSubmit => why = "done")
<1>1. observed \in BOOLEAN
  BY DEF AgentIInv, AgentTypeOK
<1>2. Finalized(reached, why) \in ReportType /\ Finalized(reached, why).stopped = why
      /\ (Finalized(reached, why).canSubmit => why = "done")
  <2>1. (reached \/ observed) \in BOOLEAN /\ (why = "done" /\ (reached \/ observed)) \in BOOLEAN
    OBVIOUS
  <2> QED
    BY <2>1 DEF Finalized, ReportType
<1>3. AgGo("ended") /\ report' = Finalized(reached, why)
  BY DEF AgStop
<1> QED
  BY <1>2, <1>3, GoType

\* One error more: the part stays within its budget, or the run is over.
LEMMA SufferKeeps ==
  ASSUME AgentIInv, ~Over, turn.step < AgMaxSteps, NEW p \in Part, NEW key \in ErrorKey,
         Suffer(p, key)
  PROVE  /\ turn' \in TurnType /\ turn'.pc \in {"observe", "ended"}
         /\ errors' \in [Part -> ErrorType] /\ report' \in ReportType
         /\ errors'[p].times > 0
         /\ \A q \in Part \ {p} : errors'[q] = errors[q]
         /\ Budget'
         /\ \/ turn'.pc = "observe" /\ report' = report
            \/ turn'.pc = "ended" /\ report'.stopped = "error" /\ ~report'.canSubmit
<1> DEFINE e == Again(p, key)
<1>1. errors[p].times \in 0..AgRecovery /\ errors[p].times < AgRecovery
  BY ErrorFacts DEF AgentIInv, Budget
<1>2. e \in ErrorType /\ e.times > 0
  <2> DEFINE times == IF errors[p].key = key THEN errors[p].times + 1 ELSE 1
  <2>1. times \in 0..AgRecovery /\ times > 0
    BY <1>1
  <2>2. e = [key |-> key, times |-> times]
    BY DEF Again
  <2> HIDE DEF times, e
  <2> QED
    BY <2>1, <2>2 DEF ErrorType
<1>3. errors' = [errors EXCEPT ![p] = e]
  BY DEF Suffer
<1>4. errors \in [Part -> ErrorType]
  BY DEF AgentIInv, AgentTypeOK, ErrorType
<1>5. e.times \in 0..AgRecovery
  BY <1>2 DEF ErrorType
<1>6. /\ e.times >= AgRecovery => AgStop(FALSE, "error")
      /\ ~(e.times >= AgRecovery) => NextTurn /\ report' = report
  BY DEF Suffer
<1> HIDE DEF e
<1>7. /\ errors' \in [Part -> ErrorType] /\ errors'[p] = e
      /\ \A q \in Part \ {p} : errors'[q] = errors[q]
  BY <1>2, <1>3, <1>4
<1>8. report \in ReportType
  BY DEF AgentIInv, AgentTypeOK, ReportType
<1>9. CASE e.times >= AgRecovery
  <2>1. /\ turn' \in TurnType /\ turn'.pc = "ended" /\ report' \in ReportType
        /\ report'.stopped = "error" /\ ~report'.canSubmit
    <3>1. FALSE \in BOOLEAN /\ "error" \in {"done", "max-steps", "error"} /\ "error" # "done"
      OBVIOUS
    <3> QED
      BY <1>6, <1>9, <3>1, StopType
  <2>2. Budget'
    BY <2>1 DEF Budget, Over
  <2> QED
    BY <1>2, <1>7, <2>1, <2>2
<1>10. CASE ~(e.times >= AgRecovery)
  <2>1. turn' \in TurnType /\ turn'.pc = "observe" /\ report' = report
    BY <1>6, <1>10, NextTurnType
  <2>2. Budget'
    <3>1. \A q \in Part \ {p} : errors'[q].times < AgRecovery
      BY <1>7 DEF AgentIInv, Budget
    <3>2. errors'[p].times < AgRecovery
      BY <1>5, <1>7, <1>10
    <3> QED
      BY <3>1, <3>2 DEF Budget
  <2> QED
    BY <1>2, <1>7, <1>8, <2>1, <2>2
<1> QED
  BY <1>9, <1>10

LEMMA AgentInitInv == AgentInit => AgentIInv
<1> SUFFICES ASSUME AgentInit PROVE AgentIInv
  OBVIOUS
<1>1. AgentTypeOK
  <2>1. turn \in TurnType
    BY DEF AgentInit, TurnType
  <2>2. NoError \in ErrorType
    BY DEF NoError, ErrorType
  <2>3. errors \in [Part -> ErrorType]
    BY <2>2 DEF AgentInit
  <2>4. report \in ReportType /\ agPast \in PastType
    BY DEF AgentInit, NoReport, ReportType, PastType
  <2> QED
    BY <2>1, <2>3, <2>4 DEF AgentInit, AgentTypeOK, TurnType, ErrorType, ReportType, PastType
<1>2. AgentInv
  BY DEF AgentInit, AgentInv, DoneMeansRecovered, NoReport
<1>3. Budget /\ InTurn
  BY DEF AgentInit, Budget, InTurn, NoError
<1> QED
  BY <1>1, <1>2, <1>3 DEF AgentIInv

\* The type, from those of its parts.
LEMMA TypeAgain ==
  ASSUME turn' \in TurnType, errors' \in [Part -> ErrorType], observed' \in BOOLEAN,
         report' \in ReportType, late' \subseteq AgTool, agPast' \in PastType
  PROVE  AgentTypeOK'
BY DEF AgentTypeOK, TurnType, ErrorType, ReportType, PastType

LEMMA TypeNow ==
  ASSUME AgentIInv
  PROVE  /\ turn \in TurnType /\ errors \in [Part -> ErrorType] /\ observed \in BOOLEAN
         /\ report \in ReportType /\ late \subseteq AgTool /\ agPast \in PastType
BY DEF AgentIInv, AgentTypeOK, TurnType, ErrorType, ReportType, PastType

LEMMA SendingType ==
  ASSUME AgentIInv, NEW tool
  PROVE  Sending(tool) \in {"no", "timely", "late"}
BY TypeNow DEF Sending, PastType

\* A step that leaves the report and the acting part alone.
LEMMA QuietKeeps ==
  ASSUME AgentIInv, AgentTypeOK', report' = report, ~Over \/ turn'.pc = turn.pc,
         errors'["act"] = errors["act"], agPast'.action = agPast.action
  PROVE  AgentInv'
<1>1. report # NoReport => Over
  BY DEF AgentIInv, AgentInv
<1>2. report' # NoReport => Over'
  BY <1>1 DEF Over
<1>3. DoneMeansRecovered'
  BY DEF AgentIInv, AgentInv, DoneMeansRecovered
<1>4. (agPast.action = "failed" /\ ~AgAt("thrown") => errors["act"].times > 0)'
  BY DEF AgentIInv, AgentInv, AgAt, Over
<1> QED
  BY <1>2, <1>3, <1>4 DEF AgentInv

\* A call that fails: the failure is counted before anything else happens.
LEMMA FailKeeps ==
  ASSUME AgentIInv, NEW tool \in AgTool, NEW key \in ErrorKey, ToolFails(tool, key)
  PROVE  AgentIInv'
<1>1. turn.pc = "act" /\ ~Over /\ turn.step < AgMaxSteps
  BY DEF ToolFails, AgAt, Over, AgentIInv, InTurn
<1>2. "act" \in Part /\ Suffer("act", key)
  BY DEF ToolFails, Part
<1>3. /\ turn' \in TurnType /\ turn'.pc \in {"observe", "ended"}
      /\ errors' \in [Part -> ErrorType] /\ report' \in ReportType
      /\ errors'["act"].times > 0
      /\ Budget'
      /\ \/ turn'.pc = "observe" /\ report' = report
         \/ turn'.pc = "ended" /\ report'.stopped = "error" /\ ~report'.canSubmit
  BY <1>1, <1>2, SufferKeeps
<1>4. agPast' \in PastType /\ late' \subseteq AgTool /\ observed' \in BOOLEAN
  BY TypeNow DEF ToolFails, PastType
<1>5. AgentTypeOK'
  BY <1>3, <1>4, TypeAgain
<1>6. report = NoReport
  BY <1>1 DEF AgentIInv, AgentInv
<1>7. AgentInv'
  BY <1>3, <1>6 DEF AgentInv, DoneMeansRecovered, Over, NoReport
<1> QED
  BY <1>3, <1>5, <1>7 DEF AgentIInv, InTurn

LEMMA PartFails ==
  ASSUME AgentIInv, NEW p \in {"observe", "think"}, NEW key \in ErrorKey,
         turn.pc = p, turn.step < AgMaxSteps,
         Suffer(p, key), UNCHANGED <<observed, late, agPast>>
  PROVE  AgentIInv'
<1>1. ~Over /\ p \in Part /\ "act" \in Part \ {p}
  BY DEF Over, Part
<1>2. /\ turn' \in TurnType /\ turn'.pc \in {"observe", "ended"}
      /\ errors' \in [Part -> ErrorType] /\ report' \in ReportType
      /\ \A q \in Part \ {p} : errors'[q] = errors[q]
      /\ Budget'
      /\ \/ turn'.pc = "observe" /\ report' = report
         \/ turn'.pc = "ended" /\ report'.stopped = "error" /\ ~report'.canSubmit
  BY <1>1, SufferKeeps
<1>3. AgentTypeOK'
  BY <1>2, TypeNow, TypeAgain
<1>4. errors'["act"] = errors["act"]
  BY <1>1, <1>2
<1>5. report = NoReport
  BY <1>1 DEF AgentIInv, AgentInv
<1>6. AgentInv'
  BY <1>2, <1>4, <1>5 DEF AgentIInv, AgentInv, AgAt, DoneMeansRecovered, Over, NoReport
<1> QED
  BY <1>2, <1>3, <1>6 DEF AgentIInv, InTurn

\* A part that did its work, and where the loop goes on.
LEMMA PartWorks ==
  ASSUME AgentIInv, NEW p \in {"observe", "think"}, turn.pc = p,
         turn.step < AgMaxSteps, errors' = [errors EXCEPT ![p] = NoError],
         \/ /\ \E pc \in {"think", "act"} : AgGo(pc)
            /\ UNCHANGED report
         \/ NextTurn /\ UNCHANGED report
         \/ AgStop(FALSE, "error"),
         UNCHANGED <<observed, late, agPast>>
  PROVE  AgentIInv'
<1>1. ~Over /\ p \in Part /\ "act" \in Part \ {p}
  BY DEF Over, Part
<1>2. /\ errors' \in [Part -> ErrorType] /\ errors'[p].times = 0
      /\ \A q \in Part \ {p} : errors'[q] = errors[q]
  BY <1>1, ClearKeeps
<1>3. Budget'
  <2>1. \A q \in Part : errors[q].times < AgRecovery
    BY <1>1 DEF AgentIInv, Budget
  <2>2. \A q \in Part : errors'[q].times < AgRecovery
    BY <1>2, <2>1
  <2> QED
    BY <2>2 DEF Budget
<1>4. report = NoReport
  BY <1>1 DEF AgentIInv, AgentInv
<1>5. errors'["act"] = errors["act"]
  BY <1>1, <1>2
<1>6. CASE \E pc \in {"think", "act"} : AgGo(pc) /\ UNCHANGED report
  <2>1. turn' \in TurnType /\ turn'.step = turn.step /\ report' = report
    BY <1>6, GoType DEF Part
  <2>2. AgentTypeOK'
    BY <1>2, <2>1, TypeNow, TypeAgain
  <2>3. AgentInv'
    BY <1>4, <1>5, <2>1 DEF AgentIInv, AgentInv, AgAt, DoneMeansRecovered, NoReport
  <2> QED
    BY <1>3, <2>1, <2>2, <2>3 DEF AgentIInv, InTurn
<1>7. CASE NextTurn /\ UNCHANGED report
  <2>1. turn' \in TurnType /\ turn'.pc = "observe" /\ report' = report
    BY <1>7, NextTurnType
  <2>2. AgentTypeOK'
    BY <1>2, <2>1, TypeNow, TypeAgain
  <2>3. AgentInv'
    BY <1>4, <1>5, <2>1 DEF AgentIInv, AgentInv, AgAt, DoneMeansRecovered, NoReport
  <2> QED
    BY <1>3, <2>1, <2>2, <2>3 DEF AgentIInv, InTurn
<1>8. CASE AgStop(FALSE, "error")
  <2>1. /\ turn' \in TurnType /\ turn'.pc = "ended" /\ report' \in ReportType
        /\ report'.stopped = "error" /\ ~report'.canSubmit
    <3>1. FALSE \in BOOLEAN /\ "error" \in {"done", "max-steps", "error"} /\ "error" # "done"
      OBVIOUS
    <3> QED
      BY <1>8, <3>1, StopType
  <2>2. AgentTypeOK'
    BY <1>2, <2>1, TypeNow, TypeAgain
  <2>3. AgentInv'
    BY <1>5, <2>1 DEF AgentIInv, AgentInv, AgAt, DoneMeansRecovered, Over
  <2> QED
    BY <1>3, <2>1, <2>2, <2>3 DEF AgentIInv, InTurn
<1> QED
  BY <1>6, <1>7, <1>8

\* A call that worked makes good what failed before it.
LEMMA ToolKeeps ==
  ASSUME AgentIInv, NEW tool \in AgTool, ToolWorks(tool)
  PROVE  AgentIInv'
<1>1. turn.pc = "act" /\ ~Over /\ turn.step < AgMaxSteps /\ "act" \in Part
  BY DEF ToolWorks, AgAt, Over, AgentIInv, InTurn, Part
<1>2. /\ agPast' \in PastType /\ agPast'.action = "ok"
      /\ observed' \in BOOLEAN /\ late' = late /\ report' = report
  <2>1. agPast' = [action |-> "ok", sent |-> Sending(tool)]
    BY DEF ToolWorks
  <2>2. observed' = (observed \/ tool = "change") /\ late' = late /\ report' = report
    BY DEF ToolWorks
  <2> QED
    BY <2>1, <2>2, SendingType DEF PastType
<1>3. errors' \in [Part -> ErrorType] /\ \A q \in Part : errors'[q].times < AgRecovery
  <2>1. \A q \in Part : errors[q].times < AgRecovery
    BY <1>1 DEF AgentIInv, Budget
  <2>2. /\ errors' \in [Part -> ErrorType] /\ errors'["act"].times = 0
        /\ \A q \in Part \ {"act"} : errors'[q] = errors[q]
    BY <1>1, ClearKeeps DEF ToolWorks
  <2> QED
    BY <2>1, <2>2
<1>4. turn' \in TurnType /\ turn'.pc = "observe"
  BY <1>1, NextTurnType DEF ToolWorks
<1>5. AgentTypeOK'
  BY <1>2, <1>3, <1>4, TypeNow, TypeAgain
<1>6. AgentInv'
  <2>1. report = NoReport
    BY <1>1 DEF AgentIInv, AgentInv
  <2> QED
    BY <1>2, <2>1 DEF AgentInv, DoneMeansRecovered, NoReport
<1> QED
  BY <1>3, <1>4, <1>5, <1>6 DEF AgentIInv, Budget, InTurn

\* A loop that throws leaves no report.
LEMMA ThrownKeeps ==
  ASSUME AgentIInv, NEW tool \in AgTool, StepNotLogged(tool)
  PROVE  AgentIInv'
<1>1. turn.pc = "act" /\ ~Over
  BY DEF StepNotLogged, AgAt, Over
<1>2. report = NoReport /\ report' = NoReport /\ errors' = errors
  BY <1>1 DEF AgentIInv, AgentInv, StepNotLogged
<1>3. turn' \in TurnType /\ turn'.pc = "thrown"
  BY GoType DEF StepNotLogged
<1>4. agPast' \in PastType /\ observed' \in BOOLEAN /\ late' \subseteq AgTool
  <2>1. CASE agPast' = [action |-> "ok", sent |-> Sending(tool)]
             /\ observed' = (observed \/ tool = "change") /\ late' = late
    BY <2>1, SendingType, TypeNow DEF PastType
  <2>2. CASE agPast' = [agPast EXCEPT !.action = "failed"]
             /\ late' \in {late, late \cup {tool}} /\ observed' = observed
    BY <2>2, TypeNow DEF PastType
  <2>3. CASE UNCHANGED <<observed, late, agPast>>
    BY <2>3, TypeNow
  <2> QED
    BY <2>1, <2>2, <2>3 DEF StepNotLogged
<1>5. AgentTypeOK'
  BY <1>2, <1>3, <1>4, TypeNow, TypeAgain
<1>6. AgentInv'
  BY <1>2, <1>3 DEF AgentInv, DoneMeansRecovered, AgAt, NoReport
<1> QED
  BY <1>3, <1>5, <1>6 DEF AgentIInv, Budget, InTurn, Over

\* The agent's own end: nothing that failed is still counted.
LEMMA DoneKeeps == ASSUME AgentIInv, Done PROVE AgentIInv'
<1>1. errors["act"].times = 0 /\ UNCHANGED <<errors, observed, late, agPast>>
  BY DEF Done
<1>2. PICK reached \in BOOLEAN : AgStop(reached, "done")
  BY DEF Done
<1>3. turn' \in TurnType /\ turn'.pc = "ended" /\ report' \in ReportType
  BY <1>2, StopType
<1>4. AgentTypeOK'
  BY <1>1, <1>3, TypeNow, TypeAgain
<1>5. agPast.action # "failed"
  <2>1. agPast.action = "failed" => errors["act"].times > 0
    BY DEF AgentIInv, AgentInv, Done, AgAt
  <2> QED
    BY <1>1, <2>1
<1>6. AgentInv'
  BY <1>1, <1>3, <1>5 DEF AgentInv, DoneMeansRecovered, Over
<1> QED
  BY <1>3, <1>4, <1>6 DEF AgentIInv, Budget, InTurn, Over

\* The steps that touch neither the counts nor the history of the actions.
LEMMA PlainKeeps ==
  ASSUME AgentIInv,
         \/ StartAgent \/ RunOut \/ ModelUnavailable \/ DoneRefused
         \/ \E tool \in AgTool : LateToolWorks(tool)
         \/ UNCHANGED agVars
  PROVE  AgentIInv'
<1>1. /\ errors' = errors /\ observed' = observed /\ late' \subseteq AgTool
      /\ agPast'.action = agPast.action /\ agPast' \in PastType
  <2>1. CASE \E tool \in AgTool : LateToolWorks(tool)
    <3>1. PICK tool \in AgTool : LateToolWorks(tool)
      BY <2>1
    <3>2. agPast' = [agPast EXCEPT !.sent = Sending(tool)]
      BY <3>1 DEF LateToolWorks
    <3>3. agPast'.action = agPast.action /\ agPast' \in PastType
      BY <3>2, TypeNow, SendingType DEF PastType
    <3> QED
      BY <3>1, <3>3, TypeNow DEF LateToolWorks
  <2>2. CASE StartAgent \/ RunOut \/ ModelUnavailable \/ DoneRefused \/ UNCHANGED agVars
    BY <2>2, TypeNow DEF StartAgent, RunOut, ModelUnavailable, DoneRefused, agVars
  <2> QED
    BY <2>1, <2>2
<1>2. CASE StartAgent \/ ModelUnavailable
  <2>1. ~Over /\ report' = report
    BY <1>2 DEF StartAgent, ModelUnavailable, AgAt, Over
  <2>2. turn' \in TurnType /\ turn'.pc \in {"observe", "thrown"}
    BY <1>2, GoType DEF StartAgent, ModelUnavailable, Part
  <2>3. AgentTypeOK'
    BY <1>1, <2>1, <2>2, TypeNow, TypeAgain
  <2>4. AgentInv'
    BY <1>1, <2>1, <2>3, QuietKeeps
  <2> QED
    BY <1>1, <2>1, <2>2, <2>3, <2>4 DEF AgentIInv, Budget, InTurn
<1>3. CASE DoneRefused
  <2>1. ~Over /\ report' = report /\ turn.step < AgMaxSteps /\ NextTurn
    BY <1>3 DEF DoneRefused, AgAt, Over, AgentIInv, InTurn
  <2>2. turn' \in TurnType /\ turn'.pc = "observe"
    BY <2>1, NextTurnType
  <2>3. AgentTypeOK'
    BY <1>1, <2>1, <2>2, TypeNow, TypeAgain
  <2>4. AgentInv'
    BY <1>1, <2>1, <2>3, QuietKeeps
  <2> QED
    BY <1>1, <2>1, <2>2, <2>3, <2>4 DEF AgentIInv, Budget, InTurn
<1>4. CASE RunOut
  <2>1. /\ turn' \in TurnType /\ turn'.pc = "ended" /\ report' \in ReportType
        /\ report'.stopped = "max-steps" /\ ~report'.canSubmit
    <3>1. FALSE \in BOOLEAN /\ "max-steps" \in {"done", "max-steps", "error"}
          /\ "max-steps" # "done"
      OBVIOUS
    <3>2. AgStop(FALSE, "max-steps")
      BY <1>4 DEF RunOut
    <3> QED
      BY <3>1, <3>2, StopType
  <2>2. AgentTypeOK'
    BY <1>1, <2>1, TypeAgain, TypeNow
  <2>3. AgentInv'
    <3>1. turn.pc = "observe"
      BY <1>4 DEF RunOut, AgAt
    <3> QED
      BY <1>1, <2>1, <3>1 DEF AgentIInv, AgentInv, AgAt, DoneMeansRecovered, Over
  <2> QED
    BY <2>1, <2>2, <2>3 DEF AgentIInv, Budget, InTurn, Over
<1>5. CASE UNCHANGED <<turn, report>>
  <2>1. AgentTypeOK'
    BY <1>1, <1>5, TypeNow, TypeAgain
  <2>2. AgentInv'
    BY <1>1, <1>5, <2>1, QuietKeeps DEF Over
  <2> QED
    BY <1>1, <1>5, <2>1, <2>2 DEF AgentIInv, Budget, InTurn, Over
<1> QED
  BY <1>2, <1>3, <1>4, <1>5 DEF LateToolWorks, agVars

LEMMA AgentNextInv == AgentIInv /\ [AgentNext]_agVars => AgentIInv'
<1> SUFFICES ASSUME AgentIInv, [AgentNext]_agVars PROVE AgentIInv'
  OBVIOUS
<1>1. CASE Observes
  BY <1>1, PartWorks DEF Observes, AgAt, StepLeft
<1>2. CASE CallsTool \/ AnswersInProse
  <2>1. turn.step < AgMaxSteps
    BY <1>2 DEF CallsTool, AnswersInProse, AgAt, AgentIInv, InTurn
  <2> QED
    BY <1>2, <2>1, PartWorks DEF CallsTool, AnswersInProse, AgAt
<1>3. ASSUME NEW key \in ErrorKey, ObserveFails(key)
      PROVE  AgentIInv'
  BY <1>3, PartFails DEF ObserveFails, AgAt, StepLeft
<1>4. ASSUME NEW key \in ErrorKey, ThinkFails(key)
      PROVE  AgentIInv'
  <2>1. turn.step < AgMaxSteps
    BY <1>4 DEF ThinkFails, AgAt, AgentIInv, InTurn
  <2> QED
    BY <1>4, <2>1, PartFails DEF ThinkFails, AgAt
<1> QED
  BY <1>1, <1>2, <1>3, <1>4, FailKeeps, ToolKeeps, ThrownKeeps, DoneKeeps,
     PlainKeeps DEF AgentNext

\* Every variable keeps its type: a part never counts more errors than its
\* budget, and the loop takes no more steps than its ceiling (agent/loop.ts).
THEOREM AgentTypeCorrect == AgentSpec => []AgentTypeOK
<1>1. AgentIInv => AgentTypeOK
  BY DEF AgentIInv
<1> QED
  BY <1>1, AgentInitInv, AgentNextInv, PTL DEF AgentSpec

\* A run that permits a submission has made good its last failed action,
\* whatever the step ceiling, the budget and the errors (agent/loop.ts:428-444).
THEOREM DoneAlwaysMeansRecovered == AgentSpec => []DoneMeansRecovered
<1>1. AgentIInv => DoneMeansRecovered
  BY DEF AgentIInv, AgentInv
<1> QED
  BY <1>1, AgentInitInv, AgentNextInv, PTL DEF AgentSpec

HIDE AgentAssumption DEF AgentAssumption

(***************************************************************************)
(* The gate of a job board. For any number of loops and listed jobs, any   *)
(* policy and any number of retries: at most one request more than the limit *)
(* is under way, and no interval sees more starts than that.               *)
(***************************************************************************)

USE FetchAssumption DEF FetchAssumption

GateType == [active : Int, since : 0..MinInterval, line : Seq(Loop)]
LoopType == [pc : LoopPC, job : 0..Listed, attempt : 0..Retries, left : 0..MinInterval]
NetType == [gate : GateType, loop : [Loop -> LoopType], age : [Loop -> 0..MinInterval]]

InGate == {"pausing", "fetching", "backing"}

\* The loops with a place in the gate; `active` counts them.
Under(n) == {l \in Loop : n.loop[l].pc \in InGate}

\* Who has started in the last `a` ticks, and who will before the first of
\* those starts is an interval old: those whose pause is over by then.
Burst(n, a) ==
    {m \in Loop : \/ n.age[m] <= a
                  \/ n.loop[m].pc = "pausing" /\ n.loop[m].left + a < MinInterval}

Counted(n) == n.gate.active = Cardinality(Under(n))

\* The line holds waiting loops, each once.
Queued(n) ==
    /\ \A i \in 1..Len(n.gate.line) : n.loop[n.gate.line[i]].pc = "waiting"
    /\ \A i, j \in 1..Len(n.gate.line) : i # j => n.gate.line[i] # n.gate.line[j]

\* lastStart is the last of the starts.
Latest(n) == \A l \in Loop : n.gate.since <= n.age[l]

\* No interval is fuller than the gate.
Calm(n) ==
    \A a \in 0..(MinInterval - 1) : Cardinality(Burst(n, a)) <= MaxConcurrent + 1

GateInv(n) == n \in NetType /\ Counted(n) /\ Queued(n) /\ Latest(n) /\ Calm(n)

InLine(n, l) == \E i \in 1..Len(n.gate.line) : n.gate.line[i] = l

(***************************************************************************)
(* What the gate's operators keep.                                         *)
(***************************************************************************)

LEMMA Finite ==
  \A S \in SUBSET Loop : IsFiniteSet(S) /\ Cardinality(S) \in Nat
BY FS_Subset, FS_CardinalityType

\* The gate, with a place taken or a request started.
LEMMA GateRecord ==
  ASSUME NEW g \in GateType, NEW h
  PROVE  /\ h = [g EXCEPT !.active = @ + 1] =>
             /\ h \in GateType
             /\ h.active = g.active + 1 /\ h.since = g.since /\ h.line = g.line
         /\ h = [g EXCEPT !.since = 0] =>
             /\ h \in GateType
             /\ h.active = g.active /\ h.since = 0 /\ h.line = g.line
BY DEF GateType

LEMMA LineRecord ==
  ASSUME NEW g \in GateType, NEW l \in Loop, NEW h, h = [g EXCEPT !.line = Append(@, l)]
  PROVE  /\ h \in GateType
         /\ h.active = g.active /\ h.since = g.since /\ h.line = Append(g.line, l)
         /\ g.line \in Seq(Loop)
<1>1. g.line \in Seq(Loop) /\ Append(g.line, l) \in Seq(Loop)
  BY DEF GateType
<1> DEFINE line == Append(g.line, l)
<1>2. h = [g EXCEPT !.line = line]
  OBVIOUS
<1>3. line \in Seq(Loop)
  BY <1>1
<1> HIDE DEF line
<1>4. h \in GateType /\ h.active = g.active /\ h.since = g.since /\ h.line = line
  BY <1>2, <1>3 DEF GateType
<1> QED
  BY <1>1, <1>4 DEF line

\* What Admitted makes of a gate whose last start is not an interval ago ...
LEMMA AdmittedLater ==
  ASSUME NEW n \in NetType, NEW l \in Loop, MinInterval - n.gate.since > 0
  PROVE  LET m == Admitted(n, l)
             r == [n.loop[l] EXCEPT !.pc = "pausing", !.left = MinInterval - n.gate.since]
         IN /\ m.gate = [n.gate EXCEPT !.active = @ + 1]
            /\ m.loop = [n.loop EXCEPT ![l] = r]
            /\ m.age = n.age
            /\ m = [gate |-> m.gate, loop |-> m.loop, age |-> m.age]
<1> DEFINE m == Admitted(n, l)
           r == [n.loop[l] EXCEPT !.pc = "pausing", !.left = MinInterval - n.gate.since]
           in == [n EXCEPT !.gate.active = @ + 1]
<1>1. in = [gate |-> [n.gate EXCEPT !.active = @ + 1], loop |-> n.loop, age |-> n.age]
  BY DEF NetType
<1>2. m = Moved(in, l, r)
  BY DEF Admitted
<1> HIDE DEF in
<1>3. Moved(in, l, r) =
        [gate |-> in.gate, loop |-> [in.loop EXCEPT ![l] = r], age |-> in.age]
  BY <1>1 DEF Moved
<1>4. in.gate = [n.gate EXCEPT !.active = @ + 1] /\ in.loop = n.loop /\ in.age = n.age
  BY <1>1
<1>5. /\ m.gate = in.gate /\ m.loop = [in.loop EXCEPT ![l] = r] /\ m.age = in.age
      /\ m = [gate |-> m.gate, loop |-> m.loop, age |-> m.age]
  BY <1>2, <1>3
<1> QED
  BY <1>4, <1>5

\* ... and of one that has rested.
LEMMA AdmittedNow ==
  ASSUME NEW n \in NetType, NEW l \in Loop, ~(MinInterval - n.gate.since > 0)
  PROVE  LET m == Admitted(n, l)
             r == [n.loop[l] EXCEPT !.pc = "fetching", !.left = 0]
         IN /\ m.gate = [[n.gate EXCEPT !.active = @ + 1] EXCEPT !.since = 0]
            /\ m.loop = [n.loop EXCEPT ![l] = r]
            /\ m.age = [n.age EXCEPT ![l] = 0]
            /\ m = [gate |-> m.gate, loop |-> m.loop, age |-> m.age]
<1> DEFINE m == Admitted(n, l)
           in == [n EXCEPT !.gate.active = @ + 1]
<1>1. in = [gate |-> [n.gate EXCEPT !.active = @ + 1], loop |-> n.loop, age |-> n.age]
  BY DEF NetType
<1>2. m = Started(in, l)
  BY DEF Admitted
<1> HIDE DEF in
<1>3. in.gate = [n.gate EXCEPT !.active = @ + 1] /\ in.loop = n.loop /\ in.age = n.age
  BY <1>1
<1>4. m = [gate |-> [in.gate EXCEPT !.since = 0],
           loop |-> [in.loop EXCEPT ![l] = [@ EXCEPT !.pc = "fetching", !.left = 0]],
           age |-> [in.age EXCEPT ![l] = 0]]
  BY <1>2 DEF Started
<1>5. /\ m.gate = [in.gate EXCEPT !.since = 0]
      /\ m.loop = [in.loop EXCEPT ![l] = [@ EXCEPT !.pc = "fetching", !.left = 0]]
      /\ m.age = [in.age EXCEPT ![l] = 0]
      /\ m = [gate |-> m.gate, loop |-> m.loop, age |-> m.age]
  BY <1>4
<1> QED
  BY <1>3, <1>5

\* Only a loop that waits is in the line.
LEMMA Elsewhere ==
  ASSUME NEW n, Queued(n), NEW l, n.loop[l].pc # "waiting"
  PROVE  ~InLine(n, l)
BY DEF Queued, InLine

\* A loop that is not in the line may move.
LEMMA LineKept ==
  ASSUME NEW n \in NetType, Queued(n), NEW l \in Loop, ~InLine(n, l), NEW r, NEW m,
         m.gate.line = n.gate.line, m.loop = [n.loop EXCEPT ![l] = r]
  PROVE  Queued(m) /\ \A k : InLine(m, k) <=> InLine(n, k)
<1>1. n.loop \in [Loop -> LoopType] /\ n.gate.line \in Seq(Loop)
  BY DEF NetType, GateType
<1>2. \A i \in 1..Len(n.gate.line) : n.gate.line[i] \in Loop /\ n.gate.line[i] # l
  BY <1>1 DEF InLine
<1> QED
  BY <1>1, <1>2 DEF Queued, InLine

LEMMA UnderIn ==
  ASSUME NEW n \in NetType, NEW l \in Loop, n.loop[l].pc \notin InGate,
         NEW r, r.pc \in InGate, NEW m, m.loop = [n.loop EXCEPT ![l] = r]
  PROVE  Cardinality(Under(m)) = Cardinality(Under(n)) + 1
<1>1. n.loop \in [Loop -> LoopType]
  BY DEF NetType
<1>2. Under(m) = Under(n) \cup {l} /\ l \notin Under(n)
  BY <1>1 DEF Under
<1>3. IsFiniteSet(Under(n))
  BY Finite DEF Under
<1> QED
  BY <1>2, <1>3, FS_AddElement

LEMMA UnderOut ==
  ASSUME NEW n \in NetType, NEW l \in Loop, n.loop[l].pc \in InGate,
         NEW r, r.pc \notin InGate, NEW m, m.loop = [n.loop EXCEPT ![l] = r]
  PROVE  Cardinality(Under(m)) = Cardinality(Under(n)) - 1
<1>1. n.loop \in [Loop -> LoopType]
  BY DEF NetType
<1>2. Under(m) = Under(n) \ {l} /\ l \in Under(n)
  BY <1>1 DEF Under
<1>3. IsFiniteSet(Under(n))
  BY Finite DEF Under
<1> QED
  BY <1>2, <1>3, FS_RemoveElement

LEMMA UnderSame ==
  ASSUME NEW n \in NetType, NEW l \in Loop, NEW r,
         r.pc \in InGate <=> n.loop[l].pc \in InGate,
         NEW m, m.loop = [n.loop EXCEPT ![l] = r]
  PROVE  Under(m) = Under(n)
<1>1. n.loop \in [Loop -> LoopType]
  BY DEF NetType
<1> QED
  BY <1>1 DEF Under

\* A loop that neither pauses before nor after its move is in no burst anew.
LEMMA CalmKept ==
  ASSUME NEW n \in NetType, NEW l \in Loop, n.loop[l].pc # "pausing",
         NEW r, NEW m, m.loop = [n.loop EXCEPT ![l] = r], m.age = n.age,
         r.pc # "pausing", Calm(n)
  PROVE  Calm(m)
<1>1. n.loop \in [Loop -> LoopType]
  BY DEF NetType
<1>2. \A a : Burst(m, a) = Burst(n, a)
  BY <1>1 DEF Burst
<1> QED
  BY <1>2 DEF Calm

\* With no start in those ticks, a burst is a part of what the gate holds.
LEMMA BurstInGate ==
  ASSUME NEW m, m.gate.active <= MaxConcurrent + 1, Counted(m),
         NEW a, \A q \in Loop : m.age[q] <= a => m.loop[q].pc \in InGate
  PROVE  Cardinality(Burst(m, a)) <= MaxConcurrent + 1
<1>1. Burst(m, a) \subseteq Under(m)
  BY DEF Burst, Under, InGate
<1>2. IsFiniteSet(Under(m)) /\ Cardinality(Under(m)) <= MaxConcurrent + 1
  BY Finite DEF Counted, Under
<1>3. Cardinality(Burst(m, a)) <= Cardinality(Under(m))
  BY <1>1, <1>2, FS_Subset
<1>4. Cardinality(Burst(m, a)) \in Int /\ Cardinality(Under(m)) \in Int
  BY Finite DEF Burst, Under
<1> QED
  BY <1>2, <1>3, <1>4

\* A move outside the gate, or inside it without a pause.
LEMMA MovedKeeps ==
  ASSUME NEW n, GateInv(n), NEW l \in Loop, NEW next \in LoopType,
         n.loop[l].pc \in InGate <=> next.pc \in InGate, ~InLine(n, l),
         n.loop[l].pc # "pausing", next.pc # "pausing"
  PROVE  GateInv(Moved(n, l, next)) /\ Moved(n, l, next).gate = n.gate
<1> DEFINE m == Moved(n, l, next)
<1>1. /\ m \in NetType /\ m.gate = n.gate /\ m.age = n.age
      /\ m.loop = [n.loop EXCEPT ![l] = next]
  BY DEF GateInv, NetType, Moved
<1>2. n \in NetType /\ Counted(n) /\ Queued(n) /\ Latest(n) /\ Calm(n)
  BY DEF GateInv
<1> HIDE DEF m
<1>3. Under(m) = Under(n)
  BY <1>1, <1>2, UnderSame
<1>4. Queued(m)
  BY <1>1, <1>2, LineKept
<1>5. Calm(m)
  BY <1>1, <1>2, CalmKept
<1>6. GateInv(m)
  BY <1>1, <1>2, <1>3, <1>4, <1>5 DEF GateInv, Counted, Latest
<1> QED
  BY <1>1, <1>6 DEF m

\* A request that goes out after its pause: it was counted in every burst it
\* belongs to, unless it is the first for an interval.
LEMMA StartedKeeps ==
  ASSUME NEW n, GateInv(n), NEW l \in Loop, n.gate.active <= MaxConcurrent + 1,
         n.loop[l].pc = "pausing", n.loop[l].left = 0
  PROVE  GateInv(Started(n, l)) /\ Started(n, l).gate.active = n.gate.active
<1> DEFINE m == Started(n, l)
<1> DEFINE r == [n.loop[l] EXCEPT !.pc = "fetching", !.left = 0]
<1>1. n \in NetType /\ Counted(n) /\ Queued(n) /\ Latest(n) /\ Calm(n)
  BY DEF GateInv
<1>2. /\ n.loop \in [Loop -> LoopType] /\ n.age \in [Loop -> 0..MinInterval]
      /\ n.gate \in GateType
  BY <1>1 DEF NetType
<1>3. r \in LoopType /\ r.pc = "fetching"
  <2>1. n.loop[l] \in LoopType /\ "fetching" \in LoopPC /\ 0 \in 0..MinInterval
    BY <1>2 DEF LoopPC
  <2> QED
    BY <2>1 DEF LoopType
<1>4. /\ m.gate = [n.gate EXCEPT !.since = 0]
      /\ m.loop = [n.loop EXCEPT ![l] = r]
      /\ m.age = [n.age EXCEPT ![l] = 0]
      /\ m = [gate |-> m.gate, loop |-> m.loop, age |-> m.age]
  BY DEF Started
<1>5. /\ m.gate \in GateType /\ m.gate.active = n.gate.active
      /\ m.gate.line = n.gate.line /\ m.gate.since = 0
  BY <1>2, <1>4, GateRecord
<1> HIDE DEF m, r
<1>6. m \in NetType
  BY <1>2, <1>3, <1>4, <1>5 DEF NetType
<1>7. Counted(m)
  <2>1. r.pc \in InGate /\ n.loop[l].pc \in InGate
    BY <1>3 DEF InGate
  <2>2. Under(m) = Under(n)
    BY <1>1, <1>4, <2>1, UnderSame
  <2> QED
    BY <1>1, <1>5, <2>2 DEF Counted
<1>8. Queued(m)
  <2>1. ~InLine(n, l)
    BY <1>1, Elsewhere
  <2>2. m.gate.line = n.gate.line /\ m.loop = [n.loop EXCEPT ![l] = r]
    BY <1>4, <1>5
  <2> QED
    BY <1>1, <2>1, <2>2, LineKept
<1>9. Latest(m)
  BY <1>2, <1>4 DEF Latest, GateType
<1>10. Calm(m)
  <2>1. m.loop[l].pc = "fetching" /\ \A k \in Loop \ {l} : m.loop[k] = n.loop[k]
    BY <1>2, <1>3, <1>4
  <2>2. ASSUME NEW a \in 0..(MinInterval - 1) PROVE Burst(m, a) = Burst(n, a) \cup {l}
    BY <1>2, <1>4, <2>1 DEF Burst
  <2>3. ASSUME NEW a \in 0..(MinInterval - 1) PROVE l \in Burst(n, a)
    BY DEF Burst
  <2>4. ASSUME NEW a \in 0..(MinInterval - 1) PROVE Burst(m, a) = Burst(n, a)
    BY <2>2, <2>3
  <2> QED
    BY <1>1, <2>4 DEF Calm
<1>11. GateInv(m)
  BY <1>6, <1>7, <1>8, <1>9, <1>10 DEF GateInv
<1> QED
  BY <1>5, <1>11 DEF m

\* A place for one loop more. If it pauses, its start comes when the interval
\* of every start before it is over; if not, nobody has started in one.
LEMMA AdmittedKeeps ==
  ASSUME NEW n, GateInv(n), NEW l \in Loop, n.gate.active <= MaxConcurrent,
         n.loop[l].pc \notin InGate, ~InLine(n, l)
  PROVE  /\ GateInv(Admitted(n, l))
         /\ Admitted(n, l).gate.active = n.gate.active + 1
<1> DEFINE m == Admitted(n, l)
           wait == MinInterval - n.gate.since
<1>1. n \in NetType /\ Counted(n) /\ Queued(n) /\ Latest(n) /\ Calm(n)
  BY DEF GateInv
<1>2. /\ n.loop \in [Loop -> LoopType] /\ n.age \in [Loop -> 0..MinInterval]
      /\ n.gate \in GateType /\ n = [gate |-> n.gate, loop |-> n.loop, age |-> n.age]
  BY <1>1 DEF NetType
<1>3. n.gate.active \in Int /\ n.gate.since \in 0..MinInterval
  BY <1>2 DEF GateType
<1>4. CASE wait > 0
  <2> DEFINE r == [n.loop[l] EXCEPT !.pc = "pausing", !.left = wait]
  <2>1. r \in LoopType /\ r.pc = "pausing" /\ r.left = wait
    <3>1. n.loop[l] \in LoopType /\ "pausing" \in LoopPC /\ wait \in 0..MinInterval
      BY <1>2, <1>3, <1>4 DEF LoopPC
    <3> HIDE DEF wait
    <3> QED
      BY <3>1 DEF LoopType
  <2>2. /\ m.gate = [n.gate EXCEPT !.active = @ + 1]
        /\ m.loop = [n.loop EXCEPT ![l] = r]
        /\ m.age = n.age
        /\ m = [gate |-> m.gate, loop |-> m.loop, age |-> m.age]
    BY <1>1, <1>4, AdmittedLater
  <2>3. /\ m.gate \in GateType /\ m.gate.active = n.gate.active + 1
        /\ m.gate.line = n.gate.line /\ m.gate.since = n.gate.since
    BY <1>2, <2>2, GateRecord
  <2> HIDE DEF m, r
  <2>4. m \in NetType
    BY <1>2, <2>1, <2>2, <2>3 DEF NetType
  <2>5. Counted(m)
    <3>1. r.pc \in InGate
      BY <2>1 DEF InGate
    <3>2. Cardinality(Under(m)) = Cardinality(Under(n)) + 1
      BY <1>1, <2>2, <3>1, UnderIn
    <3> QED
      BY <1>1, <2>3, <3>2 DEF Counted
  <2>6. Queued(m)
    <3>1. m.gate.line = n.gate.line /\ m.loop = [n.loop EXCEPT ![l] = r]
      BY <2>2, <2>3
    <3> QED
      BY <1>1, <3>1, LineKept
  <2>7. n.loop[l].pc # "pausing" /\ \A k \in Loop \ {l} : m.loop[k] = n.loop[k]
    BY <1>2, <2>2 DEF InGate
  <2>8. ASSUME NEW a \in 0..(MinInterval - 1)
        PROVE  Cardinality(Burst(m, a)) <= MaxConcurrent + 1
    <3>1. CASE a < n.gate.since
      <4>1. \A q \in Loop : ~(m.age[q] <= a)
        BY <1>1, <1>2, <1>3, <2>2, <3>1 DEF Latest
      <4>2. m.gate.active <= MaxConcurrent + 1
        BY <1>3, <2>3
      <4> QED
        BY <2>5, <4>1, <4>2, BurstInGate
    <3>2. CASE ~(a < n.gate.since)
      <4>1. m.loop[l] = r /\ ~(r.left + a < MinInterval)
        BY <1>2, <1>3, <2>1, <2>2, <3>2
      <4>2. Burst(m, a) = Burst(n, a)
        BY <2>2, <2>7, <4>1 DEF Burst
      <4> QED
        BY <1>1, <4>2 DEF Calm
    <3> QED
      BY <3>1, <3>2
  <2>9. GateInv(m)
    BY <1>1, <2>2, <2>3, <2>4, <2>5, <2>6, <2>8 DEF GateInv, Latest, Calm
  <2> QED
    BY <2>3, <2>9 DEF m
<1>5. CASE ~(wait > 0)
  <2> DEFINE r == [n.loop[l] EXCEPT !.pc = "fetching", !.left = 0]
  <2>1. r \in LoopType /\ r.pc = "fetching"
    <3>1. n.loop[l] \in LoopType /\ "fetching" \in LoopPC /\ 0 \in 0..MinInterval
      BY <1>2 DEF LoopPC
    <3> QED
      BY <3>1 DEF LoopType
  <2>2. /\ m.gate = [[n.gate EXCEPT !.active = @ + 1] EXCEPT !.since = 0]
        /\ m.loop = [n.loop EXCEPT ![l] = r]
        /\ m.age = [n.age EXCEPT ![l] = 0]
        /\ m = [gate |-> m.gate, loop |-> m.loop, age |-> m.age]
    BY <1>1, <1>5, AdmittedNow
  <2>3. /\ m.gate \in GateType /\ m.gate.active = n.gate.active + 1
        /\ m.gate.line = n.gate.line /\ m.gate.since = 0
    <3> DEFINE h == [n.gate EXCEPT !.active = @ + 1]
    <3>1. h \in GateType /\ h.active = n.gate.active + 1 /\ h.line = n.gate.line
      BY <1>2, GateRecord
    <3>2. m.gate = [h EXCEPT !.since = 0]
      BY <2>2
    <3> HIDE DEF h
    <3> QED
      BY <3>1, <3>2, GateRecord
  <2> HIDE DEF m, r
  <2>4. m \in NetType
    BY <1>2, <2>1, <2>2, <2>3 DEF NetType
  <2>5. Counted(m)
    <3>1. r.pc \in InGate
      BY <2>1 DEF InGate
    <3>2. Cardinality(Under(m)) = Cardinality(Under(n)) + 1
      BY <1>1, <2>2, <3>1, UnderIn
    <3> QED
      BY <1>1, <2>3, <3>2 DEF Counted
  <2>6. Queued(m)
    <3>1. m.gate.line = n.gate.line /\ m.loop = [n.loop EXCEPT ![l] = r]
      BY <2>2, <2>3
    <3> QED
      BY <1>1, <3>1, LineKept
  <2>7. \A k \in Loop \ {l} : m.age[k] = MinInterval
    BY <1>1, <1>2, <1>3, <1>5, <2>2 DEF Latest
  <2>8. m.age[l] = 0 /\ m.loop[l].pc \in InGate
    BY <1>2, <2>1, <2>2 DEF InGate
  <2>9. ASSUME NEW a \in 0..(MinInterval - 1)
        PROVE  Cardinality(Burst(m, a)) <= MaxConcurrent + 1
    <3>1. \A q \in Loop : m.age[q] <= a => m.loop[q].pc \in InGate
      BY <2>7, <2>8
    <3>2. m.gate.active <= MaxConcurrent + 1
      BY <1>3, <2>3
    <3> QED
      BY <2>5, <3>1, <3>2, BurstInGate
  <2>10. Latest(m)
    BY <2>3, <2>7, <2>8 DEF Latest
  <2>11. GateInv(m)
    BY <2>4, <2>5, <2>6, <2>9, <2>10 DEF GateInv, Calm
  <2> QED
    BY <2>3, <2>11 DEF m
<1> QED
  BY <1>4, <1>5

LEMMA AdmittedElse ==
  ASSUME NEW n \in NetType, NEW l \in Loop
  PROVE  \A k \in Loop \ {l} :
            /\ Admitted(n, l).loop[k] = n.loop[k]
            /\ InLine(Admitted(n, l), k) => InLine(n, k)
<1> DEFINE m == Admitted(n, l)
<1>1. n.gate \in GateType /\ n.loop \in [Loop -> LoopType] /\ n.gate.since \in 0..MinInterval
  BY DEF NetType, GateType
<1>2. \E r : m.loop = [n.loop EXCEPT ![l] = r]
  <2>1. CASE MinInterval - n.gate.since > 0
    <3>1. m.loop = [n.loop EXCEPT ![l] =
             [n.loop[l] EXCEPT !.pc = "pausing", !.left = MinInterval - n.gate.since]]
      BY <2>1, AdmittedLater
    <3> QED
      BY <3>1
  <2>2. CASE ~(MinInterval - n.gate.since > 0)
    <3>1. m.loop = [n.loop EXCEPT ![l] = [n.loop[l] EXCEPT !.pc = "fetching", !.left = 0]]
      BY <2>2, AdmittedNow
    <3> QED
      BY <3>1
  <2> QED
    BY <2>1, <2>2
<1>3. m.gate.line = n.gate.line
  <2> DEFINE h == [n.gate EXCEPT !.active = @ + 1]
  <2>1. h \in GateType /\ h.line = n.gate.line
    BY <1>1, GateRecord
  <2>2. m.gate = h \/ m.gate = [h EXCEPT !.since = 0]
    BY <1>1, AdmittedLater, AdmittedNow
  <2> HIDE DEF h, m
  <2> QED
    BY <2>1, <2>2, GateRecord
<1> HIDE DEF m
<1>4. \A k \in Loop \ {l} : m.loop[k] = n.loop[k] /\ (InLine(m, k) => InLine(n, k))
  BY <1>1, <1>2, <1>3 DEF InLine
<1> QED
  BY <1>4 DEF m

\* The line takes one loop more at its end.
LEMMA QueuedKeeps ==
  ASSUME NEW n, GateInv(n), NEW l \in Loop, n.gate.active >= MaxConcurrent,
         n.loop[l].pc \notin InGate, ~InLine(n, l)
  PROVE  /\ GateInv(Acquired(n, l))
         /\ Acquired(n, l).gate.active = n.gate.active
         /\ \A k \in Loop \ {l} :
               /\ Acquired(n, l).loop[k] = n.loop[k]
               /\ InLine(Acquired(n, l), k) => InLine(n, k)
<1> DEFINE m == Acquired(n, l)
           r == [n.loop[l] EXCEPT !.pc = "waiting"]
           in == [n EXCEPT !.gate.line = Append(@, l)]
<1>1. n \in NetType /\ Counted(n) /\ Queued(n) /\ Latest(n) /\ Calm(n)
  BY DEF GateInv
<1>2. /\ n.loop \in [Loop -> LoopType] /\ n.age \in [Loop -> 0..MinInterval]
      /\ n.gate \in GateType
  BY <1>1 DEF NetType
<1>3. r \in LoopType /\ r.pc = "waiting"
  <2>1. n.loop[l] \in LoopType /\ "waiting" \in LoopPC
    BY <1>2 DEF LoopPC
  <2> QED
    BY <2>1 DEF LoopType
<1>4. m = Moved(in, l, r)
  BY DEF Acquired
<1>5. in = [gate |-> [n.gate EXCEPT !.line = Append(@, l)], loop |-> n.loop, age |-> n.age]
  <2>1. n = [gate |-> n.gate, loop |-> n.loop, age |-> n.age]
    BY <1>1 DEF NetType
  <2>2. in = [n EXCEPT !.gate = [n.gate EXCEPT !.line = Append(n.gate.line, l)]]
    OBVIOUS
  <2> QED
    BY <2>1, <2>2
<1> HIDE DEF in, m, r
<1>6. m = [gate |-> in.gate, loop |-> [in.loop EXCEPT ![l] = r], age |-> in.age]
  BY <1>4, <1>5 DEF Moved
<1>7. in.gate = [n.gate EXCEPT !.line = Append(@, l)] /\ in.loop = n.loop /\ in.age = n.age
  BY <1>5
<1>8. /\ m.gate = [n.gate EXCEPT !.line = Append(@, l)]
      /\ m.loop = [n.loop EXCEPT ![l] = r] /\ m.age = n.age
      /\ m = [gate |-> m.gate, loop |-> m.loop, age |-> m.age]
  BY <1>6, <1>7
<1>9. /\ m.gate \in GateType /\ m.gate.active = n.gate.active
      /\ m.gate.since = n.gate.since /\ m.gate.line = Append(n.gate.line, l)
      /\ n.gate.line \in Seq(Loop)
  BY <1>2, <1>8, LineRecord
<1>10. m \in NetType
  BY <1>2, <1>3, <1>8, <1>9 DEF NetType
<1>11. Counted(m)
  <2>1. r.pc \notin InGate
    BY <1>3 DEF InGate
  <2>2. Under(m) = Under(n)
    BY <1>1, <1>8, <2>1, UnderSame
  <2> QED
    BY <1>1, <1>9, <2>2 DEF Counted
<1>12. \A k \in Loop \ {l} : m.loop[k] = n.loop[k] /\ (InLine(m, k) => InLine(n, k))
  BY <1>2, <1>8, <1>9 DEF InLine
<1>13. Queued(m)
  <2>1. \A i \in 1..Len(n.gate.line) : n.gate.line[i] \in Loop /\ n.gate.line[i] # l
    BY <1>9 DEF InLine
  <2>2. \A i \in 1..Len(m.gate.line) :
           m.gate.line[i] = IF i \in 1..Len(n.gate.line) THEN n.gate.line[i] ELSE l
    BY <1>9
  <2>3. Len(m.gate.line) = Len(n.gate.line) + 1 /\ Len(n.gate.line) \in Nat
    BY <1>9
  <2>4. m.loop[l].pc = "waiting"
    BY <1>2, <1>3, <1>8
  <2>5. \A i \in 1..Len(m.gate.line) : m.loop[m.gate.line[i]].pc = "waiting"
    <3> SUFFICES ASSUME NEW i \in 1..Len(m.gate.line)
                 PROVE  m.loop[m.gate.line[i]].pc = "waiting"
      OBVIOUS
    <3>1. CASE i \in 1..Len(n.gate.line)
      <4>1. n.loop[n.gate.line[i]].pc = "waiting"
        BY <1>1, <3>1 DEF Queued
      <4> QED BY <1>12, <2>1, <2>2, <3>1, <4>1
    <3>2. CASE i \notin 1..Len(n.gate.line)
      BY <2>2, <2>4, <3>2
    <3> QED BY <3>1, <3>2
  <2>6. \A i, j \in 1..Len(m.gate.line) : i # j => m.gate.line[i] # m.gate.line[j]
    <3> SUFFICES ASSUME NEW i \in 1..Len(m.gate.line), NEW j \in 1..Len(m.gate.line), i # j
                 PROVE  m.gate.line[i] # m.gate.line[j]
      OBVIOUS
    <3>1. CASE i \in 1..Len(n.gate.line) /\ j \in 1..Len(n.gate.line)
      BY <1>1, <2>2, <3>1 DEF Queued
    <3>2. i \in 1..Len(n.gate.line) \/ j \in 1..Len(n.gate.line)
      BY <2>3
    <3> QED BY <2>1, <2>2, <3>1, <3>2
  <2> QED
    BY <2>5, <2>6 DEF Queued
<1>14. Calm(m)
  <2>1. n.loop[l].pc # "pausing" /\ r.pc # "pausing"
    BY <1>3 DEF InGate
  <2> QED
    BY <1>1, <1>8, <2>1, CalmKept
<1>15. GateInv(m)
  BY <1>1, <1>8, <1>9, <1>10, <1>11, <1>13, <1>14 DEF GateInv, Latest
<1> QED
  BY <1>9, <1>12, <1>15 DEF m

\* acquire: a place, or one at the end of the line.
LEMMA AcquiredKeeps ==
  ASSUME NEW n, GateInv(n), NEW l \in Loop,
         n.loop[l].pc \notin InGate, ~InLine(n, l)
  PROVE  /\ GateInv(Acquired(n, l))
         /\ n.gate.active < MaxConcurrent =>
               Acquired(n, l).gate.active = n.gate.active + 1
         /\ n.gate.active >= MaxConcurrent =>
               Acquired(n, l).gate.active = n.gate.active
         /\ \A k \in Loop \ {l} :
               /\ Acquired(n, l).loop[k] = n.loop[k]
               /\ InLine(Acquired(n, l), k) => InLine(n, k)
<1>1. n \in NetType /\ n.gate \in GateType /\ n.loop \in [Loop -> LoopType]
  BY DEF GateInv, NetType
<1>2. n.gate.active \in Int /\ n.gate.since \in 0..MinInterval
  BY <1>1 DEF GateType
<1>3. CASE n.gate.active >= MaxConcurrent
  BY <1>2, <1>3, QueuedKeeps
<1>4. CASE n.gate.active < MaxConcurrent
  <2>1. Acquired(n, l) = Admitted(n, l)
    BY <1>2, <1>4 DEF Acquired
  <2>2. /\ GateInv(Admitted(n, l))
        /\ Admitted(n, l).gate.active = n.gate.active + 1
    BY <1>2, <1>4, AdmittedKeeps
  <2>3. \A k \in Loop \ {l} :
           /\ Admitted(n, l).loop[k] = n.loop[k]
           /\ InLine(Admitted(n, l), k) => InLine(n, k)
    BY <1>1, AdmittedElse
  <2> QED
    BY <1>2, <1>4, <2>1, <2>2, <2>3
<1> QED
  BY <1>2, <1>3, <1>4

LEMMA BehindIs ==
  ASSUME NEW S, NEW s \in Seq(S)
  PROVE  /\ Behind(s) \in Seq(S)
         /\ \A i \in 1..Len(Behind(s)) : i + 1 \in 1..Len(s) /\ Behind(s)[i] = s[i + 1]
<1>1. CASE s = <<>>
  <2>1. Behind(s) = <<>>
    BY <1>1 DEF Behind
  <2> QED
    BY <2>1
<1>2. CASE s # <<>>
  <2>1. Behind(s) = Tail(s)
    BY <1>2 DEF Behind
  <2>2. /\ Tail(s) \in Seq(S) /\ Len(Tail(s)) = Len(s) - 1 /\ Len(s) \in Nat
        /\ \A i \in 1..Len(Tail(s)) : Tail(s)[i] = s[i + 1]
    BY <1>2
  <2> QED
    BY <2>1, <2>2
<1> QED
  BY <1>1, <1>2

LEMMA LeftRecord ==
  ASSUME NEW g \in GateType, NEW h,
         h = [g EXCEPT !.active = @ - 1, !.line = Behind(@)]
  PROVE  /\ h \in GateType
         /\ h.active = g.active - 1 /\ h.since = g.since /\ h.line = Behind(g.line)
<1>1. g.line \in Seq(Loop) /\ g.active \in Int
  BY DEF GateType
<1>2. Behind(g.line) \in Seq(Loop)
  BY <1>1, BehindIs
<1> DEFINE line == Behind(g.line)
           active == g.active - 1
<1>3. /\ line \in Seq(Loop) /\ active \in Int
      /\ h = [g EXCEPT !.active = active, !.line = line]
  BY <1>1, <1>2
<1> HIDE DEF line, active
<1>4. h \in GateType /\ h.active = active /\ h.since = g.since /\ h.line = line
  BY <1>3 DEF GateType
<1> QED
  BY <1>4 DEF line, active

\* release: the place is free, and the first of the line is out of it.
LEMMA VacatedKeeps ==
  ASSUME NEW n, GateInv(n), NEW l \in Loop, NEW next \in LoopType,
         n.loop[l].pc \in InGate, n.loop[l].pc # "pausing", next.pc \notin InGate,
         next.pc # "waiting"
  PROVE  LET m == Vacated(n, l, next)
         IN /\ GateInv(m) /\ m.gate.active = n.gate.active - 1
            /\ m.loop[l] = next /\ ~InLine(m, l)
            /\ n.gate.line # <<>> =>
                  /\ Head(n.gate.line) \in Loop \ {l}
                  /\ m.loop[Head(n.gate.line)].pc = "waiting"
                  /\ ~InLine(m, Head(n.gate.line))
<1> DEFINE m == Vacated(n, l, next)
           g == [n.gate EXCEPT !.active = @ - 1, !.line = Behind(@)]
<1>1. n \in NetType /\ Counted(n) /\ Queued(n) /\ Latest(n) /\ Calm(n)
  BY DEF GateInv
<1>2. /\ n.loop \in [Loop -> LoopType] /\ n.age \in [Loop -> 0..MinInterval]
      /\ n.gate \in GateType
  BY <1>1 DEF NetType
<1>3. n.gate.line \in Seq(Loop)
  BY <1>2 DEF GateType
<1>4. /\ m.gate = g /\ m.loop = [n.loop EXCEPT ![l] = next] /\ m.age = n.age
      /\ m = [gate |-> m.gate, loop |-> m.loop, age |-> m.age]
  BY DEF Vacated
<1>5. /\ g \in GateType /\ g.active = n.gate.active - 1
      /\ g.since = n.gate.since /\ g.line = Behind(n.gate.line)
  <2>1. g = [n.gate EXCEPT !.active = @ - 1, !.line = Behind(@)]
    OBVIOUS
  <2> HIDE DEF g
  <2> QED
    BY <1>2, <2>1, LeftRecord
<1> HIDE DEF m, g
<1>7. /\ m.gate.line = Behind(n.gate.line) /\ m.gate.active = n.gate.active - 1
      /\ m.gate.since = n.gate.since
  BY <1>4, <1>5
<1>8. m \in NetType
  BY <1>2, <1>4, <1>5 DEF NetType
<1>9. Counted(m)
  <2>1. Cardinality(Under(m)) = Cardinality(Under(n)) - 1
    BY <1>1, <1>4, UnderOut
  <2> QED
    BY <1>1, <1>7, <2>1 DEF Counted
<1>10. Calm(m)
  <2>1. next.pc # "pausing"
    BY DEF InGate
  <2> QED
    BY <1>1, <1>4, <2>1, CalmKept
<1>11. \A i \in 1..Len(n.gate.line) :
          n.gate.line[i] \in Loop /\ n.gate.line[i] # l
          /\ n.loop[n.gate.line[i]].pc = "waiting"
  <2>1. n.loop[l].pc # "waiting"
    BY DEF InGate
  <2>2. ASSUME NEW i \in 1..Len(n.gate.line)
        PROVE  n.gate.line[i] \in Loop /\ n.loop[n.gate.line[i]].pc = "waiting"
    BY <1>1, <1>3 DEF Queued
  <2> QED
    BY <2>1, <2>2
<1>12. \A i \in 1..Len(m.gate.line) :
          i + 1 \in 1..Len(n.gate.line) /\ m.gate.line[i] = n.gate.line[i + 1]
  BY <1>3, <1>7, BehindIs
<1>13. Queued(m)
  <2>1. ASSUME NEW i \in 1..Len(m.gate.line) PROVE m.loop[m.gate.line[i]].pc = "waiting"
    <3>1. m.gate.line[i] \in Loop \ {l} /\ n.loop[m.gate.line[i]].pc = "waiting"
      BY <1>11, <1>12
    <3> QED
      BY <1>2, <1>4, <3>1
  <2>2. ASSUME NEW i \in 1..Len(m.gate.line), NEW j \in 1..Len(m.gate.line), i # j
        PROVE  m.gate.line[i] # m.gate.line[j]
    <3>1. i \in Int /\ j \in Int
      OBVIOUS
    <3>2. i + 1 # j + 1
      BY <2>2, <3>1
    <3>3. \A a, b \in 1..Len(n.gate.line) : a # b => n.gate.line[a] # n.gate.line[b]
      BY <1>1 DEF Queued
    <3> QED
      BY <1>12, <3>2, <3>3
  <2> QED
    BY <2>1, <2>2 DEF Queued
<1>14. m.loop[l] = next /\ ~InLine(m, l)
  <2>1. m.loop[l] = next
    BY <1>2, <1>4
  <2>2. ASSUME NEW i \in 1..Len(m.gate.line) PROVE m.gate.line[i] # l
    BY <1>11, <1>12
  <2> QED
    BY <2>1, <2>2 DEF InLine
<1>15. ASSUME n.gate.line # <<>>
       PROVE  /\ Head(n.gate.line) \in Loop \ {l}
              /\ m.loop[Head(n.gate.line)].pc = "waiting"
              /\ ~InLine(m, Head(n.gate.line))
  <2>1. Head(n.gate.line) = n.gate.line[1] /\ 1 \in 1..Len(n.gate.line)
    BY <1>3, <1>15
  <2>2. ASSUME NEW i \in 1..Len(m.gate.line) PROVE m.gate.line[i] # n.gate.line[1]
    <3>1. i \in Int /\ i >= 1 /\ i + 1 # 1
      OBVIOUS
    <3>2. \A a, b \in 1..Len(n.gate.line) : a # b => n.gate.line[a] # n.gate.line[b]
      BY <1>1 DEF Queued
    <3> QED
      BY <1>12, <2>1, <3>1, <3>2
  <2>3. Head(n.gate.line) \in Loop \ {l} /\ n.loop[Head(n.gate.line)].pc = "waiting"
    BY <1>11, <2>1
  <2> QED
    BY <1>2, <1>4, <2>1, <2>2, <2>3 DEF InLine
<1>16. GateInv(m)
  BY <1>1, <1>4, <1>7, <1>8, <1>9, <1>10, <1>13 DEF GateInv, Latest
<1> QED
  BY <1>7, <1>14, <1>15, <1>16 DEF m

(***************************************************************************)
(* What a turn keeps.                                                      *)
(***************************************************************************)

Fits(n) == n.gate.active <= MaxConcurrent + 1

LEMMA ActiveInt == ASSUME NEW n, GateInv(n) PROVE n.gate.active \in Int
BY DEF GateInv, NetType, GateType

\* A request that ends hands its place on, so the count grows by nothing.
LEMMA LeavesKeeps ==
  ASSUME NEW n, GateInv(n), Fits(n), NEW l \in Loop, NEW next \in LoopType,
         n.loop[l].pc \in {"fetching", "backing"},
         next.pc \notin InGate, next.pc # "waiting"
  PROVE  LET w == Wakes(n, Vacated(n, l, next)) IN GateInv(w) /\ Fits(w)
<1> DEFINE freed == Vacated(n, l, next)
           h == Head(n.gate.line)
<1>1. n.loop[l].pc \in InGate /\ n.loop[l].pc # "pausing"
  BY DEF InGate
<1>2. /\ GateInv(freed) /\ freed.gate.active = n.gate.active - 1
      /\ n.gate.line # <<>> =>
            h \in Loop /\ freed.loop[h].pc = "waiting" /\ ~InLine(freed, h)
  BY <1>1, VacatedKeeps
<1> HIDE DEF freed
<1>3. /\ freed.gate.active \in Int /\ freed.gate.active <= MaxConcurrent
      /\ freed.gate.active + 1 <= MaxConcurrent + 1
  <2>1. n.gate.active \in Int
    BY ActiveInt
  <2>2. n.gate.active <= MaxConcurrent + 1
    BY DEF Fits
  <2>3. freed.gate.active = n.gate.active - 1
    BY <1>2
  <2> QED
    BY <2>1, <2>2, <2>3
<1>4. CASE n.gate.line = <<>>
  <2>1. Wakes(n, freed) = freed
    BY <1>4 DEF Wakes
  <2>2. freed.gate.active <= MaxConcurrent + 1
    BY <1>3
  <2>3. GateInv(Wakes(n, freed)) /\ Fits(Wakes(n, freed))
    BY <1>2, <2>1, <2>2 DEF Fits
  <2> QED
    BY <2>3 DEF freed
<1>5. CASE n.gate.line # <<>>
  <2>1. Wakes(n, freed) = Admitted(freed, h)
    BY <1>5 DEF Wakes
  <2>2. freed.loop[h].pc \notin InGate
    BY <1>2, <1>5 DEF InGate
  <2> HIDE DEF h
  <2>3. GateInv(Admitted(freed, h)) /\ Admitted(freed, h).gate.active = freed.gate.active + 1
    BY <1>2, <1>3, <1>5, <2>2, AdmittedKeeps
  <2>4. GateInv(Wakes(n, freed)) /\ Fits(Wakes(n, freed))
    BY <1>3, <2>1, <2>3 DEF Fits
  <2> QED
    BY <2>4 DEF freed
<1> QED
  BY <1>4, <1>5

\* A request that goes round takes a place beside the loop it woke, and never
\* when the gate holds one too many already.
LEMMA RetryKeeps ==
  ASSUME NEW n, GateInv(n), Fits(n), NEW l \in Loop, NEW next \in LoopType,
         n.loop[l].pc = "backing", next.pc = "asking"
  PROVE  LET w == Wakes(n, Acquired(Vacated(n, l, next), l)) IN GateInv(w) /\ Fits(w)
<1> DEFINE freed == Vacated(n, l, next)
           entered == Acquired(freed, l)
           h == Head(n.gate.line)
<1>1. /\ n.loop[l].pc \in InGate /\ n.loop[l].pc # "pausing"
      /\ next.pc \notin InGate /\ next.pc # "waiting"
  BY DEF InGate
<1>2. /\ GateInv(freed) /\ freed.gate.active = n.gate.active - 1
      /\ freed.loop[l] = next /\ ~InLine(freed, l)
      /\ n.gate.line # <<>> =>
            /\ h \in Loop \ {l}
            /\ freed.loop[h].pc = "waiting" /\ ~InLine(freed, h)
  BY <1>1, VacatedKeeps
<1>3. n.gate.active \in Int /\ n.gate.active <= MaxConcurrent + 1
  <2>1. n.gate.active \in Int
    BY ActiveInt
  <2> QED
    BY <2>1 DEF Fits
<1> HIDE DEF freed
<1>4. /\ GateInv(entered)
      /\ freed.gate.active < MaxConcurrent => entered.gate.active = freed.gate.active + 1
      /\ freed.gate.active >= MaxConcurrent => entered.gate.active = freed.gate.active
      /\ \A k \in Loop \ {l} : entered.loop[k] = freed.loop[k] /\ (InLine(entered, k) => InLine(freed, k))
  BY <1>1, <1>2, AcquiredKeeps
<1> HIDE DEF entered
<1>5. /\ entered.gate.active \in Int /\ entered.gate.active <= MaxConcurrent
      /\ entered.gate.active + 1 <= MaxConcurrent + 1
  <2>1. freed.gate.active = n.gate.active - 1
    BY <1>2
  <2>2. /\ freed.gate.active < MaxConcurrent => entered.gate.active = freed.gate.active + 1
        /\ freed.gate.active >= MaxConcurrent => entered.gate.active = freed.gate.active
    BY <1>4
  <2> QED
    BY <1>3, <2>1, <2>2
<1>6. CASE n.gate.line = <<>>
  <2>1. Wakes(n, entered) = entered
    BY <1>6 DEF Wakes
  <2>2. entered.gate.active <= MaxConcurrent + 1
    BY <1>5
  <2>3. GateInv(Wakes(n, entered)) /\ Fits(Wakes(n, entered))
    BY <1>4, <2>1, <2>2 DEF Fits
  <2> QED
    BY <2>3 DEF entered, freed
<1>7. CASE n.gate.line # <<>>
  <2>1. Wakes(n, entered) = Admitted(entered, h)
    BY <1>7 DEF Wakes
  <2> HIDE DEF h
  <2>2. h \in Loop /\ ~InLine(entered, h) /\ entered.loop[h].pc = "waiting"
    BY <1>2, <1>4, <1>7
  <2>3. entered.loop[h].pc \notin InGate
    BY <2>2 DEF InGate
  <2>4. GateInv(Admitted(entered, h)) /\ Admitted(entered, h).gate.active = entered.gate.active + 1
    BY <1>4, <1>5, <2>2, <2>3, AdmittedKeeps
  <2>5. GateInv(Wakes(n, entered)) /\ Fits(Wakes(n, entered))
    BY <1>5, <2>1, <2>4 DEF Fits
  <2> QED
    BY <2>5 DEF entered, freed
<1> QED
  BY <1>6, <1>7

(***************************************************************************)
(* The invariant.                                                          *)
(***************************************************************************)

ListOK ==
    /\ cursor \in 0..Listed
    /\ details \in [Listing -> {"none", "detail", "null"}]
    /\ pages \in [Page -> Detail]
    /\ robots \in {"unasked", "asked", "allow", "disallow"}

FetchInv == GateInv(Net) /\ Fits(Net) /\ ListOK

LEMMA BecomesKeeps ==
  ASSUME NEW n, GateInv(n), Fits(n), Becomes(n)
  PROVE  GateInv(Net)' /\ Fits(Net)'
<1>1. n = [gate |-> n.gate, loop |-> n.loop, age |-> n.age]
  BY DEF GateInv, NetType
<1>2. (Net)' = n
  BY <1>1 DEF Net, Becomes
<1>3. GateInv(Net') /\ Fits(Net')
  BY <1>2
<1> QED
  BY <1>3 DEF GateInv, NetType, Counted, Under, Queued, Latest, Calm, Burst, Fits

LEMMA NetFacts ==
  ASSUME FetchInv
  PROVE  /\ gate \in GateType /\ loop \in [Loop -> LoopType]
         /\ age \in [Loop -> 0..MinInterval]
         /\ Net.gate = gate /\ Net.loop = loop /\ Net.age = age
         /\ GateInv(Net) /\ Fits(Net)
         /\ \A l \in Loop : loop[l].pc # "waiting" => ~InLine(Net, l)
<1>1. Net.gate = gate /\ Net.loop = loop /\ Net.age = age
  BY DEF Net
<1>2. GateInv(Net) /\ Fits(Net)
  BY DEF FetchInv
<1>3. Net.gate \in GateType /\ Net.loop \in [Loop -> LoopType] /\ Net.age \in [Loop -> 0..MinInterval]
  BY <1>2 DEF GateInv, NetType
<1>4. \A l \in Loop : Net.loop[l].pc # "waiting" => ~InLine(Net, l)
  BY <1>2, Elsewhere DEF GateInv
<1> QED
  BY <1>1, <1>2, <1>3, <1>4

\* A loop that moves while the gate stays as it is.
LEMMA LoopMoves ==
  ASSUME FetchInv, NEW l \in Loop, NEW next \in LoopType,
         loop[l].pc \in InGate <=> next.pc \in InGate,
         loop[l].pc \notin {"waiting", "pausing"}, next.pc # "pausing",
         loop' = [loop EXCEPT ![l] = next], UNCHANGED gateVars
  PROVE  GateInv(Net)' /\ Fits(Net)'
<1> DEFINE m == Moved(Net, l, next)
<1>1. GateInv(m) /\ m.gate = Net.gate
  BY NetFacts, MovedKeeps
<1>2. Becomes(m)
  BY DEF Becomes, Moved, Net, gateVars
<1>3. Fits(m)
  BY <1>1, NetFacts DEF Fits
<1> HIDE DEF m
<1> QED
  BY <1>1, <1>2, <1>3, BecomesKeeps

LEMMA GateStays ==
  ASSUME FetchInv, UNCHANGED <<gateVars, loop>>
  PROVE  GateInv(Net)' /\ Fits(Net)'
<1>1. Becomes(Net)
  BY DEF Becomes, Net, gateVars
<1> QED
  BY <1>1, NetFacts, BecomesKeeps

LEMMA RestType ==
  ASSUME NEW pc \in LoopPC
  PROVE  Rest(pc) \in LoopType /\ Rest(pc).pc = pc
BY DEF Rest, LoopType

LEMMA SettledType ==
  ASSUME ListOK, NEW l, NEW result \in {"none", "detail", "null"}, Settled(l, result)
  PROVE  details' \in [Listing -> {"none", "detail", "null"}]
BY DEF ListOK, Settled

LEMMA InitInv == FetchInit => FetchInv
<1> SUFFICES ASSUME FetchInit PROVE FetchInv
  OBVIOUS
<1>1. Net \in NetType
  <2>1. gate \in GateType
    BY DEF FetchInit, GateType
  <2>2. Rest("unborn") \in LoopType
    BY RestType DEF LoopPC
  <2> QED
    BY <2>1, <2>2 DEF FetchInit, Net, NetType
<1>2. Net.gate.active = 0 /\ Net.gate.line = <<>> /\ Net.gate.since = MinInterval
  BY DEF FetchInit, Net
<1>3. \A l \in Loop : Net.loop[l].pc = "unborn" /\ Net.age[l] = MinInterval
  BY DEF FetchInit, Net, Rest
<1>4. Under(Net) = {}
  BY <1>3 DEF Under, InGate
<1>5. Counted(Net)
  BY <1>2, <1>4, FS_EmptySet DEF Counted
<1>6. \A a \in 0..(MinInterval - 1) : Burst(Net, a) = {}
  BY <1>3 DEF Burst
<1>7. Calm(Net)
  <2>1. 0 <= MaxConcurrent + 1 /\ Cardinality({}) = 0
    BY FS_EmptySet
  <2> QED
    BY <1>6, <2>1 DEF Calm
<1>8. Queued(Net) /\ Latest(Net)
  BY <1>2, <1>3 DEF Queued, Latest
<1>9. Fits(Net)
  BY <1>2 DEF Fits
<1>10. ListOK
  BY DEF FetchInit, ListOK, Detail
<1> QED
  BY <1>1, <1>5, <1>7, <1>8, <1>9, <1>10 DEF FetchInv, GateInv

LEMMA BeginKeeps == FetchInv /\ BeginDetails => FetchInv'
<1> SUFFICES ASSUME FetchInv, BeginDetails PROVE FetchInv'
  OBVIOUS
<1> DEFINE m == [gate |-> gate, loop |-> [l \in Loop |-> Rest("free")], age |-> age]
<1>1. Becomes(m)
  BY DEF BeginDetails, Becomes, gateVars
<1>2. m.gate = Net.gate /\ m.age = Net.age /\ \A l \in Loop : m.loop[l].pc = "free"
  BY DEF Net, Rest
<1>3. \A l \in Loop : Net.loop[l].pc = "unborn"
  BY DEF BeginDetails, InLoop, Net
<1>4. m \in NetType
  <2>1. Rest("free") \in LoopType
    BY RestType DEF LoopPC
  <2> QED
    BY <2>1, NetFacts DEF NetType
<1> HIDE DEF m
<1>5. Under(m) = Under(Net)
  BY <1>2, <1>3 DEF Under, InGate
<1>6. \A a : Burst(m, a) = Burst(Net, a)
  BY <1>2, <1>3 DEF Burst
<1>7. Queued(Net) /\ Counted(Net) /\ Calm(Net) /\ Latest(Net)
  BY NetFacts DEF GateInv
<1>8. Queued(m)
  <2>1. Net.gate.line \in Seq(Loop)
    BY NetFacts DEF GateType
  <2>2. \A i \in 1..Len(Net.gate.line) : FALSE
    BY <1>3, <1>7, <2>1 DEF Queued
  <2> QED
    BY <1>2, <2>2 DEF Queued
<1>9. GateInv(m) /\ Fits(m)
  <2>1. Counted(m)
    BY <1>2, <1>5, <1>7 DEF Counted
  <2>2. Calm(m)
    BY <1>6, <1>7 DEF Calm
  <2>3. Latest(m)
    BY <1>2, <1>7 DEF Latest
  <2>4. Fits(m)
    BY <1>2, NetFacts DEF Fits
  <2> QED
    BY <1>4, <1>8, <2>1, <2>2, <2>3, <2>4 DEF GateInv
<1>10. GateInv(Net)' /\ Fits(Net)'
  BY <1>1, <1>9, BecomesKeeps
<1>11. ListOK'
  BY DEF FetchInv, ListOK, BeginDetails, listVars
<1> QED
  BY <1>10, <1>11 DEF FetchInv

\* A tick: who had started in the last a + 1 ticks had done so in the last a.
LEMMA TickKeeps == FetchInv /\ TimePassesBy => FetchInv'
<1> SUFFICES ASSUME FetchInv, TimePassesBy PROVE FetchInv'
  OBVIOUS
<1> DEFINE g == [gate EXCEPT !.since = IF @ < MinInterval THEN @ + 1 ELSE @]
           ls == [l \in Loop |-> [loop[l] EXCEPT !.left = IF @ > 0 THEN @ - 1 ELSE 0]]
           ages == [l \in Loop |-> IF age[l] < MinInterval THEN age[l] + 1 ELSE age[l]]
           m == [gate |-> g, loop |-> ls, age |-> ages]
<1>1. Becomes(m)
  BY DEF TimePassesBy, Becomes
<1>2. /\ gate \in GateType /\ loop \in [Loop -> LoopType]
      /\ age \in [Loop -> 0..MinInterval]
  BY NetFacts
<1>3. gate.since \in 0..MinInterval
  BY <1>2 DEF GateType
<1>4. /\ g \in GateType /\ g.active = gate.active /\ g.line = gate.line
      /\ g.since = IF gate.since < MinInterval THEN gate.since + 1 ELSE gate.since
  <2> DEFINE s == IF gate.since < MinInterval THEN gate.since + 1 ELSE gate.since
  <2>1. s \in 0..MinInterval /\ g = [gate EXCEPT !.since = s]
    BY <1>3
  <2> HIDE DEF s, g
  <2>2. g \in GateType /\ g.active = gate.active /\ g.line = gate.line /\ g.since = s
    BY <1>2, <2>1 DEF GateType
  <2> QED
    BY <2>2 DEF s
<1>5. ASSUME NEW l \in Loop
      PROVE  /\ ls[l] \in LoopType /\ ls[l].pc = loop[l].pc
             /\ ls[l].left = IF loop[l].left > 0 THEN loop[l].left - 1 ELSE 0
             /\ loop[l].left \in 0..MinInterval
  <2> DEFINE x == IF loop[l].left > 0 THEN loop[l].left - 1 ELSE 0
             r == [loop[l] EXCEPT !.left = x]
  <2>1. loop[l] \in LoopType
    BY <1>2
  <2>2. loop[l].left \in 0..MinInterval
    BY <2>1 DEF LoopType
  <2>3. x \in 0..MinInterval /\ ls[l] = r
    BY <2>2
  <2> HIDE DEF x, ls
  <2>4. r \in LoopType /\ r.pc = loop[l].pc /\ r.left = x
    BY <2>1, <2>3 DEF LoopType
  <2> QED
    BY <2>2, <2>3, <2>4 DEF x
<1>6. ages \in [Loop -> 0..MinInterval]
  BY <1>2
<1>7. ls \in [Loop -> LoopType]
  BY <1>5
<1>8. m.gate = g /\ m.loop = ls /\ m.age = ages /\ m \in NetType
  BY <1>4, <1>6, <1>7 DEF NetType
<1>9. \A l \in Loop : m.age[l] = IF age[l] < MinInterval THEN age[l] + 1 ELSE age[l]
  BY <1>8
<1> HIDE DEF m, g, ls, ages
<1>10. /\ Queued(Net) /\ Counted(Net) /\ Calm(Net) /\ Latest(Net)
       /\ Net.gate = gate /\ Net.loop = loop /\ Net.age = age /\ Fits(Net)
  BY NetFacts DEF GateInv
<1>11. \A l \in Loop : m.loop[l].pc = loop[l].pc
  BY <1>5, <1>8
<1>12. Counted(m) /\ Fits(m)
  <2>1. Under(m) = Under(Net)
    BY <1>10, <1>11 DEF Under
  <2> QED
    BY <1>4, <1>8, <1>10, <2>1 DEF Counted, Fits
<1>13. Queued(m)
  <2>1. gate.line \in Seq(Loop)
    BY <1>2 DEF GateType
  <2>2. \A i \in 1..Len(gate.line) : gate.line[i] \in Loop
    BY <2>1
  <2>3. m.gate.line = gate.line
    BY <1>4, <1>8
  <2> QED
    BY <1>10, <1>11, <2>2, <2>3 DEF Queued
<1>14. Latest(m)
  <2>1. \A l \in Loop : gate.since <= age[l] /\ age[l] \in 0..MinInterval
    BY <1>2, <1>10 DEF Latest
  <2>2. m.gate.since = IF gate.since < MinInterval THEN gate.since + 1 ELSE gate.since
    BY <1>4, <1>8
  <2> QED
    BY <1>3, <1>9, <2>1, <2>2 DEF Latest
<1>15. ASSUME NEW a \in 0..(MinInterval - 1)
       PROVE  Cardinality(Burst(m, a)) <= MaxConcurrent + 1
  <2>1. CASE a = 0
    <3>1. \A l \in Loop : ~(m.age[l] <= a)
      BY <1>2, <1>9, <2>1
    <3>2. m.gate.active <= MaxConcurrent + 1
      BY <1>12 DEF Fits
    <3> QED
      BY <1>12, <3>1, <3>2, BurstInGate
  <2>2. CASE a # 0
    <3>1. a - 1 \in 0..(MinInterval - 1)
      BY <2>2
    <3>2. ASSUME NEW l \in Loop, m.age[l] <= a PROVE Net.age[l] <= a - 1
      BY <1>2, <1>9, <1>10, <3>2
    <3>3. ASSUME NEW l \in Loop, m.loop[l].left + a < MinInterval
          PROVE  Net.loop[l].left + (a - 1) < MinInterval
      <4>1. /\ m.loop[l].left = IF loop[l].left > 0 THEN loop[l].left - 1 ELSE 0
            /\ loop[l].left \in 0..MinInterval
        BY <1>5, <1>8
      <4> QED
        BY <1>10, <3>3, <4>1
    <3>4. Burst(m, a) \subseteq Burst(Net, a - 1)
      BY <1>10, <1>11, <3>2, <3>3 DEF Burst
    <3>5. Cardinality(Burst(Net, a - 1)) <= MaxConcurrent + 1
      BY <1>10, <3>1 DEF Calm
    <3>6. IsFiniteSet(Burst(Net, a - 1)) /\ Cardinality(Burst(Net, a - 1)) \in Int
      BY Finite DEF Burst
    <3>7. Cardinality(Burst(m, a)) \in Int
      BY Finite DEF Burst
    <3>8. Cardinality(Burst(m, a)) <= Cardinality(Burst(Net, a - 1))
      BY <3>4, <3>6, FS_Subset
    <3> QED
      BY <3>5, <3>6, <3>7, <3>8
  <2> QED
    BY <2>1, <2>2
<1>16. GateInv(m)
  BY <1>8, <1>12, <1>13, <1>14, <1>15 DEF GateInv, Calm
<1>17. GateInv(Net)' /\ Fits(Net)'
  BY <1>1, <1>12, <1>16, BecomesKeeps
<1>18. ListOK'
  BY DEF FetchInv, ListOK, TimePassesBy, listVars
<1> QED
  BY <1>17, <1>18 DEF FetchInv

(***************************************************************************)
(* The loops' steps                                                        *)
(***************************************************************************)

LEMMA TakeKeeps ==
  ASSUME FetchInv, NEW l \in Loop, TakeKnown(l) \/ TakeUnread(l)
  PROVE  FetchInv'
<1>1. cursor' \in 0..Listed /\ InLoop(l, "free") /\ pages' = pages
  BY DEF TakeKnown, TakeUnread, FetchInv, ListOK
<1>2. CASE TakeKnown(l)
  <2>1. GateInv(Net)' /\ Fits(Net)'
    BY <1>2, GateStays DEF TakeKnown
  <2>2. ListOK'
    BY <1>1, <1>2 DEF TakeKnown, FetchInv, ListOK
  <2> QED
    BY <2>1, <2>2 DEF FetchInv
<1>3. CASE TakeUnread(l)
  <2> DEFINE next == [Rest("asking") EXCEPT !.job = cursor']
  <2>1. next \in LoopType /\ next.pc = "asking"
    BY <1>1 DEF Rest, LoopType, LoopPC
  <2>2. loop' = [loop EXCEPT ![l] = next] /\ UNCHANGED gateVars
    BY <1>3 DEF TakeUnread
  <2> HIDE DEF next
  <2>3. /\ loop[l].pc \in InGate <=> next.pc \in InGate
        /\ loop[l].pc \notin {"waiting", "pausing"} /\ next.pc # "pausing"
    BY <1>1, <2>1 DEF InLoop, InGate
  <2>4. GateInv(Net)' /\ Fits(Net)'
    BY <2>1, <2>2, <2>3, LoopMoves
  <2>5. ListOK'
    BY <1>1, <1>3 DEF TakeUnread, FetchInv, ListOK
  <2> QED
    BY <2>4, <2>5 DEF FetchInv
<1> QED
  BY <1>2, <1>3

LEMMA RestsKeeps ==
  ASSUME FetchInv, NEW l \in Loop, NEW pc \in {"free", "ended"},
         loop[l].pc \notin InGate, loop[l].pc # "waiting",
         loop' = [loop EXCEPT ![l] = Rest(pc)], UNCHANGED gateVars
  PROVE  GateInv(Net)' /\ Fits(Net)'
<1>1. Rest(pc) \in LoopType /\ Rest(pc).pc = pc
  BY RestType DEF LoopPC
<1>2. /\ loop[l].pc \in InGate <=> Rest(pc).pc \in InGate
      /\ loop[l].pc \notin {"waiting", "pausing"} /\ Rest(pc).pc # "pausing"
  BY <1>1 DEF InGate
<1> QED
  BY <1>1, <1>2, LoopMoves

LEMMA EndingKeeps ==
  ASSUME FetchInv, NEW l \in Loop,
         EndLoop(l) \/ Barred(l) \/ PageRead(l) \/ PageLost(l)
  PROVE  FetchInv'
<1>1. /\ loop[l].pc \notin InGate /\ loop[l].pc # "waiting"
      /\ UNCHANGED gateVars
      /\ \E pc \in {"free", "ended"} : loop' = [loop EXCEPT ![l] = Rest(pc)]
  BY DEF EndLoop, Barred, PageRead, PageLost, InLoop, InGate
<1>2. GateInv(Net)' /\ Fits(Net)'
  BY <1>1, RestsKeeps
<1>3. ListOK
  BY DEF FetchInv
<1>4. ListOK'
  <2>1. CASE EndLoop(l)
    BY <1>3, <2>1 DEF EndLoop, listVars, ListOK
  <2>2. CASE Barred(l)
    BY <1>3, <2>2, SettledType DEF Barred, ListOK
  <2>3. CASE PageRead(l)
    <3>1. PICK found \in {"read", "empty"} :
             /\ pages' = [pages EXCEPT ![PageOf[loop[l].job]] = found]
             /\ Settled(l, IF found = "read" THEN "detail" ELSE "null")
      BY <2>3 DEF PageRead
    <3>2. details' \in [Listing -> {"none", "detail", "null"}]
      BY <1>3, <3>1, SettledType
    <3>3. pages' \in [Page -> Detail]
      BY <1>3, <3>1 DEF ListOK, Detail
    <3> QED
      BY <1>3, <2>3, <3>2, <3>3 DEF PageRead, ListOK
  <2>4. CASE PageLost(l)
    BY <1>3, <2>4, SettledType DEF PageLost, ListOK
  <2> QED
    BY <2>1, <2>2, <2>3, <2>4
<1> QED
  BY <1>2, <1>4 DEF FetchInv

LEMMA EnterKeeps == ASSUME FetchInv, NEW l \in Loop, Enter(l) PROVE FetchInv'
<1> DEFINE m == Acquired(Net, l)
<1>1. Net.loop[l].pc \notin InGate /\ ~InLine(Net, l)
  BY NetFacts DEF Enter, InLoop, InGate
<1>2. Net.gate.active \in Int /\ Net.gate.active <= MaxConcurrent + 1
  BY NetFacts, ActiveInt DEF Fits
<1>3. /\ GateInv(m)
      /\ Net.gate.active < MaxConcurrent => m.gate.active = Net.gate.active + 1
      /\ Net.gate.active >= MaxConcurrent => m.gate.active = Net.gate.active
  BY <1>1, NetFacts, AcquiredKeeps
<1>4. Becomes(m)
  BY DEF Enter
<1> HIDE DEF m
<1>5. Fits(m)
  BY <1>2, <1>3 DEF Fits
<1>6. GateInv(Net)' /\ Fits(Net)'
  BY <1>3, <1>4, <1>5, BecomesKeeps
<1>7. ListOK'
  BY DEF FetchInv, ListOK, Enter, listVars
<1> QED
  BY <1>6, <1>7 DEF FetchInv

LEMMA PauseKeeps == ASSUME FetchInv, NEW l \in Loop, PauseEnds(l) PROVE FetchInv'
<1> DEFINE m == Started(Net, l)
<1>1. Net.loop[l].pc = "pausing" /\ Net.loop[l].left = 0
  BY NetFacts DEF PauseEnds, InLoop
<1>2. Net.gate.active <= MaxConcurrent + 1
  BY NetFacts DEF Fits
<1>3. GateInv(m) /\ m.gate.active = Net.gate.active
  BY <1>1, <1>2, NetFacts, StartedKeeps
<1>4. Becomes(m)
  BY DEF PauseEnds
<1> HIDE DEF m
<1>5. Fits(m)
  BY <1>2, <1>3 DEF Fits
<1>6. GateInv(Net)' /\ Fits(Net)'
  BY <1>3, <1>4, <1>5, BecomesKeeps
<1>7. ListOK'
  BY DEF FetchInv, ListOK, PauseEnds, listVars
<1> QED
  BY <1>6, <1>7 DEF FetchInv

\* A loop that goes on outside the gate.
LEMMA LeftKeeps ==
  ASSUME FetchInv, NEW l \in Loop, NEW next \in LoopType,
         loop[l].pc \in {"fetching", "backing"},
         next.pc \notin InGate, next.pc # "waiting", Leaves(l, next)
  PROVE  GateInv(Net)' /\ Fits(Net)'
<1> DEFINE w == Wakes(Net, Vacated(Net, l, next))
<1>1. Net.loop[l].pc \in {"fetching", "backing"}
  BY NetFacts
<1>2. GateInv(w) /\ Fits(w)
  BY <1>1, NetFacts, LeavesKeeps
<1>3. Becomes(w)
  BY DEF Leaves
<1> HIDE DEF w
<1> QED
  BY <1>2, <1>3, BecomesKeeps

LEMMA AnsweredKeeps ==
  ASSUME FetchInv, NEW l \in Loop, Answered(l) \/ RequestFails(l)
  PROVE  FetchInv'
<1>1. loop[l].pc = "fetching"
  BY DEF Answered, RequestFails, InLoop
<1>2. CASE Answered(l)
  <2> DEFINE next == [loop[l] EXCEPT !.pc = "reading"]
  <2>1. next \in LoopType /\ next.pc = "reading"
    <3>1. loop[l] \in LoopType /\ "reading" \in LoopPC
      BY NetFacts DEF LoopPC
    <3> QED
      BY <3>1 DEF LoopType
  <2>2. Leaves(l, next)
    BY <1>2 DEF Answered
  <2> HIDE DEF next
  <2>3. next.pc \notin InGate /\ next.pc # "waiting"
    BY <2>1 DEF InGate
  <2>4. GateInv(Net)' /\ Fits(Net)'
    BY <1>1, <2>1, <2>2, <2>3, LeftKeeps
  <2>5. ListOK'
    BY <1>2 DEF FetchInv, ListOK, Answered, listVars
  <2> QED
    BY <2>4, <2>5 DEF FetchInv
<1>3. CASE RequestFails(l)
  <2>1. Rest("free") \in LoopType /\ Rest("free").pc = "free"
    BY RestType DEF LoopPC
  <2>2. Rest("free").pc \notin InGate /\ Rest("free").pc # "waiting"
    BY <2>1 DEF InGate
  <2>3. GateInv(Net)' /\ Fits(Net)'
    BY <1>1, <1>3, <2>1, <2>2, LeftKeeps DEF RequestFails
  <2>4. ListOK /\ details' \in [Listing -> {"none", "detail", "null"}]
    BY <1>3, SettledType DEF RequestFails, FetchInv
  <2>5. ListOK'
    BY <1>3, <2>4 DEF ListOK, RequestFails
  <2> QED
    BY <2>3, <2>5 DEF FetchInv
<1> QED
  BY <1>2, <1>3

LEMMA BackOffKeeps == ASSUME FetchInv, NEW l \in Loop, BackOff(l) PROVE FetchInv'
<1> DEFINE next == [loop[l] EXCEPT !.pc = "backing"]
<1>1. next \in LoopType /\ next.pc = "backing"
  <2>1. loop[l] \in LoopType /\ "backing" \in LoopPC
    BY NetFacts DEF LoopPC
  <2> QED
    BY <2>1 DEF LoopType
<1>2. loop' = [loop EXCEPT ![l] = next] /\ UNCHANGED gateVars /\ loop[l].pc = "fetching"
  BY DEF BackOff, InLoop
<1> HIDE DEF next
<1>3. /\ loop[l].pc \in InGate <=> next.pc \in InGate
      /\ loop[l].pc \notin {"waiting", "pausing"} /\ next.pc # "pausing"
  BY <1>1, <1>2 DEF InGate
<1>4. GateInv(Net)' /\ Fits(Net)'
  BY <1>1, <1>2, <1>3, LoopMoves
<1>5. ListOK'
  BY DEF FetchInv, ListOK, BackOff, listVars
<1> QED
  BY <1>4, <1>5 DEF FetchInv

LEMMA RoundKeeps == ASSUME FetchInv, NEW l \in Loop, Retry(l) PROVE FetchInv'
<1> DEFINE next == [loop[l] EXCEPT !.pc = "asking", !.attempt = @ + 1]
           w == Wakes(Net, Acquired(Vacated(Net, l, next), l))
<1>1. next \in LoopType /\ next.pc = "asking"
  <2> DEFINE x == loop[l].attempt + 1
  <2>1. loop[l] \in LoopType /\ "asking" \in LoopPC
    BY NetFacts DEF LoopPC
  <2>2. loop[l].attempt \in 0..Retries
    BY <2>1 DEF LoopType
  <2>3. x \in 0..Retries /\ next = [loop[l] EXCEPT !.pc = "asking", !.attempt = x]
    BY <2>2 DEF Retry
  <2> HIDE DEF x, next
  <2> QED
    BY <2>1, <2>3 DEF LoopType
<1>2. Becomes(w)
  BY DEF Retry
<1> HIDE DEF next
<1>3. Net.loop[l].pc = "backing"
  BY NetFacts DEF Retry, InLoop
<1>4. GateInv(w) /\ Fits(w)
  BY <1>1, <1>3, NetFacts, RetryKeeps
<1> HIDE DEF w
<1>5. GateInv(Net)' /\ Fits(Net)'
  BY <1>2, <1>4, BecomesKeeps
<1>6. ListOK'
  BY DEF FetchInv, ListOK, Retry, listVars
<1> QED
  BY <1>5, <1>6 DEF FetchInv

LEMMA NextInv == FetchInv /\ [FetchNext]_netVars => FetchInv'
<1> SUFFICES ASSUME FetchInv, [FetchNext]_netVars PROVE FetchInv'
  OBVIOUS
<1>1. CASE BeginDetails
  BY <1>1, BeginKeeps
<1>2. CASE RobotsKnown
  <2>1. GateInv(Net)' /\ Fits(Net)'
    BY <1>2, GateStays DEF RobotsKnown
  <2>2. ListOK'
    BY <1>2 DEF RobotsKnown, FetchInv, ListOK
  <2> QED
    BY <2>1, <2>2 DEF FetchInv
<1>3. CASE TimePassesBy
  BY <1>3, TickKeeps
<1>4. ASSUME NEW l \in Loop, LoopStep(l)
      PROVE  FetchInv'
  BY <1>4, TakeKeeps, EndingKeeps, EnterKeeps, PauseKeeps, AnsweredKeeps,
     BackOffKeeps, RoundKeeps DEF LoopStep
<1>5. CASE UNCHANGED netVars
  <2>1. GateInv(Net)' /\ Fits(Net)'
    BY <1>5, GateStays DEF netVars, gateVars
  <2>2. ListOK'
    BY <1>5 DEF netVars, FetchInv, ListOK
  <2> QED
    BY <2>1, <2>2 DEF FetchInv
<1> QED
  BY <1>1, <1>2, <1>3, <1>4, <1>5 DEF FetchNext, StageOver

\* Every variable keeps its type; the count of the requests under way is that
\* of the loops between acquire and release, and never negative
\* (fetcher.ts:54-75).
THEOREM FetchTypeCorrect == FetchSpec => []FetchTypeOK
<1>1. FetchInv => FetchTypeOK
  <2> SUFFICES ASSUME FetchInv PROVE FetchTypeOK
    OBVIOUS
  <2>1. gate.active \in Nat
    <3>1. gate.active = Cardinality(Under(Net))
      BY NetFacts DEF GateInv, Counted
    <3> QED
      BY <3>1, Finite DEF Under
  <2>2. gate \in [active : Nat, since : 0..MinInterval, line : Seq(Loop)]
    BY <2>1, NetFacts DEF GateType
  <2> QED
    BY <2>2, NetFacts DEF FetchInv, ListOK, FetchTypeOK, LoopType
<1> QED
  BY <1>1, InitInv, NextInv, PTL DEF FetchSpec

\* For any number of loops, any policy and any retries: one request more than
\* the limit is under way at most, and no more start within an interval
\* (fetcher.ts:54-75, 232-262).
THEOREM HostIsAlwaysSpared == FetchSpec => []HostIsSpared
<1>1. FetchInv => HostIsSpared
  <2> SUFFICES ASSUME FetchInv PROVE HostIsSpared
    OBVIOUS
  <2>1. gate.active <= MaxConcurrent + 1
    BY NetFacts DEF Fits
  <2>2. Recent \subseteq Burst(Net, MinInterval - 1)
    BY NetFacts DEF Recent, Burst
  <2>3. Cardinality(Burst(Net, MinInterval - 1)) <= MaxConcurrent + 1
    BY NetFacts DEF GateInv, Calm
  <2>4. /\ IsFiniteSet(Burst(Net, MinInterval - 1))
        /\ Cardinality(Burst(Net, MinInterval - 1)) \in Int
        /\ Cardinality(Recent) \in Int
    BY Finite DEF Burst, Recent
  <2>5. Cardinality(Recent) <= Cardinality(Burst(Net, MinInterval - 1))
    BY <2>2, <2>4, FS_Subset
  <2> QED
    BY <2>1, <2>3, <2>4, <2>5 DEF HostIsSpared
<1> QED
  BY <1>1, InitInv, NextInv, PTL DEF FetchSpec

HIDE FetchAssumption DEF FetchAssumption

(***************************************************************************)
(* The questions of an attempt. A guess is saved over rows that were open  *)
(* when it looked, and whoever finds no active job counts what is open after *)
(* it has saved: that is what the answers to the last question rest on.    *)
(***************************************************************************)

\* What the profile is about to save over was open when it looked.
GuessSawOpen ==
    \A a \in Answerer : CallAt(a, "saving") /\ lqCall[a].by # "person" =>
        \A q \in lqCall[a].batch : lqCall[a].seen[q] \in Open

\* The runner's own resolution is over before the runner goes on.
RunnerIsBack == ~RunnerAt("resolved") => CallAt(Runner, "idle")

\* A request that found no active job resumed the application, or left a
\* question open, or another request is still to count.
SomebodyCounts ==
    /\ lqPast.late # {} => RunnerAt("over")
    /\ lqPast.late # {} /\ ~lqPast.lost =>
          \/ lqResumed
          \/ \E q \in Question : lqRow[q].status \in Open
          \/ \E a \in Request : CallAt(a, "checking") \/ CallAt(a, "counting")

LiveInv == LiveTypeOK /\ GuessSawOpen /\ RunnerIsBack /\ SomebodyCounts

USE QuestionsAssumption DEF QuestionsAssumption

RowType == [status : QuestionStatus, by : Source]
CallType == [pc : {"idle", "thinking", "reading", "saving", "checking", "counting"},
             by : Source, batch : SUBSET Question, seen : [Question -> QuestionStatus]]
RunnerType == [pc : {"working", "resolving", "resolved", "looking", "using", "recording",
                     "dead", "over"},
               waits : 0..LqMaxWaits, human : BOOLEAN,
               todo : SUBSET (Question \X Source), tried : SUBSET Question, took : BOOLEAN]
AskedPastType == [late : SUBSET Question, faults : 0..LqMaxFaults, lost : BOOLEAN]

LEMMA LiveTypes ==
  LiveTypeOK <=> /\ lqRow \in [Question -> RowType] /\ lqForm \in [Question -> Source]
                 /\ lqCall \in [Answerer -> CallType] /\ lqLease \in Answerer \cup {"free"}
                 /\ lqRunner \in RunnerType /\ lqResumed \in BOOLEAN /\ lqPast \in AskedPastType
BY DEF LiveTypeOK, RowType, CallType, RunnerType, AskedPastType

LEMMA NoCallType == LqNoCall \in CallType /\ LqNoCall.pc = "idle"
BY DEF LqNoCall, CallType, QuestionStatus, Source

LEMMA LiveInitInv == LiveInit => LiveInv
<1> SUFFICES ASSUME LiveInit  PROVE LiveInv
  OBVIOUS
<1>1. \A a \in Answerer : lqCall[a] = LqNoCall
  BY DEF LiveInit
<1>2. lqRunner \in RunnerType /\ lqPast \in AskedPastType
  BY DEF LiveInit, RunnerType, AskedPastType
<1>3. lqRow \in [Question -> RowType] /\ lqForm \in [Question -> Source]
  BY DEF LiveInit, RowType, QuestionStatus, Source
<1>4. lqCall \in [Answerer -> CallType]
  BY NoCallType DEF LiveInit
<1>5. LiveTypeOK
  BY <1>2, <1>3, <1>4, LiveTypes DEF LiveInit
<1>6. GuessSawOpen /\ RunnerIsBack
  BY <1>1, NoCallType DEF GuessSawOpen, RunnerIsBack, CallAt, Answerer
<1>7. SomebodyCounts
  BY DEF LiveInit, SomebodyCounts
<1> QED BY <1>5, <1>6, <1>7 DEF LiveInv

LEMMA LiveTypeStep ==
  ASSUME LiveTypeOK, [LiveNext]_lqVars
  PROVE  LiveTypeOK'
<1>1. ASSUME NEW a \in Answerer, LqResolve(a)  PROVE LiveTypeOK'
  <2>1. lqCall' \in [Answerer -> CallType]
    BY <1>1, NoCallType, LiveTypes
       DEF LqResolve, CallType, QuestionStatus, Source, RowType, RunnerAt, RunnerGo, CallAt,
       CallGo, StatusOf, LeaseBack, SetStatusOf
  <2>2. lqRunner' \in RunnerType
    BY <1>1, NoCallType, LiveTypes
       DEF LqResolve, RunnerType, RowType, RunnerAt, RunnerGo, CallAt, CallGo, StatusOf, LeaseBack,
       SetStatusOf
  <2>3. lqLease' \in Answerer \cup {"free"}
    BY <1>1, NoCallType, LiveTypes
       DEF LqResolve, RunnerAt, RunnerGo, CallAt, CallGo, StatusOf, LeaseBack, SetStatusOf
  <2> QED BY <1>1, LiveTypes, <2>1, <2>2, <2>3
            DEF LqResolve, LiveTypeOK, RowType, CallType, RunnerType, AskedPastType
<1>2. ASSUME NEW a \in Answerer, LqThink(a)  PROVE LiveTypeOK'
  <2>1. lqCall[a] \in CallType
    BY LiveTypes
  <2>2. PICK safe \in SUBSET lqCall[a].batch :
          IF safe = {} THEN lqCall' = [lqCall EXCEPT ![a] = LqNoCall] /\ LeaseBack(a)
                       ELSE /\ lqCall' = [lqCall EXCEPT ![a].pc = "reading", ![a].batch = safe]
                            /\ UNCHANGED lqLease
    BY <1>2 DEF LqThink
  <2> DEFINE r == [pc |-> "reading", by |-> lqCall[a].by, batch |-> safe, seen |-> lqCall[a].seen]
  <2>3. lqCall' \in {[lqCall EXCEPT ![a] = LqNoCall], [lqCall EXCEPT ![a] = r]}
    BY <2>1, <2>2, LiveTypes DEF CallType
  <2>4. r \in CallType
    BY <2>1 DEF CallType
  <2>5. lqCall' \in [Answerer -> CallType]
    <3> HIDE DEF r
    <3> QED BY <2>3, <2>4, NoCallType, LiveTypes
  <2>6. lqLease' \in Answerer \cup {"free"}
    BY <2>2, LiveTypes DEF LeaseBack
  <2> QED BY <1>2, <2>5, <2>6 DEF LqThink, LiveTypeOK, RowType, CallType, RunnerType, AskedPastType
<1>3. ASSUME NEW a \in Answerer, LqReread(a)  PROVE LiveTypeOK'
  <2>1. lqCall[a] \in CallType
    BY LiveTypes
  <2> DEFINE r == [pc |-> "saving", by |-> lqCall[a].by, batch |-> lqCall[a].batch,
                   seen |-> StatusOf(lqCall[a].batch)]
  <2>2. lqCall' \in {[lqCall EXCEPT ![a] = LqNoCall], [lqCall EXCEPT ![a] = r]}
    BY <1>3, <2>1, LiveTypes DEF LqReread, CallType
  <2>3. StatusOf(lqCall[a].batch) \in [Question -> QuestionStatus]
    BY LiveTypes DEF StatusOf, RowType, QuestionStatus
  <2>4. r \in CallType
    BY <2>1, <2>3 DEF CallType
  <2>5. lqCall' \in [Answerer -> CallType]
    <3> HIDE DEF r
    <3> QED BY <2>2, <2>4, NoCallType, LiveTypes
  <2>6. lqLease' \in Answerer \cup {"free"}
    BY <1>3, LiveTypes DEF LqReread, LeaseBack
  <2> QED BY <1>3, <2>5, <2>6 DEF LqReread, LiveTypeOK, RowType, CallType, RunnerType, AskedPastType
<1>4. ASSUME NEW a \in Answerer, LqSave(a)  PROVE LiveTypeOK'
  <2>1. lqCall[a] \in CallType
    BY LiveTypes
  <2> DEFINE r == [pc |-> "checking", by |-> lqCall[a].by, batch |-> lqCall[a].batch,
                   seen |-> StatusOf({})]
  <2>2. lqCall' \in {[lqCall EXCEPT ![a] = LqNoCall], [lqCall EXCEPT ![a] = r]}
    BY <1>4, <2>1, LiveTypes DEF LqSave, CallType
  <2>3. StatusOf({}) \in [Question -> QuestionStatus]
    BY DEF StatusOf, QuestionStatus
  <2>4. r \in CallType
    BY <2>1, <2>3 DEF CallType
  <2>5. lqCall' \in [Answerer -> CallType]
    <3> HIDE DEF r
    <3> QED BY <2>2, <2>4, NoCallType, LiveTypes
  <2>6. lqLease' \in Answerer \cup {"free"}
    BY <1>4, LiveTypes DEF LqSave, LeaseBack
  <2>7. lqRow' \in [Question -> RowType]
    <3>1. \A q \in Question : lqRow[q] \in RowType
      BY LiveTypes
    <3>2. [status |-> "answered", by |-> lqCall[a].by] \in RowType
      BY <2>1 DEF CallType, RowType, QuestionStatus
    <3>3. \/ lqRow' = lqRow
          \/ lqRow' = [q \in Question |-> IF q \in lqCall[a].batch
                                            THEN [status |-> "answered", by |-> lqCall[a].by]
                                            ELSE lqRow[q]]
      BY <1>4 DEF LqSave
    <3> QED BY <3>1, <3>2, <3>3, LiveTypes
  <2> QED BY <1>4, <2>5, <2>6, <2>7
            DEF LqSave, LiveTypeOK, RowType, CallType, RunnerType, AskedPastType
<1>5. ASSUME NEW a \in Answerer, LqCheck(a)  PROVE LiveTypeOK'
  <2>1. lqCall[a] \in CallType /\ lqPast \in AskedPastType
    BY LiveTypes
  <2>2. lqPast' = lqPast \/ lqPast' = [lqPast EXCEPT !.late = lqPast.late \cup lqCall[a].batch]
    BY <1>5 DEF LqCheck
  <2>3. lqPast' \in AskedPastType
    BY <2>1, <2>2 DEF AskedPastType, CallType
  <2>4. [lqCall[a] EXCEPT !.pc = "counting"] \in CallType
    BY <2>1 DEF CallType
  <2>5. lqCall' \in [Answerer -> CallType]
    BY <1>5, <2>4, NoCallType, LiveTypes DEF LqCheck, CallGo
  <2>6. lqLease' \in Answerer \cup {"free"}
    BY <1>5, LiveTypes DEF LqCheck, LeaseBack
  <2> QED BY <1>5, <2>3, <2>5, <2>6
            DEF LqCheck, LiveTypeOK, RowType, CallType, RunnerType, AskedPastType
<1>6. ASSUME NEW a \in Answerer, LqCount(a)  PROVE LiveTypeOK'
  <2>1. lqResumed' \in BOOLEAN
    BY <1>6, NoCallType, LiveTypes
       DEF LqCount, RunnerAt, RunnerGo, CallAt, CallGo, StatusOf, LeaseBack, SetStatusOf
  <2>2. lqCall' \in [Answerer -> CallType]
    BY <1>6, NoCallType, LiveTypes
       DEF LqCount, CallType, QuestionStatus, Source, RowType, RunnerAt, RunnerGo, CallAt, CallGo,
       StatusOf, LeaseBack, SetStatusOf
  <2>3. lqLease' \in Answerer \cup {"free"}
    BY <1>6, NoCallType, LiveTypes
       DEF LqCount, RunnerAt, RunnerGo, CallAt, CallGo, StatusOf, LeaseBack, SetStatusOf
  <2> QED BY <1>6, LiveTypes, <2>1, <2>2, <2>3
            DEF LqCount, LiveTypeOK, RowType, CallType, RunnerType, AskedPastType
<1>7. ASSUME NEW a \in Answerer, LqRequestLost(a)  PROVE LiveTypeOK'
  <2>1. lqPast \in AskedPastType
    BY LiveTypes
  <2>2. lqPast.faults + 1 \in 0..LqMaxFaults
    BY <1>7, <2>1 DEF LqRequestLost, AskedPastType
  <2>3. lqPast' = [late |-> lqPast.late, faults |-> lqPast.faults + 1, lost |-> TRUE]
    BY <1>7, <2>1 DEF LqRequestLost, AskedPastType
  <2>4. lqPast' \in AskedPastType
    BY <2>1, <2>2, <2>3 DEF AskedPastType
  <2>5. lqCall' \in [Answerer -> CallType]
    BY <1>7, NoCallType, LiveTypes DEF LqRequestLost
  <2> QED BY <1>7, <2>4, <2>5
            DEF LqRequestLost, LiveTypeOK, RowType, CallType, RunnerType, AskedPastType
<1>8. ASSUME NEW a \in Answerer, NEW q \in Question, LqAnswer(a, q)  PROVE LiveTypeOK'
  <2>1. lqCall' \in [Answerer -> CallType]
    BY <1>8, NoCallType, LiveTypes
       DEF LqAnswer, CallType, QuestionStatus, Source, RowType, RunnerAt, RunnerGo, CallAt, CallGo,
       StatusOf, LeaseBack, SetStatusOf
  <2> QED BY <1>8, LiveTypes, <2>1
            DEF LqAnswer, LiveTypeOK, RowType, CallType, RunnerType, AskedPastType
<1>9. ASSUME NEW q \in Question, LqHide(q)  PROVE LiveTypeOK'
  <2>1. lqRow' \in [Question -> RowType]
    BY <1>9, NoCallType, LiveTypes
       DEF LqHide, RowType, QuestionStatus, Source, Open, RunnerAt, RunnerGo, CallAt, CallGo,
       StatusOf, LeaseBack, SetStatusOf
  <2>2. lqRunner' \in RunnerType
    BY <1>9, NoCallType, LiveTypes
       DEF LqHide, RunnerType, RowType, RunnerAt, RunnerGo, CallAt, CallGo, StatusOf, LeaseBack,
       SetStatusOf
  <2> QED BY <1>9, LiveTypes, <2>1, <2>2
            DEF LqHide, LiveTypeOK, RowType, CallType, RunnerType, AskedPastType
<1>10. ASSUME NEW q \in Question, LqFill(q)  PROVE LiveTypeOK'
  <2>1. PICK v \in Source, took \in BOOLEAN :
          /\ lqForm' = [lqForm EXCEPT ![q] = IF took THEN v ELSE @]
          /\ lqRunner' = [lqRunner EXCEPT !.pc = "recording", !.tried = {q}, !.took = took,
                                          !.todo = @ \ {<<q, v>>}]
    BY <1>10 DEF LqFill
  <2>2. lqForm' \in [Question -> Source]
    BY <2>1, LiveTypes
  <2>3. lqRunner \in RunnerType
    BY LiveTypes
  <2>4. lqRunner' = [pc |-> "recording", waits |-> lqRunner.waits, human |-> lqRunner.human,
                     todo |-> lqRunner.todo \ {<<q, v>>}, tried |-> {q}, took |-> took]
    BY <2>1, <2>3 DEF RunnerType
  <2>5. lqRunner' \in RunnerType
    BY <2>3, <2>4 DEF RunnerType
  <2> QED BY <1>10, <2>2, <2>5 DEF LqFill, LiveTypeOK, RowType, CallType, RunnerType, AskedPastType
<1>11. ASSUME LqLeaseLapses  PROVE LiveTypeOK'
  <2>1. lqPast \in AskedPastType /\ lqRunner \in RunnerType
    BY LiveTypes
  <2>2. lqPast' = lqPast \/ (lqPast.faults < LqMaxFaults /\ lqPast' = [lqPast EXCEPT !.faults = lqPast.faults + 1])
    BY <1>11 DEF LqLeaseLapses
  <2>3. lqPast' \in AskedPastType
    BY <2>1, <2>2 DEF AskedPastType
  <2> QED BY <1>11, <2>3 DEF LqLeaseLapses, LiveTypeOK, RowType, CallType, RunnerType, AskedPastType
<1>12. ASSUME LqAsk  PROVE LiveTypeOK'
  <2>1. PICK human \in BOOLEAN, source \in Source :
          /\ lqRow' = [q \in Question |->
                CASE lqRow[q].status # "none" -> lqRow[q]
                  [] source = "none" -> [lqRow[q] EXCEPT !.status = "pending"]
                  [] OTHER -> [status |-> "answered", by |-> source]]
          /\ lqRunner' = [lqRunner EXCEPT !.pc = "resolving", !.waits = @ + 1, !.human = human]
    BY <1>12 DEF LqAsk
  <2>2. lqRunner \in RunnerType /\ (\A q \in Question : lqRow[q] \in RowType)
    BY LiveTypes
  <2>3. lqRunner' = [pc |-> "resolving", waits |-> lqRunner.waits + 1, human |-> human,
                     todo |-> lqRunner.todo, tried |-> lqRunner.tried, took |-> lqRunner.took]
    BY <2>1, <2>2 DEF RunnerType
  <2>4. lqRunner.waits + 1 \in 0..LqMaxWaits
    BY <1>12, <2>2 DEF LqAsk, RunnerType
  <2>5. lqRunner' \in RunnerType
    BY <2>2, <2>3, <2>4 DEF RunnerType
  <2>6. lqRow' \in [Question -> RowType]
    BY <2>1, <2>2 DEF RowType, QuestionStatus
  <2> QED BY <1>12, <2>5, <2>6 DEF LqAsk, LiveTypeOK, RowType, CallType, RunnerType, AskedPastType
<1>13. ASSUME LqResolved  PROVE LiveTypeOK'
  <2>1. lqRunner' \in RunnerType
    BY <1>13, NoCallType, LiveTypes
       DEF LqResolved, RunnerType, RowType, RunnerAt, RunnerGo, CallAt, CallGo, StatusOf,
       LeaseBack, SetStatusOf
  <2> QED BY <1>13, LiveTypes, <2>1
            DEF LqResolved, LiveTypeOK, RowType, CallType, RunnerType, AskedPastType
<1>14. ASSUME LqLook  PROVE LiveTypeOK'
  <2> DEFINE todo == {<<q, lqRow[q].by>> : q \in {q \in Question : lqRow[q].status = "answered"}}
  <2>1. lqRunner \in RunnerType /\ (\A q \in Question : lqRow[q] \in RowType)
    BY LiveTypes
  <2>2. todo \in SUBSET (Question \X Source)
    BY <2>1 DEF RowType
  <2>3. lqRunner' = [pc |-> "using", waits |-> lqRunner.waits, human |-> lqRunner.human,
                     todo |-> todo, tried |-> lqRunner.tried, took |-> lqRunner.took]
    BY <1>14, <2>1 DEF LqLook, RunnerType
  <2>4. lqRunner' \in RunnerType
    <3> HIDE DEF todo
    <3> QED BY <2>1, <2>2, <2>3 DEF RunnerType
  <2> QED BY <1>14, <2>4 DEF LqLook, LiveTypeOK, RowType, CallType, RunnerType, AskedPastType
<1>15. ASSUME LqRecord  PROVE LiveTypeOK'
  <2>1. lqRow' \in [Question -> RowType]
    BY <1>15, NoCallType, LiveTypes
       DEF LqRecord, RowType, QuestionStatus, Source, Open, RunnerAt, RunnerGo, CallAt, CallGo,
       StatusOf, LeaseBack, SetStatusOf
  <2>2. lqRunner' \in RunnerType
    BY <1>15, NoCallType, LiveTypes
       DEF LqRecord, RunnerType, RowType, RunnerAt, RunnerGo, CallAt, CallGo, StatusOf, LeaseBack,
       SetStatusOf
  <2> QED BY <1>15, LiveTypes, <2>1, <2>2
            DEF LqRecord, LiveTypeOK, RowType, CallType, RunnerType, AskedPastType
<1>16. ASSUME LqReturn  PROVE LiveTypeOK'
  <2>1. lqRunner' \in RunnerType
    BY <1>16, NoCallType, LiveTypes
       DEF LqReturn, RunnerType, RowType, RunnerAt, RunnerGo, CallAt, CallGo, StatusOf, LeaseBack,
       SetStatusOf
  <2> QED BY <1>16, LiveTypes, <2>1
            DEF LqReturn, LiveTypeOK, RowType, CallType, RunnerType, AskedPastType
<1>17. ASSUME LqAgain  PROVE LiveTypeOK'
  <2>1. lqRunner' \in RunnerType
    BY <1>17, NoCallType, LiveTypes
       DEF LqAgain, RunnerType, RowType, RunnerAt, RunnerGo, CallAt, CallGo, StatusOf, LeaseBack,
       SetStatusOf
  <2> QED BY <1>17, LiveTypes, <2>1
            DEF LqAgain, LiveTypeOK, RowType, CallType, RunnerType, AskedPastType
<1>18. ASSUME LqDeadline  PROVE LiveTypeOK'
  <2>1. lqRow' \in [Question -> RowType]
    BY <1>18, NoCallType, LiveTypes
       DEF LqDeadline, RowType, QuestionStatus, Source, Open, RunnerAt, RunnerGo, CallAt, CallGo,
       StatusOf, LeaseBack, SetStatusOf
  <2>2. lqRunner' \in RunnerType
    BY <1>18, NoCallType, LiveTypes
       DEF LqDeadline, RunnerType, RowType, RunnerAt, RunnerGo, CallAt, CallGo, StatusOf,
       LeaseBack, SetStatusOf
  <2> QED BY <1>18, LiveTypes, <2>1, <2>2
            DEF LqDeadline, LiveTypeOK, RowType, CallType, RunnerType, AskedPastType
<1>19. ASSUME LqAttemptEnds  PROVE LiveTypeOK'
  <2>1. lqRunner' \in RunnerType
    BY <1>19, NoCallType, LiveTypes
       DEF LqAttemptEnds, RunnerType, RowType, RunnerAt, RunnerGo, CallAt, CallGo, StatusOf,
       LeaseBack, SetStatusOf
  <2> QED BY <1>19, LiveTypes, <2>1
            DEF LqAttemptEnds, LiveTypeOK, RowType, CallType, RunnerType, AskedPastType
<1>20. ASSUME LqCrash  PROVE LiveTypeOK'
  <2>1. lqPast \in AskedPastType /\ lqRunner \in RunnerType
    BY LiveTypes
  <2>2. lqPast' = lqPast \/ (lqPast.faults < LqMaxFaults /\ lqPast' = [lqPast EXCEPT !.faults = lqPast.faults + 1])
    BY <1>20 DEF LqCrash
  <2>3. lqPast' \in AskedPastType
    BY <2>1, <2>2 DEF AskedPastType
  <2>4. lqRunner' \in RunnerType
    BY <1>20, <2>1 DEF LqCrash, RunnerType
  <2>5. lqCall' \in [Answerer -> CallType]
    BY <1>20, NoCallType, LiveTypes DEF LqCrash, Answerer
  <2> QED BY <1>20, <2>3, <2>4, <2>5
            DEF LqCrash, LiveTypeOK, RowType, CallType, RunnerType, AskedPastType
<1>21. ASSUME LqStalled  PROVE LiveTypeOK'
  <2>1. lqRunner' \in RunnerType
    BY <1>21, NoCallType, LiveTypes
       DEF LqStalled, RunnerType, RowType, RunnerAt, RunnerGo, CallAt, CallGo, StatusOf, LeaseBack,
       SetStatusOf
  <2> QED BY <1>21, LiveTypes, <2>1
            DEF LqStalled, LiveTypeOK, RowType, CallType, RunnerType, AskedPastType
<1>22. ASSUME UNCHANGED lqVars  PROVE LiveTypeOK'
  BY <1>22 DEF lqVars, LiveTypeOK
<1> QED BY <1>1, <1>2, <1>3, <1>4, <1>5, <1>6, <1>7, <1>8, <1>9, <1>10, <1>11, <1>12, <1>13, <1>14,
           <1>15, <1>16, <1>17, <1>18, <1>19, <1>20, <1>21, <1>22 DEF LiveNext

LEMMA GuessStep ==
  ASSUME LiveInv, [LiveNext]_lqVars
  PROVE  GuessSawOpen' /\ RunnerIsBack'
<1> USE LiveTypes, NoCallType
        DEF LiveInv, GuessSawOpen, RunnerIsBack, CallType, RunnerType, Answerer, StatusOf,
        RunnerAt, RunnerGo, CallAt, CallGo, SetStatusOf, LeaseBack, Expected, StillOpen
<1>1. ASSUME NEW a \in Answerer, LqResolve(a)  PROVE GuessSawOpen' /\ RunnerIsBack'
  BY <1>1 DEF LqResolve
<1>2. ASSUME NEW a \in Answerer, LqThink(a)  PROVE GuessSawOpen' /\ RunnerIsBack'
  BY <1>2 DEF LqThink
<1>3. ASSUME NEW a \in Answerer, LqReread(a)  PROVE GuessSawOpen' /\ RunnerIsBack'
  <2>1. /\ UNCHANGED <<lqRow, lqRunner>>
        /\ \A b \in Answerer \ {a} : lqCall'[b] = lqCall[b]
        /\ lqCall'[a].pc \in {"idle", "saving"} /\ (lqCall[a].pc = "idle" => lqCall'[a].pc = "idle")
    BY <1>3, NoCallType DEF LqReread, CallType, CallAt
  <2>2. lqCall'[a].pc = "saving" =>
          \A q \in lqCall'[a].batch : lqCall'[a].seen[q] \in Open
    BY <1>3, NoCallType DEF LqReread, CallType, CallAt, StatusOf
  <2> QED BY <2>1, <2>2 DEF RunnerAt, CallAt, Answerer
<1>4. ASSUME NEW a \in Answerer, LqSave(a)  PROVE GuessSawOpen' /\ RunnerIsBack'
  BY <1>4 DEF LqSave
<1>5. ASSUME NEW a \in Answerer, LqCheck(a)  PROVE GuessSawOpen' /\ RunnerIsBack'
  <2>1. /\ UNCHANGED <<lqRow, lqRunner>> /\ CallAt(a, "checking")
        /\ \A b \in Answerer \ {a} : lqCall'[b] = lqCall[b]
        /\ lqCall'[a].pc \in {"idle", "counting"}
    BY <1>5 DEF LqCheck
  <2> QED BY <2>1
<1>6. ASSUME NEW a \in Answerer, LqCount(a)  PROVE GuessSawOpen' /\ RunnerIsBack'
  BY <1>6 DEF LqCount
<1>7. ASSUME NEW a \in Answerer, LqRequestLost(a)  PROVE GuessSawOpen' /\ RunnerIsBack'
  BY <1>7 DEF LqRequestLost
<1>8. ASSUME NEW a \in Answerer, NEW q \in Question, LqAnswer(a, q)  PROVE GuessSawOpen' /\ RunnerIsBack'
  BY <1>8 DEF LqAnswer
<1>9. ASSUME NEW q \in Question, LqHide(q)  PROVE GuessSawOpen' /\ RunnerIsBack'
  BY <1>9 DEF LqHide
<1>10. ASSUME NEW q \in Question, LqFill(q)  PROVE GuessSawOpen' /\ RunnerIsBack'
  BY <1>10 DEF LqFill
<1>11. ASSUME LqLeaseLapses  PROVE GuessSawOpen' /\ RunnerIsBack'
  BY <1>11 DEF LqLeaseLapses
<1>12. ASSUME LqAsk  PROVE GuessSawOpen' /\ RunnerIsBack'
  BY <1>12 DEF LqAsk
<1>13. ASSUME LqResolved  PROVE GuessSawOpen' /\ RunnerIsBack'
  BY <1>13 DEF LqResolved
<1>14. ASSUME LqLook  PROVE GuessSawOpen' /\ RunnerIsBack'
  BY <1>14 DEF LqLook
<1>15. ASSUME LqRecord  PROVE GuessSawOpen' /\ RunnerIsBack'
  BY <1>15 DEF LqRecord
<1>16. ASSUME LqReturn  PROVE GuessSawOpen' /\ RunnerIsBack'
  BY <1>16 DEF LqReturn
<1>17. ASSUME LqAgain  PROVE GuessSawOpen' /\ RunnerIsBack'
  BY <1>17 DEF LqAgain
<1>18. ASSUME LqDeadline  PROVE GuessSawOpen' /\ RunnerIsBack'
  BY <1>18 DEF LqDeadline
<1>19. ASSUME LqAttemptEnds  PROVE GuessSawOpen' /\ RunnerIsBack'
  BY <1>19 DEF LqAttemptEnds
<1>20. ASSUME LqCrash  PROVE GuessSawOpen' /\ RunnerIsBack'
  BY <1>20 DEF LqCrash
<1>21. ASSUME LqStalled  PROVE GuessSawOpen' /\ RunnerIsBack'
  BY <1>21 DEF LqStalled
<1>22. ASSUME UNCHANGED lqVars  PROVE GuessSawOpen' /\ RunnerIsBack'
  BY <1>22 DEF lqVars
<1> QED BY <1>1, <1>2, <1>3, <1>4, <1>5, <1>6, <1>7, <1>8, <1>9, <1>10, <1>11, <1>12, <1>13, <1>14,
           <1>15, <1>16, <1>17, <1>18, <1>19, <1>20, <1>21, <1>22 DEF LiveNext

LEMMA CountStep ==
  ASSUME LiveInv, [LiveNext]_lqVars
  PROVE  SomebodyCounts'
<1> USE LiveTypes, NoCallType
        DEF LiveInv, SomebodyCounts, RunnerIsBack, CallType, RunnerType, RowType, AskedPastType,
        Answerer, Open, StatusOf, RunnerAt, RunnerGo, CallAt, CallGo, SetStatusOf, LeaseBack,
        Expected, StillOpen
<1>1. ASSUME NEW a \in Answerer, LqResolve(a)  PROVE SomebodyCounts'
  BY <1>1 DEF LqResolve
<1>2. ASSUME NEW a \in Answerer, LqThink(a)  PROVE SomebodyCounts'
  BY <1>2 DEF LqThink
<1>3. ASSUME NEW a \in Answerer, LqReread(a)  PROVE SomebodyCounts'
  BY <1>3 DEF LqReread
<1>4. ASSUME NEW a \in Answerer, LqSave(a)  PROVE SomebodyCounts'
  <2>1. UNCHANGED <<lqRunner, lqResumed, lqPast>> /\ CallAt(a, "saving")
    BY <1>4 DEF LqSave
  <2> SUFFICES ASSUME lqPast.late # {}, ~lqPast.lost
               PROVE  \/ lqResumed'
                      \/ \E q \in Question : lqRow'[q].status \in Open
                      \/ \E b \in Request : CallAt(b, "checking")' \/ CallAt(b, "counting")'
    BY <2>1 DEF RunnerAt
  <2>2. a \in Request
    BY <2>1 DEF RunnerAt, CallAt, Answerer
  <2>3. CASE Expected(a)
    <3>1. lqCall' = [lqCall EXCEPT ![a].pc = "checking", ![a].seen = StatusOf({})]
      BY <1>4, <2>2, <2>3 DEF LqSave, QuestionsAssumption
    <3>2. CallAt(a, "checking")'
      BY <3>1 DEF CallAt, CallType
    <3> QED BY <2>2, <3>2
  <2>4. CASE ~Expected(a)
    <3>1. lqRow' = lqRow /\ lqCall' = [lqCall EXCEPT ![a] = LqNoCall]
      BY <1>4, <2>4 DEF LqSave
    <3>2. \A b \in Request : CallAt(b, "checking") \/ CallAt(b, "counting") => lqCall'[b] = lqCall[b]
      BY <2>1, <3>1 DEF CallAt, Answerer
    <3> QED BY <2>1, <3>1, <3>2 DEF CallAt
  <2> QED BY <2>3, <2>4
<1>5. ASSUME NEW a \in Answerer, LqCheck(a)  PROVE SomebodyCounts'
  BY <1>5 DEF LqCheck
<1>6. ASSUME NEW a \in Answerer, LqCount(a)  PROVE SomebodyCounts'
  BY <1>6 DEF LqCount
<1>7. ASSUME NEW a \in Answerer, LqRequestLost(a)  PROVE SomebodyCounts'
  BY <1>7 DEF LqRequestLost
<1>8. ASSUME NEW a \in Answerer, NEW q \in Question, LqAnswer(a, q)  PROVE SomebodyCounts'
  BY <1>8 DEF LqAnswer
<1>9. ASSUME NEW q \in Question, LqHide(q)  PROVE SomebodyCounts'
  BY <1>9 DEF LqHide
<1>10. ASSUME NEW q \in Question, LqFill(q)  PROVE SomebodyCounts'
  BY <1>10 DEF LqFill
<1>11. ASSUME LqLeaseLapses  PROVE SomebodyCounts'
  BY <1>11 DEF LqLeaseLapses
<1>12. ASSUME LqAsk  PROVE SomebodyCounts'
  BY <1>12 DEF LqAsk
<1>13. ASSUME LqResolved  PROVE SomebodyCounts'
  BY <1>13 DEF LqResolved
<1>14. ASSUME LqLook  PROVE SomebodyCounts'
  BY <1>14 DEF LqLook
<1>15. ASSUME LqRecord  PROVE SomebodyCounts'
  BY <1>15 DEF LqRecord
<1>16. ASSUME LqReturn  PROVE SomebodyCounts'
  BY <1>16 DEF LqReturn
<1>17. ASSUME LqAgain  PROVE SomebodyCounts'
  BY <1>17 DEF LqAgain
<1>18. ASSUME LqDeadline  PROVE SomebodyCounts'
  BY <1>18 DEF LqDeadline
<1>19. ASSUME LqAttemptEnds  PROVE SomebodyCounts'
  BY <1>19 DEF LqAttemptEnds
<1>20. ASSUME LqCrash  PROVE SomebodyCounts'
  BY <1>20 DEF LqCrash
<1>21. ASSUME LqStalled  PROVE SomebodyCounts'
  BY <1>21 DEF LqStalled
<1>22. ASSUME UNCHANGED lqVars  PROVE SomebodyCounts'
  BY <1>22 DEF lqVars
<1> QED BY <1>1, <1>2, <1>3, <1>4, <1>5, <1>6, <1>7, <1>8, <1>9, <1>10, <1>11, <1>12, <1>13, <1>14,
           <1>15, <1>16, <1>17, <1>18, <1>19, <1>20, <1>21, <1>22 DEF LiveNext

LEMMA LiveKeepsInv == LiveSpec => []LiveInv
<1>1. LiveInv /\ [LiveNext]_lqVars => LiveInv'
  BY LiveTypeStep, GuessStep, CountStep DEF LiveInv
<1> QED BY <1>1, LiveInitInv, PTL DEF LiveSpec

\* The rows of an attempt's questions, the requests and the runner keep their
\* types: no answer, guess, deadline or crash leaves a question with a status
\* the code does not know (live-questions.ts, questions.ts).
THEOREM LiveTypeCorrect == LiveSpec => []LiveTypeOK
<1>1. LiveInv => LiveTypeOK
  BY DEF LiveInv
<1> QED BY <1>1, LiveKeepsInv, PTL

\* The answer that completes the questions of an attempt that is over resumes
\* the application, for any questions, requests, waits and crashes: whoever
\* found no active job counts what is open only after it has saved
\* (answerQuestions).
THEOREM LastAnswerResumes == LiveSpec => []CompleteAnswersResume
<1>1. LiveInv => CompleteAnswersResume
  BY DEF LiveInv, SomebodyCounts, CompleteAnswersResume, CallAt
<1> QED BY <1>1, LiveKeepsInv, PTL

\* No guess of the profile replaces a person's answer before the form was
\* offered it, however many resolutions run beside the person: a guess is
\* saved only over rows that are as open as when it looked (expected rows of
\* answerQuestions).
THEOREM PersonsAnswerWaits == LiveSpec => AnswerWaitsForItsUse
<1> DEFINE Kept == \A q \in Question :
              lqRow[q].status = "answered" /\ lqRow[q].by = "person" => lqRow'[q].by = "person"
<1>1. ASSUME LiveInv, [LiveNext]_lqVars  PROVE Kept
  <2> SUFFICES ASSUME NEW q \in Question, lqRow[q].status = "answered", lqRow[q].by = "person",
                      lqRow' # lqRow
               PROVE  lqRow'[q].by = "person"
    OBVIOUS
  <2> USE <1>1 DEF LiveInv
  <2>1. lqRow \in [Question -> RowType]
    BY LiveTypes
  <2>2. ASSUME NEW a \in Answerer, LqSave(a)  PROVE lqRow'[q].by = "person"
    <3>1. /\ CallAt(a, "saving") /\ Expected(a)
          /\ lqRow' = [r \in Question |-> IF r \in lqCall[a].batch
                                            THEN [status |-> "answered", by |-> lqCall[a].by]
                                            ELSE lqRow[r]]
      BY <2>2 DEF LqSave
    <3>2. q \in lqCall[a].batch => lqCall[a].by = "person"
      BY <3>1 DEF GuessSawOpen, Expected, Open
    <3> QED BY <3>1, <3>2
  <2>3. ASSUME NEW r \in Question, LqHide(r)  PROVE lqRow'[q].by = "person"
    BY <2>1, <2>3 DEF LqHide, SetStatusOf, RowType
  <2>4. CASE LqAsk
    BY <2>4 DEF LqAsk
  <2>5. CASE LqRecord \/ LqDeadline
    BY <2>1, <2>5 DEF LqRecord, LqDeadline, RowType
  <2>6. \/ \E a \in Answerer : LqSave(a)
        \/ \E r \in Question : LqHide(r)
        \/ LqAsk \/ LqRecord \/ LqDeadline
    BY DEF LiveNext, lqVars, LqResolve, LqThink, LqReread, LqCheck, LqCount, LqRequestLost,
       LqAnswer,
           LqFill, LqLeaseLapses, LqResolved, LqLook, LqReturn, LqAgain, LqAttemptEnds, LqCrash,
           LqStalled
  <2> QED BY <2>2, <2>3, <2>4, <2>5, <2>6
<1>2. LiveInv /\ [LiveNext]_lqVars => [Kept]_lqVars
  BY <1>1
<1> QED BY <1>2, LiveKeepsInv, PTL DEF LiveSpec, AnswerWaitsForItsUse

HIDE QuestionsAssumption DEF QuestionsAssumption

(***************************************************************************)
(* The playground. Presses of Apply are counted through the list of replies, *)
(* the execution that took one, and the click; a reply remembers how many  *)
(* questions it had seen; a row that was left alone for ten minutes belongs *)
(* to nobody who works.                                                    *)
(***************************************************************************)

\* Executions between their approval and the click, and approvals that wait.
Approved == {e \in Exec : pgExec[e].pc \in {"preparing", "filling", "blocking", "asking"}}
ApprovalsIn(s) == {i \in DOMAIN s : s[i].kind = "approve"}

\* Each press of Apply waits, is being used, was used, or is gone.
ApprovalsLast ==
    pgCount.submits + Cardinality(Approved) + Cardinality(ApprovalsIn(pgReplies))
        <= pgCount.approves

\* What waits since a question was asked was posted after it.
RepliesAreFresh ==
    \A e \in Exec : PgAt(e, "blocking") \/ PgAt(e, "asking") =>
        \A i \in DOMAIN pgReplies : pgReplies[i].since[e] = pgExec[e].asks

\* An execution that opened a browser was delivered; later ones are to come.
DeliveredInTurn ==
    /\ pgSession <= pgJob.tries /\ pgSweep.session <= pgJob.tries
    /\ \A e \in Exec : e > pgJob.tries => PgAt(e, "idle")

\* Nobody works in the session of a row that no one touched for ten minutes.
AgedRunsRest ==
    /\ pgAged /\ pgSession # NoExec => pgExec[pgSession].pc \notin Working
    /\ pgSweep.pc = "stopping" => pgSweep.session \in Exec /\ CleanUpSparesLiveRuns

\* Between a look and its post there is room for the press of Apply.
OnePress == pgRequest = "approve" => pgCount.approves < PgMaxApproves

PgInv ==
    /\ PlaygroundTypeOK /\ OnePress /\ ApprovalsLast /\ RepliesAreFresh /\ DeliveredInTurn /\ AgedRunsRest

USE PgAssumption DEF PgAssumption

ExecType == [pc : Working \cup {"idle", "done", "dead"}, asks : 0..PgMaxAsks]
JobType == [state : {"none", "waiting", "active", "gone"}, tries : 0..PgExecutions]
SweepType == [pc : {"idle", "stopping", "clearing", "failing"}, session : Exec \cup {NoExec}]
CountType == [approves : 0..PgMaxApproves, submits : Nat, faults : 0..PgMaxFaults]

LEMMA PgTypes ==
  PlaygroundTypeOK <=>
    /\ pgStatus \in LiveStatus \cup EndedStatus \cup {"none"}
    /\ pgSession \in Exec \cup {NoExec} /\ pgBrowsers \subseteq Exec /\ pgAged \in BOOLEAN
    /\ pgReplies \in Seq(Reply) /\ Len(pgReplies) <= PgMaxReplies
    /\ pgRequest \in {"none", "enqueue"} \cup ReplyKind
    /\ pgJob \in JobType /\ pgExec \in [Exec -> ExecType]
    /\ pgSweep \in SweepType /\ pgCount \in CountType
BY DEF PlaygroundTypeOK, ExecType, JobType, SweepType, CountType

\* Where an execution goes, and what a reply that is taken leaves.
LEMMA PgGoes ==
  ASSUME PlaygroundTypeOK, NEW e \in Exec, NEW pc \in Working \cup {"idle", "done", "dead"},
         PgGo(e, pc)
  PROVE  /\ pgExec' \in [Exec -> ExecType]
         /\ pgExec'[e].pc = pc /\ pgExec'[e].asks = pgExec[e].asks
         /\ \A f \in Exec \ {e} : pgExec'[f] = pgExec[f]
<1>1. pgExec \in [Exec -> ExecType]
  BY PgTypes
<1>2. pgExec' = [pgExec EXCEPT ![e] = [pgExec[e] EXCEPT !.pc = pc]]
  BY DEF PgGo
<1>3. [pgExec[e] EXCEPT !.pc = pc] \in ExecType
  BY <1>1 DEF ExecType
<1> QED BY <1>1, <1>2, <1>3 DEF ExecType

LEMMA PgPops ==
  ASSUME PlaygroundTypeOK, pgReplies # <<>>, Pop
  PROVE  /\ pgReplies' \in Seq(Reply) /\ Len(pgReplies') <= PgMaxReplies
         /\ Len(pgReplies') = Len(pgReplies) - 1 /\ Head(pgReplies) = pgReplies[1]
         /\ \A i \in DOMAIN pgReplies' : i + 1 \in DOMAIN pgReplies
                                         /\ pgReplies'[i] = pgReplies[i + 1]
<1>1. pgReplies \in Seq(Reply) /\ Len(pgReplies) <= PgMaxReplies
  BY PgTypes
<1> QED BY <1>1, HeadTailProperties DEF Pop

LEMMA PgInitInv == PlaygroundInit => PgInv
<1> SUFFICES ASSUME PlaygroundInit  PROVE PgInv
  OBVIOUS
<1>1. \A e \in Exec : pgExec[e] = [pc |-> "idle", asks |-> 0]
  BY DEF PlaygroundInit
<1>2. PlaygroundTypeOK
  <2>1. pgExec \in [Exec -> ExecType] /\ pgJob \in JobType /\ pgSweep \in SweepType
    BY DEF PlaygroundInit, ExecType, JobType, SweepType, Working
  <2>2. pgCount \in CountType /\ pgReplies \in Seq(Reply) /\ Len(pgReplies) <= PgMaxReplies
    BY DEF PlaygroundInit, CountType
  <2> QED BY <2>1, <2>2, PgTypes DEF PlaygroundInit
<1>3. Approved = {} /\ ApprovalsIn(pgReplies) = {}
  BY <1>1 DEF PlaygroundInit, Approved, ApprovalsIn
<1>4. ApprovalsLast
  <2>1. Cardinality(Approved) = 0 /\ Cardinality(ApprovalsIn(pgReplies)) = 0
    BY <1>3, FS_EmptySet
  <2>2. pgCount.submits = 0 /\ pgCount.approves = 0
    BY DEF PlaygroundInit
  <2> QED BY <2>1, <2>2 DEF ApprovalsLast
<1>5. OnePress /\ RepliesAreFresh /\ DeliveredInTurn /\ AgedRunsRest
  BY <1>1 DEF PlaygroundInit, OnePress, RepliesAreFresh, DeliveredInTurn, AgedRunsRest, PgAt,
     NoExec, Exec
<1> QED BY <1>2, <1>4, <1>5 DEF PgInv

LEMMA PgTypeStep ==
  ASSUME PgInv, [PlaygroundNext]_pgVars
  PROVE  PlaygroundTypeOK'
<1> USE DEF PgInv
<1>1. ASSUME NEW e \in Exec, PgPickUp(e)  PROVE PlaygroundTypeOK'
  <2>1. pgExec' \in [Exec -> ExecType]
    BY <1>1, PgTypes, PgGoes DEF PgPickUp, PgAt, Working
  <2>2. pgJob' \in JobType
    BY <1>1, PgTypes DEF PgPickUp, JobType, Exec
  <2> QED BY <1>1, <2>1, <2>2
            DEF PgPickUp, pgRow, PlaygroundTypeOK, ExecType, JobType, SweepType, CountType
<1>2. ASSUME NEW e \in Exec, PgLaunch(e)  PROVE PlaygroundTypeOK'
  BY <1>2, PgTypes, PgGoes DEF PgLaunch, PlaygroundTypeOK, ExecType, LiveStatus, EndedStatus,
     Working, SetState, PgAt
<1>3. ASSUME NEW e \in Exec, PgOpen(e)  PROVE PlaygroundTypeOK'
  BY <1>3, PgTypes, PgGoes DEF PgOpen, PlaygroundTypeOK, ExecType, LiveStatus, EndedStatus,
     Working, PgAt, pgRow
<1>4. ASSUME NEW e \in Exec, PgStore(e)  PROVE PlaygroundTypeOK'
  BY <1>4, PgTypes, PgGoes DEF PgStore, PlaygroundTypeOK, ExecType, LiveStatus, EndedStatus,
     Working, PgAt
<1>5. ASSUME NEW e \in Exec, PgShortlist(e)  PROVE PlaygroundTypeOK'
  BY <1>5, PgTypes, PgGoes DEF PgShortlist, PlaygroundTypeOK, ExecType, LiveStatus, EndedStatus,
     Working, SetState, PgAt
<1>6. ASSUME NEW e \in Exec, PgAwaitApproval(e)  PROVE PlaygroundTypeOK'
  <2>1. pgExec' \in [Exec -> ExecType]
    BY <1>6, PgTypes, PgGoes DEF PgAwaitApproval, PgAt, Working
  <2>2. pgReplies' \in Seq(Reply) /\ Len(pgReplies') <= PgMaxReplies
    BY <1>6, PgTypes, PgPops DEF PgAwaitApproval
  <2>3. /\ pgStatus' \in LiveStatus \cup EndedStatus \cup {"none"}
        /\ pgSession' \in Exec \cup {NoExec} /\ pgAged' \in BOOLEAN
    BY <1>6, PgTypes DEF PgAwaitApproval, SetState, pgRow, LiveStatus, EndedStatus
  <2> QED BY <1>6, <2>1, <2>2, <2>3
            DEF PgAwaitApproval, pgRow, PlaygroundTypeOK, ExecType, JobType, SweepType, CountType
<1>7. ASSUME NEW e \in Exec, PgApply(e)  PROVE PlaygroundTypeOK'
  BY <1>7, PgTypes, PgGoes DEF PgApply, PlaygroundTypeOK, ExecType, LiveStatus, EndedStatus,
     Working, SetState, PgAt
<1>8. ASSUME NEW e \in Exec, PgAsk(e)  PROVE PlaygroundTypeOK'
  BY <1>8, PgTypes DEF PgAsk, PlaygroundTypeOK, ExecType, LiveStatus, EndedStatus, Working, PgAt,
     pgRow
<1>9. ASSUME NEW e \in Exec, PgBlock(e)  PROVE PlaygroundTypeOK'
  BY <1>9, PgTypes, PgGoes DEF PgBlock, PlaygroundTypeOK, ExecType, LiveStatus, EndedStatus,
     Working, SetState, PgAt
<1>10. ASSUME NEW e \in Exec, PgAwaitAnswer(e)  PROVE PlaygroundTypeOK'
  <2>1. pgExec' \in [Exec -> ExecType]
    BY <1>10, PgTypes, PgGoes DEF PgAwaitAnswer, PgAt, Working
  <2>2. pgReplies' \in Seq(Reply) /\ Len(pgReplies') <= PgMaxReplies
    BY <1>10, PgTypes, PgPops DEF PgAwaitAnswer
  <2>3. /\ pgStatus' \in LiveStatus \cup EndedStatus \cup {"none"}
        /\ pgSession' \in Exec \cup {NoExec} /\ pgAged' \in BOOLEAN
    BY <1>10, PgTypes DEF PgAwaitAnswer, SetState, pgRow, LiveStatus, EndedStatus
  <2> QED BY <1>10, <2>1, <2>2, <2>3
            DEF PgAwaitAnswer, pgRow, PlaygroundTypeOK, ExecType, JobType, SweepType, CountType
<1>11. ASSUME NEW e \in Exec, PgDeadline(e)  PROVE PlaygroundTypeOK'
  BY <1>11, PgTypes, PgGoes DEF PgDeadline, PlaygroundTypeOK, ExecType, LiveStatus, EndedStatus,
     Working, SetState, PgAt
<1>12. ASSUME NEW e \in Exec, PgSubmit(e)  PROVE PlaygroundTypeOK'
  <2>1. pgExec' \in [Exec -> ExecType]
    BY <1>12, PgTypes, PgGoes DEF PgSubmit, PgAt, Working
  <2>2. pgCount' \in CountType
    BY <1>12, PgTypes DEF PgSubmit, CountType, PgFault
  <2> QED BY <1>12, <2>1, <2>2
            DEF PgSubmit, pgRow, PlaygroundTypeOK, ExecType, JobType, SweepType, CountType
<1>13. ASSUME NEW e \in Exec, PgRecord(e)  PROVE PlaygroundTypeOK'
  BY <1>13, PgTypes, PgGoes DEF PgRecord, PlaygroundTypeOK, ExecType, LiveStatus, EndedStatus,
     Working, SetState, PgAt
<1>14. ASSUME NEW e \in Exec, PgClose(e)  PROVE PlaygroundTypeOK'
  <2>1. pgExec' \in [Exec -> ExecType]
    BY <1>14, PgTypes, PgGoes DEF PgClose, PgAt, Working
  <2>2. pgReplies' \in Seq(Reply) /\ Len(pgReplies') <= PgMaxReplies
    BY <1>14, PgTypes, PgPops DEF PgClose
  <2>3. pgJob' \in JobType
    BY <1>14, PgTypes DEF PgClose, JobType, Exec
  <2> QED BY <1>14, <2>1, <2>2, <2>3
            DEF PgClose, pgRow, PlaygroundTypeOK, ExecType, JobType, SweepType, CountType
<1>15. ASSUME NEW e \in Exec, PgFail(e)  PROVE PlaygroundTypeOK'
  BY <1>15, PgTypes, PgGoes DEF PgFail, PlaygroundTypeOK, ExecType, LiveStatus, EndedStatus,
     Working, SetState
<1>16. ASSUME NEW e \in Exec, PgCrash(e)  PROVE PlaygroundTypeOK'
  <2>1. pgExec' \in [Exec -> ExecType]
    BY <1>16, PgTypes, PgGoes DEF PgCrash, PgAt, Working
  <2>2. pgCount' \in CountType
    BY <1>16, PgTypes DEF PgCrash, CountType, PgFault
  <2> QED BY <1>16, <2>1, <2>2
            DEF PgCrash, pgRow, PlaygroundTypeOK, ExecType, JobType, SweepType, CountType
<1>17. ASSUME PgCreate  PROVE PlaygroundTypeOK'
  BY <1>17, PgTypes DEF PgCreate, PlaygroundTypeOK, LiveStatus, EndedStatus, SetState
<1>18. ASSUME PgEnqueue  PROVE PlaygroundTypeOK'
  BY <1>18, PgTypes DEF PgEnqueue, PlaygroundTypeOK, JobType, LiveStatus, EndedStatus, SetState,
     pgRow
<1>19. ASSUME PgAskApi  PROVE PlaygroundTypeOK'
  BY <1>19, PgTypes DEF PgAskApi, PlaygroundTypeOK, CountType, LiveStatus, EndedStatus, pgRow
<1>20. ASSUME PgPost  PROVE PlaygroundTypeOK'
  <2>1. Asked \in [Exec -> 0..PgMaxAsks]
    BY PgTypes DEF Asked, ExecType
  <2>2. [kind |-> pgRequest, since |-> Asked] \in Reply
    BY <1>20, <2>1 DEF PgPost, Reply
  <2>3. pgReplies \in Seq(Reply) /\ Len(pgReplies) < PgMaxReplies
    BY <1>20, PgTypes DEF PgPost
  <2>4. pgReplies' \in Seq(Reply) /\ Len(pgReplies') <= PgMaxReplies
    BY <1>20, <2>2, <2>3 DEF PgPost
  <2>5. pgCount' \in CountType
    <3>1. pgCount \in CountType
      BY PgTypes
    <3>2. pgRequest = "approve" => pgCount.approves < PgMaxApproves
      BY <1>20 DEF PgPost, OnePress
    <3>3. CASE pgRequest = "approve"
      <4>1. pgCount' = [pgCount EXCEPT !.approves = pgCount.approves + 1]
        BY <1>20, <3>3 DEF PgPost
      <4> QED BY <3>1, <3>2, <3>3, <4>1 DEF CountType
    <3>4. CASE pgRequest # "approve"
      BY <1>20, <3>1, <3>4 DEF PgPost
    <3> QED BY <3>3, <3>4
  <2> QED BY <1>20, <2>4, <2>5
            DEF PgPost, pgRow, PlaygroundTypeOK, ExecType, JobType, SweepType, CountType
<1>21. ASSUME PgStalled  PROVE PlaygroundTypeOK'
  BY <1>21, PgTypes DEF PgStalled, PlaygroundTypeOK, ExecType, JobType, LiveStatus, EndedStatus,
     Working, PgAt, pgRow
<1>22. ASSUME PgLapse  PROVE PlaygroundTypeOK'
  <2>1. pgJob' \in JobType
    BY <1>22, PgTypes DEF PgLapse, JobType, Exec
  <2>2. pgCount' \in CountType
    BY <1>22, PgTypes DEF PgLapse, CountType, PgFault
  <2> QED BY <1>22, <2>1, <2>2
            DEF PgLapse, pgRow, PlaygroundTypeOK, ExecType, JobType, SweepType, CountType
<1>23. ASSUME PgAge  PROVE PlaygroundTypeOK'
  BY <1>23, PgTypes DEF PgAge, PlaygroundTypeOK, ExecType, LiveStatus, EndedStatus, Working
<1>24. ASSUME PgBoot  PROVE PlaygroundTypeOK'
  BY <1>24, PgTypes DEF PgBoot, PlaygroundTypeOK, ExecType, JobType, SweepType, CountType,
     LiveStatus, EndedStatus, Working, pgRow
<1>25. ASSUME PgSweepStop  PROVE PlaygroundTypeOK'
  BY <1>25, PgTypes DEF PgSweepStop, PlaygroundTypeOK, SweepType, LiveStatus, EndedStatus, pgRow
<1>26. ASSUME PgSweepClear  PROVE PlaygroundTypeOK'
  <2>1. pgReplies' \in Seq(Reply) /\ Len(pgReplies') <= PgMaxReplies
    BY <1>26, PgTypes, PgPops DEF PgSweepClear
  <2>2. pgSweep' \in SweepType
    BY <1>26, PgTypes DEF PgSweepClear, SweepType
  <2> QED BY <1>26, <2>1, <2>2
            DEF PgSweepClear, pgRow, PlaygroundTypeOK, ExecType, JobType, SweepType, CountType
<1>27. ASSUME PgSweepFail  PROVE PlaygroundTypeOK'
  BY <1>27, PgTypes DEF PgSweepFail, PlaygroundTypeOK, ExecType, JobType, SweepType, CountType,
     LiveStatus, EndedStatus, Working, SetState
<1>28. ASSUME UNCHANGED pgVars  PROVE PlaygroundTypeOK'
  BY <1>28, PgTypes DEF pgVars, PlaygroundTypeOK, ExecType, JobType, SweepType, CountType,
     LiveStatus, EndedStatus, Working, pgRow
<1> QED BY <1>1, <1>2, <1>3, <1>4, <1>5, <1>6, <1>7, <1>8, <1>9, <1>10, <1>11, <1>12, <1>13, <1>14,
           <1>15, <1>16, <1>17, <1>18, <1>19, <1>20, <1>21, <1>22, <1>23, <1>24, <1>25, <1>26,
           <1>27, <1>28 DEF PlaygroundNext, PgExecute, PgSweepStep

\* An execution at work that goes on, with the row written or left alone.
LEMMA WorkGoesOn ==
  ASSUME PgInv, NEW e \in Exec, pgExec[e].pc \in Working,
         NEW pc \in (Working \ {"blocking", "asking"}) \cup {"done", "dead"}, PgGo(e, pc),
         pgJob'.tries = pgJob.tries, UNCHANGED pgSweep,
         \/ pgAged' = FALSE /\ pgSession' \in {pgSession, e}
         \/ UNCHANGED <<pgAged, pgSession>>,
         \A i \in DOMAIN pgReplies' :
            \E j \in DOMAIN pgReplies : pgReplies'[i] = pgReplies[j]
  PROVE  RepliesAreFresh' /\ DeliveredInTurn' /\ AgedRunsRest'
<1>1. /\ pgExec'[e].pc = pc /\ pgExec'[e].asks = pgExec[e].asks
      /\ \A f \in Exec \ {e} : pgExec'[f] = pgExec[f]
  BY PgGoes DEF PgInv
<1>2. RepliesAreFresh'
  <2> SUFFICES ASSUME NEW f \in Exec, PgAt(f, "blocking")' \/ PgAt(f, "asking")',
                      NEW i \in DOMAIN pgReplies'
               PROVE  pgReplies'[i].since[f] = pgExec'[f].asks
    BY DEF RepliesAreFresh
  <2>1. f # e /\ pgExec'[f] = pgExec[f]
    BY <1>1 DEF PgAt
  <2>2. PICK j \in DOMAIN pgReplies : pgReplies'[i] = pgReplies[j]
    OBVIOUS
  <2> QED BY <2>1, <2>2 DEF PgInv, RepliesAreFresh, PgAt
<1>3. e <= pgJob.tries /\ e \in Nat /\ pgJob.tries \in Nat
  BY PgTypes DEF PgInv, DeliveredInTurn, PgAt, Working, Exec, JobType
<1>4. DeliveredInTurn'
  BY <1>1, <1>3 DEF PgInv, DeliveredInTurn, PgAt
<1>5. AgedRunsRest'
  BY <1>1, PgTypes DEF PgInv, AgedRunsRest, CleanUpSparesLiveRuns
<1> QED BY <1>2, <1>4, <1>5

\* The executions stay where they are, what is posted knows what they asked, and
\* a row ages only when nobody works.
LEMMA ExecutionsStay ==
  ASSUME PgInv, UNCHANGED <<pgExec, pgSession>>, pgJob'.tries = pgJob.tries,
         pgAged' => pgAged \/ \A e \in Exec : pgExec[e].pc \notin Working,
         pgSweep'.pc = "stopping" => UNCHANGED pgSweep,
         pgSweep'.session \in {pgSweep.session, NoExec},
         \A i \in DOMAIN pgReplies' :
            \/ pgReplies'[i].since = Asked
            \/ \E j \in DOMAIN pgReplies : pgReplies'[i] = pgReplies[j]
  PROVE  RepliesAreFresh' /\ DeliveredInTurn' /\ AgedRunsRest'
<1>1. RepliesAreFresh'
  <2> SUFFICES ASSUME NEW e \in Exec, PgAt(e, "blocking") \/ PgAt(e, "asking"),
                      NEW i \in DOMAIN pgReplies'
               PROVE  pgReplies'[i].since[e] = pgExec[e].asks
    BY DEF RepliesAreFresh, PgAt
  <2>1. CASE pgReplies'[i].since = Asked
    BY <2>1 DEF Asked
  <2>2. CASE \E j \in DOMAIN pgReplies : pgReplies'[i] = pgReplies[j]
    BY <2>2 DEF PgInv, RepliesAreFresh
  <2> QED BY <2>1, <2>2
<1>2. pgJob.tries \in Nat
  BY PgTypes DEF PgInv, JobType
<1>3. DeliveredInTurn'
  BY <1>2 DEF PgInv, DeliveredInTurn, PgAt, NoExec
<1>4. AgedRunsRest'
  BY PgTypes DEF PgInv, AgedRunsRest, CleanUpSparesLiveRuns, NoExec
<1> QED BY <1>1, <1>3, <1>4

LEMMA PgRestStep ==
  ASSUME PgInv, [PlaygroundNext]_pgVars
  PROVE  RepliesAreFresh' /\ DeliveredInTurn' /\ AgedRunsRest'
<1> USE PgTypes DEF PgInv, RepliesAreFresh, DeliveredInTurn, AgedRunsRest, CleanUpSparesLiveRuns
<1>1. ASSUME NEW e \in Exec, PgPickUp(e)  PROVE RepliesAreFresh' /\ DeliveredInTurn' /\ AgedRunsRest'
  <2>1. /\ e = pgJob.tries + 1 /\ pgJob'.tries = e /\ UNCHANGED <<pgRow, pgReplies, pgSweep>>
        /\ PgGo(e, "done") \/ PgGo(e, "loading")
    BY <1>1, PgTypes DEF PgPickUp, JobType
  <2>2. /\ pgExec'[e].pc \in {"done", "loading"}
        /\ \A f \in Exec \ {e} : pgExec'[f] = pgExec[f]
    BY <2>1, PgGoes DEF Working
  <2>3. e \in Nat /\ pgJob.tries \in Nat /\ (\A f \in Exec : f \in Nat)
    BY PgTypes DEF JobType, Exec
  <2>4. e # pgSession /\ e # pgSweep.session /\ pgSession \in Nat /\ pgSweep.session \in Nat
    BY <2>1, <2>3, PgTypes DEF SweepType, Exec, NoExec
  <2>5. RepliesAreFresh'
    BY <2>1, <2>2 DEF PgAt
  <2>6. DeliveredInTurn'
    BY <2>1, <2>2, <2>3, <2>4 DEF PgAt, pgRow
  <2>7. AgedRunsRest'
    BY <2>1, <2>2, <2>4, PgTypes DEF pgRow, SweepType
  <2> QED BY <2>5, <2>6, <2>7
<1>2. ASSUME NEW e \in Exec, PgLaunch(e)  PROVE RepliesAreFresh' /\ DeliveredInTurn' /\ AgedRunsRest'
  BY <1>2, WorkGoesOn DEF PgLaunch, PgAt, SetState, Working
<1>3. ASSUME NEW e \in Exec, PgOpen(e)  PROVE RepliesAreFresh' /\ DeliveredInTurn' /\ AgedRunsRest'
  BY <1>3, WorkGoesOn DEF PgOpen, PgAt, pgRow, Working
<1>4. ASSUME NEW e \in Exec, PgStore(e)  PROVE RepliesAreFresh' /\ DeliveredInTurn' /\ AgedRunsRest'
  <2>1. CASE PgGo(e, "searching")
    BY <1>4, <2>1, WorkGoesOn DEF PgStore, PgAt, SetState, pgRow, Working
  <2>2. CASE PgGo(e, "waiting")
    BY <1>4, <2>2, WorkGoesOn DEF PgStore, PgAt, SetState, pgRow, Working
  <2> QED BY <1>4, <2>1, <2>2 DEF PgStore
<1>5. ASSUME NEW e \in Exec, PgShortlist(e)  PROVE RepliesAreFresh' /\ DeliveredInTurn' /\ AgedRunsRest'
  <2>1. CASE SetState("shortlisted") /\ PgGo(e, "waiting")
    BY <1>5, <2>1, WorkGoesOn DEF PgShortlist, PgAt, SetState, pgRow, Working
  <2>2. CASE SetState("failed") /\ PgGo(e, "closing")
    BY <1>5, <2>2, WorkGoesOn DEF PgShortlist, PgAt, SetState, pgRow, Working
  <2> QED BY <1>5, <2>1, <2>2 DEF PgShortlist
<1>6. ASSUME NEW e \in Exec, PgAwaitApproval(e)  PROVE RepliesAreFresh' /\ DeliveredInTurn' /\ AgedRunsRest'
  <2>1. pgReplies # <<>> /\ Pop /\ UNCHANGED <<pgJob, pgSweep>>
    BY <1>6 DEF PgAwaitApproval
  <2>2. \A i \in DOMAIN pgReplies' : \E j \in DOMAIN pgReplies : pgReplies'[i] = pgReplies[j]
    BY <2>1, PgPops
  <2>3. CASE PgGo(e, "preparing") /\ UNCHANGED pgRow
    BY <1>6, <2>1, <2>2, <2>3, WorkGoesOn DEF PgAwaitApproval, PgAt, pgRow, Working
  <2>4. CASE SetState("cancelled") /\ PgGo(e, "closing")
    BY <1>6, <2>1, <2>2, <2>4, WorkGoesOn DEF PgAwaitApproval, PgAt, SetState, Working
  <2>5. CASE UNCHANGED <<pgRow, pgExec>>
    <3>1. RepliesAreFresh'
      <4> SUFFICES ASSUME NEW f \in Exec, PgAt(f, "blocking") \/ PgAt(f, "asking"),
                          NEW i \in DOMAIN pgReplies'
                   PROVE  pgReplies'[i].since[f] = pgExec[f].asks
        BY <2>5 DEF RepliesAreFresh, PgAt
      <4>1. PICK j \in DOMAIN pgReplies : pgReplies'[i] = pgReplies[j]
        BY <2>2
      <4> QED BY <4>1
    <3> QED BY <2>1, <2>5, <3>1 DEF pgRow, PgAt
  <2> QED BY <1>6, <2>3, <2>4, <2>5 DEF PgAwaitApproval
<1>7. ASSUME NEW e \in Exec, PgApply(e)  PROVE RepliesAreFresh' /\ DeliveredInTurn' /\ AgedRunsRest'
  <2>1. CASE SetState("applying") /\ PgGo(e, "filling")
    BY <1>7, <2>1, WorkGoesOn DEF PgApply, PgAt, SetState, pgRow, Working
  <2>2. CASE SetState("cancelled") /\ PgGo(e, "closing")
    BY <1>7, <2>2, WorkGoesOn DEF PgApply, PgAt, SetState, pgRow, Working
  <2> QED BY <1>7, <2>1, <2>2 DEF PgApply
<1>8. ASSUME NEW e \in Exec, PgAsk(e)  PROVE RepliesAreFresh' /\ DeliveredInTurn' /\ AgedRunsRest'
  BY <1>8 DEF PgAsk, ExecType, Working, NoExec, Exec, PgAt, pgRow
<1>9. ASSUME NEW e \in Exec, PgBlock(e)  PROVE RepliesAreFresh' /\ DeliveredInTurn' /\ AgedRunsRest'
  BY <1>9 DEF PgBlock, ExecType, Working, SetState, PgGo, PgAt
<1>10. ASSUME NEW e \in Exec, PgAwaitAnswer(e)  PROVE RepliesAreFresh' /\ DeliveredInTurn' /\ AgedRunsRest'
  <2>1. pgReplies # <<>> /\ Pop /\ UNCHANGED <<pgJob, pgSweep>>
    BY <1>10 DEF PgAwaitAnswer
  <2>2. \A i \in DOMAIN pgReplies' : \E j \in DOMAIN pgReplies : pgReplies'[i] = pgReplies[j]
    BY <2>1, PgPops
  <2>3. CASE SetState("applying") /\ PgGo(e, "filling")
    BY <1>10, <2>1, <2>2, <2>3, WorkGoesOn DEF PgAwaitAnswer, PgAt, SetState, Working
  <2>4. CASE UNCHANGED <<pgRow, pgExec>>
    <3>1. RepliesAreFresh'
      <4> SUFFICES ASSUME NEW f \in Exec, PgAt(f, "blocking") \/ PgAt(f, "asking"),
                          NEW i \in DOMAIN pgReplies'
                   PROVE  pgReplies'[i].since[f] = pgExec[f].asks
        BY <2>4 DEF RepliesAreFresh, PgAt
      <4>1. PICK j \in DOMAIN pgReplies : pgReplies'[i] = pgReplies[j]
        BY <2>2
      <4> QED BY <4>1
    <3> QED BY <2>1, <2>4, <3>1 DEF pgRow, PgAt
  <2> QED BY <1>10, <2>3, <2>4 DEF PgAwaitAnswer
<1>11. ASSUME NEW e \in Exec, PgDeadline(e)  PROVE RepliesAreFresh' /\ DeliveredInTurn' /\ AgedRunsRest'
  <2>1. CASE PgAt(e, "waiting") /\ SetState("cancelled") /\ PgGo(e, "closing")
    BY <1>11, <2>1, WorkGoesOn DEF PgDeadline, PgAt, SetState, pgRow, Working
  <2>2. CASE PgAt(e, "asking") /\ SetState("applying") /\ PgGo(e, "filling")
    BY <1>11, <2>2, WorkGoesOn DEF PgDeadline, PgAt, SetState, pgRow, Working
  <2> QED BY <1>11, <2>1, <2>2 DEF PgDeadline
<1>12. ASSUME NEW e \in Exec, PgSubmit(e)  PROVE RepliesAreFresh' /\ DeliveredInTurn' /\ AgedRunsRest'
  BY <1>12, WorkGoesOn DEF PgSubmit, PgAt, pgRow, Working
<1>13. ASSUME NEW e \in Exec, PgRecord(e)  PROVE RepliesAreFresh' /\ DeliveredInTurn' /\ AgedRunsRest'
  BY <1>13, WorkGoesOn DEF PgRecord, PgAt, SetState, Working
<1>14. ASSUME NEW e \in Exec, PgClose(e)  PROVE RepliesAreFresh' /\ DeliveredInTurn' /\ AgedRunsRest'
  BY <1>14, WorkGoesOn DEF PgClose, PgAt, pgRow, JobType, Working
<1>15. ASSUME NEW e \in Exec, PgFail(e)  PROVE RepliesAreFresh' /\ DeliveredInTurn' /\ AgedRunsRest'
  BY <1>15, WorkGoesOn DEF PgFail, SetState, Working
<1>16. ASSUME NEW e \in Exec, PgCrash(e)  PROVE RepliesAreFresh' /\ DeliveredInTurn' /\ AgedRunsRest'
  BY <1>16, WorkGoesOn DEF PgCrash, pgRow
<1>17. ASSUME PgCreate  PROVE RepliesAreFresh' /\ DeliveredInTurn' /\ AgedRunsRest'
  BY <1>17, ExecutionsStay DEF PgCreate, SetState
<1>18. ASSUME PgEnqueue  PROVE RepliesAreFresh' /\ DeliveredInTurn' /\ AgedRunsRest'
  BY <1>18, ExecutionsStay DEF PgEnqueue, JobType, SetState, pgRow
<1>19. ASSUME PgAskApi  PROVE RepliesAreFresh' /\ DeliveredInTurn' /\ AgedRunsRest'
  BY <1>19, ExecutionsStay DEF PgAskApi, pgRow
<1>20. ASSUME PgPost  PROVE RepliesAreFresh' /\ DeliveredInTurn' /\ AgedRunsRest'
  <2>1. \A i \in DOMAIN pgReplies' :
           \/ pgReplies'[i].since = Asked
           \/ \E j \in DOMAIN pgReplies : pgReplies'[i] = pgReplies[j]
    BY <1>20, PgTypes DEF PgPost
  <2> QED BY <1>20, <2>1, ExecutionsStay DEF PgPost, pgRow
<1>21. ASSUME PgStalled  PROVE RepliesAreFresh' /\ DeliveredInTurn' /\ AgedRunsRest'
  BY <1>21, ExecutionsStay DEF PgStalled, JobType, pgRow
<1>22. ASSUME PgLapse  PROVE RepliesAreFresh' /\ DeliveredInTurn' /\ AgedRunsRest'
  BY <1>22, ExecutionsStay DEF PgLapse, JobType, pgRow
<1>23. ASSUME PgAge  PROVE RepliesAreFresh' /\ DeliveredInTurn' /\ AgedRunsRest'
  BY <1>23, ExecutionsStay DEF PgAge
<1>24. ASSUME PgBoot  PROVE RepliesAreFresh' /\ DeliveredInTurn' /\ AgedRunsRest'
  <2>1. /\ pgSession \in Exec /\ pgSession # NoExec /\ pgAged /\ pgSweep'.session = pgSession
        /\ UNCHANGED <<pgRow, pgJob, pgExec, pgReplies>>
    BY <1>24, PgTypes DEF PgBoot, Stranded
  <2> QED BY <2>1 DEF pgRow, PgAt
<1>25. ASSUME PgSweepStop  PROVE RepliesAreFresh' /\ DeliveredInTurn' /\ AgedRunsRest'
  BY <1>25, ExecutionsStay DEF PgSweepStop, SweepType, pgRow
<1>26. ASSUME PgSweepClear  PROVE RepliesAreFresh' /\ DeliveredInTurn' /\ AgedRunsRest'
  BY <1>26, ExecutionsStay DEF PgSweepClear, SweepType, pgRow
<1>27. ASSUME PgSweepFail  PROVE RepliesAreFresh' /\ DeliveredInTurn' /\ AgedRunsRest'
  BY <1>27, ExecutionsStay DEF PgSweepFail, SetState
<1>28. ASSUME UNCHANGED pgVars  PROVE RepliesAreFresh' /\ DeliveredInTurn' /\ AgedRunsRest'
  BY <1>28, ExecutionsStay DEF pgVars, pgRow
<1> QED BY <1>1, <1>2, <1>3, <1>4, <1>5, <1>6, <1>7, <1>8, <1>9, <1>10, <1>11, <1>12, <1>13, <1>14,
           <1>15, <1>16, <1>17, <1>18, <1>19, <1>20, <1>21, <1>22, <1>23, <1>24, <1>25, <1>26,
           <1>27, <1>28 DEF PlaygroundNext, PgExecute, PgSweepStep

LEMMA OnePressStep ==
  ASSUME PgInv, [PlaygroundNext]_pgVars
  PROVE  OnePress'
<1> USE PgTypes DEF PgInv, OnePress, CountType, SetState, PgAt, PgFault, pgRow, Asked
<1>1. ASSUME NEW e \in Exec, PgPickUp(e)  PROVE OnePress'
  BY <1>1 DEF PgPickUp
<1>2. ASSUME NEW e \in Exec, PgLaunch(e)  PROVE OnePress'
  BY <1>2 DEF PgLaunch
<1>3. ASSUME NEW e \in Exec, PgOpen(e)  PROVE OnePress'
  BY <1>3 DEF PgOpen
<1>4. ASSUME NEW e \in Exec, PgStore(e)  PROVE OnePress'
  BY <1>4 DEF PgStore
<1>5. ASSUME NEW e \in Exec, PgShortlist(e)  PROVE OnePress'
  BY <1>5 DEF PgShortlist
<1>6. ASSUME NEW e \in Exec, PgAwaitApproval(e)  PROVE OnePress'
  BY <1>6 DEF PgAwaitApproval
<1>7. ASSUME NEW e \in Exec, PgApply(e)  PROVE OnePress'
  BY <1>7 DEF PgApply
<1>8. ASSUME NEW e \in Exec, PgAsk(e)  PROVE OnePress'
  BY <1>8 DEF PgAsk
<1>9. ASSUME NEW e \in Exec, PgBlock(e)  PROVE OnePress'
  BY <1>9 DEF PgBlock
<1>10. ASSUME NEW e \in Exec, PgAwaitAnswer(e)  PROVE OnePress'
  BY <1>10 DEF PgAwaitAnswer
<1>11. ASSUME NEW e \in Exec, PgDeadline(e)  PROVE OnePress'
  BY <1>11 DEF PgDeadline
<1>12. ASSUME NEW e \in Exec, PgSubmit(e)  PROVE OnePress'
  BY <1>12 DEF PgSubmit
<1>13. ASSUME NEW e \in Exec, PgRecord(e)  PROVE OnePress'
  BY <1>13 DEF PgRecord
<1>14. ASSUME NEW e \in Exec, PgClose(e)  PROVE OnePress'
  BY <1>14 DEF PgClose
<1>15. ASSUME NEW e \in Exec, PgFail(e)  PROVE OnePress'
  BY <1>15 DEF PgFail
<1>16. ASSUME NEW e \in Exec, PgCrash(e)  PROVE OnePress'
  BY <1>16 DEF PgCrash
<1>17. ASSUME PgCreate  PROVE OnePress'
  BY <1>17 DEF PgCreate
<1>18. ASSUME PgEnqueue  PROVE OnePress'
  BY <1>18 DEF PgEnqueue
<1>19. ASSUME PgAskApi  PROVE OnePress'
  BY <1>19 DEF PgAskApi
<1>20. ASSUME PgPost  PROVE OnePress'
  BY <1>20 DEF PgPost
<1>21. ASSUME PgStalled  PROVE OnePress'
  BY <1>21 DEF PgStalled
<1>22. ASSUME PgLapse  PROVE OnePress'
  BY <1>22 DEF PgLapse
<1>23. ASSUME PgAge  PROVE OnePress'
  BY <1>23 DEF PgAge
<1>24. ASSUME PgBoot  PROVE OnePress'
  BY <1>24 DEF PgBoot
<1>25. ASSUME PgSweepStop  PROVE OnePress'
  BY <1>25 DEF PgSweepStop
<1>26. ASSUME PgSweepClear  PROVE OnePress'
  BY <1>26 DEF PgSweepClear
<1>27. ASSUME PgSweepFail  PROVE OnePress'
  BY <1>27 DEF PgSweepFail
<1>28. ASSUME UNCHANGED pgVars  PROVE OnePress'
  BY <1>28 DEF pgVars
<1> QED BY <1>1, <1>2, <1>3, <1>4, <1>5, <1>6, <1>7, <1>8, <1>9, <1>10, <1>11, <1>12, <1>13, <1>14,
           <1>15, <1>16, <1>17, <1>18, <1>19, <1>20, <1>21, <1>22, <1>23, <1>24, <1>25, <1>26,
           <1>27, <1>28 DEF PlaygroundNext, PgExecute, PgSweepStep

\* Approvals in the list and under way, as the list and the executions change.
LEMMA ApprovalsCounted ==
  ASSUME PlaygroundTypeOK
  PROVE  /\ IsFiniteSet(Approved) /\ Cardinality(Approved) \in Nat
         /\ IsFiniteSet(ApprovalsIn(pgReplies)) /\ Cardinality(ApprovalsIn(pgReplies)) \in Nat
         /\ pgCount.submits \in Nat /\ pgCount.approves \in Nat
<1>1. IsFiniteSet(Exec) /\ IsFiniteSet(1..Len(pgReplies))
  BY FS_Interval, PgTypes DEF Exec
<1>2. Approved \subseteq Exec /\ ApprovalsIn(pgReplies) \subseteq 1..Len(pgReplies)
  BY PgTypes DEF Approved, ApprovalsIn
<1> QED BY <1>1, <1>2, FS_Subset, FS_CardinalityType, PgTypes DEF CountType

LEMMA TakenApproval ==
  ASSUME PlaygroundTypeOK, pgReplies # <<>>, Pop
  PROVE  /\ Cardinality(ApprovalsIn(pgReplies')) \in Nat
         /\ Cardinality(ApprovalsIn(pgReplies'))
              <= IF Head(pgReplies).kind = "approve" THEN Cardinality(ApprovalsIn(pgReplies)) - 1
                                                     ELSE Cardinality(ApprovalsIn(pgReplies))
<1> DEFINE S == ApprovalsIn(pgReplies')
           T == ApprovalsIn(pgReplies)
           f == [i \in S |-> i + 1]
<1>1. pgReplies \in Seq(Reply) /\ pgReplies' \in Seq(Reply)
  BY PgTypes, PgPops
<1>2. /\ Head(pgReplies) = pgReplies[1] /\ Len(pgReplies) \in Nat /\ 1 \in DOMAIN pgReplies
      /\ \A i \in DOMAIN pgReplies' : i \in Nat /\ i >= 1 /\ i + 1 \in DOMAIN pgReplies
                                      /\ pgReplies'[i] = pgReplies[i + 1]
  BY <1>1, PgPops
<1>3. IsFiniteSet(T) /\ Cardinality(T) \in Nat /\ IsFiniteSet(T \ {1})
      /\ Cardinality(T \ {1}) = IF 1 \in T THEN Cardinality(T) - 1 ELSE Cardinality(T)
  BY ApprovalsCounted, FS_RemoveElement
<1>4. 1 \in T <=> Head(pgReplies).kind = "approve"
  BY <1>2 DEF ApprovalsIn
<1>5. f \in Injection(S, T \ {1})
  <2>1. \A i \in S : i \in Nat /\ i >= 1 /\ i + 1 \in T
    BY <1>2 DEF ApprovalsIn
  <2> HIDE DEF S, T
  <2>2. f \in [S -> T \ {1}]
    BY <2>1
  <2>3. \A i, j \in S : f[i] = f[j] => i = j
    BY <2>1
  <2> QED BY <2>2, <2>3 DEF Injection, IsInjective
<1> HIDE DEF S, T, f
<1>6. IsFiniteSet(S) /\ Cardinality(S) <= Cardinality(T \ {1}) /\ Cardinality(S) \in Nat
  BY <1>3, <1>5, FS_Injection, FS_CardinalityType
<1> QED BY <1>3, <1>4, <1>6 DEF S, T

\* Where no approval is taken or posted and nothing is clicked.
LEMMA ApprovalsKept ==
  ASSUME PgInv, Approved' \subseteq Approved,
         pgCount'.submits = pgCount.submits, pgCount'.approves = pgCount.approves,
         pgReplies' = pgReplies \/ pgReplies' = <<>> \/ (pgReplies # <<>> /\ Pop)
  PROVE  ApprovalsLast'
<1>1. /\ Cardinality(Approved') \in Nat /\ Cardinality(Approved') <= Cardinality(Approved)
      /\ Cardinality(Approved) \in Nat /\ Cardinality(ApprovalsIn(pgReplies)) \in Nat
  BY ApprovalsCounted, FS_Subset, FS_CardinalityType DEF PgInv
<1>2. /\ Cardinality(ApprovalsIn(pgReplies')) \in Nat
      /\ Cardinality(ApprovalsIn(pgReplies')) <= Cardinality(ApprovalsIn(pgReplies))
  <2>1. CASE pgReplies' = <<>>
    <3>1. ApprovalsIn(pgReplies') = {}
      BY <2>1 DEF ApprovalsIn
    <3> QED BY <1>1, <3>1, FS_EmptySet
  <2>2. CASE pgReplies # <<>> /\ Pop
    BY <1>1, <2>2, TakenApproval DEF PgInv
  <2>3. CASE pgReplies' = pgReplies
    BY <1>1, <2>3
  <2> QED BY <2>1, <2>2, <2>3
<1>3. pgCount.submits \in Nat /\ pgCount.approves \in Nat
  BY ApprovalsCounted DEF PgInv
<1> QED BY <1>1, <1>2, <1>3 DEF PgInv, ApprovalsLast

LEMMA ApprovedGo ==
  ASSUME PgInv, NEW e \in Exec, NEW pc \in Working \cup {"idle", "done", "dead"}, PgGo(e, pc),
         pc \in {"preparing", "filling", "blocking", "asking"} => e \in Approved
  PROVE  Approved' \subseteq Approved
BY PgGoes DEF PgInv, Approved

LEMMA ApprovalsStep ==
  ASSUME PgInv, [PlaygroundNext]_pgVars
  PROVE  ApprovalsLast'
<1>1. ASSUME NEW e \in Exec, PgPickUp(e)  PROVE ApprovalsLast'
  <2>1. /\ PgGo(e, "done") \/ PgGo(e, "loading")
        /\ pgCount'.submits = pgCount.submits /\ pgCount'.approves = pgCount.approves
        /\ pgReplies' = pgReplies \/ pgReplies' = <<>> \/ (pgReplies # <<>> /\ Pop)
    BY <1>1, PgTypes DEF PgPickUp, PgAt, PgFault, Approved, CountType, PgInv
  <2>2. Approved' \subseteq Approved
    BY <2>1, ApprovedGo DEF Working
  <2> QED BY <2>1, <2>2, ApprovalsKept
<1>2. ASSUME NEW e \in Exec, PgLaunch(e)  PROVE ApprovalsLast'
  <2>1. /\ PgGo(e, "opening")
        /\ pgCount'.submits = pgCount.submits /\ pgCount'.approves = pgCount.approves
        /\ pgReplies' = pgReplies \/ pgReplies' = <<>> \/ (pgReplies # <<>> /\ Pop)
    BY <1>2, PgTypes DEF PgLaunch, PgAt, PgFault, Approved, CountType, PgInv
  <2>2. Approved' \subseteq Approved
    BY <2>1, ApprovedGo DEF Working
  <2> QED BY <2>1, <2>2, ApprovalsKept
<1>3. ASSUME NEW e \in Exec, PgOpen(e)  PROVE ApprovalsLast'
  <2>1. /\ PgGo(e, "storing")
        /\ pgCount'.submits = pgCount.submits /\ pgCount'.approves = pgCount.approves
        /\ pgReplies' = pgReplies \/ pgReplies' = <<>> \/ (pgReplies # <<>> /\ Pop)
    BY <1>3, PgTypes DEF PgOpen, PgAt, PgFault, Approved, CountType, PgInv
  <2>2. Approved' \subseteq Approved
    BY <2>1, ApprovedGo DEF Working
  <2> QED BY <2>1, <2>2, ApprovalsKept
<1>4. ASSUME NEW e \in Exec, PgStore(e)  PROVE ApprovalsLast'
  <2>1. /\ PgGo(e, "searching") \/ PgGo(e, "waiting")
        /\ pgCount'.submits = pgCount.submits /\ pgCount'.approves = pgCount.approves
        /\ pgReplies' = pgReplies \/ pgReplies' = <<>> \/ (pgReplies # <<>> /\ Pop)
    BY <1>4, PgTypes DEF PgStore, PgAt, PgFault, Approved, CountType, PgInv
  <2>2. Approved' \subseteq Approved
    BY <2>1, ApprovedGo DEF Working
  <2> QED BY <2>1, <2>2, ApprovalsKept
<1>5. ASSUME NEW e \in Exec, PgShortlist(e)  PROVE ApprovalsLast'
  <2>1. /\ PgGo(e, "waiting") \/ PgGo(e, "closing")
        /\ pgCount'.submits = pgCount.submits /\ pgCount'.approves = pgCount.approves
        /\ pgReplies' = pgReplies \/ pgReplies' = <<>> \/ (pgReplies # <<>> /\ Pop)
    BY <1>5, PgTypes DEF PgShortlist, PgAt, PgFault, Approved, CountType, PgInv
  <2>2. Approved' \subseteq Approved
    BY <2>1, ApprovedGo DEF Working
  <2> QED BY <2>1, <2>2, ApprovalsKept
<1>6. ASSUME NEW e \in Exec, PgAwaitApproval(e)  PROVE ApprovalsLast'
  <2>1. pgReplies # <<>> /\ Pop /\ UNCHANGED pgCount /\ PgAt(e, "waiting")
    BY <1>6 DEF PgAwaitApproval
  <2>2. CASE Head(pgReplies).kind = "approve"
    <3>1. Approved' \subseteq Approved \cup {e}
      BY <1>6, <2>2, PgGoes DEF PgInv, PgAwaitApproval, Approved, Working
    <3>2. /\ Cardinality(Approved') \in Nat /\ Cardinality(Approved) \in Nat
          /\ Cardinality(Approved') <= Cardinality(Approved) + 1
      <4>1. /\ IsFiniteSet(Approved \cup {e})
            /\ Cardinality(Approved \cup {e}) \in {Cardinality(Approved), Cardinality(Approved) + 1}
        BY ApprovalsCounted, FS_AddElement DEF PgInv
      <4> QED BY <3>1, <4>1, ApprovalsCounted, FS_Subset, FS_CardinalityType DEF PgInv
    <3>3. /\ Cardinality(ApprovalsIn(pgReplies')) \in Nat /\ Cardinality(ApprovalsIn(pgReplies)) \in Nat
          /\ Cardinality(ApprovalsIn(pgReplies')) <= Cardinality(ApprovalsIn(pgReplies)) - 1
      BY <2>1, <2>2, TakenApproval, ApprovalsCounted DEF PgInv
    <3> QED BY <2>1, <3>2, <3>3, ApprovalsCounted DEF PgInv, ApprovalsLast
  <2>3. CASE Head(pgReplies).kind # "approve"
    <3>1. PgGo(e, "closing") \/ UNCHANGED pgExec
      BY <1>6, <2>3 DEF PgAwaitApproval
    <3>2. Approved' \subseteq Approved
      BY <3>1, ApprovedGo DEF Working, Approved
    <3> QED BY <2>1, <3>2, ApprovalsKept
  <2> QED BY <2>2, <2>3
<1>7. ASSUME NEW e \in Exec, PgApply(e)  PROVE ApprovalsLast'
  <2>1. /\ e \in Approved /\ (PgGo(e, "filling") \/ PgGo(e, "closing"))
        /\ pgCount'.submits = pgCount.submits /\ pgCount'.approves = pgCount.approves
        /\ pgReplies' = pgReplies \/ pgReplies' = <<>> \/ (pgReplies # <<>> /\ Pop)
    BY <1>7, PgTypes DEF PgApply, PgAt, PgFault, Approved, CountType, PgInv
  <2>2. Approved' \subseteq Approved
    BY <2>1, ApprovedGo DEF Working
  <2> QED BY <2>1, <2>2, ApprovalsKept
<1>8. ASSUME NEW e \in Exec, PgAsk(e)  PROVE ApprovalsLast'
  <2>1. pgReplies' = <<>> /\ UNCHANGED pgCount
    BY <1>8 DEF PgAsk
  <2>2. Approved' \subseteq Approved
    BY <1>8, PgTypes DEF PgInv, PgAsk, PgAt, Approved
  <2> QED BY <2>1, <2>2, ApprovalsKept
<1>9. ASSUME NEW e \in Exec, PgBlock(e)  PROVE ApprovalsLast'
  <2>1. /\ e \in Approved /\ PgGo(e, "asking")
        /\ pgCount'.submits = pgCount.submits /\ pgCount'.approves = pgCount.approves
        /\ pgReplies' = pgReplies \/ pgReplies' = <<>> \/ (pgReplies # <<>> /\ Pop)
    BY <1>9, PgTypes DEF PgBlock, PgAt, PgFault, Approved, CountType, PgInv
  <2>2. Approved' \subseteq Approved
    BY <2>1, ApprovedGo DEF Working
  <2> QED BY <2>1, <2>2, ApprovalsKept
<1>10. ASSUME NEW e \in Exec, PgAwaitAnswer(e)  PROVE ApprovalsLast'
  <2>1. /\ e \in Approved /\ (PgGo(e, "filling") \/ UNCHANGED pgExec)
        /\ pgCount'.submits = pgCount.submits /\ pgCount'.approves = pgCount.approves
        /\ pgReplies' = pgReplies \/ pgReplies' = <<>> \/ (pgReplies # <<>> /\ Pop)
    BY <1>10, PgTypes DEF PgAwaitAnswer, PgAt, PgFault, Approved, CountType, PgInv
  <2>2. Approved' \subseteq Approved
    BY <2>1, ApprovedGo DEF Working, Approved
  <2> QED BY <2>1, <2>2, ApprovalsKept
<1>11. ASSUME NEW e \in Exec, PgDeadline(e)  PROVE ApprovalsLast'
  <2>1. /\ PgGo(e, "closing") \/ (e \in Approved /\ PgGo(e, "filling"))
        /\ pgCount'.submits = pgCount.submits /\ pgCount'.approves = pgCount.approves
        /\ pgReplies' = pgReplies \/ pgReplies' = <<>> \/ (pgReplies # <<>> /\ Pop)
    BY <1>11, PgTypes DEF PgDeadline, PgAt, PgFault, Approved, CountType, PgInv
  <2>2. Approved' \subseteq Approved
    BY <2>1, ApprovedGo DEF Working
  <2> QED BY <2>1, <2>2, ApprovalsKept
<1>12. ASSUME NEW e \in Exec, PgSubmit(e)  PROVE ApprovalsLast'
  <2>1. PICK live \in {0, 1} : pgCount' = [pgCount EXCEPT !.submits = @ + live]
    BY <1>12 DEF PgSubmit
  <2>2. e \in Approved /\ UNCHANGED pgReplies /\ PgGo(e, "recording")
    BY <1>12 DEF PgSubmit, PgAt, Approved
  <2>3. Approved' \subseteq Approved \ {e}
    BY <2>2, PgGoes DEF PgInv, Approved, Working
  <2>4. /\ Cardinality(Approved') \in Nat /\ Cardinality(Approved) \in Nat
        /\ Cardinality(Approved') <= Cardinality(Approved) - 1
    <3>1. IsFiniteSet(Approved \ {e}) /\ Cardinality(Approved \ {e}) = Cardinality(Approved) - 1
      BY <2>2, ApprovalsCounted, FS_RemoveElement DEF PgInv
    <3> QED BY <2>3, <3>1, ApprovalsCounted, FS_Subset, FS_CardinalityType DEF PgInv
  <2>5. /\ pgCount'.submits = pgCount.submits + live /\ pgCount'.approves = pgCount.approves
        /\ live \in Nat /\ live <= 1
    BY <2>1, PgTypes DEF PgInv, CountType
  <2> QED BY <2>2, <2>4, <2>5, ApprovalsCounted DEF PgInv, ApprovalsLast
<1>13. ASSUME NEW e \in Exec, PgRecord(e)  PROVE ApprovalsLast'
  <2>1. /\ PgGo(e, "closing")
        /\ pgCount'.submits = pgCount.submits /\ pgCount'.approves = pgCount.approves
        /\ pgReplies' = pgReplies \/ pgReplies' = <<>> \/ (pgReplies # <<>> /\ Pop)
    BY <1>13, PgTypes DEF PgRecord, PgAt, PgFault, Approved, CountType, PgInv
  <2>2. Approved' \subseteq Approved
    BY <2>1, ApprovedGo DEF Working
  <2> QED BY <2>1, <2>2, ApprovalsKept
<1>14. ASSUME NEW e \in Exec, PgClose(e)  PROVE ApprovalsLast'
  <2>1. /\ PgGo(e, "done")
        /\ pgCount'.submits = pgCount.submits /\ pgCount'.approves = pgCount.approves
        /\ pgReplies' = pgReplies \/ pgReplies' = <<>> \/ (pgReplies # <<>> /\ Pop)
    BY <1>14, PgTypes DEF PgClose, PgAt, PgFault, Approved, CountType, PgInv
  <2>2. Approved' \subseteq Approved
    BY <2>1, ApprovedGo DEF Working
  <2> QED BY <2>1, <2>2, ApprovalsKept
<1>15. ASSUME NEW e \in Exec, PgFail(e)  PROVE ApprovalsLast'
  <2>1. /\ PgGo(e, "closing")
        /\ pgCount'.submits = pgCount.submits /\ pgCount'.approves = pgCount.approves
        /\ pgReplies' = pgReplies \/ pgReplies' = <<>> \/ (pgReplies # <<>> /\ Pop)
    BY <1>15, PgTypes DEF PgFail, PgAt, PgFault, Approved, CountType, PgInv
  <2>2. Approved' \subseteq Approved
    BY <2>1, ApprovedGo DEF Working
  <2> QED BY <2>1, <2>2, ApprovalsKept
<1>16. ASSUME NEW e \in Exec, PgCrash(e)  PROVE ApprovalsLast'
  <2>1. /\ PgGo(e, "dead")
        /\ pgCount'.submits = pgCount.submits /\ pgCount'.approves = pgCount.approves
        /\ pgReplies' = pgReplies \/ pgReplies' = <<>> \/ (pgReplies # <<>> /\ Pop)
    BY <1>16, PgTypes DEF PgCrash, PgAt, PgFault, Approved, CountType, PgInv
  <2>2. Approved' \subseteq Approved
    BY <2>1, ApprovedGo DEF Working
  <2> QED BY <2>1, <2>2, ApprovalsKept
<1>17. ASSUME PgCreate  PROVE ApprovalsLast'
  <2>1. /\ UNCHANGED pgExec /\ (pgReplies' = pgReplies \/ pgReplies' = <<>>)
        /\ pgCount'.submits = pgCount.submits /\ pgCount'.approves = pgCount.approves
    BY <1>17, PgTypes DEF PgInv, PgCreate, PgFault, CountType
  <2>2. Approved' = Approved
    BY <2>1 DEF Approved
  <2> QED BY <2>1, <2>2, ApprovalsKept
<1>18. ASSUME PgEnqueue  PROVE ApprovalsLast'
  <2>1. /\ UNCHANGED pgExec /\ (pgReplies' = pgReplies \/ pgReplies' = <<>>)
        /\ pgCount'.submits = pgCount.submits /\ pgCount'.approves = pgCount.approves
    BY <1>18, PgTypes DEF PgInv, PgEnqueue, PgFault, CountType
  <2>2. Approved' = Approved
    BY <2>1 DEF Approved
  <2> QED BY <2>1, <2>2, ApprovalsKept
<1>19. ASSUME PgAskApi  PROVE ApprovalsLast'
  <2>1. /\ UNCHANGED pgExec /\ (pgReplies' = pgReplies \/ pgReplies' = <<>>)
        /\ pgCount'.submits = pgCount.submits /\ pgCount'.approves = pgCount.approves
    BY <1>19, PgTypes DEF PgInv, PgAskApi, PgFault, CountType
  <2>2. Approved' = Approved
    BY <2>1 DEF Approved
  <2> QED BY <2>1, <2>2, ApprovalsKept
<1>20. ASSUME PgPost  PROVE ApprovalsLast'
  <2>1. /\ pgReplies' = Append(pgReplies, [kind |-> pgRequest, since |-> Asked])
        /\ UNCHANGED pgExec
        /\ pgCount' = IF pgRequest = "approve" THEN [pgCount EXCEPT !.approves = @ + 1] ELSE pgCount
    BY <1>20 DEF PgPost
  <2>2. /\ pgCount'.submits = pgCount.submits
        /\ pgCount'.approves = IF pgRequest = "approve" THEN pgCount.approves + 1 ELSE pgCount.approves
    BY <2>1, PgTypes DEF PgInv, CountType
  <2>3. Approved' = Approved
    BY <2>1 DEF Approved
  <2> DEFINE n == Len(pgReplies) + 1
  <2>4. ApprovalsIn(pgReplies') = IF pgRequest = "approve" THEN ApprovalsIn(pgReplies) \cup {n}
                                                           ELSE ApprovalsIn(pgReplies)
    <3>1. pgReplies \in Seq(Reply)
      BY PgTypes DEF PgInv
    <3>2. /\ DOMAIN pgReplies' = DOMAIN pgReplies \cup {n} /\ n \notin DOMAIN pgReplies
          /\ pgReplies'[n].kind = pgRequest
          /\ \A i \in DOMAIN pgReplies : pgReplies'[i] = pgReplies[i]
      BY <2>1, <3>1
    <3> HIDE DEF n
    <3> QED BY <3>2 DEF ApprovalsIn
  <2> HIDE DEF n
  <2>5. /\ Cardinality(ApprovalsIn(pgReplies')) \in Nat
        /\ Cardinality(ApprovalsIn(pgReplies'))
             <= IF pgRequest = "approve" THEN Cardinality(ApprovalsIn(pgReplies)) + 1
                                         ELSE Cardinality(ApprovalsIn(pgReplies))
    <3> DEFINE A == ApprovalsIn(pgReplies)
    <3>1. IsFiniteSet(A) /\ Cardinality(A) \in Nat
      BY ApprovalsCounted DEF PgInv
    <3> HIDE DEF A
    <3>2. Cardinality(A \cup {n}) \in Nat /\ Cardinality(A \cup {n}) <= Cardinality(A) + 1
      BY <3>1, FS_AddElement
    <3>3. ApprovalsIn(pgReplies') = IF pgRequest = "approve" THEN A \cup {n} ELSE A
      BY <2>4 DEF A
    <3>4. CASE pgRequest = "approve"
      BY <3>2, <3>3, <3>4 DEF A
    <3>5. CASE pgRequest # "approve"
      BY <3>1, <3>3, <3>5 DEF A
    <3> QED BY <3>4, <3>5
  <2> QED BY <2>2, <2>3, <2>5, ApprovalsCounted DEF PgInv, ApprovalsLast
<1>21. ASSUME PgStalled  PROVE ApprovalsLast'
  <2>1. /\ UNCHANGED pgExec /\ (pgReplies' = pgReplies \/ pgReplies' = <<>>)
        /\ pgCount'.submits = pgCount.submits /\ pgCount'.approves = pgCount.approves
    BY <1>21, PgTypes DEF PgInv, PgStalled, PgFault, CountType
  <2>2. Approved' = Approved
    BY <2>1 DEF Approved
  <2> QED BY <2>1, <2>2, ApprovalsKept
<1>22. ASSUME PgLapse  PROVE ApprovalsLast'
  <2>1. /\ UNCHANGED pgExec /\ (pgReplies' = pgReplies \/ pgReplies' = <<>>)
        /\ pgCount'.submits = pgCount.submits /\ pgCount'.approves = pgCount.approves
    BY <1>22, PgTypes DEF PgInv, PgLapse, PgFault, CountType
  <2>2. Approved' = Approved
    BY <2>1 DEF Approved
  <2> QED BY <2>1, <2>2, ApprovalsKept
<1>23. ASSUME PgAge  PROVE ApprovalsLast'
  <2>1. /\ UNCHANGED pgExec /\ (pgReplies' = pgReplies \/ pgReplies' = <<>>)
        /\ pgCount'.submits = pgCount.submits /\ pgCount'.approves = pgCount.approves
    BY <1>23, PgTypes DEF PgInv, PgAge, PgFault, CountType
  <2>2. Approved' = Approved
    BY <2>1 DEF Approved
  <2> QED BY <2>1, <2>2, ApprovalsKept
<1>24. ASSUME PgBoot  PROVE ApprovalsLast'
  <2>1. /\ UNCHANGED pgExec /\ (pgReplies' = pgReplies \/ pgReplies' = <<>>)
        /\ pgCount'.submits = pgCount.submits /\ pgCount'.approves = pgCount.approves
    BY <1>24, PgTypes DEF PgInv, PgBoot, PgFault, CountType
  <2>2. Approved' = Approved
    BY <2>1 DEF Approved
  <2> QED BY <2>1, <2>2, ApprovalsKept
<1>25. ASSUME PgSweepStop  PROVE ApprovalsLast'
  <2>1. /\ UNCHANGED pgExec /\ (pgReplies' = pgReplies \/ pgReplies' = <<>>)
        /\ pgCount'.submits = pgCount.submits /\ pgCount'.approves = pgCount.approves
    BY <1>25, PgTypes DEF PgInv, PgSweepStop, PgFault, CountType
  <2>2. Approved' = Approved
    BY <2>1 DEF Approved
  <2> QED BY <2>1, <2>2, ApprovalsKept
<1>26. ASSUME PgSweepClear  PROVE ApprovalsLast'
  <2>1. /\ UNCHANGED pgExec /\ (pgReplies' = pgReplies \/ pgReplies' = <<>>)
        /\ pgCount'.submits = pgCount.submits /\ pgCount'.approves = pgCount.approves
    BY <1>26, PgTypes DEF PgInv, PgSweepClear, PgFault, CountType
  <2>2. Approved' = Approved
    BY <2>1 DEF Approved
  <2> QED BY <2>1, <2>2, ApprovalsKept
<1>27. ASSUME PgSweepFail  PROVE ApprovalsLast'
  <2>1. /\ UNCHANGED pgExec /\ (pgReplies' = pgReplies \/ pgReplies' = <<>>)
        /\ pgCount'.submits = pgCount.submits /\ pgCount'.approves = pgCount.approves
    BY <1>27, PgTypes DEF PgInv, PgSweepFail, PgFault, CountType
  <2>2. Approved' = Approved
    BY <2>1 DEF Approved
  <2> QED BY <2>1, <2>2, ApprovalsKept
<1>28. ASSUME UNCHANGED pgVars  PROVE ApprovalsLast'
  <2>1. Approved' = Approved /\ UNCHANGED <<pgReplies, pgCount>>
    BY <1>28 DEF pgVars, Approved
  <2> QED BY <2>1, ApprovalsKept
<1> QED BY <1>1, <1>2, <1>3, <1>4, <1>5, <1>6, <1>7, <1>8, <1>9, <1>10, <1>11, <1>12, <1>13, <1>14,
           <1>15, <1>16, <1>17, <1>18, <1>19, <1>20, <1>21, <1>22, <1>23, <1>24, <1>25, <1>26,
           <1>27, <1>28 DEF PlaygroundNext, PgExecute, PgSweepStep

LEMMA PgKeepsInv == PlaygroundSpec => []PgInv
<1>1. PgInv /\ [PlaygroundNext]_pgVars => PgInv'
  BY PgTypeStep, OnePressStep, ApprovalsStep, PgRestStep DEF PgInv
<1> QED BY <1>1, PgInitInv, PTL DEF PlaygroundSpec

\* A playground run's row, its replies, its executions and the clean-up keep
\* their types, and no more replies wait than may (playground/run.ts,
\* replies.ts, reconcile.ts).
THEOREM PlaygroundTypeCorrect == PlaygroundSpec => []PlaygroundTypeOK
<1>1. PgInv => PlaygroundTypeOK
  BY DEF PgInv
<1> QED BY <1>1, PgKeepsInv, PTL

\* One press of Apply never sends two applications, for any executions,
\* replies, questions, crashes and lapsed locks: each approval waits in the
\* list, is held by the one execution that took it, was spent, or is gone
\* (awaitReply).
THEOREM EveryClickWasApproved == PlaygroundSpec => []ApprovalPerSubmission
<1>1. PgInv => ApprovalPerSubmission
  BY ApprovalsCounted DEF PgInv, ApprovalsLast, ApprovalPerSubmission
<1> QED BY <1>1, PgKeepsInv, PTL

\* What is taken as the answer to a question was posted after the question,
\* for any number of questions and replies (onAsk empties the list).
THEOREM NoAnswerBeforeItsQuestion == PlaygroundSpec => []AnswersFollowTheirQuestion
<1>1. PgInv => AnswersFollowTheirQuestion
  BY DEF PgInv, RepliesAreFresh, AnswersFollowTheirQuestion
<1> QED BY <1>1, PgKeepsInv, PTL

\* The clean-up of a booting runner stops no browser that a live execution
\* drives, although it acts on a row it read before: a session whose row has
\* aged is not worked in again (reconcileInterruptedPlaygroundRuns).
THEOREM LiveRunsAreSpared == PlaygroundSpec => []CleanUpSparesLiveRuns
<1>1. PgInv => CleanUpSparesLiveRuns
  BY DEF PgInv, AgedRunsRest, CleanUpSparesLiveRuns
<1> QED BY <1>1, PgKeepsInv, PTL
=============================================================================
