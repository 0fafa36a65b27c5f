----------------------------- MODULE AgentLoop -----------------------------
(***************************************************************************)
(* The reasoning loop (agent/loop.ts): observe the page, ask the model for *)
(* one tool call, act, repeat. Each part has its own count of errors of    *)
(* the same kind in a row; a call that outlives its deadline is given up   *)
(* by the loop and not stopped.                                            *)
(***************************************************************************)
EXTENDS Naturals

CONSTANTS ErrorKey,     \* errors that the loop tells apart
          Deadline,     \* the one of a call that took too long
          AgNone,       \* no error yet
          AgMaxSteps,
          AgRecovery    \* APPLY_RECOVERY_ATTEMPTS

ASSUME AgentAssumption ==
    /\ AgMaxSteps \in Nat \ {0} /\ AgRecovery \in Nat \ {0}
    /\ Deadline \in ErrorKey /\ AgNone \notin ErrorKey

VARIABLES turn,     \* where the loop stands, and its steps
          errors,   \* observing, thinking, acting -> the last error, times in a row
          observed, \* a field was filled, as far as the loop saw
          report,   \* stoppedBecause, and the AgentRunResult's two flags
          late,     \* calls given up that are still at work on the page
          agPast    \* history: how the last action went, and what was sent

agVars == <<turn, errors, observed, report, late, agPast>>

Part == {"observe", "think", "act"}
AgTool == {"change", "move", "submit"}
NoError == [key |-> AgNone, times |-> 0]
NoReport == [stopped |-> "no", reachedForm |-> FALSE, canSubmit |-> FALSE]

AgentTypeOK ==
    /\ turn \in [pc : {"unborn", "ended", "thrown"} \cup Part, step : 0..AgMaxSteps]
    /\ errors \in [Part -> [key : ErrorKey \cup {AgNone}, times : 0..AgRecovery]]
    /\ observed \in BOOLEAN
    /\ report \in [stopped : {"no", "done", "max-steps", "error"},
                   reachedForm : BOOLEAN, canSubmit : BOOLEAN]
    /\ late \subseteq AgTool
    /\ agPast \in [action : {"none", "ok", "failed"},
                   sent : {"no", "timely", "late"}]

AgentInit ==
    /\ turn = [pc |-> "unborn", step |-> 0]
    /\ errors = [p \in Part |-> NoError]
    /\ observed = FALSE
    /\ report = NoReport
    /\ late = {}
    /\ agPast = [action |-> "none", sent |-> "no"]

AgAt(pc) == turn.pc = pc
AgGo(pc) == turn' = [turn EXCEPT !.pc = pc]
NextTurn == turn' = [pc |-> "observe", step |-> turn.step + 1]

\* finalizeAgentReport: what was filled shows that a form was reached, and
\* only the agent's own end of the run permits a submission.
Finalized(reached, why) ==
    [stopped |-> why, reachedForm |-> reached \/ observed,
     canSubmit |-> why = "done" /\ (reached \/ observed)]

AgStop(reached, why) == AgGo("ended") /\ report' = Finalized(reached, why)

Again(p, key) ==
    [key |-> key, times |-> IF errors[p].key = key THEN errors[p].times + 1 ELSE 1]

\* One more error of a part: too many of the same kind end the run.
Suffer(p, key) ==
    /\ errors' = [errors EXCEPT ![p] = Again(p, key)]
    /\ IF Again(p, key).times >= AgRecovery
         THEN AgStop(FALSE, "error")
         ELSE NextTurn /\ UNCHANGED report

StartAgent ==
    /\ AgAt("unborn") /\ AgGo("observe")
    /\ UNCHANGED <<errors, observed, report, late, agPast>>

\* The step ceiling, or the deadline of the whole run.
RunOut ==
    /\ AgAt("observe")
    /\ AgStop(FALSE, "max-steps")
    /\ UNCHANGED <<errors, observed, late, agPast>>

StepLeft == turn.step < AgMaxSteps

ObserveFails(key) ==
    /\ AgAt("observe") /\ StepLeft
    /\ Suffer("observe", key)
    /\ UNCHANGED <<observed, late, agPast>>

Observes ==
    /\ AgAt("observe") /\ StepLeft
    /\ errors' = [errors EXCEPT !["observe"] = NoError]
    /\ AgGo("think")
    /\ UNCHANGED <<observed, report, late, agPast>>

ThinkFails(key) ==
    /\ AgAt("think")
    /\ Suffer("think", key)
    /\ UNCHANGED <<observed, late, agPast>>

\* The provider has no quota or refuses the key.
ModelUnavailable ==
    /\ AgAt("think")
    /\ AgGo("thrown")
    /\ UNCHANGED <<errors, observed, report, late, agPast>>

\* An answer without a tool call; an empty one, not the first, ends the run.
AnswersInProse ==
    /\ AgAt("think")
    /\ errors' = [errors EXCEPT !["think"] = NoError]
    /\ \/ NextTurn /\ UNCHANGED report
       \/ turn.step > 0 /\ AgStop(FALSE, "error")
    /\ UNCHANGED <<observed, late, agPast>>

CallsTool ==
    /\ AgAt("think")
    /\ errors' = [errors EXCEPT !["think"] = NoError]
    /\ AgGo("act")
    /\ UNCHANGED <<observed, report, late, agPast>>

Over == turn.pc \in {"ended", "thrown"}

\* Whether the application has gone out, and when it did so first.
Sending(tool) ==
    IF tool # "submit" \/ agPast.sent # "no" THEN agPast.sent
    ELSE IF Over THEN "late" ELSE "timely"

ToolWorks(tool) ==
    /\ AgAt("act")
    /\ errors' = [errors EXCEPT !["act"] = NoError]
    /\ observed' = (observed \/ tool = "change")
    /\ agPast' = [action |-> "ok", sent |-> Sending(tool)]
    /\ NextTurn
    /\ UNCHANGED <<report, late>>

\* Refused, failed, or given up: a call given up may still do its work.
ToolFails(tool, key) ==
    /\ AgAt("act")
    /\ Suffer("act", key)
    /\ agPast' = [agPast EXCEPT !.action = "failed"]
    /\ late' = IF key = Deadline THEN late \cup {tool} ELSE late
    /\ UNCHANGED observed

LateToolWorks(tool) ==
    /\ tool \in late
    /\ late' = late \ {tool}
    /\ agPast' = [agPast EXCEPT !.sent = Sending(tool)]
    /\ UNCHANGED <<turn, errors, observed, report>>

\* The caller's onStep fails, after a call that worked, one that did not, or
\* a done.
StepNotLogged(tool) ==
    /\ AgAt("act")
    /\ AgGo("thrown")
    /\ \/ /\ observed' = (observed \/ tool = "change")
          /\ agPast' = [action |-> "ok", sent |-> Sending(tool)]
          /\ UNCHANGED late
       \/ /\ agPast' = [agPast EXCEPT !.action = "failed"]
          /\ late' \in {late, late \cup {tool}}
          /\ UNCHANGED observed
       \/ UNCHANGED <<observed, late, agPast>>
    /\ UNCHANGED <<errors, report>>

\* A done right after an error is not accepted, and clears nothing.
DoneRefused ==
    /\ AgAt("act") /\ errors["act"].times > 0
    /\ NextTurn
    /\ UNCHANGED <<errors, observed, report, late, agPast>>

\* Mutant: a successful done resets the count like any other call.
DoneClears ==
    /\ AgAt("act") /\ errors["act"].times > 0
    /\ errors' = [errors EXCEPT !["act"] = NoError]
    /\ \E reached \in BOOLEAN : AgStop(reached, "done")
    /\ UNCHANGED <<observed, late, agPast>>

Done ==
    /\ AgAt("act") /\ errors["act"].times = 0
    /\ \E reached \in BOOLEAN : AgStop(reached, "done")
    /\ UNCHANGED <<errors, observed, late, agPast>>

AgentNext ==
    \/ StartAgent \/ RunOut \/ Observes \/ ModelUnavailable \/ AnswersInProse
    \/ CallsTool \/ DoneRefused \/ Done
    \/ \E key \in ErrorKey : ObserveFails(key) \/ ThinkFails(key)
    \/ \E tool \in AgTool :
          \/ ToolWorks(tool) \/ StepNotLogged(tool) \/ LateToolWorks(tool)
          \/ \E key \in ErrorKey : ToolFails(tool, key)

AgentSpec == AgentInit /\ [][AgentNext]_agVars

(***************************************************************************)
(* Properties.                                                             *)
(***************************************************************************)

\* A run that the agent itself ended, the only kind that permits a
\* submission, ended in order: after the last action that failed another one
\* succeeded, whatever errors of the page or the model, answers in prose and
\* refused ends came in between (agent/loop.ts:428-444, "so the model cannot
\* use it to bypass the retry budget immediately after a failed action").
DoneMeansRecovered ==
    report.canSubmit \/ report.stopped = "done" => agPast.action # "failed"

\* What keeps it so: while the loop runs, a failure is counted until another
\* action succeeds, and there is a report only where it has ended.
AgentInv ==
    /\ agPast.action = "failed" /\ ~AgAt("thrown") => errors["act"].times > 0
    /\ report # NoReport => Over
    /\ DoneMeansRecovered
=============================================================================
