---------------------------- MODULE LiveQuestions ----------------------------
(***************************************************************************)
(* The questions of one application attempt: the runner that asks them,    *)
(* waits, and puts the answers into the form (hunt/apply/live-questions.ts)*)
(* beside the requests that save a person's answers                        *)
(* (modules/applications/questions.ts) or the profile's                    *)
(* (modules/applications/question-resolution.ts), and then resume the      *)
(* application when nobody is working on it.                               *)
(***************************************************************************)
EXTENDS Integers, FiniteSets

CONSTANTS Question,    \* required questions of the form; an optional one holds nothing up
          Request,     \* requests of the API
          Runner,      \* the runner's own call of resolvePendingQuestions
          LqMaxWaits,  \* bound: calls of waitForApplicationAnswers
          LqMaxFaults  \* bound: crashes of the runner, lost requests

ASSUME QuestionsAssumption ==
    Runner \notin Request /\ LqMaxWaits \in Nat /\ LqMaxFaults \in Nat

Answerer == Request \cup {Runner}
QuestionStatus == {"none", "pending", "answered", "applied", "skipped", "failed", "expired"}
Open == {"pending", "expired", "failed"}
Source == {"none", "person", "guess"}

VARIABLES lqRow,     \* question -> its pending_application_questions row
          lqForm,    \* question -> whose answer the form holds
          lqCall,    \* answerer -> where its request stands
          lqLease,   \* huntly:answer-resolution:<user>
          lqRunner,  \* the runner: where it stands in waitForApplicationAnswers
          lqResumed, \* the application was queued again
          lqPast     \* history: questions whose request found no active job, faults

lqVars == <<lqRow, lqForm, lqCall, lqLease, lqRunner, lqResumed, lqPast>>

LqNoCall == [pc |-> "idle", by |-> "none", batch |-> {}, seen |-> [q \in Question |-> "none"]]

LiveTypeOK ==
    /\ lqRow \in [Question -> [status : QuestionStatus, by : Source]]
    /\ lqForm \in [Question -> Source]
    /\ lqCall \in [Answerer -> [pc : {"idle", "thinking", "reading", "saving", "checking",
                                      "counting"},
                                by : Source, batch : SUBSET Question,
                                seen : [Question -> QuestionStatus]]]
    /\ lqLease \in Answerer \cup {"free"}
    /\ lqRunner \in [pc : {"working", "resolving", "resolved", "looking", "using", "recording",
                           "dead", "over"},
                     waits : 0..LqMaxWaits, human : BOOLEAN,
                     todo : SUBSET (Question \X Source), tried : SUBSET Question, took : BOOLEAN]
    /\ lqResumed \in BOOLEAN
    /\ lqPast \in [late : SUBSET Question, faults : 0..LqMaxFaults, lost : BOOLEAN]

LiveInit ==
    /\ lqRow = [q \in Question |-> [status |-> "none", by |-> "none"]]
    /\ lqForm = [q \in Question |-> "none"]
    /\ lqCall = [a \in Answerer |-> LqNoCall]
    /\ lqLease = "free"
    /\ lqRunner = [pc |-> "working", waits |-> 0, human |-> FALSE, todo |-> {},
                 tried |-> {}, took |-> FALSE]
    /\ lqResumed = FALSE
    /\ lqPast = [late |-> {}, faults |-> 0, lost |-> FALSE]

StatusOf(S) == [q \in Question |-> IF q \in S THEN lqRow[q].status ELSE "none"]
RunnerAt(pc) == lqRunner.pc = pc
RunnerGo(pc) == lqRunner' = [lqRunner EXCEPT !.pc = pc]
CallAt(a, pc) == lqCall[a].pc = pc
CallGo(a, pc) == lqCall' = [lqCall EXCEPT ![a].pc = pc]
SetStatusOf(q, s) == lqRow' = [lqRow EXCEPT ![q].status = s]

(***************************************************************************)
(* answerQuestions, for a person or for the profile.                       *)
(***************************************************************************)

\* The rows are read; only the latest attempt's can be answered, and what
\* the runner has used cannot.
LqAnswer(a, q) ==
    /\ CallAt(a, "idle") /\ a # Runner
    /\ ~lqResumed
    /\ lqRow[q].status \in Open \cup {"answered"}
    /\ lqCall' = [lqCall EXCEPT ![a] = [pc |-> "saving", by |-> "person", batch |-> {q},
                                        seen |-> StatusOf({q})]]
    /\ UNCHANGED <<lqRow, lqForm, lqLease, lqRunner, lqResumed, lqPast>>

\* resolvePendingQuestions: one at a time for a user, the rows without answer.
LqResolve(a) ==
    /\ CallAt(a, "idle")
    /\ a = Runner => RunnerAt("resolving")
    /\ lqLease = "free" /\ ~lqResumed
    /\ LET rows == {q \in Question : lqRow[q].status \in Open /\ lqRow[q].by = "none"}
       IN  /\ rows # {}
           /\ lqCall' = [lqCall EXCEPT ![a] = [LqNoCall EXCEPT !.pc = "thinking", !.by = "guess",
                                                           !.batch = rows]]
    /\ lqLease' = a
    /\ IF a = Runner THEN RunnerGo("resolved") ELSE UNCHANGED lqRunner
    /\ UNCHANGED <<lqRow, lqForm, lqResumed, lqPast>>

LeaseBack(a) == lqLease' = IF lqLease = a THEN "free" ELSE lqLease

\* The model's answers that may be applied, if any.
LqThink(a) ==
    /\ CallAt(a, "thinking")
    /\ \E safe \in SUBSET lqCall[a].batch :
          IF safe = {}
            THEN lqCall' = [lqCall EXCEPT ![a] = LqNoCall] /\ LeaseBack(a)
            ELSE /\ lqCall' = [lqCall EXCEPT ![a].pc = "reading", ![a].batch = safe]
                 /\ UNCHANGED lqLease
    /\ UNCHANGED <<lqRow, lqForm, lqRunner, lqResumed, lqPast>>

\* answerQuestions reads the rows again and refuses the batch when one of
\* them was answered while the model was thinking.
LqReread(a) ==
    /\ CallAt(a, "reading")
    /\ IF \A q \in lqCall[a].batch : lqRow[q].status \in Open /\ lqRow[q].by = "none"
         THEN /\ lqCall' = [lqCall EXCEPT ![a].pc = "saving", ![a].seen = StatusOf(lqCall[a].batch)]
              /\ UNCHANGED lqLease
         ELSE lqCall' = [lqCall EXCEPT ![a] = LqNoCall] /\ LeaseBack(a)
    /\ UNCHANGED <<lqRow, lqForm, lqRunner, lqResumed, lqPast>>

\* Mutant: the rows are written whatever happened to them.
ExpectAnything(a) == TRUE

Expected(a) == \A q \in lqCall[a].batch : lqRow[q].status = lqCall[a].seen[q]

\* The transaction: all the rows that were read, or none. The runner's own
\* call stops here (autoResume: false).
LqSave(a) ==
    /\ CallAt(a, "saving")
    /\ IF Expected(a)
         THEN /\ lqRow' = [q \in Question |->
                    IF q \in lqCall[a].batch
                      THEN [status |-> "answered", by |-> lqCall[a].by]
                      ELSE lqRow[q]]
              /\ IF a = Runner
                   THEN lqCall' = [lqCall EXCEPT ![a] = LqNoCall] /\ LeaseBack(a)
                   ELSE /\ lqCall' = [lqCall EXCEPT ![a].pc = "checking", ![a].seen = StatusOf({})]
                        /\ UNCHANGED lqLease
         ELSE /\ lqCall' = [lqCall EXCEPT ![a] = LqNoCall]
              /\ LeaseBack(a)
              /\ UNCHANGED lqRow
    /\ UNCHANGED <<lqForm, lqRunner, lqResumed, lqPast>>

\* applicationJobInfo: with the job active the runner is left to use them.
LqCheck(a) ==
    /\ CallAt(a, "checking")
    /\ IF RunnerAt("over")
         THEN /\ lqPast' = [lqPast EXCEPT !.late = @ \cup lqCall[a].batch]
              /\ CallGo(a, "counting") /\ UNCHANGED lqLease
         ELSE /\ lqCall' = [lqCall EXCEPT ![a] = LqNoCall] /\ LeaseBack(a)
              /\ UNCHANGED lqPast
    /\ UNCHANGED <<lqRow, lqForm, lqRunner, lqResumed>>

\* Mutant: only what the form has taken is closed.
NotYetUsed(a) == {q \in Question \ lqCall[a].batch : lqRow[q].status # "applied"}

StillOpen(a) == {q \in Question : lqRow[q].status \in Open}

\* The last answer queues the application again (retryApplication).
LqCount(a) ==
    /\ CallAt(a, "counting")
    /\ lqResumed' = (lqResumed \/ StillOpen(a) = {})
    /\ lqCall' = [lqCall EXCEPT ![a] = LqNoCall]
    /\ LeaseBack(a)
    /\ UNCHANGED <<lqRow, lqForm, lqRunner, lqPast>>

\* Two minutes after it was taken, whatever its holder does.
LqLeaseLapses ==
    /\ lqLease # "free"
    /\ CallAt(lqLease, "idle") \/ lqPast.faults < LqMaxFaults
    /\ lqPast' = IF CallAt(lqLease, "idle") THEN lqPast ELSE [lqPast EXCEPT !.faults = @ + 1]
    /\ lqLease' = "free"
    /\ UNCHANGED <<lqRow, lqForm, lqCall, lqRunner, lqResumed>>

LqRequestLost(a) ==
    /\ a # Runner /\ ~CallAt(a, "idle")
    /\ lqPast.faults < LqMaxFaults
    /\ lqPast' = [lqPast EXCEPT !.faults = @ + 1, !.lost = TRUE]
    /\ lqCall' = [lqCall EXCEPT ![a] = LqNoCall]
    /\ UNCHANGED <<lqRow, lqForm, lqLease, lqRunner, lqResumed>>

(***************************************************************************)
(* The runner: waitForApplicationAnswers.                                  *)
(***************************************************************************)

\* What the form asks gets a row, once an attempt; an earlier application's
\* answer may be inherited with its source.
LqAsk ==
    /\ RunnerAt("working") /\ lqRunner.waits < LqMaxWaits
    /\ \E human \in BOOLEAN, source \in Source :
          /\ lqRow' = [q \in Question |->
                CASE lqRow[q].status # "none" -> lqRow[q]
                  [] source = "none" -> [lqRow[q] EXCEPT !.status = "pending"]
                  [] OTHER -> [status |-> "answered", by |-> source]]
          /\ lqRunner' = [lqRunner EXCEPT !.pc = "resolving", !.waits = @ + 1, !.human = human]
    /\ UNCHANGED <<lqForm, lqCall, lqLease, lqResumed, lqPast>>

\* Nothing to resolve, another resolution is running, or it came back.
LqResolved ==
    /\ RunnerAt("resolving") \/ (RunnerAt("resolved") /\ CallAt(Runner, "idle"))
    /\ RunnerGo("looking")
    /\ UNCHANGED <<lqRow, lqForm, lqCall, lqLease, lqResumed, lqPast>>

\* The rows as they are now; the answered ones are worked through.
LqLook ==
    /\ RunnerAt("looking")
    /\ lqRunner' = [lqRunner EXCEPT !.pc = "using",
          !.todo = {<<q, lqRow[q].by>> : q \in {q \in Question : lqRow[q].status = "answered"}}]
    /\ UNCHANGED <<lqRow, lqForm, lqCall, lqLease, lqResumed, lqPast>>

\* The form does not show the question any more.
LqHide(q) ==
    /\ RunnerAt("using")
    /\ \/ /\ \E v \in Source : <<q, v>> \in lqRunner.todo
          /\ lqRunner' = [lqRunner EXCEPT !.todo = {t \in @ : t[1] # q}]
       \/ /\ lqRunner.todo = {} /\ lqRow[q].status \in {"pending", "failed"}
          /\ UNCHANGED lqRunner
    /\ SetStatusOf(q, "skipped")
    /\ UNCHANGED <<lqForm, lqCall, lqLease, lqResumed, lqPast>>

\* applyCapturedAnswer: the form takes the answer that was read, or not.
LqFill(q) ==
    /\ RunnerAt("using")
    /\ \E v \in Source, took \in BOOLEAN :
          /\ <<q, v>> \in lqRunner.todo
          /\ lqForm' = [lqForm EXCEPT ![q] = IF took THEN v ELSE @]
          /\ lqRunner' = [lqRunner EXCEPT !.pc = "recording", !.tried = {q}, !.took = took,
                                          !.todo = @ \ {<<q, v>>}]
    /\ UNCHANGED <<lqRow, lqCall, lqLease, lqResumed, lqPast>>

\* The row, if it is still answered; then the rest of the rows that were read.
LqRecord ==
    /\ RunnerAt("recording")
    /\ lqRow' = [q \in Question |->
          IF q \in lqRunner.tried /\ lqRow[q].status = "answered"
            THEN [lqRow[q] EXCEPT !.status = IF lqRunner.took THEN "applied" ELSE "failed"]
            ELSE lqRow[q]]
    /\ lqRunner' = [lqRunner EXCEPT !.pc = "using", !.tried = {}, !.took = FALSE]
    /\ UNCHANGED <<lqForm, lqCall, lqLease, lqResumed, lqPast>>

\* Nothing is left, or a person is not waited for.
LqReturn ==
    /\ RunnerAt("using") /\ lqRunner.todo = {}
    /\ lqRunner.human =>
          \A q \in Question : lqRow[q].status \notin {"pending", "answered", "failed"}
    /\ lqRunner' = [lqRunner EXCEPT !.pc = "working", !.human = FALSE]
    /\ UNCHANGED <<lqRow, lqForm, lqCall, lqLease, lqResumed, lqPast>>

\* A second later.
LqAgain ==
    /\ RunnerAt("using") /\ lqRunner.todo = {} /\ lqRunner.human
    /\ RunnerGo("looking")
    /\ UNCHANGED <<lqRow, lqForm, lqCall, lqLease, lqResumed, lqPast>>

\* The deadline, or an open flag of the user: what is open expires, what is
\* answered stays.
LqDeadline ==
    /\ RunnerAt("looking")
    /\ lqRow' = [q \in Question |->
          IF lqRunner.human /\ lqRow[q].status \in {"pending", "failed"}
            THEN [lqRow[q] EXCEPT !.status = "expired"] ELSE lqRow[q]]
    /\ lqRunner' = [lqRunner EXCEPT !.pc = "working", !.human = FALSE]
    /\ UNCHANGED <<lqForm, lqCall, lqLease, lqResumed, lqPast>>

\* The attempt ends without a submission, or its signal aborts the wait.
LqAttemptEnds ==
    /\ RunnerAt("working") \/ RunnerAt("looking")
    /\ lqRunner' = [lqRunner EXCEPT !.pc = "over", !.human = FALSE]
    /\ UNCHANGED <<lqRow, lqForm, lqCall, lqLease, lqResumed, lqPast>>

\* The runner dies; its job looks active until the stalled check.
LqCrash ==
    /\ ~RunnerAt("dead") /\ ~RunnerAt("over")
    /\ lqPast.faults < LqMaxFaults
    /\ lqPast' = [lqPast EXCEPT !.faults = @ + 1]
    /\ lqRunner' = [lqRunner EXCEPT !.pc = "dead", !.todo = {}, !.tried = {},
                                    !.took = FALSE, !.human = FALSE]
    /\ lqCall' = [lqCall EXCEPT ![Runner] = LqNoCall]
    /\ UNCHANGED <<lqRow, lqForm, lqLease, lqResumed>>

LqStalled ==
    /\ RunnerAt("dead")
    /\ RunnerGo("over")
    /\ UNCHANGED <<lqRow, lqForm, lqCall, lqLease, lqResumed, lqPast>>

LiveNext ==
    \/ \E a \in Answerer :
          \/ LqResolve(a) \/ LqThink(a) \/ LqReread(a) \/ LqSave(a) \/ LqCheck(a) \/ LqCount(a)
          \/ LqRequestLost(a)
          \/ \E q \in Question : LqAnswer(a, q)
    \/ \E q \in Question : LqHide(q) \/ LqFill(q)
    \/ LqLeaseLapses
    \/ LqAsk \/ LqResolved \/ LqLook \/ LqRecord \/ LqReturn \/ LqAgain \/ LqDeadline
    \/ LqAttemptEnds \/ LqCrash \/ LqStalled

LiveSpec == LiveInit /\ [][LiveNext]_lqVars

(***************************************************************************)
(* Properties.                                                             *)
(***************************************************************************)

\* A guess of the profile never replaces an answer of the person that the
\* form has not been offered yet, however long the model thought about it
\* (answerQuestions, "A user or runner answered this question while profile
\* resolution was running").
AnswerWaitsForItsUse ==
    [][\A q \in Question :
          lqRow[q].status = "answered" /\ lqRow[q].by = "person" => lqRow'[q].by = "person"]_lqVars

\* With the attempt over, the answer that completes the required questions
\* resumes the application, also when the last two are given at once: no
\* request relies on another to notice (answerQuestions counts after it has
\* saved).
CompleteAnswersResume ==
    /\ RunnerAt("over") /\ ~lqPast.lost
    /\ \A a \in Request : CallAt(a, "idle")
    /\ \A q \in Question : lqRow[q].status \notin Open
    /\ lqPast.late # {}
    => lqResumed
=============================================================================
