------------------------------ MODULE ApplyWorker ------------------------------
(****************************************************************************)
(* applyApprovedCandidate (hunt/apply.ts): one browser operation on a       *)
(* claimed candidate.  It prepares an attempt row, fills the provider's     *)
(* form, presses submit by one of SubmitPaths, and projects what happened   *)
(* on the attempt, the candidate and the application, one update at a time. *)
(* submit_started_at, the fence, is set by the checkpoint of                *)
(* hunt/apply/submission-guard.ts and is never cleared.                     *)
(****************************************************************************)
EXTENDS ApplicationDispatch

AttOf(w) == <<CandOf(w), worker[w].att>>
\* The operation ends as `result`; the projections follow.
Record(w, result) ==
  worker' = [worker EXCEPT ![w] = [Idle EXCEPT !.pc = "wAttempt", !.result = result,
               !.disp = worker[w].disp, !.att = worker[w].att, !.aborted = worker[w].aborted]]
\* Any failure inside the try block; whether it was submitted decides below.
Throw(w) ==
  worker' = [worker EXCEPT ![w].pc = "caught", ![w].outcome = "none", ![w].rounds = 0]

\* Up to the attempt row: a lost lease throws, a stopped or failed hunt returns.
Enter(w) ==
  /\ At(w, "enter")
  /\ Go(w, IF worker[w].aborted THEN "failing"
           ELSE IF run \in {"stopped", "failed"} THEN "count"
           ELSE IF ~variant[CandOf(w)] THEN "tailor" ELSE "check")
  /\ UNCHANGED <<rows, outbox, trail, redis, handler, publishing, sweep, retrying, history>>

\* createMinimalResumeVariant; it throws without a base resume.
Tailor(w) ==
  /\ At(w, "tailor")
  /\ \/ /\ SetCandidate(CandOf(w), "tailored")
        /\ variant' = [variant EXCEPT ![CandOf(w)] = TRUE]
        /\ Go(w, "check")
     \/ Go(w, "failing") /\ UNCHANGED <<candidate, stale, variant>>
  /\ UNCHANGED <<application, run, outbox, trail, redis, handler, publishing, sweep,
                 retrying, history>>

CheckCandidate(w) ==
  /\ At(w, "check")
  /\ Go(w, IF candidate[CandOf(w)] \in ActiveCandidate THEN "prepare" ELSE "failing")
  /\ UNCHANGED <<rows, outbox, trail, redis, handler, publishing, sweep, retrying, history>>

\* No usable URL throws; a provider account that is not ready parks the
\* application; one already applied to ends; otherwise the intent is inserted.
InsertAttempt(c, status) ==
  /\ attempts' = [attempts EXCEPT ![c] = @ + 1]
  /\ attempt' = [attempt EXCEPT ![<<c, attempts[c] + 1>>] =
       [status |-> status, fenced |-> FALSE, error |-> "none", epoch |-> dispatches[c]]]
Prepare(w) ==
  LET c == CandOf(w) IN
  /\ At(w, "prepare")
  /\ \/ Go(w, "failing") /\ UNCHANGED trail
     \/ Go(w, "acctApplication") /\ UNCHANGED trail
     \/ application[c] = "applied" /\ Go(w, "repeat") /\ UNCHANGED trail
     \/ /\ application[c] # "applied" /\ attempts[c] < MaxAttempts
        /\ InsertAttempt(c, "submitting")
        /\ worker' = [worker EXCEPT ![w].pc = "mark", ![w].att = attempts[c] + 1]
        /\ UNCHANGED flags
  /\ UNCHANGED <<rows, outbox, redis, handler, publishing, sweep, retrying, history>>

Repeat(w) ==
  /\ At(w, "repeat")
  /\ SetCandidate(CandOf(w), "applied")
  /\ Go(w, "count")
  /\ UNCHANGED <<variant, application, run, outbox, trail, redis, handler, publishing,
                 sweep, retrying, history>>

ParkApplication(w) ==
  /\ At(w, "acctApplication")
  /\ application' = [application EXCEPT ![CandOf(w)] = "needs_review"]
  /\ Go(w, "acctCandidate")
  /\ UNCHANGED <<candidate, stale, variant, run, outbox, trail, redis, handler,
                 publishing, sweep, retrying, history>>
ParkCandidate(w) ==
  /\ At(w, "acctCandidate")
  /\ SetCandidate(CandOf(w), "needs_review")
  /\ Go(w, "acctAttempt")
  /\ UNCHANGED <<variant, application, run, outbox, trail, redis, handler, publishing,
                 sweep, retrying, history>>
ParkAttempt(w) ==
  /\ At(w, "acctAttempt") /\ attempts[CandOf(w)] < MaxAttempts
  /\ InsertAttempt(CandOf(w), "needs_review")
  /\ Go(w, "count")
  /\ UNCHANGED <<rows, outbox, flags, redis, handler, publishing, sweep, retrying, history>>

\* The candidate is applying whatever it was; a missing browser session throws.
Mark(w) ==
  /\ At(w, "mark")
  /\ SetCandidate(CandOf(w), "applying")
  /\ Go(w, "open") \/ Go(w, "failing")
  /\ UNCHANGED <<variant, application, run, outbox, trail, redis, handler, publishing,
                 sweep, retrying, history>>

\* openSession: busy with account setup (409, deferred), another error, or open.
Open(w) ==
  /\ At(w, "open")
  /\ \/ Throw(w) /\ UNCHANGED faults
     \/ attempts[CandOf(w)] < MaxAttempts /\ Fault /\ Record(w, "deferred")
     \/ ~worker[w].aborted /\ Go(w, "form") /\ UNCHANGED faults
  /\ UNCHANGED <<rows, outbox, trail, redis, handler, publishing, sweep, retrying,
                 submissions, confirms>>
-----------------------------------------------------------------------------
\* The provider's answer to a click: it takes the application, or not.
Click(w, accepts) ==
  submissions' = [submissions EXCEPT ![CandOf(w)] = IF accepts THEN @ + 1 ELSE @]
Accepted(w, accepts) == worker[w].accepted \/ accepts

\* Filling: it fails, it is blocked or held back before any click (review: an
\* unanswered question, a login, a closed posting, no submit control; dryrun:
\* dry run, kill switch), or one of the submit paths is taken.
FillForm(w) ==
  /\ At(w, "form")
  /\ Throw(w) \/ Record(w, "review") \/ Record(w, "dryrun")
  /\ UNCHANGED <<rows, outbox, trail, redis, handler, publishing, sweep, retrying, history>>

\* What the checkpoint reads before it writes the fence; it throws otherwise.
MayFence(w) == ~worker[w].attempted /\ ~worker[w].aborted /\ flags = {}

\* Mutant of AgentFence: the click comes first.
AgentClicksUnfenced(w) ==
  /\ At(w, "form") /\ "agent" \in SubmitPaths
  /\ MayFence(w)
  /\ Go(w, "click")
  /\ UNCHANGED <<rows, outbox, trail, redis, handler, publishing, sweep, retrying, history>>

AgentFence(w) ==
  /\ At(w, "form") /\ "agent" \in SubmitPaths
  /\ MayFence(w)
  /\ Go(w, "fence")
  /\ UNCHANGED <<rows, outbox, trail, redis, handler, publishing, sweep, retrying, history>>

\* Updates by attempt id.  The agent's fence precedes its click, that of
\* submitForm follows it.
WriteFence(w) ==
  /\ At(w, "fence")
  /\ attempt' = [attempt EXCEPT ![AttOf(w)].fenced = TRUE, ![AttOf(w)].status = "submitting"]
  /\ worker' = [worker EXCEPT ![w].attempted = TRUE,
       ![w].pc = IF worker[w].outcome # "none" THEN "outcome"
                 ELSE IF worker[w].accepted THEN "seen" ELSE "click"]
  /\ UNCHANGED <<rows, outbox, attempts, flags, redis, handler, publishing, sweep,
                 retrying, history>>

AgentClick(w) ==
  /\ At(w, "click")
  /\ \E accepts \in BOOLEAN :
       /\ Click(w, accepts)
       /\ worker' = [worker EXCEPT ![w].pc = "seen", ![w].accepted = Accepted(w, accepts)]
  /\ UNCHANGED <<rows, outbox, trail, redis, handler, publishing, sweep, retrying,
                 confirms, faults>>

\* Mutant of AgentReport: the agent's word is enough.
AgentReportTrusted(w) ==
  /\ At(w, "seen")
  /\ \/ worker' = [worker EXCEPT ![w].pc = "outcome", ![w].outcome = "confirmed"]
     \/ Throw(w)
  /\ UNCHANGED <<rows, outbox, trail, redis, handler, publishing, sweep, retrying, history>>

\* The agent's report counts only with the provider's confirmation on the page.
AgentReport(w) ==
  /\ At(w, "seen")
  /\ \/ /\ worker[w].accepted
        /\ worker' = [worker EXCEPT ![w].pc = "outcome", ![w].outcome = "confirmed"]
     \/ Throw(w)
  /\ UNCHANGED <<rows, outbox, trail, redis, handler, publishing, sweep, retrying, history>>

\* A step or choice the provider takes for the submission.
StepClick(w) ==
  /\ At(w, "form") /\ "step" \in SubmitPaths
  /\ Click(w, TRUE)
  /\ worker' = [worker EXCEPT ![w].pc = "accident", ![w].accepted = TRUE]
  /\ UNCHANGED <<rows, outbox, trail, redis, handler, publishing, sweep, retrying,
                 confirms, faults>>

\* noteUnexpectedSubmission marks the operation even if the checkpoint throws;
\* the page pilot takes the confirmation for its own result, without a fence.
NoticeStep(w) ==
  /\ At(w, "accident")
  /\ \/ MayFence(w) /\ Go(w, "fence")
     \/ worker' = [worker EXCEPT ![w].pc = "caught", ![w].attempted = TRUE]
     \/ worker' = [worker EXCEPT ![w].pc = "outcome", ![w].outcome = "confirmed"]
     \/ Throw(w)
  /\ UNCHANGED <<rows, outbox, trail, redis, handler, publishing, sweep, retrying, history>>

\* submitForm clicks before anything is fenced.  rounds counts the clicks after
\* the first: a repaired form, or a processing error, is submitted again.
FormClick(w) ==
  /\ "form" \in SubmitPaths
  /\ \/ At(w, "form") /\ ~worker[w].attempted
     \/ /\ At(w, "outcome") /\ worker[w].outcome \in {"invalid", "unconfirmed"}
        /\ worker[w].rounds < MaxRounds
  /\ \E accepts \in BOOLEAN :
       /\ Click(w, accepts)
       /\ worker' = [worker EXCEPT ![w].pc = "response", ![w].outcome = "none",
            ![w].accepted = Accepted(w, accepts),
            ![w].rounds = IF At(w, "outcome") THEN @ + 1 ELSE @]
  /\ UNCHANGED <<rows, outbox, trail, redis, handler, publishing, sweep, retrying,
                 confirms, faults>>

\* What the page shows: validation errors return without a fence; the other
\* outcomes pass the checkpoint, which may refuse, as any page call may fail.
FormResponse(w) ==
  /\ At(w, "response")
  /\ \/ ~worker[w].accepted /\ worker' = [worker EXCEPT ![w].pc = "outcome",
                                                        ![w].outcome = "invalid"]
     \/ /\ MayFence(w)
        /\ \E outcome \in {"unconfirmed", IF worker[w].accepted THEN "confirmed" ELSE "spam"} :
             worker' = [worker EXCEPT ![w].pc = "fence", ![w].outcome = outcome]
     \/ Throw(w)
  /\ UNCHANGED <<rows, outbox, trail, redis, handler, publishing, sweep, retrying, history>>

\* A confirmed submission stays submitted, whatever fails after that.  The
\* confirmation may also appear late; without one, saving the evidence may fail.
Settle(w) ==
  /\ At(w, "outcome")
  /\ \/ /\ \/ worker[w].outcome = "confirmed"
           \/ worker[w].accepted /\ worker[w].outcome \in {"invalid", "unconfirmed"}
        /\ Record(w, "submitted")
     \/ worker[w].outcome = "unconfirmed" /\ Record(w, "uncertain")
     \/ worker[w].outcome = "spam" /\ Record(w, "spam")
     \/ worker[w].outcome = "invalid" /\ Record(w, "review")
     \/ worker[w].outcome # "confirmed" /\ Throw(w)
  /\ UNCHANGED <<rows, outbox, trail, redis, handler, publishing, sweep, retrying, history>>

\* A browser action cannot be rolled back: once attempted, never a failure.
Caught(w) ==
  /\ At(w, "caught")
  /\ Record(w, IF worker[w].attempted THEN "uncertain" ELSE "error")
  /\ UNCHANGED <<rows, outbox, trail, redis, handler, publishing, sweep, retrying, history>>
-----------------------------------------------------------------------------
\* The three projections of a result, and how the processor goes on.
\* Mutant of AttemptStatusOf: a deferred attempt is put back to pending.
AttemptStatusReset(result) ==
  CASE result \in {"review", "spam"} -> "needs_review"
    [] result \in {"dryrun", "uncertain"} -> "unknown"
    [] result = "error" -> "failed"
    [] result = "deferred" -> "pending"
    [] OTHER -> "submitted"
AttemptStatusOf(result) ==
  CASE result \in {"review", "spam"} -> "needs_review"
    [] result \in {"dryrun", "uncertain"} -> "unknown"
    [] result \in {"error", "deferred"} -> "failed"
    [] OTHER -> "submitted"
ErrorOf(result) == CASE result = "dryrun" -> "held"
                     [] result = "spam" -> "spam"
                     [] OTHER -> "none"
\* Mutant of CandidateStatusOf: the attempt's word for it.
CandidateStatusAsAttempt(result) == CASE result = "submitted" -> "submitted"
                                      [] result = "deferred" -> "queued"
                                      [] OTHER -> "needs_review"
CandidateStatusOf(result) == CASE result = "submitted" -> "applied"
                               [] result = "deferred" -> "queued"
                               [] OTHER -> "needs_review"

WriteAttempt(w) ==
  /\ At(w, "wAttempt")
  /\ attempt' = [attempt EXCEPT ![AttOf(w)].status = AttemptStatusOf(worker[w].result),
                                ![AttOf(w)].error = ErrorOf(worker[w].result)]
  /\ Go(w, "wCandidate")
  /\ UNCHANGED <<rows, outbox, attempts, flags, redis, handler, publishing, sweep,
                 retrying, history>>

WriteCandidate(w) ==
  /\ At(w, "wCandidate")
  /\ SetCandidate(CandOf(w), CandidateStatusOf(worker[w].result))
  /\ Go(w, IF worker[w].result = "deferred" THEN "delaying" ELSE "wApplication")
  /\ UNCHANGED <<variant, application, run, outbox, trail, redis, handler, publishing,
                 sweep, retrying, history>>

WriteApplication(w) ==
  /\ At(w, "wApplication")
  /\ application' = [application EXCEPT ![CandOf(w)] =
                       IF worker[w].result = "submitted" THEN "applied" ELSE "needs_review"]
  /\ Go(w, IF worker[w].result = "error" THEN "failing" ELSE "count")
  /\ UNCHANGED <<candidate, stale, variant, run, outbox, trail, redis, handler,
                 publishing, sweep, retrying, history>>

ApplyStep(w) ==
  \/ Enter(w) \/ Tailor(w) \/ CheckCandidate(w) \/ Prepare(w) \/ Repeat(w)
  \/ ParkApplication(w) \/ ParkCandidate(w) \/ ParkAttempt(w) \/ Mark(w) \/ Open(w)
  \/ FillForm(w) \/ AgentFence(w) \/ WriteFence(w) \/ AgentClick(w) \/ AgentReport(w)
  \/ StepClick(w) \/ NoticeStep(w) \/ FormClick(w) \/ FormResponse(w) \/ Settle(w)
  \/ Caught(w) \/ WriteAttempt(w) \/ WriteCandidate(w) \/ WriteApplication(w)
ApplyNext == \E w \in Worker : ApplyStep(w)
=============================================================================
