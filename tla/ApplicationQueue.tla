--------------------------- MODULE ApplicationQueue ---------------------------
(****************************************************************************)
(* The application subsystem: every actor of ApplicationState composed, and *)
(* what must be true of them together.                                      *)
(****************************************************************************)
EXTENDS ApplicationApi, ApplyWorker, ApplicationRecovery

Next == ApiNext \/ DispatchNext \/ ApplyNext \/ RecoveryNext
Spec == Init /\ [][Next]_vars

(****************************************************************************)
(* Node runs every handler it started; the recovery sweep is a timer; locks *)
(* expire and BullMQ checks for stalled jobs on timers.  A row grows old    *)
(* whatever the sweep does (Age stands aside while one reads), hence strong *)
(* fairness.  Users, failures and the provider are under no obligation.     *)
(****************************************************************************)
Fairness ==
  /\ \A w \in Worker : /\ WF_vars(JobStep(w)) /\ WF_vars(ApplyStep(w))
                       /\ WF_vars(\E d \in Dispatch : PickUp(w, d))
  /\ \A d \in Dispatch : /\ WF_vars(HandlerStep(d))
                         /\ WF_vars(LockExpires(d)) /\ WF_vars(Stalled(d))
  /\ \A p \in Publisher : WF_vars(PublishStep(p))
  /\ \A c \in Candidate : SF_vars(Age(c))
  /\ WF_vars(SweepStep)
FairSpec == Spec /\ Fairness
-----------------------------------------------------------------------------
\* A worker between its claim and the last write of its browser operation.
Operating == InLane \ {"claim"}
OperatesOn(w, c) == worker[w].pc \in Operating /\ CandOf(w) = c
Fenced(c) == {a \in AttemptsOf(c) : attempt[a].fenced}
Newest(c) == <<c, dispatches[c]>>

\* A submit-fenced attempt is evidence that an application may have reached the
\* provider: a second one exists only where the owner confirmed that the first
\* did not (retryApplication, safeRetryReason).
FencedAttemptsAreConfirmed ==
  \A c \in Candidate : Cardinality(Fenced(c)) <= 1 + confirms[c]

\* The provider never takes more applications of one candidate than the owner
\* allowed: "Never apply twice" (docs/pipeline/01-queue-architecture.md).
SubmittedOnce == \A c \in Candidate : submissions[c] <= 1 + confirms[c]

\* Two browsers never work on one candidate, whatever was cancelled, retried,
\* redelivered or crashed before (the conditional claim).
OneBrowserPerCandidate ==
  \A v, w \in Worker : \A c \in Candidate :
    OperatesOn(v, c) /\ OperatesOn(w, c) => v = w

\* An attempt that was overtaken by another is not left pending or submitting:
\* the owner could not retry, nor an administrator resolve its flag.
OneInFlightAttempt ==
  \A c \in Candidate : Cardinality({a \in AttemptsOf(c) : InFlight(a)}) <= 1

\* A cancelled application stays out: its candidate is rejected and no browser
\* is at work on it, though a publisher or a worker may have read it before.
CancelledStaysOut ==
  \A c \in Candidate : application[c] = "closed" =>
    /\ candidate[c] = "rejected"
    /\ \A w \in Worker : ~OperatesOn(w, c)

\* Approval and retry cancel or end every earlier dispatch of a candidate, so
\* that two of its jobs can never both be worth a claim.
OnlyNewestOpen ==
  \A c \in Candidate : \A d \in DispatchesOf(c) : OpenDispatch(d) => d = Newest(c)

\* "A cancelled/obsolete dispatch can never start a newly retried candidate"
\* (application-queue.ts:479), even after locks lapsed and Redis was lost.
ClaimUsesNewestDispatch ==
  [][\A w \in Worker : (At(w, "claim") /\ worker'[w].pc = "enter") =>
       worker[w].disp = Newest(CandOf(w)) /\ worker[w].disp \notin cancelled]_vars

\* An application recorded as applied is never taken back, by a retry, a late
\* failure handler or the sweep.
AppliedIsFinal ==
  [][\A c \in Candidate : application[c] = "applied" =>
       application'[c] = "applied" /\ candidate'[c] \in {"applied", "applying"}]_vars

\* Work of an applying hunt never stays queued or applying for ever, whatever
\* crashed, unless a flag pauses the user's queue.
InterruptedIsRepaired ==
  \A c \in Candidate :
    (run = "applying" /\ candidate[c] \in {"queued", "applying"})
      ~> (run # "applying" \/ candidate[c] \notin {"queued", "applying"} \/ flags # {})

\* An application recorded as applied has reached the provider: no projection,
\* handler or sweep records one that the operation has not seen accepted.
AppliedWasSent ==
  \A c \in Candidate : application[c] = "applied" => submissions[c] > 0

\* All of it together, as the person sees it: the queue implements what
\* ApplicationPromise says of what is asked for, begun, sent, recorded as
\* applied and withdrawn, through every crash, redelivery and retry. What is
\* recorded was sent, and no retry meets a browser. Only the agent's tool asks
\* for the evidence of earlier submits before it clicks.
Standing(c) == CASE application[c] = "none" -> "unasked"
                 [] application[c] = "closed" -> "withdrawn"
                 [] application[c] = "applied" -> "applied"
                 [] OTHER -> "asked"
Permits(c)  == IF application[c] = "none" THEN 0 ELSE 1 + confirms[c]
Browsers(c) == {w \in Worker : OperatesOn(w, c)}
Promise == INSTANCE ApplicationPromise WITH
  Counted  <- SubmitPaths \subseteq {"agent"},
  standing <- [c \in Candidate |-> Standing(c)],
  permits  <- [c \in Candidate |-> Permits(c)],
  sent     <- submissions,
  browser  <- [c \in Candidate |-> Browsers(c)]
ImplementsPromise == Promise!PromiseSpec
-----------------------------------------------------------------------------
\* What the documentation promises beyond that, and the code does not keep.

\* "A second submit in one application operation is refused"
\* (docs/application-execution.md:20): no click of submitForm follows the fence.
SecondSubmitRefused ==
  [][\A w \in Worker : (~At(w, "response") /\ worker'[w].pc = "response") =>
       ~worker[w].attempted]_vars

\* Recovery exists because otherwise "the dashboard can report "applying" for
\* ever" (application-queue.ts:286): a candidate leaves 'applying'.
ApplyingEnds ==
  \A c \in Candidate : (candidate[c] = "applying") ~> (candidate[c] # "applying")
=============================================================================
