-------------------------- MODULE ApplicationPolicy --------------------------
(****************************************************************************)
(* Which applications may be attempted again: safeRetryReason of            *)
(* src/hunt/application-policy.ts.  Free text (attempts.error, event        *)
(* details) is reduced to the kinds its regular expressions tell apart.     *)
(****************************************************************************)
EXTENDS Integers

AttemptStatus ==
  {"none", "pending", "submitting", "submitted", "needs_review", "failed", "unknown"}

\* "held": Not submitted: <reason>; "interrupted": the worker stopped before
\* the attempt completed; "spam": the provider rejected it as spam.
ErrorKind == {"none", "held", "interrupted", "spam"}

\* Mutant of SafeRetry: trusts the attempt's status, whatever was fenced.
SafeRetryByStatus(status, hasAttempt, latest, confirmedNotSubmitted) ==
  /\ status \in {"failed", "needs_review", "closed"}
  /\ hasAttempt => /\ latest.status \notin {"submitted", "submitting", "pending"}
                   /\ \/ latest.error \in {"held", "interrupted"}
                      \/ latest.status \in {"needs_review", "failed"}
                      \/ confirmedNotSubmitted

(****************************************************************************)
(* safeRetryReason(...) === null.  `latest` is the newest attempt, if there *)
(* is one.  A live 'submitting' event is written only after the fence, so   *)
(* latest.fenced stands for both kinds of submit evidence.                  *)
(****************************************************************************)
SafeRetry(status, hasAttempt, latest, confirmedNotSubmitted) ==
  /\ status \in {"failed", "needs_review", "closed"}
  /\ hasAttempt =>
       /\ latest.error # "spam"
       /\ latest.status \notin {"submitted", "submitting", "pending"}
       /\ \/ /\ ~latest.fenced
             /\ \/ latest.error \in {"held", "interrupted"}
                \/ latest.status \in {"needs_review", "failed"}
          \/ confirmedNotSubmitted
=============================================================================
