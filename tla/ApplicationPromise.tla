-------------------------- MODULE ApplicationPromise --------------------------
(****************************************************************************)
(* What the application queue promises about one person's applications,     *)
(* without rows, jobs, locks or recovery: a browser works only on what the  *)
(* person asks for, one at a time; an application is sent in the person's   *)
(* name as often as they permitted; what is recorded as applied was sent,   *)
(* and is the end of it; what is withdrawn is left alone.                   *)
(****************************************************************************)
EXTENDS Naturals

CONSTANTS Candidate, Worker,
          Counted     \* whoever submits counts what was sent before

VARIABLES standing,   \* candidate -> what the person was told
          permits,    \* candidate -> applications the person has permitted
          sent,       \* candidate -> applications the provider has taken
          browser     \* candidate -> the workers that operate a browser on it

promiseVars == <<standing, permits, sent, browser>>

PromiseInit ==
    /\ standing = [c \in Candidate |-> "unasked"]
    /\ permits = [c \in Candidate |-> 0]
    /\ sent = [c \in Candidate |-> 0]
    /\ browser = [c \in Candidate |-> {}]

\* A batch is approved: each of it may be sent once.
Ask(batch) ==
    /\ \A c \in batch : standing[c] = "unasked"
    /\ standing' = [c \in Candidate |-> IF c \in batch THEN "asked" ELSE standing[c]]
    /\ permits' = [c \in Candidate |-> IF c \in batch THEN 1 ELSE permits[c]]
    /\ UNCHANGED <<sent, browser>>

Begin(w, c) ==
    /\ standing[c] = "asked" /\ browser[c] = {}
    /\ browser' = [browser EXCEPT ![c] = {w}]
    /\ UNCHANGED <<standing, permits, sent>>

Send(w, c) ==
    /\ standing[c] = "asked" /\ browser[c] = {w}
    /\ Counted => sent[c] < permits[c]
    /\ sent' = [sent EXCEPT ![c] = @ + 1]
    /\ UNCHANGED <<standing, permits, browser>>

\* The worker has seen the provider's confirmation, and is done.
Record(w, c) ==
    /\ standing[c] = "asked" /\ browser[c] = {w} /\ sent[c] > 0
    /\ standing' = [standing EXCEPT ![c] = "applied"]
    /\ browser' = [browser EXCEPT ![c] = {}]
    /\ UNCHANGED <<permits, sent>>

\* The worker gives up, fails, or stops.
End(w, c) ==
    /\ browser[c] = {w}
    /\ browser' = [browser EXCEPT ![c] = {}]
    /\ UNCHANGED <<standing, permits, sent>>

Withdraw(c) ==
    /\ standing[c] = "asked" /\ browser[c] = {}
    /\ standing' = [standing EXCEPT ![c] = "withdrawn"]
    /\ UNCHANGED <<permits, sent, browser>>

\* Another attempt; the person may say that what was sent did not arrive.
AskAgain(c) ==
    /\ standing[c] \in {"asked", "withdrawn"} /\ browser[c] = {}
    /\ standing' = [standing EXCEPT ![c] = "asked"]
    /\ \E more \in {0, 1} : permits' = [permits EXCEPT ![c] = @ + more]
    /\ UNCHANGED <<sent, browser>>

PromiseNext ==
    \/ \E batch \in SUBSET Candidate : Ask(batch)
    \/ \E c \in Candidate : Withdraw(c) \/ AskAgain(c)
    \/ \E w \in Worker, c \in Candidate :
          Begin(w, c) \/ Send(w, c) \/ Record(w, c) \/ End(w, c)

PromiseSpec == PromiseInit /\ [][PromiseNext]_promiseVars
=============================================================================
