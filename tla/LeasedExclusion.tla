-------------------------- MODULE LeasedExclusion --------------------------
(***************************************************************************)
(* What a lease promises: one owner of a resource at a time.  An owner may *)
(* be replaced while it still works only once it is late, that is, after   *)
(* its renewals have failed; until then nobody takes the resource from it. *)
(***************************************************************************)
CONSTANTS Caller, Resource, NoCaller

VARIABLES owner,    \* resource -> its owner
          working,  \* resource -> the callers that work on it
          late      \* callers whose renewals have failed too often

absVars == <<owner, working, late>>

AbsInit ==
    /\ owner = [r \in Resource |-> NoCaller]
    /\ working = [r \in Resource |-> {}]
    /\ late = {}

\* A free resource, or one that was only ever lost by someone who was late.
Enter(c, r) ==
    /\ owner[r] = NoCaller
    /\ working[r] \subseteq late
    /\ owner' = [owner EXCEPT ![r] = c]
    /\ working' = [working EXCEPT ![r] = @ \cup {c}]
    /\ late' = late \ {c}

Leave(c, r) ==
    /\ c \in working[r]
    /\ owner' = [owner EXCEPT ![r] = IF @ = c THEN NoCaller ELSE @]
    /\ working' = [working EXCEPT ![r] = @ \ {c}]
    /\ late' = late \ {c}

\* Everybody stops at once.
AbsCrash ==
    /\ owner' = [r \in Resource |-> NoCaller]
    /\ working' = [r \in Resource |-> {}]
    /\ late' = {}

\* Renewals fail or succeed again.
Delay(c) ==
    /\ late' \in {late \cup {c}, late \ {c}}
    /\ UNCHANGED <<owner, working>>

\* Owners that are late lose what they own.
Lapse ==
    /\ owner' \in [Resource -> Caller \cup {NoCaller}]
    /\ \A r \in Resource :
          \/ owner'[r] = owner[r]
          \/ owner[r] \in late /\ owner'[r] = NoCaller
    /\ UNCHANGED <<working, late>>

AbsNext ==
    \/ \E c \in Caller, r \in Resource : Enter(c, r) \/ Leave(c, r)
    \/ \E c \in Caller : Delay(c)
    \/ AbsCrash
    \/ Lapse

AbsSpec == AbsInit /\ [][AbsNext]_absVars
=============================================================================
