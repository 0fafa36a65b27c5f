----------------------------- MODULE JobChoices -----------------------------
(***************************************************************************)
(* The choices of Turns, for every input: the plan of the jobs a person    *)
(* approves, in any order (hunt/application-queue.ts                       *)
(* planApplicationOrder), and what a discovery keeps of the postings that  *)
(* its portals return (hunt/discovery/service.ts balancedSelection; the    *)
(* adapters drop a posting without a date).                                *)
(***************************************************************************)
EXTENDS Turns

CONSTANTS Posting,   \* a fingerprint and the time it was posted
          Sources,   \* bound: portals a discovery asks
          MaxFound,  \* bound: postings of one portal, and perPortalCap
          MaxTarget  \* bound: what is left of the day's target, and targetTotal

ASSUME ChoicesAssumption ==
    /\ IsFiniteSet(DOMAIN Portal)
    /\ Sources \in Nat /\ MaxFound \in Nat /\ MaxTarget \in Nat
    /\ \A posting \in Posting : posting.posted \in Int

VARIABLES batch, \* the jobs approved, the target, and their plan
          kept   \* the postings found, the target, the cap, and what is kept

choiceVars == <<batch, kept>>

ChoicesInit == batch = <<>> /\ kept = <<>>

MakePlan ==
    /\ \E jobs \in SetToAllKPermutations(DOMAIN Portal), target \in 0..MaxTarget :
          batch' = [jobs |-> jobs, target |-> target, chosen |-> Plan(jobs, target)]
    /\ UNCHANGED kept

MakeSelection ==
    /\ \E results \in [1..Sources -> BoundedSeq(Posting, MaxFound)],
          target \in 1..MaxTarget, cap \in 1..MaxFound :
          kept' = [results |-> results, target |-> target, cap |-> cap,
                   chosen |-> Balanced(results, target, cap)]
    /\ UNCHANGED batch

ChoicesNext == MakePlan \/ MakeSelection
ChoicesSpec == ChoicesInit /\ [][ChoicesNext]_choiceVars

\* A batch takes what target and caps allow, and shares it fairly among the
\* portals (planApplicationOrder).
PlansAreFair == batch # <<>> => FairPlan(batch.jobs, batch.target, batch.chosen)

\* A discovery keeps no posting twice, gives none up while there is room, and
\* lets no portal crowd out another (balancedSelection).
SelectionsAreFair ==
    kept # <<>> => FairSelection(kept.results, kept.target, kept.cap, kept.chosen)
=============================================================================
