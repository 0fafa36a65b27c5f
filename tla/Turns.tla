-------------------------------- MODULE Turns --------------------------------
(***************************************************************************)
(* Choosing jobs in turns, a portal at a time: the plan of a batch of      *)
(* applications (hunt/application-queue.ts planApplicationOrder) and the   *)
(* jobs a discovery keeps (hunt/discovery/service.ts balancedSelection);   *)
(* with what each of them promises, to be checked against.                 *)
(***************************************************************************)
EXTENDS Integers, Sequences, SequencesExt, FiniteSets, FiniteSetsExt

CONSTANTS Portal,   \* job -> the portal it was found on
          PortalCap \* portal -> its cap in one batch of applications

ASSUME TurnsAssumption ==
    /\ \A c \in DOMAIN Portal : Portal[c] \in DOMAIN PortalCap
    /\ \A p \in DOMAIN PortalCap : PortalCap[p] \in Nat

Least(a, b) == IF a < b THEN a ELSE b

\* Mutant: one queue after the other.
QueueByQueue(queues) == FlattenSeq(queues)

\* The first of every queue, then the second of those that have one, ...
InTurns(queues) ==
    LET longest == Max({0} \cup {Len(queues[i]) : i \in DOMAIN queues})
        round == [k \in 1..longest |->
                    FlattenSeq([i \in DOMAIN queues |->
                      IF k <= Len(queues[i]) THEN <<queues[i][k]>> ELSE <<>>])]
    IN FlattenSeq(round)

\* What s has at these places, in its order.
Keep(s, places) ==
    LET kept[n \in 0..Len(s)] ==
          IF n = 0 THEN <<>>
          ELSE IF n \in places THEN Append(kept[n - 1], s[n]) ELSE kept[n - 1]
    IN kept[Len(s)]

\* Those of s that are the first of their kind.
FirstOfKind(s, kind) ==
    Keep(s, {i \in DOMAIN s : \A j \in 1..(i - 1) : kind[s[j]] # kind[s[i]]})

UpTo(s, n) == SubSeq(s, 1, Least(n, Len(s)))

(***************************************************************************)
(* planApplicationOrder                                                    *)
(***************************************************************************)

FoundOn(s, p) == Keep(s, {i \in DOMAIN s : Portal[s[i]] = p})

\* applyPortalCaps, and the groups roundRobin makes of it, by first job.
CappedGroups(s) ==
    LET heads == FirstOfKind(s, Portal)
    IN [i \in DOMAIN heads |->
          UpTo(FoundOn(s, Portal[heads[i]]), PortalCap[Portal[heads[i]]])]

Plan(s, target) == UpTo(InTurns(CappedGroups(s)), target)

\* The plan takes of the jobs what the caps allow, as far as the target goes,
\* leaves no portal short while there is room, shares what there is among the
\* portals that have any left, and within a portal takes first what was chosen
\* first.
FairPlan(jobs, target, plan) ==
    LET taken(p) == Len(FoundOn(plan, p))
        most(p) == Least(PortalCap[p], Len(FoundOn(jobs, p)))
    IN  /\ ToSet(plan) \subseteq ToSet(jobs) /\ Len(plan) <= target
        /\ \A p \in DOMAIN PortalCap :
              /\ taken(p) <= most(p)
              /\ taken(p) < most(p) => Len(plan) = target
              /\ FoundOn(plan, p) = UpTo(FoundOn(jobs, p), taken(p))
        /\ \A p, q \in DOMAIN PortalCap :
              taken(p) > taken(q) + 1 => taken(q) = most(q)

(***************************************************************************)
(* balancedSelection: results is a sequence, by portal, of the postings    *)
(* found there, each with a fingerprint and the time it was posted.        *)
(***************************************************************************)

\* The newest first; the sort is stable.
NewestFirst(s) ==
    LET before(i) == {j \in DOMAIN s : \/ s[j].posted > s[i].posted
                                       \/ s[j].posted = s[i].posted /\ j < i}
    IN [n \in DOMAIN s |-> s[CHOOSE i \in DOMAIN s : Cardinality(before(i)) = n - 1]]

\* Mutant: a posting found on two portals is kept twice.
KeepAll(s) == s

\* "Whichever source we reach first wins."
Fresh(s) == FirstOfKind(s, [posting \in ToSet(s) |-> posting.fingerprint])

Balanced(results, target, cap) ==
    UpTo(Fresh(InTurns([i \in DOMAIN results |-> UpTo(NewestFirst(results[i]), cap)])), target)

\* No posting is kept twice, none is given up while there is room, and what
\* a portal offers in one turn is kept only when the fingerprints of all
\* earlier turns are, of its newest postings up to the cap.
FairSelection(results, target, cap, kept) ==
    LET queue(i) == UpTo(NewestFirst(results[i]), cap)
        offered == UNION {{<<k, queue(i)[k]>> : k \in DOMAIN queue(i)} : i \in DOMAIN results}
        fingerprints == {kept[n].fingerprint : n \in DOMAIN kept}
    IN  /\ Len(kept) = Cardinality(fingerprints)
        /\ Len(kept) = Least(target, Cardinality({o[2].fingerprint : o \in offered}))
        /\ \A n \in DOMAIN kept : \E o \in offered :
              /\ o[2] = kept[n]
              /\ \A earlier \in offered :
                    earlier[1] < o[1] => earlier[2].fingerprint \in fingerprints
        /\ \A i \in DOMAIN results : \A a \in ToSet(results[i]), b \in ToSet(queue(i)) :
              a.posted > b.posted => a \in ToSet(queue(i))
=============================================================================
