------------------------------ MODULE TurnsProofs ------------------------------
(***************************************************************************)
(* For any jobs, portals, caps and targets: the plan of a batch shares it  *)
(* fairly.  And for any postings, targets and caps: what a discovery keeps *)
(* is a fair selection.  Both are computed by recursion over a sequence;   *)
(* what they do is proved by induction over numbers, where the property is *)
(* a set of numbers (Counting): a recursive function is followed step by   *)
(* step (KeepRuns, FlattenRuns), and each lemma is about one step more.    *)
(***************************************************************************)
EXTENDS JobChoices, FiniteSetTheorems, WellFoundedInduction, SequenceTheorems, TLAPS

(***************************************************************************)
(* Recursion over numbers.                                                 *)
(***************************************************************************)

\* Every set of numbers has a least one.
LEMMA LeastNumber ==
  ASSUME NEW T \in SUBSET Nat, T # {}
  PROVE  \E x \in T : \A y \in T : x <= y
<1> DEFINE R == OpToRel(<, Nat)
<1>1. \A x, y \in Nat : x > y => <<y,x>> \in R
  BY DEF OpToRel
<1>2. PICK x \in T : \A y \in T : ~ (<<y, x>> \in R)
  BY NatLessThanWellFounded, WFMin
<1> HIDE DEF R
<1>3. ASSUME NEW y \in T PROVE x <= y
  <2>1. x \in Nat /\ y \in Nat OBVIOUS
  <2>2. ~(x > y) BY <2>1, <1>1, <1>2
  <2> QED BY <2>1, <2>2
<1> QED BY <1>3

\* What holds of 0, and of n + 1 where it holds of n, holds of every number.
LEMMA Counting ==
  ASSUME NEW T, 0 \in T, \A n \in Nat : n \in T => n + 1 \in T
  PROVE  Nat \subseteq T
<1> SUFFICES ASSUME Nat \ T # {} PROVE FALSE
  OBVIOUS
<1>1. PICK x \in Nat \ T : \A y \in Nat \ T : x <= y
  BY LeastNumber
<1>2. x # 0 /\ x - 1 \in Nat /\ x - 1 \notin Nat \ T
  BY <1>1
<1> QED BY <1>2

(***************************************************************************)
(* The plan of a batch.  Each recursive function is shown to exist, which  *)
(* its definition by CHOOSE takes for granted, and then to have its type.  *)
(***************************************************************************)

\* Keep(s, places) goes through s, a sequence of what it keeps in hand.
LEMMA KeepRuns ==
  ASSUME NEW S, NEW s \in Seq(S), NEW places
  PROVE  \E f \in [0..Len(s) -> Seq({s[i] : i \in places \cap DOMAIN s})] :
            /\ f[0] = <<>> /\ Keep(s, places) = f[Len(s)]
            /\ \A n \in 1..Len(s) :
                  f[n] = IF n \in places THEN Append(f[n - 1], s[n]) ELSE f[n - 1]
<1> DEFINE V == {s[i] : i \in places \cap DOMAIN s}
           Body(f, i) == IF i = 0 THEN <<>>
                         ELSE IF i \in places THEN Append(f[i - 1], s[i]) ELSE f[i - 1]
           Some(n) == \E f \in [0..n -> Seq(V)] : \A i \in 0..n : f[i] = Body(f, i)
           Good == {n \in Nat : n <= Len(s) => Some(n)}
           F == CHOOSE f : f = [i \in 0..Len(s) |-> Body(f, i)]
<1>1. 0 \in Good
  <2> DEFINE g == [i \in 0..0 |-> <<>>]
  <2>1. g \in [0..0 -> Seq(V)]
    <3> HIDE DEF V
    <3> QED OBVIOUS
  <2>2. \A i \in 0..0 : i = 0 /\ g[i] = <<>>
    OBVIOUS
  <2>3. \A i \in 0..0 : g[i] = Body(g, i)
    <3> HIDE DEF g
    <3> QED BY <2>2
  <2> HIDE DEF g, V, Body
  <2> QED BY <2>1, <2>3
<1>2. ASSUME NEW n \in Nat, n \in Good PROVE n + 1 \in Good
  <2> SUFFICES ASSUME n + 1 <= Len(s)
      PROVE  Some(n + 1)
    <3> HIDE DEF Some
    <3> QED OBVIOUS
  <2>1. PICK f \in [0..n -> Seq(V)] : \A i \in 0..n : f[i] = Body(f, i)
    BY <1>2
  <2> DEFINE g == [i \in 0..(n+1) |-> IF i = n + 1 THEN Body(f, i) ELSE f[i]]
  <2>2. Body(f, n + 1) \in Seq(V)
    <3>1. f[n] \in Seq(V) BY <2>1
    <3>2. (n + 1) \in DOMAIN s OBVIOUS
    <3>3. n + 1 \in places => Append(f[n], s[n+1]) \in Seq(V)
      <4> HAVE n + 1 \in places
      <4>1. s[n+1] \in V BY <3>2
      <4> HIDE DEF V
      <4> QED BY <4>1, <3>1
    <3> HIDE DEF V
    <3> QED BY <3>1, <3>3
  <2>3. g \in [0..(n+1) -> Seq(V)]
    <3> HIDE DEF V, Body
    <3> QED BY <2>1, <2>2
  <2>4. ASSUME NEW i \in 0..(n+1) PROVE g[i] = Body(g, i)
    <3>1. CASE i = n + 1
      <4>1. g[i] = Body(f, i) /\ g[n] = f[n]  BY <3>1
      <4> HIDE DEF g
      <4> QED BY <4>1, <3>1
    <3>2. CASE i = 0
      <4>1. g[i] = f[i] /\ f[i] = Body(f, i) BY <3>2, <2>1
      <4> HIDE DEF g
      <4> QED BY <4>1, <3>2
    <3>3. CASE i \in 1..n
      <4>1. g[i] = f[i] /\ f[i] = Body(f, i) /\ g[i - 1] = f[i - 1]
        <5>1. f[i] = Body(f, i)
          <6> HIDE DEF Body
          <6> QED BY <3>3, <2>1
        <5>2. g[i] = f[i] /\ g[i - 1] = f[i - 1]
          <6> HIDE DEF Body
          <6> QED BY <3>3
        <5> QED BY <5>1, <5>2
      <4> HIDE DEF g
      <4> QED BY <4>1, <3>3
    <3> QED BY <3>1, <3>2, <3>3
  <2> HIDE DEF g, Body, V
  <2> SUFFICES \E f1 \in [0..(n+1) -> Seq(V)] : \A i \in 0..(n+1) : f1[i] = Body(f1, i)
    OBVIOUS
  <2> WITNESS g \in [0..(n+1) -> Seq(V)]
  <2> QED BY <2>4
<1>3. Len(s) \in Good
  <2> HIDE DEF Good
  <2> QED BY <1>1, <1>2, Counting
<1>4. PICK f \in [0..Len(s) -> Seq(V)] : \A i \in 0..Len(s) : f[i] = Body(f, i)
  <2> HIDE DEF Body, V
  <2> QED BY <1>3
<1>5. f = [i \in 0..Len(s) |-> Body(f, i)]
  <2> HIDE DEF Body, V
  <2> QED BY <1>4
<1>6. F = [i \in 0..Len(s) |-> Body(F, i)]
  <2> HIDE DEF Body, V
  <2> QED BY <1>5
<1>7. F \in [0..Len(s) -> Seq(V)] /\ \A i \in 0..Len(s) : F[i] = Body(F, i)
  <2>1. \A i \in 0..Len(s) : F[i] = Body(F, i)
    <3> HIDE DEF F, Body
    <3> QED BY <1>6
  <2> DEFINE Same == {n \in Nat : n <= Len(s) => F[n] = f[n]}
  <2>2. 0 \in Same
    <3> HIDE DEF F, V
    <3> QED BY <1>4, <2>1
  <2>3. ASSUME NEW n \in Nat, n \in Same  PROVE n + 1 \in Same
    <3> SUFFICES ASSUME n + 1 <= Len(s)  PROVE F[n+1] = f[n+1]
      OBVIOUS
    <3>1. n + 1 \in 0..Len(s) /\ n + 1 # 0 /\ (n + 1) - 1 = n  OBVIOUS
    <3>2. F[n] = f[n]
      <4> HIDE DEF F
      <4> QED BY <2>3, <3>1
    <3>3. F[n+1] = Body(F, n + 1) /\ f[n+1] = Body(f, n + 1)
      <4> HIDE DEF F, Body
      <4> QED BY <1>4, <2>1, <3>1
    <3> HIDE DEF F, V
    <3> QED BY <3>1, <3>2, <3>3
  <2>4. \A n \in 0..Len(s) : F[n] = f[n]
    <3> HIDE DEF Same
    <3>1. Nat \subseteq Same  BY <2>2, <2>3, Counting
    <3> USE DEF Same
    <3> HIDE DEF F
    <3> QED BY <3>1
  <2>5. F = [i \in 0..Len(s) |-> F[i]]
    <3> HIDE DEF Body
    <3> QED BY <1>6
  <2>6. F \in [0..Len(s) -> Seq(V)]
    <3> HIDE DEF F, Body, V
    <3> QED BY <1>4, <2>4, <2>5
  <2> QED BY <2>1, <2>6
<1>8. F[0] = <<>> /\ \A n \in 1..Len(s) :
          F[n] = IF n \in places THEN Append(F[n - 1], s[n]) ELSE F[n - 1]
  <2>1. F[0] = Body(F, 0)
    <3> HIDE DEF F, Body, V
    <3> QED BY <1>7
  <2>2. ASSUME NEW n \in 1..Len(s)  PROVE F[n] = Body(F, n) /\ n # 0
    <3>1. n \in 0..Len(s) /\ n # 0  OBVIOUS
    <3> HIDE DEF F, Body, V
    <3> QED BY <1>7, <3>1
  <2> HIDE DEF F, V
  <2> QED BY <2>1, <2>2
<1>9. Keep(s, places) = F[Len(s)]
  BY DEF Keep
<1> HIDE DEF F
<1> QED BY <1>7, <1>8, <1>9

\* Keep(s, places) is a sequence of elements at these places.
LEMMA KeepIsSome ==
  ASSUME NEW S, NEW s \in Seq(S), NEW places
  PROVE  Keep(s, places) \in Seq({s[i] : i \in places \cap DOMAIN s})
<1> DEFINE V == {s[i] : i \in places \cap DOMAIN s}
<1>1. Len(s) \in 0..Len(s)  OBVIOUS
<1>2. \E f \in [0..Len(s) -> Seq(V)] :
            /\ f[0] = <<>> /\ Keep(s, places) = f[Len(s)]
            /\ \A n \in 1..Len(s) :
                  f[n] = IF n \in places THEN Append(f[n - 1], s[n]) ELSE f[n - 1]
  BY KeepRuns, Zenon
<1> HIDE DEF V
<1>3. Keep(s, places) \in Seq(V)  BY <1>1, <1>2
<1> QED BY <1>3 DEF V

\* Sequences one after the other, one more at a time.
LEMMA FlattenRuns ==
  ASSUME NEW S, NEW q \in Seq(Seq(S))
  PROVE  \E f \in [0..Len(q) -> Seq(S)] :
            /\ f[0] = <<>> /\ FlattenSeq(q) = f[Len(q)]
            /\ \A n \in 1..Len(q) : f[n] = f[n - 1] \o q[n]
<1>1. CASE Len(q) = 0
  <2>1. q = <<>>
    <3> DEFINE W == Seq(S)
    <3>1. q \in Seq(W) OBVIOUS
    <3> HIDE DEF W
    <3> QED BY <3>1, <1>1
  <2>2. FlattenSeq(q) = <<>>  BY <1>1, <2>1 DEF FlattenSeq
  <2> DEFINE f == [n \in 0..0 |-> <<>>]
  <2>3. f \in [0..Len(q) -> Seq(S)] /\ f[0] = <<>>  BY <1>1
  <2> HIDE DEF f
  <2> QED BY <1>1, <2>2, <2>3
<1>2. CASE Len(q) # 0
  <2> DEFINE Body(f, i) == IF i = 1 THEN q[i] ELSE f[i - 1] \o q[i]
             F == CHOOSE f : f = [i \in 1..Len(q) |-> Body(f, i)]
             Some(n) == \E f \in [1..n -> Seq(S)] : \A i \in 1..n : f[i] = Body(f, i)
             Good == {n \in Nat : n <= Len(q) => Some(n)}
             Fine == {n \in Nat : n \in 1..Len(q) => F[n] \in Seq(S)}
  <2>0. Len(q) \in Nat /\ \A i \in 1..Len(q) : q[i] \in Seq(S)
    <3> DEFINE W == Seq(S)
    <3>1. q \in Seq(W) OBVIOUS
    <3> HIDE DEF W
    <3>2. Len(q) \in Nat /\ \A i \in 1..Len(q) : q[i] \in W
      BY <3>1
    <3> QED BY <3>2 DEF W
  <2>1. 0 \in Good
    <3> DEFINE g == [i \in 1..0 |-> <<>>]
    <3>1. g \in [1..0 -> Seq(S)]
      OBVIOUS
    <3>2. \A i \in 1..0 : g[i] = Body(g, i)
      OBVIOUS
    <3> HIDE DEF g, Body
    <3> QED BY <3>1, <3>2
  <2>2. ASSUME NEW n \in Nat, n \in Good  PROVE n + 1 \in Good
    <3> SUFFICES ASSUME n + 1 <= Len(q)
        PROVE  Some(n + 1)
      <4> HIDE DEF Some
      <4> QED OBVIOUS
    <3>1. PICK f \in [1..n -> Seq(S)] : \A i \in 1..n : f[i] = Body(f, i)
      <4>1. Some(n)
        <5> HIDE DEF Some
        <5> QED BY <2>0, <2>2
      <4> HIDE DEF Body
      <4> QED BY <4>1
    <3> DEFINE g == [i \in 1..(n+1) |-> IF i = n + 1 THEN Body(f, i) ELSE f[i]]
    <3>2. Body(f, n + 1) \in Seq(S)
      <4>1. q[n+1] \in Seq(S) BY <2>0
      <4>2. CASE n = 0  BY <4>1, <4>2
      <4>3. CASE n # 0
        <5>1. f[n] \in Seq(S) BY <4>3, <3>1
        <5>2. f[n] \o q[n+1] \in Seq(S) BY <4>1, <5>1
        <5> QED BY <4>3, <5>2
      <4> QED BY <4>2, <4>3
    <3>3. g \in [1..(n+1) -> Seq(S)]
      <4> HIDE DEF Body
      <4> QED BY <3>1, <3>2
    <3>4. ASSUME NEW i \in 1..(n+1) PROVE g[i] = Body(g, i)
      <4>1. CASE i = n + 1
        <5>1. g[i] = Body(f, i)
          <6> HIDE DEF Body
          <6> QED BY <4>1
        <5>2. i # 1 => g[i - 1] = f[i - 1]
          <6> HIDE DEF Body
          <6> QED BY <4>1
        <5> HIDE DEF g
        <5> QED BY <5>1, <5>2
      <4>2. CASE i \in 1..n
        <5>1. f[i] = Body(f, i)
          <6> HIDE DEF Body
          <6> QED BY <4>2, <3>1
        <5>2. g[i] = f[i] /\ (i # 1 => g[i - 1] = f[i - 1])
          <6> HIDE DEF Body
          <6> QED BY <4>2
        <5> HIDE DEF g
        <5> QED BY <5>1, <5>2
      <4> QED BY <4>1, <4>2
    <3> HIDE DEF g, Body
    <3> SUFFICES \E f1 \in [1..(n+1) -> Seq(S)] : \A i \in 1..(n+1) : f1[i] = Body(f1, i)
      OBVIOUS
    <3> WITNESS g \in [1..(n+1) -> Seq(S)]
    <3> QED BY <3>4
  <2>3. Len(q) \in Good
    <3> HIDE DEF Good
    <3> QED BY <2>0, <2>1, <2>2, Counting
  <2>4. PICK f \in [1..Len(q) -> Seq(S)] : \A i \in 1..Len(q) : f[i] = Body(f, i)
    <3> HIDE DEF Body
    <3> QED BY <2>0, <2>3
  <2>5. f = [i \in 1..Len(q) |-> Body(f, i)]
    <3> HIDE DEF Body
    <3> QED BY <2>4
  <2>6. F = [i \in 1..Len(q) |-> Body(F, i)]
    <3> HIDE DEF Body
    <3> QED BY <2>5
  <2>7. 0 \in Fine
    OBVIOUS
  <2>8. ASSUME NEW n \in Nat, n \in Fine  PROVE n + 1 \in Fine
    <3> SUFFICES ASSUME n + 1 <= Len(q) PROVE F[n+1] \in Seq(S)
      OBVIOUS
    <3>1. F[n+1] = Body(F, n+1)
      <4>1. n + 1 \in 1..Len(q)  BY <2>0
      <4> HIDE DEF F, Body
      <4> QED BY <4>1, <2>6
    <3>2. q[n+1] \in Seq(S) BY <2>0
    <3>3. n # 0 => F[n] \in Seq(S)
      <4> HIDE DEF F
      <4> QED BY <2>0, <2>8
    <3> HIDE DEF F
    <3>4. CASE n = 0  BY <3>1, <3>2, <3>4
    <3>5. CASE n # 0
      <4>1. F[n] \o q[n+1] \in Seq(S) BY <3>2, <3>3, <3>5
      <4> QED BY <4>1, <3>1, <3>5
    <3> QED BY <3>4, <3>5
  <2>9. \A n \in 1..Len(q) : F[n] \in Seq(S) /\ F[n] = Body(F, n)
    <3>1. Nat \subseteq Fine
      <4> HIDE DEF Fine
      <4> QED BY <2>7, <2>8, Counting
    <3>2. \A n \in 1..Len(q) : F[n] \in Seq(S)
      <4> HIDE DEF F
      <4> QED BY <3>1
    <3>3. \A n \in 1..Len(q) : F[n] = Body(F, n)
      <4> HIDE DEF F, Body
      <4> QED BY <2>6
    <3> QED BY <3>2, <3>3
  <2>10. FlattenSeq(q) = F[Len(q)]
    BY <1>2 DEF FlattenSeq
  <2> DEFINE g == [n \in 0..Len(q) |-> IF n = 0 THEN <<>> ELSE F[n]]
  <2>11. g \in [0..Len(q) -> Seq(S)] /\ g[0] = <<>> /\ g[Len(q)] = F[Len(q)]
    <3> HIDE DEF F
    <3> QED BY <1>2, <2>0, <2>9
  <2>12. ASSUME NEW n \in 1..Len(q)  PROVE g[n] = g[n - 1] \o q[n]
    <3>1. F[n] = Body(F, n) /\ q[n] \in Seq(S)  BY <2>0, <2>9
    <3>2. g[n] = F[n] /\ g[n - 1] = IF n = 1 THEN <<>> ELSE F[n - 1]
      <4> HIDE DEF F
      <4> QED BY <2>0
    <3>3. <<>> \o q[n] = q[n]  BY <3>1
    <3> HIDE DEF F, g
    <3> QED BY <3>1, <3>2, <3>3
  <2> HIDE DEF F, g
  <2> QED BY <2>10, <2>11, <2>12
<1> QED BY <1>1, <1>2

\* They are a sequence of their elements.
LEMMA FlattenIsSeq ==
  ASSUME NEW S, NEW q \in Seq(Seq(S))
  PROVE  FlattenSeq(q) \in Seq(S)
<1> DEFINE W == Seq(S)
<1>1. Len(q) \in Nat
  <2>1. q \in Seq(W)  OBVIOUS
  <2> HIDE DEF W
  <2> QED BY <2>1
<1>2. \E f \in [0..Len(q) -> W] : FlattenSeq(q) = f[Len(q)]  BY FlattenRuns
<1> HIDE DEF W
<1>3. FlattenSeq(q) \in W  BY <1>1, <1>2
<1> QED BY <1>3 DEF W

\* The longest of finitely many lengths exists.
LEMMA LongestIsNumber ==
  ASSUME NEW m \in Nat, NEW f \in [1..m -> Nat]
  PROVE  /\ Max({0} \cup {f[i] : i \in 1..m}) \in Nat
         /\ \A i \in 1..m : f[i] <= Max({0} \cup {f[i2] : i2 \in 1..m})
<1> DEFINE Values == {0} \cup {f[i] : i \in 1..m}
           Bounded == {n \in Nat : n <= m => \E b \in Nat : \A i \in 1..n : f[i] <= b}
           Bounds == {b \in Nat : \A i \in 1..m : f[i] <= b}
<1>1. 0 \in Bounded
  OBVIOUS
<1>2. ASSUME NEW n \in Nat, n \in Bounded  PROVE n + 1 \in Bounded
  <2> SUFFICES ASSUME n + 1 <= m  PROVE \E b \in Nat : \A i \in 1..(n+1) : f[i] <= b
    OBVIOUS
  <2>1. PICK b \in Nat : \A i \in 1..n : f[i] <= b  BY <1>2
  <2>2. f[n+1] \in Nat OBVIOUS
  <2>3. \A i \in 1..(n+1) : i \in 1..n \/ i = n + 1  OBVIOUS
  <2>4. \A i \in 1..n : f[i] \in Nat OBVIOUS
  <2>5. \A i \in 1..(n+1) : f[i] <= b + f[n+1]  BY <2>1, <2>2, <2>3, <2>4
  <2> QED BY <2>5, <2>2
<1>3. m \in Bounded
  <2> HIDE DEF Bounded
  <2> QED BY <1>1, <1>2, Counting
<1>4. PICK b \in Bounds : \A y \in Bounds : b <= y
  <2>1. PICK b \in Nat : \A i \in 1..m : f[i] <= b  BY <1>3
  <2>2. b \in Bounds  BY <2>1
  <2> HIDE DEF Bounds
  <2> QED BY <2>2, LeastNumber DEF Bounds
<1>5. b \in Values
  <2> SUFFICES ASSUME b # 0, \A i \in 1..m : f[i] # b  PROVE FALSE
    OBVIOUS
  <2>1. \A i \in 1..m : f[i] <= b - 1  BY <1>4
  <2>2. b - 1 \in Bounds  BY <1>4, <2>1
  <2> QED BY <1>4, <2>2
<1>6. \A y \in Values : b >= y  BY <1>4
<1>7. \A y \in Values : y \in Nat OBVIOUS
<1>8. \A i \in 1..m : f[i] \in Values  OBVIOUS
<1> HIDE DEF Values
<1>9. Max(Values) \in Values /\ \A y \in Values : Max(Values) >= y  BY <1>5, <1>6 DEF Max
<1>10. Max(Values) \in Nat /\ \A i \in 1..m : f[i] <= Max(Values)  BY <1>7, <1>8, <1>9
<1> QED BY <1>10 DEF Values

LEMMA FirstsAreSome ==
  ASSUME NEW S, NEW s \in Seq(S), NEW kind
  PROVE  FirstOfKind(s, kind) \in Seq(ToSet(s))
<1> DEFINE places == {i \in DOMAIN s : \A j \in 1..(i - 1) : kind[s[j]] # kind[s[i]]}
<1>1. {s[i] : i \in places \cap DOMAIN s} \subseteq ToSet(s)
  BY DEF ToSet
<1>2. Keep(s, places) \in Seq({s[i] : i \in places \cap DOMAIN s})
  <2> HIDE DEF places
  <2> QED BY KeepIsSome
<1>3. Keep(s, places) \in Seq(ToSet(s))
  <2> HIDE DEF places
  <2> QED BY <1>1, <1>2
<1> QED BY <1>3 DEF FirstOfKind

LEMMA FoundAreSome ==
  ASSUME NEW S, NEW s \in Seq(S), NEW p
  PROVE  FoundOn(s, p) \in Seq(ToSet(s))
<1> DEFINE places == {i \in DOMAIN s : Portal[s[i]] = p}
<1>1. {s[i] : i \in places \cap DOMAIN s} \subseteq ToSet(s)
  BY DEF ToSet
<1>2. Keep(s, places) \in Seq({s[i] : i \in places \cap DOMAIN s})
  <2> HIDE DEF places
  <2> QED BY KeepIsSome
<1>3. Keep(s, places) \in Seq(ToSet(s))
  <2> HIDE DEF places
  <2> QED BY <1>1, <1>2
<1> QED BY <1>3 DEF FoundOn

LEMMA UpToIsPrefix ==
  ASSUME NEW S, NEW s \in Seq(S), NEW n \in Nat
  PROVE  UpTo(s, n) \in Seq(S) /\ Len(UpTo(s, n)) <= n
BY DEF UpTo, Least

\* InTurns has rounds, a round a turn for each queue that has one left.
Turn(q, k) == [i \in DOMAIN q |-> IF k <= Len(q[i]) THEN <<q[i][k]>> ELSE <<>>]
Longest(q) == Max({0} \cup {Len(q[i]) : i \in DOMAIN q})
Rounds(q)  == [k \in 1..Longest(q) |-> FlattenSeq(Turn(q, k))]

LEMMA ElementsAre ==
  ASSUME NEW S, NEW q \in Seq(Seq(S))
  PROVE  /\ Len(q) \in Nat /\ DOMAIN q = 1..Len(q)
         /\ \A i \in 1..Len(q) : q[i] \in Seq(S) /\ Len(q[i]) \in Nat
<1> DEFINE W == Seq(S)
<1>1. Len(q) \in Nat /\ DOMAIN q = 1..Len(q) /\ \A i \in 1..Len(q) : q[i] \in W
  <2>1. q \in Seq(W) OBVIOUS
  <2> HIDE DEF W
  <2> QED BY <2>1
<1> QED BY <1>1

LEMMA LongestIs ==
  ASSUME NEW S, NEW q \in Seq(Seq(S))
  PROVE  Longest(q) \in Nat /\ \A i \in 1..Len(q) : Len(q[i]) <= Longest(q)
<1> DEFINE f == [i \in 1..Len(q) |-> Len(q[i])]
<1>1. Len(q) \in Nat /\ DOMAIN q = 1..Len(q) /\ f \in [1..Len(q) -> Nat]
  BY ElementsAre
<1>2. {Len(q[i]) : i \in DOMAIN q} = {f[i] : i \in 1..Len(q)}  BY <1>1
<1>3. \A i \in 1..Len(q) : f[i] = Len(q[i])  OBVIOUS
<1> HIDE DEF f
<1> QED BY <1>1, <1>2, <1>3, LongestIsNumber DEF Longest

LEMMA TurnIs ==
  ASSUME NEW S, NEW q \in Seq(Seq(S)), NEW k \in Nat \ {0}
  PROVE  /\ Turn(q, k) \in Seq(Seq(S)) /\ Len(Turn(q, k)) = Len(q)
         /\ \A i \in 1..Len(q) :
               Turn(q, k)[i] = IF k <= Len(q[i]) THEN <<q[i][k]>> ELSE <<>>
<1> DEFINE W == Seq(S)
           t == Turn(q, k)
<1>1. /\ Len(q) \in Nat /\ DOMAIN q = 1..Len(q)
      /\ \A i \in 1..Len(q) : q[i] \in Seq(S) /\ Len(q[i]) \in Nat
  BY ElementsAre
<1>2. ASSUME NEW i \in 1..Len(q)
      PROVE  (IF k <= Len(q[i]) THEN <<q[i][k]>> ELSE <<>>) \in W
  <2>1. q[i] \in Seq(S)  BY <1>1
  <2>2. k <= Len(q[i]) => q[i][k] \in S  BY <2>1
  <2> QED BY <2>2
<1>3. /\ t \in [1..Len(q) -> W]
      /\ \A i \in 1..Len(q) : t[i] = IF k <= Len(q[i]) THEN <<q[i][k]>> ELSE <<>>
  <2> HIDE DEF W
  <2> QED BY <1>1, <1>2 DEF Turn
<1>4. t \in Seq(W) /\ Len(t) = Len(q)
  <2> DEFINE m == Len(q)
  <2>1. m \in Nat /\ t \in [1..m -> W]  BY <1>1, <1>3
  <2> HIDE DEF W, t, m
  <2>2. t \in Seq(W) /\ Len(t) = m  BY <2>1
  <2> QED BY <2>2 DEF m
<1> QED BY <1>3, <1>4

LEMMA RoundsAre ==
  ASSUME NEW S, NEW q \in Seq(Seq(S))
  PROVE  /\ Rounds(q) \in Seq(Seq(S)) /\ Len(Rounds(q)) = Longest(q)
         /\ \A k \in 1..Longest(q) : Rounds(q)[k] = FlattenSeq(Turn(q, k))
<1> DEFINE W == Seq(S)
           r == Rounds(q)
<1>1. Longest(q) \in Nat  BY LongestIs
<1>2. ASSUME NEW k \in 1..Longest(q)  PROVE FlattenSeq(Turn(q, k)) \in W
  <2>1. k \in Nat \ {0}  BY <1>1
  <2>2. Turn(q, k) \in Seq(Seq(S))  BY <2>1, TurnIs
  <2> QED BY <2>2, FlattenIsSeq
<1>3. /\ r \in [1..Longest(q) -> W]
      /\ \A k \in 1..Longest(q) : r[k] = FlattenSeq(Turn(q, k))
  <2> HIDE DEF W
  <2> QED BY <1>2 DEF Rounds
<1>4. r \in Seq(W) /\ Len(r) = Longest(q)
  <2> HIDE DEF W, r
  <2> QED BY <1>1, <1>3
<1> QED BY <1>3, <1>4

\* Taking turns selects from the queues.
LEMMA TurnsAreSome ==
  ASSUME NEW S, NEW q \in Seq(Seq(S))
  PROVE  InTurns(q) \in Seq(S) /\ InTurns(q) = FlattenSeq(Rounds(q))
<1>1. InTurns(q) = FlattenSeq(Rounds(q))
  BY DEF InTurns, Rounds, Turn, Longest
<1> QED BY <1>1, RoundsAre, FlattenIsSeq

(***************************************************************************)
(* The jobs of one portal, in a sequence that grows.                       *)
(***************************************************************************)

\* It is the only function that does.
LEMMA KeepIs ==
  ASSUME NEW S, NEW s \in Seq(S), NEW places, NEW f \in [0..Len(s) -> Seq(S)], f[0] = <<>>,
         \A n \in 1..Len(s) : f[n] = IF n \in places THEN Append(f[n - 1], s[n]) ELSE f[n - 1]
  PROVE  Keep(s, places) = f[Len(s)]
<1>1. PICK g : /\ g[0] = <<>> /\ Keep(s, places) = g[Len(s)]
               /\ \A n \in 1..Len(s) :
                     g[n] = IF n \in places THEN Append(g[n - 1], s[n]) ELSE g[n - 1]
  BY KeepRuns
<1> DEFINE Same == {n \in Nat : n <= Len(s) => f[n] = g[n]}
<1>2. 0 \in Same  BY <1>1
<1>3. ASSUME NEW n \in Nat, n \in Same  PROVE n + 1 \in Same
  <2> SUFFICES ASSUME n + 1 <= Len(s)  PROVE f[n+1] = g[n+1]
    OBVIOUS
  <2>1. n + 1 \in 1..Len(s) /\ (n + 1) - 1 = n /\ f[n] = g[n]  BY <1>3
  <2> QED BY <1>1, <2>1
<1>4. Len(s) \in Same
  <2> HIDE DEF Same
  <2>1. Len(s) \in Nat  OBVIOUS
  <2> QED BY <1>2, <1>3, <2>1, Counting
<1> QED BY <1>1, <1>4

\* One place more.
LEMMA KeepOneMore ==
  ASSUME NEW S, NEW s \in Seq(S), NEW x \in S, NEW A, NEW B,
         \A n \in 1..Len(s) : n \in A <=> n \in B
  PROVE  Keep(Append(s, x), B) = IF Len(s) + 1 \in B THEN Append(Keep(s, A), x) ELSE Keep(s, A)
<1>1. PICK g \in [0..Len(s) -> Seq({s[i] : i \in A \cap DOMAIN s})] :
               /\ g[0] = <<>> /\ Keep(s, A) = g[Len(s)]
               /\ \A n \in 1..Len(s) :
                     g[n] = IF n \in A THEN Append(g[n - 1], s[n]) ELSE g[n - 1]
  BY KeepRuns
<1> DEFINE t == Append(s, x)
           m == Len(s) + 1
           last == IF m \in B THEN Append(g[Len(s)], x) ELSE g[Len(s)]
           f == [n \in 0..m |-> IF n = m THEN last ELSE g[n]]
<1>2. /\ Len(s) \in Nat /\ t \in Seq(S) /\ Len(t) = m /\ t[m] = x
      /\ \A n \in 1..Len(s) : t[n] = s[n]
  OBVIOUS
<1>3. \A n \in 0..Len(s) : g[n] \in Seq(S)
  <2>1. {s[i] : i \in A \cap DOMAIN s} \subseteq S  OBVIOUS
  <2>2. Seq({s[i] : i \in A \cap DOMAIN s}) \subseteq Seq(S)  BY <2>1
  <2> QED BY <1>1, <2>2
<1>4. last \in Seq(S)
  <2>1. g[Len(s)] \in Seq(S)  BY <1>2, <1>3
  <2> QED BY <2>1
<1>5. f \in [0..Len(t) -> Seq(S)]
  <2> HIDE DEF last, t
  <2> QED BY <1>2, <1>3, <1>4
<1>6. f[0] = <<>>
  <2> HIDE DEF last
  <2> QED BY <1>1, <1>2
<1>7. ASSUME NEW n \in 1..Len(t)
      PROVE  f[n] = IF n \in B THEN Append(f[n - 1], t[n]) ELSE f[n - 1]
  <2>1. CASE n = m
    <3>1. f[n] = last /\ f[n - 1] = g[Len(s)] /\ t[n] = x
      <4> HIDE DEF last, t
      <4> QED BY <1>2, <2>1
    <3> HIDE DEF f, t
    <3> QED BY <2>1, <3>1
  <2>2. CASE n # m
    <3>1. n \in 1..Len(s)
      <4> HIDE DEF t
      <4> QED BY <1>2, <2>2
    <3>2. f[n] = g[n] /\ f[n - 1] = g[n - 1]
      <4> HIDE DEF last
      <4> QED BY <1>2, <3>1
    <3>3. t[n] = s[n]  BY <1>2, <3>1
    <3> HIDE DEF f, t
    <3> QED BY <1>1, <3>1, <3>2, <3>3
  <2> QED BY <2>1, <2>2
<1>8. Keep(t, B) = f[Len(t)]
  <2>1. t \in Seq(S)  BY <1>2
  <2> HIDE DEF f, t
  <2> QED BY <2>1, <1>5, <1>6, <1>7, KeepIs
<1>9. f[Len(t)] = last
  <2> HIDE DEF last, t
  <2> QED BY <1>2
<1> QED BY <1>1, <1>8, <1>9

LEMMA KeepNothing == \A places : Keep(<<>>, places) = <<>>
<1> TAKE places
<1>0. <<>> \in Seq({}) /\ Len(<<>>) = 0  OBVIOUS
<1>1. PICK s \in Seq({}) : s = <<>>  BY <1>0
<1>2. PICK f : f[0] = <<>> /\ Keep(s, places) = f[Len(s)]  BY KeepRuns
<1> QED BY <1>0, <1>1, <1>2

\* The jobs of a portal, one job more.
LEMMA FoundOneMore ==
  ASSUME NEW S, NEW s \in Seq(S), NEW x \in S, NEW p
  PROVE  FoundOn(Append(s, x), p) = IF Portal[x] = p THEN Append(FoundOn(s, p), x) ELSE FoundOn(s, p)
<1> DEFINE A == {i \in DOMAIN s : Portal[s[i]] = p}
           t == Append(s, x)
           B == {i \in DOMAIN t : Portal[t[i]] = p}
<1>1. \A n \in 1..Len(s) : n \in A <=> n \in B  OBVIOUS
<1>2. Len(s) + 1 \in B <=> Portal[x] = p  OBVIOUS
<1>3. Keep(t, B) = IF Len(s) + 1 \in B THEN Append(Keep(s, A), x) ELSE Keep(s, A)
  <2> HIDE DEF A, B
  <2> QED BY <1>1, KeepOneMore
<1> HIDE DEF A, B
<1> QED BY <1>2, <1>3 DEF FoundOn, A, B

LEMMA FoundInNothing == \A p : FoundOn(<<>>, p) = <<>>
BY KeepNothing DEF FoundOn

LEMMA FoundInOne ==
  ASSUME NEW x, NEW p
  PROVE  FoundOn(<<x>>, p) = IF Portal[x] = p THEN <<x>> ELSE <<>>
<1>0. <<>> \in Seq({x}) /\ Append(<<>>, x) = <<x>>  OBVIOUS
<1>1. PICK s \in Seq({x}) : s = <<>>  BY <1>0
<1>2. FoundOn(Append(s, x), p) = IF Portal[x] = p THEN Append(FoundOn(s, p), x) ELSE FoundOn(s, p)
  BY FoundOneMore
<1> QED BY <1>0, <1>1, <1>2, FoundInNothing

\* The jobs of a portal in one sequence after another.
LEMMA FoundInBoth ==
  ASSUME NEW S, NEW s \in Seq(S), NEW t \in Seq(S), NEW p
  PROVE  FoundOn(s \o t, p) = FoundOn(s, p) \o FoundOn(t, p)
<1> DEFINE Upto(n) == SubSeq(t, 1, n)
           Holds == {n \in Nat : n <= Len(t) =>
                       FoundOn(s \o Upto(n), p) = FoundOn(s, p) \o FoundOn(Upto(n), p)}
<1>0. FoundOn(s, p) \in Seq(S)
  <2>1. FoundOn(s, p) \in Seq(ToSet(s))  BY FoundAreSome
  <2>2. ToSet(s) \subseteq S  BY DEF ToSet
  <2> QED BY <2>1, <2>2
<1>1. 0 \in Holds
  <2>1. Upto(0) = <<>> /\ s \o <<>> = s  OBVIOUS
  <2>2. FoundOn(s, p) \o <<>> = FoundOn(s, p)  BY <1>0
  <2> QED BY <2>1, <2>2, FoundInNothing
<1>2. ASSUME NEW n \in Nat, n \in Holds  PROVE n + 1 \in Holds
  <2> SUFFICES ASSUME n + 1 <= Len(t)
      PROVE  FoundOn(s \o Upto(n + 1), p) = FoundOn(s, p) \o FoundOn(Upto(n + 1), p)
    OBVIOUS
  <2> DEFINE u == Upto(n)
             x == t[n+1]
  <2>1. x \in S /\ u \in Seq(S) /\ s \o u \in Seq(S)  OBVIOUS
  <2>2. Upto(n + 1) = Append(u, x)  OBVIOUS
  <2>3. s \o Append(u, x) = Append(s \o u, x)
    <3> HIDE DEF u, x
    <3> QED BY <2>1
  <2>4. FoundOn(s \o u, p) = FoundOn(s, p) \o FoundOn(u, p)
    <3>1. n <= Len(t)  OBVIOUS
    <3> QED BY <1>2, <3>1
  <2>5. FoundOn(u, p) \in Seq(S)
    <3>1. FoundOn(u, p) \in Seq(ToSet(u))
      <4> HIDE DEF u
      <4> QED BY <2>1, FoundAreSome
    <3>2. ToSet(u) \subseteq S
      <4> HIDE DEF u
      <4> QED BY <2>1 DEF ToSet
    <3> HIDE DEF u
    <3> QED BY <3>1, <3>2
  <2> HIDE DEF u, x, Upto
  <2>6. FoundOn(Append(u, x), p)
          = IF Portal[x] = p THEN Append(FoundOn(u, p), x) ELSE FoundOn(u, p)
    BY <2>1, FoundOneMore
  <2>7. FoundOn(Append(s \o u, x), p)
          = IF Portal[x] = p THEN Append(FoundOn(s \o u, p), x) ELSE FoundOn(s \o u, p)
    BY <2>1, FoundOneMore
  <2>8. Append(FoundOn(s, p) \o FoundOn(u, p), x) = FoundOn(s, p) \o Append(FoundOn(u, p), x)
    <3>1. ASSUME NEW a \in Seq(S), NEW b \in Seq(S)
          PROVE  Append(a \o b, x) = a \o Append(b, x)
      <4>1. <<x>> \in Seq(S) /\ a \o b \in Seq(S)  BY <2>1
      <4>2. Append(a \o b, x) = (a \o b) \o <<x>> /\ Append(b, x) = b \o <<x>>
        BY <2>1, <4>1, AppendIsConcat
      <4>3. (a \o b) \o <<x>> = a \o (b \o <<x>>)
        BY <4>1, ConcatAssociative
      <4> QED BY <4>2, <4>3
    <3> QED BY <1>0, <2>5, <3>1
  <2> QED BY <2>2, <2>3, <2>4, <2>6, <2>7, <2>8
<1>3. Len(t) \in Holds
  <2> HIDE DEF Holds
  <2>1. Len(t) \in Nat  OBVIOUS
  <2> QED BY <1>1, <1>2, <2>1, Counting
<1>4. Upto(Len(t)) = t /\ Len(t) <= Len(t)  OBVIOUS
<1>5. FoundOn(s \o Upto(Len(t)), p) = FoundOn(s, p) \o FoundOn(Upto(Len(t)), p)
  <2> HIDE DEF Upto
  <2> QED BY <1>3, <1>4
<1> HIDE DEF Upto
<1> QED BY <1>4, <1>5

FoundSplits(S, p) ==
    \A s, t \in Seq(S) : FoundOn(s \o t, p) = FoundOn(s, p) \o FoundOn(t, p)

LEMMA FoundAlwaysSplits == \A S, p : FoundSplits(S, p)
<1> SUFFICES ASSUME NEW S, NEW p, NEW s \in Seq(S), NEW t \in Seq(S)
    PROVE  FoundOn(s \o t, p) = FoundOn(s, p) \o FoundOn(t, p)
  BY DEF FoundSplits
<1> QED BY FoundInBoth

(***************************************************************************)
(* Queues of one portal each, taken in turns.                              *)
(***************************************************************************)

\* f joins the sequences of r, one more at a time.
Joins(f, r, n, S) ==
    /\ f \in [0..n -> Seq(S)] /\ f[0] = <<>>
    /\ \A k \in 1..n : r[k] \in Seq(S) /\ f[k] = f[k - 1] \o r[k]

\* Each queue holds the jobs of a portal of its own.
OfOnePortal(q, P) ==
    /\ \A i \in 1..Len(q) : \A k \in 1..Len(q[i]) : Portal[q[i][k]] = P[i]
    /\ \A i, j \in 1..Len(q) : i # j => P[i] # P[j]

\* Of a row, the jobs of the portal that only its i-th sequence has.
LEMMA FoundInRow ==
  ASSUME NEW S, NEW r \in Seq(Seq(S)), NEW p, NEW i \in 1..Len(r),
         \A j \in 1..Len(r) \ {i} : FoundOn(r[j], p) = <<>>
  PROVE  FoundOn(FlattenSeq(r), p) = FoundOn(r[i], p)
<1>1. PICK f \in [0..Len(r) -> Seq(S)] :
            /\ f[0] = <<>> /\ FlattenSeq(r) = f[Len(r)]
            /\ \A n \in 1..Len(r) : f[n] = f[n - 1] \o r[n]
  BY FlattenRuns
<1> DEFINE X == FoundOn(r[i], p)
           Holds == {n \in Nat : n <= Len(r) => FoundOn(f[n], p) = IF n < i THEN <<>> ELSE X}
<1>0. Len(r) \in Nat /\ \A j \in 1..Len(r) : r[j] \in Seq(S)
  BY ElementsAre
<1>2. X \in Seq(S)
  <2>1. r[i] \in Seq(S)  BY <1>0
  <2>2. ToSet(r[i]) \subseteq S  BY <2>1 DEF ToSet
  <2>3. X \in Seq(ToSet(r[i]))  BY <2>1, FoundAreSome
  <2> HIDE DEF X
  <2> QED BY <2>2, <2>3
<1>3. <<>> \o <<>> = <<>> /\ <<>> \o X = X /\ X \o <<>> = X
  <2> HIDE DEF X
  <2> QED BY <1>2
<1>4. 0 \in Holds
  BY <1>1, FoundInNothing
<1>5. ASSUME NEW n \in Nat, n \in Holds  PROVE n + 1 \in Holds
  <2> SUFFICES ASSUME n + 1 <= Len(r)
      PROVE  FoundOn(f[n+1], p) = IF n + 1 < i THEN <<>> ELSE X
    OBVIOUS
  <2>1. n + 1 \in 1..Len(r) /\ (n + 1) - 1 = n /\ n \in 0..Len(r)  BY <1>0
  <2>2. f[n+1] = f[n] \o r[n+1]  BY <1>1, <2>1
  <2>3. f[n] \in Seq(S) /\ r[n+1] \in Seq(S)  BY <1>0, <1>1, <2>1
  <2>4. FoundOn(f[n+1], p) = FoundOn(f[n], p) \o FoundOn(r[n+1], p)
    <3>1. FoundSplits(S, p)  BY FoundAlwaysSplits
    <3>2. FoundOn(f[n] \o r[n+1], p) = FoundOn(f[n], p) \o FoundOn(r[n+1], p)
      BY <2>3, <3>1, Zenon DEF FoundSplits
    <3> QED BY <2>2, <3>2, Zenon
  <2>5. FoundOn(f[n], p) = IF n < i THEN <<>> ELSE X
    <3> HIDE DEF X
    <3> QED BY <1>0, <1>5, <2>1
  <2>6. n + 1 # i => FoundOn(r[n+1], p) = <<>>  BY <2>1
  <2>7. n + 1 = i => FoundOn(r[n+1], p) = X  OBVIOUS
  <2> HIDE DEF X
  <2>8. CASE n + 1 < i
    <3>1. n < i /\ n + 1 # i  BY <2>8
    <3> QED BY <1>3, <2>4, <2>5, <2>6, <2>8, <3>1
  <2>9. CASE n + 1 = i
    <3>1. n < i /\ ~(n + 1 < i)  BY <2>9
    <3> QED BY <1>3, <2>4, <2>5, <2>7, <2>9, <3>1
  <2>10. CASE n + 1 > i
    <3>1. ~(n < i) /\ ~(n + 1 < i) /\ n + 1 # i  BY <2>10
    <3> QED BY <1>3, <2>4, <2>5, <2>6, <3>1
  <2> QED BY <2>8, <2>9, <2>10
<1>6. Len(r) \in Holds
  <2> HIDE DEF Holds
  <2> QED BY <1>0, <1>4, <1>5, Counting
<1> HIDE DEF X
<1> QED BY <1>0, <1>1, <1>6 DEF X

\* Of a turn, the jobs of a portal.
LEMMA FoundInTurn ==
  ASSUME NEW S, NEW q \in Seq(Seq(S)), NEW P, OfOnePortal(q, P), NEW k \in Nat \ {0},
         NEW i \in 1..Len(q)
  PROVE  FoundOn(FlattenSeq(Turn(q, k)), P[i]) = Turn(q, k)[i]
<1> DEFINE r == Turn(q, k)
<1>1. /\ r \in Seq(Seq(S)) /\ Len(r) = Len(q)
      /\ \A j \in 1..Len(q) : r[j] = IF k <= Len(q[j]) THEN <<q[j][k]>> ELSE <<>>
  BY TurnIs
<1>2. \A j \in 1..Len(q) : k <= Len(q[j]) => Portal[q[j][k]] = P[j]
  BY ElementsAre DEF OfOnePortal
<1>3. ASSUME NEW j \in 1..Len(q)
      PROVE  FoundOn(r[j], P[i]) = IF j = i THEN r[j] ELSE <<>>
  <2>1. CASE k <= Len(q[j])
    <3>1. r[j] = <<q[j][k]>> /\ Portal[q[j][k]] = P[j]  BY <1>1, <1>2, <2>1
    <3>2. j # i => P[j] # P[i]  BY DEF OfOnePortal
    <3> HIDE DEF r
    <3> QED BY <3>1, <3>2, FoundInOne
  <2>2. CASE ~(k <= Len(q[j]))
    <3>1. r[j] = <<>>  BY <1>1, <2>2
    <3> HIDE DEF r
    <3> QED BY <3>1, FoundInNothing
  <2> QED BY <2>1, <2>2
<1> HIDE DEF r
<1>4. FoundOn(FlattenSeq(r), P[i]) = FoundOn(r[i], P[i])
  BY <1>1, <1>3, FoundInRow
<1> QED BY <1>3, <1>4 DEF r

\* After n turns each portal has had n of its jobs, or all.
LEMMA FoundInTurns ==
  ASSUME NEW S, NEW q \in Seq(Seq(S)), NEW P, OfOnePortal(q, P), NEW i \in 1..Len(q),
         NEW f, Joins(f, Rounds(q), Longest(q), S)
  PROVE  \A n \in 0..Longest(q) : FoundOn(f[n], P[i]) = UpTo(q[i], n)
<1> DEFINE X(n) == UpTo(q[i], n)
           Holds == {n \in Nat : n <= Longest(q) => FoundOn(f[n], P[i]) = X(n)}
<1>0. q[i] \in Seq(S) /\ Len(q[i]) \in Nat /\ Longest(q) \in Nat
  BY ElementsAre, LongestIs
<1>1. 0 \in Holds
  <2>1. X(0) = <<>>  BY <1>0 DEF UpTo, Least
  <2>2. f[0] = <<>>  BY DEF Joins
  <2> QED BY <2>1, <2>2, FoundInNothing
<1>2. ASSUME NEW n \in Nat, n \in Holds  PROVE n + 1 \in Holds
  <2> SUFFICES ASSUME n + 1 <= Longest(q)  PROVE FoundOn(f[n+1], P[i]) = X(n + 1)
    OBVIOUS
  <2>1. n + 1 \in 1..Longest(q) /\ (n + 1) - 1 = n /\ n \in 0..Longest(q) /\ n + 1 \in Nat \ {0}
    BY <1>0
  <2>2. f[n+1] = f[n] \o Rounds(q)[n+1] /\ f[n] \in Seq(S)  BY <2>1 DEF Joins
  <2>3. Rounds(q)[n+1] = FlattenSeq(Turn(q, n + 1)) /\ Rounds(q)[n+1] \in Seq(S)
    <3>1. Rounds(q)[n+1] = FlattenSeq(Turn(q, n + 1))  BY <2>1, RoundsAre
    <3>2. Turn(q, n + 1) \in Seq(Seq(S))  BY <2>1, TurnIs
    <3> QED BY <3>1, <3>2, FlattenIsSeq
  <2>4. FoundOn(f[n+1], P[i]) = FoundOn(f[n], P[i]) \o FoundOn(Rounds(q)[n+1], P[i])
    <3>0. Rounds(q)[n+1] \in Seq(S)  BY <2>3
    <3>1. FoundSplits(S, P[i])  BY FoundAlwaysSplits
    <3>2. FoundOn(f[n] \o Rounds(q)[n+1], P[i]) = FoundOn(f[n], P[i]) \o FoundOn(Rounds(q)[n+1], P[i])
      BY <2>2, <3>0, <3>1, Zenon DEF FoundSplits
    <3> QED BY <2>2, <3>2, Zenon
  <2>5. FoundOn(Rounds(q)[n+1], P[i]) = Turn(q, n + 1)[i]
    BY <2>1, <2>3, FoundInTurn
  <2>6. Turn(q, n + 1)[i] = IF n + 1 <= Len(q[i]) THEN <<q[i][n+1]>> ELSE <<>>
    BY <2>1, TurnIs
  <2>7. FoundOn(f[n], P[i]) = X(n)  BY <1>2, <2>1
  <2>8. X(n + 1) = IF n + 1 <= Len(q[i]) THEN X(n) \o <<q[i][n+1]>> ELSE X(n) \o <<>>
    <3> DEFINE s == q[i]
    <3>0. s \in Seq(S) /\ Len(s) \in Nat  BY <1>0
    <3> HIDE DEF s
    <3>1. CASE n + 1 <= Len(s)
      <4>1. UpTo(s, n + 1) = SubSeq(s, 1, n + 1) /\ UpTo(s, n) = SubSeq(s, 1, n)
        BY <3>0, <3>1 DEF UpTo, Least
      <4>2. SubSeq(s, 1, n + 1) = SubSeq(s, 1, n) \o <<s[n+1]>>
        <5>1. n + 1 \in 1..Len(s) /\ 1 \in 1..Len(s) /\ n + 1 \in 1..Len(s)  BY <3>0, <3>1
        <5>2. SubSeq(s, 1, n + 1) = SubSeq(s, 1, (n + 1) - 1) \o <<s[n+1]>>
          BY <3>0, <5>1, SubSeqRecursiveSecond
        <5> QED BY <5>2
      <4> QED BY <3>1, <4>1, <4>2 DEF s
    <3>2. CASE ~(n + 1 <= Len(s))
      <4>1. UpTo(s, n + 1) = s /\ UpTo(s, n) = s /\ s \o <<>> = s
        BY <3>0, <3>2 DEF UpTo, Least
      <4> QED BY <3>2, <4>1 DEF s
    <3> QED BY <3>1, <3>2
  <2> HIDE DEF X
  <2> QED BY <2>4, <2>5, <2>6, <2>7, <2>8
<1>3. Nat \subseteq Holds
  <2> HIDE DEF Holds
  <2> QED BY <1>1, <1>2, Counting
<1> QED BY <1>0, <1>3

(***************************************************************************)
(* Where a plan that has reached its target ends.                          *)
(***************************************************************************)

\* The first n of three sequences in a row, where n ends in the second.
Cuts(S) ==
    \A a, r, w \in Seq(S), n \in Nat :
        Len(a) <= n /\ n <= Len(a) + Len(r)
          => \E u, v \in Seq(S) : /\ r = u \o v /\ Len(a \o u) = n
                                 /\ UpTo((a \o r) \o w, n) = a \o u

LEMMA CutInSecond == \A S : Cuts(S)
<1> SUFFICES ASSUME NEW S
    PROVE  \A a, r, w \in Seq(S), n \in Nat :
             Len(a) <= n /\ n <= Len(a) + Len(r)
               => \E u, v \in Seq(S) : /\ r = u \o v /\ Len(a \o u) = n
                                      /\ UpTo((a \o r) \o w, n) = a \o u
  BY Zenon DEF Cuts
<1> TAKE a, r, w \in Seq(S), n \in Nat
<1> HAVE Len(a) <= n /\ n <= Len(a) + Len(r)
<1> DEFINE b == a \o r
           total == b \o w
           m == n - Len(a)
           u == SubSeq(r, 1, m)
           v == SubSeq(r, m + 1, Len(r))
<1>0. Len(a) \in Nat /\ Len(r) \in Nat /\ Len(w) \in Nat /\ m \in 0..Len(r)
  OBVIOUS
<1>1. /\ b \in Seq(S) /\ Len(b) = Len(a) + Len(r)
      /\ \A i \in 1..(Len(a) + Len(r)) : b[i] = IF i <= Len(a) THEN a[i] ELSE r[i - Len(a)]
  BY ConcatProperties
<1>2. /\ total \in Seq(S) /\ Len(total) = Len(b) + Len(w)
      /\ \A i \in 1..(Len(b) + Len(w)) : total[i] = IF i <= Len(b) THEN b[i] ELSE w[i - Len(b)]
  <2> HIDE DEF b
  <2> QED BY <1>1, ConcatProperties
<1>3. /\ u \in Seq(S) /\ Len(u) = m /\ \A i \in 1..m : u[i] = r[i]
  <2>1. \A i \in 1..m : r[i] \in S  BY <1>0
  <2> HIDE DEF m
  <2> QED BY <1>0, <2>1
<1>4. v \in Seq(S) /\ r = u \o v
  <2>1. \A i \in (m+1)..Len(r) : r[i] \in S  BY <1>0
  <2>2. v \in Seq(S)
    <3> HIDE DEF m
    <3> QED BY <1>0, <2>1
  <2>3. u \o v = SubSeq(r, 1, Len(r))
    <3> HIDE DEF m
    <3>1. 1 \in 1..(Len(r)+1) /\ m \in (1-1)..Len(r) /\ Len(r) \in m..Len(r)  BY <1>0
    <3> QED BY <3>1, ConcatAdjacentSubSeq
  <2>4. SubSeq(r, 1, Len(r)) = r  BY SubSeqFull
  <2> QED BY <2>2, <2>3, <2>4
<1>5. /\ a \o u \in Seq(S) /\ Len(a \o u) = n
      /\ \A i \in 1..n : (a \o u)[i] = IF i <= Len(a) THEN a[i] ELSE u[i - Len(a)]
  <2>1. Len(a) + m = n  BY <1>0
  <2> HIDE DEF u, m
  <2> QED BY <1>0, <1>3, <2>1, ConcatProperties
<1>6. /\ UpTo(total, n) \in Seq(S) /\ Len(UpTo(total, n)) = n
      /\ \A i \in 1..n : UpTo(total, n)[i] = total[i]
  <2>1. n <= Len(total)  BY <1>0, <1>1, <1>2
  <2>2. UpTo(total, n) = SubSeq(total, 1, n)
    <3> HIDE DEF total
    <3> QED BY <1>2, <2>1 DEF UpTo, Least
  <2> HIDE DEF total
  <2>3. \A i \in 1..n : total[i] \in S  BY <1>2, <2>1
  <2> QED BY <1>2, <2>1, <2>2, <2>3
<1>7. ASSUME NEW i \in 1..n  PROVE UpTo(total, n)[i] = (a \o u)[i]
  <2>1. total[i] = b[i] /\ b[i] = IF i <= Len(a) THEN a[i] ELSE r[i - Len(a)]
    <3>1. i \in 1..(Len(b) + Len(w)) /\ i <= Len(b) /\ i \in 1..(Len(a) + Len(r))
      BY <1>0, <1>1
    <3> HIDE DEF b, total
    <3> QED BY <1>1, <1>2, <3>1
  <2>2. i > Len(a) => u[i - Len(a)] = r[i - Len(a)]
    <3>1. i > Len(a) => i - Len(a) \in 1..m  BY <1>0
    <3> HIDE DEF u
    <3> QED BY <1>3, <3>1
  <2> HIDE DEF b, total, u
  <2> QED BY <1>0, <1>5, <1>6, <2>1, <2>2
<1>8. UpTo(total, n) = a \o u
  <2> HIDE DEF total, u
  <2> DEFINE x == UpTo(total, n)
             y == a \o u
  <2>1. x \in Seq(S) /\ y \in Seq(S) /\ Len(x) = Len(y) /\ \A i \in 1..Len(x) : x[i] = y[i]
    BY <1>5, <1>6, <1>7
  <2> HIDE DEF x, y
  <2>2. x = y  BY <2>1, SeqEqual
  <2> QED BY <2>2 DEF x, y
<1> HIDE DEF u, v, total
<1>9. /\ u \in Seq(S) /\ v \in Seq(S) /\ r = u \o v
      /\ UpTo(total, n) = a \o u /\ Len(a \o u) = n
  BY <1>3, <1>4, <1>5, <1>8
<1> QED BY <1>9 DEF total

\* The first n of the sequences of r end in the one after the k-th.
EndAfter(k, n, f, r, L, S) ==
    /\ k \in 0..(L - 1) /\ Len(f[k]) <= n /\ n <= Len(f[k]) + Len(r[k + 1])
    /\ \E w \in Seq(S) : f[L] = (f[k] \o r[k + 1]) \o w

LEMMA RoundOf ==
  ASSUME NEW S, NEW L \in Nat, NEW r, NEW f, Joins(f, r, L, S), NEW n \in Nat, Len(f[L]) > n
  PROVE  \E k : EndAfter(k, n, f, r, L, S)
<1> DEFINE T == {k \in Nat : k <= L /\ Len(f[k]) > n}
<1>1. L \in T  OBVIOUS
<1>2. PICK x \in T : \A y \in T : x <= y
  <2> HIDE DEF T
  <2>1. T \in SUBSET Nat  BY DEF T
  <2> QED BY <1>1, <2>1, LeastNumber
<1>3. x \in Nat /\ x <= L /\ Len(f[x]) > n  OBVIOUS
<1>4. x # 0
  <2>1. Len(<<>>) = 0 /\ f[0] = <<>>  BY DEF Joins
  <2> QED BY <1>3, <2>1
<1> DEFINE k == x - 1
<1>5. /\ k \in 0..(L - 1) /\ k \in Nat /\ k + 1 = x /\ x \in 1..L /\ x - 1 = k
      /\ k \in 0..L /\ x \in 0..L
  BY <1>3, <1>4
<1> HIDE DEF T
<1>6. f[k] \in Seq(S) /\ f[x] \in Seq(S) /\ r[x] \in Seq(S) /\ f[x] = f[k] \o r[x]
  BY <1>5 DEF Joins
<1>7. Len(f[k]) <= n
  <2>1. k \notin T  BY <1>2, <1>5
  <2>2. Len(f[k]) \in Nat  BY <1>6
  <2> HIDE DEF k
  <2> QED BY <2>1, <2>2, <1>3, <1>5 DEF T
<1>8. n <= Len(f[k]) + Len(r[x])
  <2>1. Len(f[x]) = Len(f[k]) + Len(r[x])  BY <1>6, ConcatProperties
  <2>2. Len(f[k]) \in Nat /\ Len(r[x]) \in Nat  BY <1>6
  <2> HIDE DEF k
  <2> DEFINE y == Len(f[x])
             a == Len(f[k])
             b == Len(r[x])
  <2>3. y > n /\ y = a + b /\ a \in Nat /\ b \in Nat  BY <1>3, <2>1, <2>2
  <2> HIDE DEF y, a, b
  <2>4. n <= a + b  BY <2>3
  <2> QED BY <2>4 DEF a, b
<1> DEFINE Rest(m) == \E w \in Seq(S) : f[x + m] = f[x] \o w
           Holds == {m \in Nat : x + m <= L => Rest(m)}
<1>9. 0 \in Holds
  <2>1. <<>> \in Seq(S) /\ f[x] \o <<>> = f[x]  BY <1>6, ConcatEmptySeq
  <2>2. x + 0 = x  BY <1>3
  <2> QED BY <2>1, <2>2
<1>10. ASSUME NEW m \in Nat, m \in Holds  PROVE m + 1 \in Holds
  <2> SUFFICES ASSUME x + (m + 1) <= L  PROVE Rest(m + 1)
    <3> HIDE DEF Rest
    <3> QED OBVIOUS
  <2> DEFINE y == x + (m + 1)
  <2>1. x + m <= L /\ y \in 1..L /\ y - 1 = x + m  BY <1>3
  <2>2. PICK w \in Seq(S) : f[x + m] = f[x] \o w
    <3>1. Rest(m)
      <4> HIDE DEF Rest
      <4> QED BY <1>10, <2>1
    <3> QED BY <3>1
  <2>3. r[y] \in Seq(S) /\ f[y] = f[x + m] \o r[y]  BY <2>1 DEF Joins
  <2>4. w \o r[y] \in Seq(S) /\ (f[x] \o w) \o r[y] = f[x] \o (w \o r[y])
    <3>1. ASSUME NEW a \in Seq(S), NEW b \in Seq(S), NEW c \in Seq(S)
          PROVE  b \o c \in Seq(S) /\ (a \o b) \o c = a \o (b \o c)
      BY ConcatProperties, ConcatAssociative
    <3> HIDE DEF y
    <3> QED BY <1>6, <2>3, <3>1
  <2> HIDE DEF y
  <2>5. \E w2 \in Seq(S) : f[y] = f[x] \o w2
    BY <2>2, <2>3, <2>4
  <2> QED BY <2>5 DEF y
<1>11. \E w \in Seq(S) : f[L] = f[x] \o w
  <2> DEFINE m == L - x
  <2>1. m \in Nat /\ x + m = L  BY <1>3
  <2>2. Nat \subseteq Holds
    <3> HIDE DEF Holds
    <3> QED BY <1>9, <1>10, Counting
  <2>3. Rest(m)
    <3> HIDE DEF Rest, m
    <3> QED BY <2>1, <2>2
  <2> HIDE DEF m
  <2> QED BY <2>1, <2>3
<1> HIDE DEF k
<1>12. EndAfter(k, n, f, r, L, S)
  BY <1>5, <1>6, <1>7, <1>8, <1>11 DEF EndAfter
<1> QED BY <1>12

\* What is cut off a turn leaves each portal all of the turn or nothing.
LEMMA PartOfTurn ==
  ASSUME NEW S, NEW u \in Seq(S), NEW v \in Seq(S), NEW x, x = <<>> \/ Len(x) = 1, u \o v = x
  PROVE  u = <<>> \/ u = x
<1>1. Len(u \o v) = Len(u) + Len(v) /\ Len(u) \in Nat /\ Len(v) \in Nat
  BY ConcatProperties
<1>2. Len(x) \in {0, 1}
  <2>1. Len(<<>>) = 0  OBVIOUS
  <2> QED BY <2>1
<1>3. CASE Len(u) = 0  BY <1>3, EmptySeq
<1>4. CASE Len(u) # 0
  <2>1. Len(v) = 0  BY <1>1, <1>2, <1>4
  <2>2. v = <<>>  BY <2>1, EmptySeq
  <2> QED BY <2>2, ConcatEmptySeq
<1> QED BY <1>3, <1>4

\* Each portal has had k turns or one more, and all of its own in a short plan.
AfterTurns(plan, q, P, n, k) ==
    /\ k \in Nat
    /\ \A i \in 1..Len(q) : FoundOn(plan, P[i]) \in {UpTo(q[i], k), UpTo(q[i], k + 1)}
    /\ Len(plan) = n \/ \A i \in 1..Len(q) : FoundOn(plan, P[i]) = q[i]

LEMMA PlanOfTurns ==
  ASSUME NEW S, NEW q \in Seq(Seq(S)), NEW P, OfOnePortal(q, P), NEW n \in Nat
  PROVE  \E k : AfterTurns(UpTo(InTurns(q), n), q, P, n, k)
<1> DEFINE L == Longest(q)
           r == Rounds(q)
           total == InTurns(q)
           plan == UpTo(total, n)
           Had(k) == \A i \in 1..Len(q) :
                        FoundOn(plan, P[i]) \in {UpTo(q[i], k), UpTo(q[i], k + 1)}
<1>1. /\ L \in Nat /\ r \in Seq(Seq(S)) /\ Len(r) = L /\ total = FlattenSeq(r)
      /\ \A i \in 1..Len(q) : q[i] \in Seq(S) /\ Len(q[i]) \in Nat /\ Len(q[i]) <= L
  BY LongestIs, RoundsAre, TurnsAreSome, ElementsAre
<1>2. \A k \in 1..L : r[k] \in Seq(S) /\ r[k] = FlattenSeq(Turn(q, k))
  <2>1. \A k \in 1..Len(r) : r[k] \in Seq(S)
    <3> HIDE DEF r
    <3> QED BY <1>1, ElementsAre
  <2> QED BY <1>1, <2>1, RoundsAre
<1> HIDE DEF r
<1>3. PICK f : Joins(f, r, L, S) /\ total = f[L]
  <2> HIDE DEF L, total
  <2>1. \E f \in [0..Len(r) -> Seq(S)] :
            /\ f[0] = <<>> /\ FlattenSeq(r) = f[Len(r)]
            /\ \A k \in 1..Len(r) : f[k] = f[k - 1] \o r[k]
    BY <1>1, FlattenRuns
  <2> QED BY <1>1, <1>2, <2>1 DEF Joins
<1>4. \A i \in 1..Len(q) : \A k \in 0..L : FoundOn(f[k], P[i]) = UpTo(q[i], k)
  <2> SUFFICES ASSUME NEW i \in 1..Len(q)
      PROVE  \A k \in 0..Longest(q) : FoundOn(f[k], P[i]) = UpTo(q[i], k)
    OBVIOUS
  <2>1. Joins(f, Rounds(q), Longest(q), S)  BY <1>3 DEF r
  <2> HIDE DEF L
  <2> QED BY <2>1, FoundInTurns
<1> HIDE DEF L, total
<1>5. CASE Len(total) <= n
  <2>1. total \in Seq(S) /\ plan = total
    <3>1. total \in Seq(S)  BY <1>1, <1>3 DEF Joins
    <3> QED BY <1>5, <3>1 DEF UpTo, Least
  <2>2. ASSUME NEW i \in 1..Len(q)  PROVE FoundOn(plan, P[i]) = UpTo(q[i], L) /\ UpTo(q[i], L) = q[i]
    <3>1. FoundOn(f[L], P[i]) = UpTo(q[i], L)  BY <1>1, <1>4
    <3>2. UpTo(q[i], L) = q[i]
      <4> DEFINE s == q[i]
      <4>1. s \in Seq(S) /\ Len(s) \in Nat /\ Len(s) <= L  BY <1>1
      <4> HIDE DEF s
      <4>2. UpTo(s, L) = s  BY <1>1, <4>1 DEF UpTo, Least
      <4> QED BY <4>2 DEF s
    <3> HIDE DEF plan
    <3> QED BY <1>3, <2>1, <3>1, <3>2
  <2> HIDE DEF plan
  <2>3. Had(L) /\ \A i \in 1..Len(q) : FoundOn(plan, P[i]) = q[i]  BY <2>2
  <2> HIDE DEF Had
  <2>4. AfterTurns(plan, q, P, n, L)  BY <1>1, <2>3 DEF AfterTurns, Had
  <2> QED BY <2>4 DEF plan, total
<1>6. CASE ~(Len(total) <= n)
  <2>1. Len(f[L]) > n
    <3>1. total \in Seq(S)  BY <1>1, <1>3 DEF Joins
    <3>2. Len(total) \in Nat  BY <3>1
    <3> QED BY <1>3, <1>6, <3>2
  <2>2. PICK k : EndAfter(k, n, f, r, L, S)
    <3>1. L \in Nat  BY <1>1
    <3>2. Joins(f, r, L, S)  BY <1>3
    <3> HIDE DEF r
    <3> QED BY <2>1, <3>1, <3>2, RoundOf
  <2>3. PICK w \in Seq(S) : f[L] = (f[k] \o r[k + 1]) \o w  BY <2>2 DEF EndAfter
  <2>4. k \in Nat /\ k \in 0..L /\ k + 1 \in 1..L  BY <1>1, <2>2 DEF EndAfter
  <2>5. /\ f[k] \in Seq(S) /\ r[k + 1] \in Seq(S) /\ f[k + 1] = f[k] \o r[k + 1]
        /\ Len(f[k]) <= n /\ n <= Len(f[k]) + Len(r[k + 1])
    <3>1. (k + 1) - 1 = k  BY <2>4
    <3> QED BY <1>3, <2>2, <2>4, <3>1 DEF Joins, EndAfter
  <2>6. PICK u \in Seq(S), v \in Seq(S) :
              /\ r[k + 1] = u \o v /\ Len(f[k] \o u) = n
              /\ UpTo((f[k] \o r[k + 1]) \o w, n) = f[k] \o u
    <3>1. Cuts(S)  BY CutInSecond
    <3> QED BY <2>3, <2>5, <3>1, Zenon DEF Cuts
  <2>7. plan = f[k] \o u /\ Len(plan) = n
    <3>1. total = (f[k] \o r[k + 1]) \o w  BY <1>3, <2>3
    <3> QED BY <2>6, <3>1
  <2> HIDE DEF plan
  <2>8. ASSUME NEW i \in 1..Len(q)
        PROVE  FoundOn(plan, P[i]) \in {UpTo(q[i], k), UpTo(q[i], k + 1)}
    <3> DEFINE x == Turn(q, k + 1)[i]
               a == FoundOn(u, P[i])
               b == FoundOn(v, P[i])
               h == FoundOn(f[k], P[i])
               p == P[i]
    <3>0. \A y, z \in Seq(S) : FoundOn(y \o z, p) = FoundOn(y, p) \o FoundOn(z, p)
      <4>1. FoundSplits(S, p)  BY FoundAlwaysSplits
      <4> QED BY <4>1 DEF FoundSplits
    <3>1. FoundOn(f[k] \o u, p) = h \o a  BY <2>5, <3>0
    <3>2. FoundOn(u \o v, p) = a \o b  BY <3>0
    <3>3. FoundOn(f[k + 1], p) = UpTo(q[i], k + 1) /\ h = UpTo(q[i], k)
      BY <1>4, <2>4
    <3>4. FoundOn(f[k + 1], p) = h \o FoundOn(r[k + 1], p)
      <4>1. f[k + 1] = f[k] \o r[k + 1]
        BY <2>5
      <4>2. FoundOn(f[k] \o r[k + 1], p) = h \o FoundOn(r[k + 1], p)
        BY <2>5, <3>0
      <4> QED BY <4>1, <4>2, Zenon
    <3>5. FoundOn(r[k + 1], p) = x
      <4>1. k + 1 \in Nat \ {0}  BY <2>4
      <4>2. FoundOn(FlattenSeq(Turn(q, k + 1)), P[i]) = x  BY <4>1, FoundInTurn
      <4> QED BY <1>2, <2>4, <4>2
    <3>6. x = <<>> \/ Len(x) = 1
      <4>1. k + 1 \in Nat \ {0}  BY <2>4
      <4>2. x = IF k + 1 <= Len(q[i]) THEN <<q[i][k + 1]>> ELSE <<>>  BY <4>1, TurnIs
      <4>3. \A y : Len(<<y>>) = 1  OBVIOUS
      <4> HIDE DEF x
      <4> QED BY <4>2, <4>3
    <3>7. a \in Seq(S) /\ b \in Seq(S) /\ h \in Seq(S)
      <4>1. ASSUME NEW s \in Seq(S)  PROVE FoundOn(s, P[i]) \in Seq(S)
        <5>1. FoundOn(s, P[i]) \in Seq(ToSet(s))  BY FoundAreSome
        <5>2. ToSet(s) \subseteq S  BY DEF ToSet
        <5> QED BY <5>1, <5>2
      <4> QED BY <2>5, <2>6, <4>1
    <3>8. a \o b = x  BY <2>6, <3>2, <3>5
    <3>9. h \o <<>> = h  BY <3>7, ConcatEmptySeq
    <3>10. FoundOn(plan, P[i]) = h \o a  BY <2>7, <3>1
    <3> HIDE DEF x, a, b, h, p
    <3>11. a = <<>> \/ a = x  BY <3>6, <3>7, <3>8, PartOfTurn
    <3>12. h \o x = UpTo(q[i], k + 1)  BY <3>3, <3>4, <3>5
    <3> QED BY <3>3, <3>9, <3>10, <3>11, <3>12
  <2>9. Had(k)  BY <2>8
  <2> HIDE DEF Had
  <2>10. AfterTurns(plan, q, P, n, k)  BY <2>4, <2>7, <2>9 DEF AfterTurns, Had
  <2> QED BY <2>10 DEF plan, total
<1> QED BY <1>5, <1>6

(***************************************************************************)
(* The groups of a plan.                                                   *)
(***************************************************************************)

\* The first of each kind: every kind once, none forgotten, and when one comes
\* in, the kinds of all before it have.
FirstsOf(h, s, kind) ==
    /\ \A i, j \in 1..Len(h) : i # j => kind[h[i]] # kind[h[j]]
    /\ \A m \in 1..Len(s) : \E i \in 1..Len(h) : kind[h[i]] = kind[s[m]]
    /\ \A i \in 1..Len(h) : \E m \in 1..Len(s) :
          /\ h[i] = s[m]
          /\ \A j \in 1..(m - 1) : \E l \in 1..(i - 1) : kind[h[l]] = kind[s[j]]

LEMMA FirstsAreTheirOwn ==
  ASSUME NEW S, NEW s \in Seq(S), NEW kind
  PROVE  FirstsOf(FirstOfKind(s, kind), s, kind)
<1> DEFINE places == {i \in DOMAIN s : \A j \in 1..(i - 1) : kind[s[j]] # kind[s[i]]}
           T == ToSet(s)
           Own(h) == \A i, j \in 1..Len(h) : i # j => kind[h[i]] # kind[h[j]]
           Seen(h, n) == /\ \A m \in 1..n : \E i \in 1..Len(h) : kind[h[i]] = kind[s[m]]
                         /\ \A i \in 1..Len(h) : \E m \in 1..n :
                               /\ h[i] = s[m]
                               /\ \A j \in 1..(m - 1) : \E l \in 1..(i - 1) : kind[h[l]] = kind[s[j]]
<1>0. Len(s) \in Nat /\ DOMAIN s = 1..Len(s)  OBVIOUS
<1>1. PICK f : /\ \A n \in 0..Len(s) : f[n] \in Seq(T)
               /\ f[0] = <<>> /\ Keep(s, places) = f[Len(s)]
               /\ \A n \in 1..Len(s) :
                     f[n] = IF n \in places THEN Append(f[n - 1], s[n]) ELSE f[n - 1]
  <2> DEFINE V == {s[i] : i \in places \cap DOMAIN s}
  <2>1. V \subseteq T  BY DEF ToSet
  <2> HIDE DEF places
  <2>2. \E f \in [0..Len(s) -> Seq(V)] :
            /\ f[0] = <<>> /\ Keep(s, places) = f[Len(s)]
            /\ \A n \in 1..Len(s) :
                  f[n] = IF n \in places THEN Append(f[n - 1], s[n]) ELSE f[n - 1]
    BY KeepRuns, Zenon
  <2> HIDE DEF V, T
  <2>3. Seq(V) \subseteq Seq(T)  BY <2>1
  <2> QED BY <2>2, <2>3
<1> DEFINE Holds == {n \in Nat : n <= Len(s) => Own(f[n]) /\ Seen(f[n], n)}
<1>2. 0 \in Holds
  <2>1. f[0] = <<>> /\ Len(<<>>) = 0  BY <1>1
  <2>2. Own(<<>>) /\ Seen(<<>>, 0)  BY <2>1
  <2> HIDE DEF Own, Seen
  <2> QED BY <2>1, <2>2
<1>3. ASSUME NEW n \in Nat, n \in Holds  PROVE n + 1 \in Holds
  <2> SUFFICES ASSUME n + 1 <= Len(s)  PROVE Own(f[n + 1]) /\ Seen(f[n + 1], n + 1)
    <3> HIDE DEF Own, Seen
    <3> QED OBVIOUS
  <2> DEFINE h == f[n]
             x == s[n + 1]
  <2>1. /\ n + 1 \in 1..Len(s) /\ (n + 1) - 1 = n /\ n \in 0..Len(s)
        /\ \A m \in 1..(n + 1) : m \in 1..n \/ m = n + 1
        /\ \A m \in 1..n : m \in 1..(n + 1)
    BY <1>0
  <2>2. Own(h) /\ Seen(h, n)
    <3> HIDE DEF Own, Seen
    <3> QED BY <1>3, <2>1
  <2>3. h \in Seq(T) /\ Len(h) \in Nat
    <3>1. h \in Seq(T)  BY <1>1, <2>1
    <3> HIDE DEF T, h
    <3> QED BY <3>1
  <2>4. n + 1 \in places <=> \A j \in 1..n : kind[s[j]] # kind[x]
    BY <1>0, <2>1
  <2>5. f[n + 1] = IF n + 1 \in places THEN Append(h, x) ELSE h
    <3> HIDE DEF places
    <3> QED BY <1>1, <2>1
  <2>6. CASE n + 1 \in places
    <3> DEFINE g == Append(h, x)
    <3>1. /\ Len(g) = Len(h) + 1 /\ g[Len(h) + 1] = x
          /\ \A i \in 1..Len(h) : g[i] = h[i]
          /\ \A i \in 1..Len(g) : i \in 1..Len(h) \/ i = Len(h) + 1
          /\ \A i \in 1..Len(h) : i \in 1..Len(g)
          /\ Len(h) + 1 \in 1..Len(g)
      <4>1. x \in T  BY <1>0, <2>1 DEF ToSet
      <4> HIDE DEF h, x, T
      <4> QED BY <2>3, <4>1
    <3> HIDE DEF g
    <3>2. \A i \in 1..Len(h) : kind[h[i]] # kind[x]
      <4> TAKE i \in 1..Len(h)
      <4>1. PICK m \in 1..n : h[i] = s[m]
        <5> HIDE DEF h
        <5> QED BY <2>2
      <4> HIDE DEF h, x, places
      <4> QED BY <2>4, <2>6, <4>1
    <3>3. Own(g)
      <4> SUFFICES ASSUME NEW i \in 1..Len(g), NEW j \in 1..Len(g), i # j
          PROVE  kind[g[i]] # kind[g[j]]
        OBVIOUS
      <4>1. \A a, b \in 1..Len(h) : a # b => kind[h[a]] # kind[h[b]]
        <5> HIDE DEF h
        <5> QED BY <2>2
      <4> HIDE DEF h, x
      <4> QED BY <3>1, <3>2, <4>1
    <3>4. Seen(g, n + 1)
      <4>1. ASSUME NEW m \in 1..(n + 1)
            PROVE  \E i \in 1..Len(g) : kind[g[i]] = kind[s[m]]
        <5>1. CASE m \in 1..n
          <6>1. PICK i \in 1..Len(h) : kind[h[i]] = kind[s[m]]
            <7> HIDE DEF h
            <7> QED BY <2>2, <5>1
          <6> HIDE DEF h
          <6> QED BY <3>1, <6>1
        <5>2. CASE m = n + 1
          <6> HIDE DEF h
          <6> QED BY <3>1, <5>2
        <5> QED BY <2>1, <5>1, <5>2
      <4>2. ASSUME NEW i \in 1..Len(g)
            PROVE  \E m \in 1..(n + 1) :
                     /\ g[i] = s[m]
                     /\ \A j \in 1..(m - 1) : \E l \in 1..(i - 1) : kind[g[l]] = kind[s[j]]
        <5>1. CASE i \in 1..Len(h)
          <6>1. PICK m \in 1..n :
                   /\ h[i] = s[m]
                   /\ \A j \in 1..(m - 1) : \E l \in 1..(i - 1) : kind[h[l]] = kind[s[j]]
            <7> HIDE DEF h
            <7> QED BY <2>2, <5>1
          <6> HIDE DEF h
          <6>2. g[i] = h[i] /\ \A l \in 1..(i - 1) : g[l] = h[l]  BY <2>3, <3>1, <5>1
          <6>3. \A j \in 1..(m - 1) : \E l \in 1..(i - 1) : kind[g[l]] = kind[s[j]]
            <7> TAKE j \in 1..(m - 1)
            <7>1. PICK l \in 1..(i - 1) : kind[h[l]] = kind[s[j]]  BY <6>1
            <7> QED BY <6>2, <7>1
          <6> QED BY <2>1, <6>1, <6>2, <6>3
        <5>2. CASE i = Len(h) + 1
          <6>1. n + 1 \in 1..(n + 1) /\ (n + 1) - 1 = n /\ i - 1 = Len(h)
            <7> HIDE DEF h
            <7> QED BY <2>3, <5>2
          <6> HIDE DEF h
          <6>2. \A j \in 1..n : \E l \in 1..Len(h) : kind[g[l]] = kind[s[j]]
            <7> TAKE j \in 1..n
            <7>1. PICK l \in 1..Len(h) : kind[h[l]] = kind[s[j]]  BY <2>2
            <7> QED BY <3>1, <7>1
          <6> QED BY <3>1, <5>2, <6>1, <6>2
        <5> QED BY <3>1, <5>1, <5>2
      <4> QED BY <4>1, <4>2
    <3> HIDE DEF Own, Seen, places
    <3> QED BY <2>5, <2>6, <3>3, <3>4 DEF g
  <2>7. CASE n + 1 \notin places
    <3>1. PICK e \in 1..n : kind[s[e]] = kind[x]
      <4> HIDE DEF places, x
      <4> QED BY <2>4, <2>7
    <3>2. Seen(h, n + 1)
      <4>1. ASSUME NEW m \in 1..(n + 1)
            PROVE  \E i \in 1..Len(h) : kind[h[i]] = kind[s[m]]
        <5>1. CASE m \in 1..n
          <6> HIDE DEF h
          <6> QED BY <2>2, <5>1
        <5>2. CASE m = n + 1
          <6>1. \E i \in 1..Len(h) : kind[h[i]] = kind[s[e]]
            <7> HIDE DEF h
            <7> QED BY <2>2
          <6> HIDE DEF h
          <6> QED BY <3>1, <5>2, <6>1
        <5> QED BY <2>1, <5>1, <5>2
      <4>2. ASSUME NEW i \in 1..Len(h)
            PROVE  \E m \in 1..(n + 1) :
                     /\ h[i] = s[m]
                     /\ \A j \in 1..(m - 1) : \E l \in 1..(i - 1) : kind[h[l]] = kind[s[j]]
        <5> HIDE DEF h
        <5> QED BY <2>1, <2>2
      <4> QED BY <4>1, <4>2
    <3> HIDE DEF Own, Seen, places
    <3> QED BY <2>2, <2>5, <2>7, <3>2
  <2> QED BY <2>6, <2>7
<1>4. Own(f[Len(s)]) /\ Seen(f[Len(s)], Len(s))
  <2>1. Nat \subseteq Holds
    <3> HIDE DEF Holds
    <3> QED BY <1>2, <1>3, Counting
  <2>2. Len(s) \in Holds /\ Len(s) <= Len(s)
    <3> HIDE DEF Holds
    <3> QED BY <1>0, <2>1
  <2> HIDE DEF Own, Seen
  <2> QED BY <2>2
<1>5. FirstOfKind(s, kind) = f[Len(s)]  BY <1>1 DEF FirstOfKind
<1>6. FirstsOf(f[Len(s)], s, kind)
  <2> HIDE DEF places
  <2> QED BY <1>4 DEF FirstsOf
<1> QED BY <1>5, <1>6

LEMMA UpToAgain ==
  ASSUME NEW S, NEW s \in Seq(S), NEW n \in Nat, NEW m \in Nat
  PROVE  /\ UpTo(s, n) \in Seq(S) /\ Len(UpTo(s, n)) = Least(n, Len(s))
         /\ Len(UpTo(UpTo(s, n), m)) = Least(m, Least(n, Len(s)))
         /\ UpTo(UpTo(s, n), m) = UpTo(s, Least(m, Least(n, Len(s))))
<1> DEFINE a == Least(n, Len(s))
           t == UpTo(s, n)
           b == Least(m, a)
<1>0. Len(s) \in Nat /\ a \in 0..Len(s) /\ b \in 0..a  BY DEF Least
<1>1. t \in Seq(S) /\ Len(t) = a /\ \A i \in 1..a : t[i] = s[i]
  <2> HIDE DEF a
  <2>1. \A i \in 1..a : s[i] \in S  BY <1>0
  <2> QED BY <1>0, <2>1 DEF UpTo, a
<1>2. UpTo(t, m) = SubSeq(t, 1, b)
  <2> HIDE DEF t
  <2> QED BY <1>1 DEF UpTo
<1>3. UpTo(s, b) = SubSeq(s, 1, b)
  <2>1. Least(b, Len(s)) = b  BY <1>0 DEF Least
  <2> QED BY <2>1 DEF UpTo
<1> DEFINE x == SubSeq(t, 1, b)
           y == SubSeq(s, 1, b)
<1>4. x \in Seq(S) /\ Len(x) = b /\ \A i \in 1..b : x[i] = t[i]
  <2> HIDE DEF t, a, b
  <2>1. \A i \in 1..b : t[i] \in S  BY <1>0, <1>1
  <2> QED BY <1>0, <2>1
<1>5. y \in Seq(S) /\ Len(y) = b /\ \A i \in 1..b : y[i] = s[i]
  <2> HIDE DEF t, a, b
  <2>1. \A i \in 1..b : s[i] \in S  BY <1>0
  <2> QED BY <1>0, <2>1
<1>6. x = y
  <2> HIDE DEF x, y, t, a, b
  <2>1. \A i \in 1..Len(x) : x[i] = y[i]  BY <1>0, <1>1, <1>4, <1>5
  <2> QED BY <1>4, <1>5, <2>1, SeqEqual
<1> HIDE DEF x, y, t, a, b
<1>7. /\ t \in Seq(S) /\ Len(t) = a /\ UpTo(t, m) = UpTo(s, b) /\ Len(UpTo(t, m)) = b
  BY <1>1, <1>2, <1>3, <1>4, <1>6 DEF x, y
<1> QED BY <1>7 DEF t, a, b

LEMMA FoundHave ==
  ASSUME NEW S, NEW s \in Seq(S), NEW p
  PROVE  /\ FoundOn(s, p) \in Seq(ToSet(s)) /\ Len(FoundOn(s, p)) \in Nat
         /\ \A i \in 1..Len(FoundOn(s, p)) : Portal[FoundOn(s, p)[i]] = p
         /\ (\A m \in 1..Len(s) : Portal[s[m]] # p) => FoundOn(s, p) = <<>>
<1> DEFINE places == {i \in DOMAIN s : Portal[s[i]] = p}
           V == {s[i] : i \in places \cap DOMAIN s}
           F == FoundOn(s, p)
<1>1. F \in Seq(V)
  <2>1. Keep(s, places) \in Seq(V)
    <3> HIDE DEF places
    <3> QED BY KeepIsSome
  <2> HIDE DEF V
  <2> QED BY <2>1 DEF FoundOn
<1>2. \A x \in V : Portal[x] = p
  OBVIOUS
<1>3. F \in Seq(ToSet(s))  BY FoundAreSome
<1>4. (\A m \in 1..Len(s) : Portal[s[m]] # p) => V = {}
  OBVIOUS
<1> HIDE DEF V, F
<1>5. Len(F) \in Nat /\ \A i \in 1..Len(F) : F[i] \in V  BY <1>1
<1>6. V = {} => F = <<>>
  <2> HAVE V = {}
  <2>1. Len(F) = 0  BY <1>5
  <2> QED BY <1>1, <2>1, EmptySeq
<1> QED BY <1>2, <1>3, <1>4, <1>5, <1>6 DEF F

\* The groups of the plan, one for each portal a job was found on.
LEMMA GroupsAre ==
  ASSUME NEW S, S \subseteq DOMAIN Portal, NEW s \in Seq(S)
  PROVE  LET heads == FirstOfKind(s, Portal)
             q == CappedGroups(s)
             P == [i \in 1..Len(heads) |-> Portal[heads[i]]]
         IN  /\ q \in Seq(Seq(ToSet(s))) /\ Len(q) = Len(heads)
             /\ \A i \in 1..Len(q) : /\ P[i] \in DOMAIN PortalCap /\ PortalCap[P[i]] \in Nat
                                     /\ q[i] = UpTo(FoundOn(s, P[i]), PortalCap[P[i]])
             /\ \A m \in 1..Len(s) : \E i \in 1..Len(q) : P[i] = Portal[s[m]]
             /\ OfOnePortal(q, P)
<1> DEFINE heads == FirstOfKind(s, Portal)
           q == CappedGroups(s)
           n == Len(heads)
           P == [i \in 1..n |-> Portal[heads[i]]]
           W == Seq(ToSet(s))
           group(i) == UpTo(FoundOn(s, P[i]), PortalCap[P[i]])
<1>1. heads \in Seq(ToSet(s)) /\ ToSet(s) \subseteq DOMAIN Portal
  <2>1. ToSet(s) \subseteq S  BY DEF ToSet
  <2> QED BY <2>1, FirstsAreSome
<1>2. /\ \A i, j \in 1..n : i # j => Portal[heads[i]] # Portal[heads[j]]
      /\ \A m \in 1..Len(s) : \E i \in 1..n : Portal[heads[i]] = Portal[s[m]]
  <2>1. FirstsOf(heads, s, Portal)  BY FirstsAreTheirOwn
  <2> QED BY <2>1 DEF FirstsOf
<1> HIDE DEF heads
<1>3. n \in Nat /\ DOMAIN heads = 1..n /\ \A i \in 1..n : heads[i] \in ToSet(s)
  BY <1>1
<1>4. ASSUME NEW i \in 1..n  PROVE P[i] \in DOMAIN PortalCap /\ PortalCap[P[i]] \in Nat
  BY <1>1, <1>3, TurnsAssumption DEF TurnsAssumption
<1>5. q = [i \in 1..n |-> group(i)]
  <2>1. q = [i \in DOMAIN heads |->
               UpTo(FoundOn(s, Portal[heads[i]]), PortalCap[Portal[heads[i]]])]
    BY DEF CappedGroups, heads
  <2>2. \A i \in 1..n : P[i] = Portal[heads[i]]  OBVIOUS
  <2> HIDE DEF P, q
  <2> QED BY <1>3, <2>1, <2>2
<1> HIDE DEF q
<1>6. ASSUME NEW i \in 1..n  PROVE group(i) \in W
  <2>1. FoundOn(s, P[i]) \in Seq(ToSet(s))  BY FoundHave
  <2> HIDE DEF P
  <2> QED BY <1>4, <2>1, UpToIsPrefix
<1>7. q \in Seq(W) /\ Len(q) = n /\ \A i \in 1..n : q[i] = group(i)
  <2> HIDE DEF W, P
  <2>1. q \in [1..n -> W] /\ \A i \in 1..n : q[i] = group(i)
    <3> HIDE DEF group
    <3> QED BY <1>5, <1>6
  <2> HIDE DEF group, n
  <2>2. q \in Seq(W) /\ Len(q) = n  BY <1>3, <2>1
  <2> QED BY <2>1, <2>2
<1>8. OfOnePortal(q, P)
  <2>1. ASSUME NEW i \in 1..n, NEW k \in 1..Len(q[i])  PROVE Portal[q[i][k]] = P[i]
    <3> DEFINE F == FoundOn(s, P[i])
               c == PortalCap[P[i]]
    <3>1. F \in Seq(ToSet(s)) /\ Len(F) \in Nat /\ \A j \in 1..Len(F) : Portal[F[j]] = P[i]
      <4> HIDE DEF P
      <4> QED BY FoundHave
    <3>2. q[i] = UpTo(F, c) /\ c \in Nat  BY <1>4, <1>7
    <3> HIDE DEF F, c, P
    <3>3. \A j \in 1..Len(UpTo(F, c)) : j \in 1..Len(F) /\ UpTo(F, c)[j] = F[j]
      BY <3>1, <3>2 DEF UpTo, Least
    <3> QED BY <3>1, <3>2, <3>3
  <2>2. \A i, j \in 1..n : i # j => P[i] # P[j]  BY <1>2
  <2> HIDE DEF P, n
  <2> QED BY <1>7, <2>1, <2>2 DEF OfOnePortal
<1>9. \A m \in 1..Len(s) : \E i \in 1..n : P[i] = Portal[s[m]]  BY <1>2
<1>10. /\ q \in Seq(Seq(ToSet(s))) /\ Len(q) = Len(heads)
       /\ \A i \in 1..Len(q) : /\ P[i] \in DOMAIN PortalCap /\ PortalCap[P[i]] \in Nat
                               /\ q[i] = UpTo(FoundOn(s, P[i]), PortalCap[P[i]])
       /\ \A m \in 1..Len(s) : \E i \in 1..Len(q) : P[i] = Portal[s[m]]
       /\ OfOnePortal(q, P)
  <2> HIDE DEF P
  <2> QED BY <1>4, <1>7, <1>8, <1>9
<1> QED BY <1>10 DEF q, heads

(***************************************************************************)
(* The plan.                                                               *)
(***************************************************************************)

\* planApplicationOrder selects at most n of the jobs it is given.
LEMMA PlanSelects ==
  ASSUME NEW S, S \subseteq DOMAIN Portal, NEW s \in Seq(S), NEW n \in Nat
  PROVE  Plan(s, n) \in Seq(ToSet(s)) /\ Len(Plan(s, n)) <= n
<1>1. CappedGroups(s) \in Seq(Seq(ToSet(s)))  BY GroupsAre
<1>2. InTurns(CappedGroups(s)) \in Seq(ToSet(s))  BY <1>1, TurnsAreSome
<1> QED BY <1>2, UpToIsPrefix DEF Plan

LEMMA PlanIsFair ==
  ASSUME NEW S, S \subseteq DOMAIN Portal, NEW jobs \in Seq(S), NEW target \in Nat
  PROVE  FairPlan(jobs, target, Plan(jobs, target))
<1> DEFINE heads == FirstOfKind(jobs, Portal)
           q == CappedGroups(jobs)
           P == [i \in 1..Len(heads) |-> Portal[heads[i]]]
           plan == Plan(jobs, target)
           taken(p) == Len(FoundOn(plan, p))
           most(p) == Least(PortalCap[p], Len(FoundOn(jobs, p)))
           T == ToSet(jobs)
<1>1. /\ q \in Seq(Seq(T))
      /\ \A i \in 1..Len(q) : /\ P[i] \in DOMAIN PortalCap /\ PortalCap[P[i]] \in Nat
                              /\ q[i] = UpTo(FoundOn(jobs, P[i]), PortalCap[P[i]])
      /\ \A m \in 1..Len(jobs) : \E i \in 1..Len(q) : P[i] = Portal[jobs[m]]
      /\ OfOnePortal(q, P)
  BY GroupsAre
<1>2. plan \in Seq(T) /\ Len(plan) <= target /\ Len(plan) \in Nat
  <2>1. plan \in Seq(T) /\ Len(plan) <= target  BY PlanSelects
  <2> HIDE DEF plan, T
  <2> QED BY <2>1
<1> HIDE DEF P, q, heads
<1>3. PICK k \in Nat :
         /\ \A i \in 1..Len(q) : FoundOn(plan, P[i]) \in {UpTo(q[i], k), UpTo(q[i], k + 1)}
         /\ Len(plan) = target \/ \A i \in 1..Len(q) : FoundOn(plan, P[i]) = q[i]
  <2>1. plan = UpTo(InTurns(q), target)  BY DEF Plan, q
  <2> HIDE DEF plan, T
  <2>2. PICK k : AfterTurns(plan, q, P, target, k)  BY <1>1, <2>1, PlanOfTurns
  <2> QED BY <2>2 DEF AfterTurns
<1> DEFINE Share(p) ==
              /\ taken(p) \in Nat /\ taken(p) <= most(p) /\ taken(p) <= k + 1
              /\ taken(p) >= k \/ taken(p) = most(p)
              /\ Len(plan) = target \/ taken(p) = most(p)
              /\ FoundOn(plan, p) = UpTo(FoundOn(jobs, p), taken(p))
<1>4. ASSUME NEW i \in 1..Len(q)  PROVE Share(P[i])
  <2> DEFINE p == P[i]
             F == FoundOn(jobs, p)
             t == FoundOn(plan, p)
             c == PortalCap[p]
  <2>1. F \in Seq(T) /\ Len(F) \in Nat  BY FoundHave
  <2>2. c \in Nat /\ q[i] = UpTo(F, c)  BY <1>1
  <2>3. t \in {UpTo(q[i], k), UpTo(q[i], k + 1)}  BY <1>3
  <2>4. Len(plan) = target \/ t = q[i]  BY <1>3
  <2> HIDE DEF F, t, c, T
  <2>5. /\ Len(UpTo(F, c)) = Least(c, Len(F))
        /\ \A m \in Nat : /\ Len(UpTo(UpTo(F, c), m)) = Least(m, Least(c, Len(F)))
                          /\ UpTo(UpTo(F, c), m) = UpTo(F, Least(m, Least(c, Len(F))))
    BY <2>1, <2>2, UpToAgain
  <2> DEFINE a == Least(c, Len(F))
  <2>6. PICK m \in {k, k + 1} : t = UpTo(q[i], m)  BY <2>3
  <2>7. m \in Nat /\ Len(t) = Least(m, a) /\ t = UpTo(F, Least(m, a))
    <3>1. m \in Nat  OBVIOUS
    <3> QED BY <2>2, <2>5, <2>6, <3>1
  <2>8. Len(plan) = target \/ Len(t) = a  BY <2>2, <2>4, <2>5
  <2>9. a \in Nat  BY <2>1, <2>2 DEF Least
  <2> HIDE DEF a, p, plan
  <2>10. /\ Len(t) \in Nat /\ Len(t) <= a /\ Len(t) <= k + 1
         /\ Len(t) >= k \/ Len(t) = a
    BY <2>7, <2>9 DEF Least
  <2> QED BY <2>7, <2>8, <2>10 DEF a, F, t, c, p
<1>5. ASSUME NEW p \in DOMAIN PortalCap, \A i \in 1..Len(q) : P[i] # p  PROVE Share(p)
  <2> HIDE DEF plan, T
  <2>1. \A m \in 1..Len(jobs) : Portal[jobs[m]] # p  BY <1>1, <1>5
  <2>2. FoundOn(jobs, p) = <<>>  BY <2>1, FoundHave
  <2>3. \A m \in 1..Len(plan) : Portal[plan[m]] # p
    <3>1. \A m \in 1..Len(plan) : plan[m] \in T  BY <1>2
    <3>2. T = {jobs[m] : m \in 1..Len(jobs)}  BY DEF T, ToSet
    <3> QED BY <2>1, <3>1, <3>2
  <2>4. FoundOn(plan, p) = <<>>  BY <1>2, <2>3, FoundHave
  <2>5. Len(<<>>) = 0 /\ UpTo(<<>>, 0) = <<>> /\ PortalCap[p] \in Nat
    BY TurnsAssumption DEF TurnsAssumption, UpTo, Least
  <2>6. taken(p) = 0 /\ most(p) = 0  BY <2>2, <2>4, <2>5 DEF Least
  <2> HIDE DEF taken, most
  <2> QED BY <2>2, <2>4, <2>5, <2>6
<1>6. \A p \in DOMAIN PortalCap : Share(p)
  <2> HIDE DEF Share
  <2> QED BY <1>4, <1>5
<1>7. \A p, r \in DOMAIN PortalCap : taken(p) > taken(r) + 1 => taken(r) = most(r)
  <2> TAKE p, r \in DOMAIN PortalCap
  <2> HAVE taken(p) > taken(r) + 1
  <2>1. Share(p) /\ Share(r)
    <3> HIDE DEF Share
    <3> QED BY <1>6
  <2> HIDE DEF taken, most, plan
  <2> QED BY <2>1
<1>8. \A p \in DOMAIN PortalCap :
         /\ taken(p) <= most(p)
         /\ taken(p) < most(p) => Len(plan) = target
         /\ FoundOn(plan, p) = UpTo(FoundOn(jobs, p), taken(p))
  <2> TAKE p \in DOMAIN PortalCap
  <2>1. Share(p)
    <3> HIDE DEF Share
    <3> QED BY <1>6
  <2> HIDE DEF taken, most, plan
  <2> QED BY <2>1
<1>9. ToSet(plan) \subseteq T
  <2> HIDE DEF plan, T
  <2> QED BY <1>2 DEF ToSet
<1> HIDE DEF plan
<1> QED BY <1>2, <1>7, <1>8, <1>9 DEF FairPlan, plan

\* A choice of jobs in some order is a sequence of jobs.
LEMMA ChoicesAreSequences ==
  ASSUME NEW jobs \in SetToAllKPermutations(DOMAIN Portal)
  PROVE  jobs \in Seq(DOMAIN Portal)
<1>1. PICK s \in SUBSET (DOMAIN Portal) : jobs \in SetToSeqs(s)
  BY DEF SetToAllKPermutations
<1>2. Cardinality(s) \in Nat
  BY ChoicesAssumption, FS_Subset, FS_CardinalityType DEF ChoicesAssumption
<1>3. jobs \in [1..Cardinality(s) -> s]  BY <1>1 DEF SetToSeqs
<1> QED BY <1>2, <1>3

\* planApplicationOrder, for every choice of jobs in every order and any target,
\* takes what target and caps allow and shares it fairly among the portals.
THEOREM EveryPlanIsFair == ChoicesSpec => []PlansAreFair
<1>1. ChoicesInit => PlansAreFair  BY DEF ChoicesInit, PlansAreFair
<1>2. PlansAreFair /\ [ChoicesNext]_choiceVars => PlansAreFair'
  <2> SUFFICES ASSUME PlansAreFair, [ChoicesNext]_choiceVars  PROVE PlansAreFair'
    OBVIOUS
  <2>1. CASE MakePlan
    <3>1. PICK jobs \in SetToAllKPermutations(DOMAIN Portal), target \in 0..MaxTarget :
            batch' = [jobs |-> jobs, target |-> target, chosen |-> Plan(jobs, target)]
      BY <2>1 DEF MakePlan
    <3>2. jobs \in Seq(DOMAIN Portal)  BY ChoicesAreSequences
    <3>3. target \in Nat  BY ChoicesAssumption DEF ChoicesAssumption
    <3>4. FairPlan(jobs, target, Plan(jobs, target))  BY <3>2, <3>3, PlanIsFair
    <3>5. /\ batch'.jobs = jobs /\ batch'.target = target
          /\ batch'.chosen = Plan(jobs, target)
      BY <3>1
    <3> QED BY <3>4, <3>5 DEF PlansAreFair
  <2>2. CASE UNCHANGED batch  BY <2>2 DEF PlansAreFair
  <2> QED BY <2>1, <2>2 DEF ChoicesNext, MakeSelection, choiceVars
<1> QED BY <1>1, <1>2, PTL DEF ChoicesSpec

(***************************************************************************)
(* The selection: where the turns come from.                               *)
(***************************************************************************)

\* Where in q, by its first n sequences, the places of t come from.
SpreadTo(t, q, n, w) ==
    /\ w \in [1..Len(t) -> 1..n]
    /\ \A m \in 1..Len(t) : \E l \in 1..Len(q[w[m]]) : t[m] = q[w[m]][l]
    /\ \A i \in 1..n : \A l \in 1..Len(q[i]) : \E m \in 1..Len(t) : w[m] = i /\ t[m] = q[i][l]
    /\ \A j, m \in 1..Len(t) : j < m => w[j] <= w[m]

\* One sequence more.
LEMMA SpreadMore ==
  ASSUME NEW S, NEW t \in Seq(S), NEW q, NEW n \in Nat, q[n + 1] \in Seq(S),
         NEW w, SpreadTo(t, q, n, w)
  PROVE  \E v : SpreadTo(t \o q[n + 1], q, n + 1, v)
<1> DEFINE x == q[n + 1]
           u == t \o x
           v == [m \in 1..Len(u) |-> IF m <= Len(t) THEN w[m] ELSE n + 1]
<1>1. /\ Len(t) \in Nat /\ Len(x) \in Nat /\ Len(u) = Len(t) + Len(x)
      /\ \A m \in 1..Len(t) : u[m] = t[m]
      /\ \A l \in 1..Len(x) : u[Len(t) + l] = x[l]
  <2>1. x \in Seq(S)  OBVIOUS
  <2> HIDE DEF x
  <2> QED BY <2>1
<1>2. /\ w \in [1..Len(t) -> 1..n]
      /\ \A m \in 1..Len(t) : \E l \in 1..Len(q[w[m]]) : t[m] = q[w[m]][l]
      /\ \A i \in 1..n : \A l \in 1..Len(q[i]) : \E m \in 1..Len(t) : w[m] = i /\ t[m] = q[i][l]
      /\ \A j, m \in 1..Len(t) : j < m => w[j] <= w[m]
  BY DEF SpreadTo
<1> HIDE DEF u
<1>3. /\ v \in [1..Len(u) -> 1..(n + 1)]
      /\ \A m \in 1..Len(u) : v[m] = IF m <= Len(t) THEN w[m] ELSE n + 1
  <2>1. \A m \in 1..Len(t) : w[m] \in 1..(n + 1)  BY <1>2
  <2> QED BY <1>1, <2>1
<1> HIDE DEF v
<1>4. ASSUME NEW m \in 1..Len(u)  PROVE \E l \in 1..Len(q[v[m]]) : u[m] = q[v[m]][l]
  <2>1. CASE m \in 1..Len(t)
    <3>1. v[m] = w[m] /\ u[m] = t[m]  BY <1>1, <1>3, <2>1
    <3>2. PICK l \in 1..Len(q[w[m]]) : t[m] = q[w[m]][l]  BY <1>2, <2>1
    <3> HIDE DEF x
    <3> QED BY <3>1, <3>2
  <2>2. CASE m \notin 1..Len(t)
    <3> DEFINE l == m - Len(t)
    <3>1. v[m] = n + 1 /\ l \in 1..Len(x) /\ m = Len(t) + l
      <4> HIDE DEF x
      <4> QED BY <1>1, <1>3, <2>2
    <3>2. u[m] = x[l]
      <4> HIDE DEF x, l
      <4> QED BY <1>1, <3>1
    <3> HIDE DEF l
    <3> QED BY <3>1, <3>2
  <2> QED BY <2>1, <2>2
<1>5. ASSUME NEW i \in 1..(n + 1), NEW l \in 1..Len(q[i])
      PROVE  \E m \in 1..Len(u) : v[m] = i /\ u[m] = q[i][l]
  <2>1. CASE i \in 1..n
    <3>1. PICK m \in 1..Len(t) : w[m] = i /\ t[m] = q[i][l]  BY <1>2, <2>1
    <3>2. m \in 1..Len(u) /\ v[m] = w[m] /\ u[m] = t[m]
      <4> HIDE DEF x
      <4> QED BY <1>1, <1>3
    <3> QED BY <3>1, <3>2
  <2>2. CASE i = n + 1
    <3> DEFINE m == Len(t) + l
    <3>1. l \in 1..Len(x) /\ q[i][l] = x[l]  BY <2>2
    <3> HIDE DEF x
    <3>2. m \in 1..Len(u) /\ m \in Nat /\ ~(m <= Len(t))  BY <1>1, <3>1
    <3>3. u[m] = x[l]  BY <1>1, <3>1
    <3> HIDE DEF m
    <3> QED BY <1>3, <2>2, <3>1, <3>2, <3>3
  <2> QED BY <2>1, <2>2
<1>6. \A j, m \in 1..Len(u) : j < m => v[j] <= v[m]
  <2> TAKE j, m \in 1..Len(u)
  <2> HAVE j < m
  <2> HIDE DEF x
  <2>1. /\ v[j] = IF j <= Len(t) THEN w[j] ELSE n + 1
        /\ v[m] = IF m <= Len(t) THEN w[m] ELSE n + 1
    BY <1>3
  <2>2. CASE m <= Len(t)
    <3>1. j \in 1..Len(t) /\ m \in 1..Len(t)  BY <1>1, <2>2
    <3> QED BY <1>2, <2>1, <2>2, <3>1
  <2>3. CASE ~(m <= Len(t))
    <3>1. v[j] \in 1..(n + 1)  BY <1>3
    <3> QED BY <2>1, <2>3, <3>1
  <2> QED BY <2>2, <2>3
<1>7. SpreadTo(u, q, n + 1, v)
  BY <1>3, <1>4, <1>5, <1>6 DEF SpreadTo
<1> QED BY <1>7 DEF u

\* Put one after the other, sequences keep their elements and their order.
LEMMA FlattenSpreads ==
  ASSUME NEW S, NEW q \in Seq(Seq(S))
  PROVE  \E w : SpreadTo(FlattenSeq(q), q, Len(q), w)
<1> DEFINE W == Seq(S)
<1>1. Len(q) \in Nat /\ \A i \in 1..Len(q) : q[i] \in Seq(S)  BY ElementsAre
<1>2. PICK f \in [0..Len(q) -> Seq(S)] :
            /\ f[0] = <<>> /\ FlattenSeq(q) = f[Len(q)]
            /\ \A n \in 1..Len(q) : f[n] = f[n - 1] \o q[n]
  BY FlattenRuns
<1> DEFINE Good == {n \in Nat : n <= Len(q) => \E w : SpreadTo(f[n], q, n, w)}
<1>3. 0 \in Good
  <2> DEFINE w == [m \in 1..0 |-> 0]
  <2>1. Len(f[0]) = 0 /\ w \in [1..0 -> 1..0]  BY <1>2
  <2> HIDE DEF w
  <2>2. SpreadTo(f[0], q, 0, w)  BY <2>1 DEF SpreadTo
  <2> QED BY <2>2
<1>4. ASSUME NEW n \in Nat, n \in Good  PROVE n + 1 \in Good
  <2> SUFFICES ASSUME n + 1 <= Len(q)  PROVE \E w : SpreadTo(f[n + 1], q, n + 1, w)
    OBVIOUS
  <2>1. n + 1 \in 1..Len(q) /\ n \in 0..Len(q) /\ (n + 1) - 1 = n  BY <1>1
  <2>2. PICK w : SpreadTo(f[n], q, n, w)  BY <1>1, <1>4
  <2>3. f[n] \in Seq(S) /\ q[n + 1] \in Seq(S)
    <3> HIDE DEF W
    <3> QED BY <1>1, <2>1
  <2>4. f[n + 1] = f[n] \o q[n + 1]  BY <1>2, <2>1
  <2> QED BY <2>2, <2>3, <2>4, SpreadMore
<1>5. Len(q) \in Good
  <2> HIDE DEF Good
  <2> QED BY <1>1, <1>3, <1>4, Counting
<1> QED BY <1>1, <1>2, <1>5

\* A round has the turn of every queue that has one left.
LEMMA RoundIs ==
  ASSUME NEW S, NEW q \in Seq(Seq(S)), NEW k \in Nat \ {0}
  PROVE  LET r == FlattenSeq(Turn(q, k))
         IN  /\ \A l \in 1..Len(r) : \E i \in 1..Len(q) : k <= Len(q[i]) /\ r[l] = q[i][k]
             /\ \A i \in 1..Len(q) : k <= Len(q[i]) => \E l \in 1..Len(r) : r[l] = q[i][k]
<1> DEFINE t == Turn(q, k)
           r == FlattenSeq(t)
<1>1. /\ t \in Seq(Seq(S)) /\ Len(t) = Len(q)
      /\ \A i \in 1..Len(q) : t[i] = IF k <= Len(q[i]) THEN <<q[i][k]>> ELSE <<>>
  BY TurnIs
<1> HIDE DEF t
<1>2. PICK w : SpreadTo(r, t, Len(t), w)  BY <1>1, FlattenSpreads
<1> HIDE DEF r
<1>3. ASSUME NEW l \in 1..Len(r)  PROVE \E i \in 1..Len(q) : k <= Len(q[i]) /\ r[l] = q[i][k]
  <2> DEFINE i == w[l]
  <2>1. i \in 1..Len(q)  BY <1>1, <1>2 DEF SpreadTo
  <2>2. PICK m \in 1..Len(t[i]) : r[l] = t[i][m]  BY <1>2 DEF SpreadTo
  <2> HIDE DEF i
  <2>3. CASE k <= Len(q[i])
    <3>1. t[i] = <<q[i][k]>>  BY <1>1, <2>1, <2>3
    <3> QED BY <2>1, <2>2, <2>3, <3>1
  <2>4. CASE ~(k <= Len(q[i]))
    <3>1. t[i] = <<>>  BY <1>1, <2>1, <2>4
    <3> QED BY <2>2, <3>1
  <2> QED BY <2>3, <2>4
<1>4. ASSUME NEW i \in 1..Len(q), k <= Len(q[i])  PROVE \E l \in 1..Len(r) : r[l] = q[i][k]
  <2>1. t[i] = <<q[i][k]>>  BY <1>1, <1>4
  <2>2. 1 \in 1..Len(t[i]) /\ t[i][1] = q[i][k]  BY <2>1
  <2> QED BY <1>1, <1>2, <2>2 DEF SpreadTo
<1> QED BY <1>3, <1>4 DEF r, t

\* In turns: each place of t is some queue's turn in a round, all turns have
\* their place, and the rounds follow one another.
TurnByTurn(t, q, w) ==
    /\ w \in [1..Len(t) -> Nat]
    /\ \A m \in 1..Len(t) : \E i \in 1..Len(q) : w[m] \in 1..Len(q[i]) /\ t[m] = q[i][w[m]]
    /\ \A i \in 1..Len(q) : \A k \in 1..Len(q[i]) :
          \E m \in 1..Len(t) : w[m] = k /\ t[m] = q[i][k]
    /\ \A j, m \in 1..Len(t) : j < m => w[j] <= w[m]

\* roundRobin, and the rounds of balancedSelection, are such an order.
LEMMA TurnsFollow ==
  ASSUME NEW S, NEW q \in Seq(Seq(S))
  PROVE  \E w : TurnByTurn(InTurns(q), q, w)
<1> DEFINE r == Rounds(q)
           t == InTurns(q)
<1>1. /\ r \in Seq(Seq(S)) /\ Len(r) = Longest(q)
      /\ \A k \in 1..Len(r) : r[k] = FlattenSeq(Turn(q, k))
  BY RoundsAre
<1>2. t = FlattenSeq(r)  BY TurnsAreSome
<1>3. /\ Len(q) \in Nat /\ Longest(q) \in Nat
      /\ \A i \in 1..Len(q) : Len(q[i]) \in Nat /\ Len(q[i]) <= Longest(q)
  BY ElementsAre, LongestIs
<1> HIDE DEF r, t
<1>4. PICK w : SpreadTo(t, r, Len(r), w)  BY <1>1, <1>2, FlattenSpreads
<1>5. ASSUME NEW k \in 1..Len(r)
      PROVE  /\ \A l \in 1..Len(r[k]) : \E i \in 1..Len(q) : k <= Len(q[i]) /\ r[k][l] = q[i][k]
             /\ \A i \in 1..Len(q) : k <= Len(q[i]) => \E l \in 1..Len(r[k]) : r[k][l] = q[i][k]
  <2>1. k \in Nat \ {0}  BY <1>1, <1>3
  <2> DEFINE x == FlattenSeq(Turn(q, k))
  <2>2. /\ \A l \in 1..Len(x) : \E i \in 1..Len(q) : k <= Len(q[i]) /\ x[l] = q[i][k]
        /\ \A i \in 1..Len(q) : k <= Len(q[i]) => \E l \in 1..Len(x) : x[l] = q[i][k]
    BY <2>1, RoundIs
  <2>3. r[k] = x  BY <1>1
  <2> HIDE DEF x
  <2> QED BY <2>2, <2>3
<1>6. w \in [1..Len(t) -> Nat] /\ \A m \in 1..Len(t) : w[m] \in 1..Len(r)
  <2>1. w \in [1..Len(t) -> 1..Len(r)]  BY <1>4 DEF SpreadTo
  <2>2. 1..Len(r) \subseteq Nat  OBVIOUS
  <2> QED BY <2>1, <2>2
<1>7. ASSUME NEW m \in 1..Len(t)
      PROVE  \E i \in 1..Len(q) : w[m] \in 1..Len(q[i]) /\ t[m] = q[i][w[m]]
  <2> DEFINE k == w[m]
  <2>1. k \in 1..Len(r)  BY <1>6
  <2>2. PICK l \in 1..Len(r[k]) : t[m] = r[k][l]  BY <1>4 DEF SpreadTo
  <2> HIDE DEF k
  <2>3. PICK i \in 1..Len(q) : k <= Len(q[i]) /\ r[k][l] = q[i][k]  BY <1>5, <2>1
  <2>4. k \in 1..Len(q[i])  BY <1>1, <1>3, <2>1, <2>3
  <2> QED BY <2>2, <2>3, <2>4 DEF k
<1>8. ASSUME NEW i \in 1..Len(q), NEW k \in 1..Len(q[i])
      PROVE  \E m \in 1..Len(t) : w[m] = k /\ t[m] = q[i][k]
  <2>1. k \in 1..Len(r) /\ k <= Len(q[i])  BY <1>1, <1>3
  <2>2. PICK l \in 1..Len(r[k]) : r[k][l] = q[i][k]  BY <1>5, <2>1
  <2>3. PICK m \in 1..Len(t) : w[m] = k /\ t[m] = r[k][l]
    BY <1>4, <2>1, <2>2 DEF SpreadTo
  <2> QED BY <2>2, <2>3
<1>9. \A j, m \in 1..Len(t) : j < m => w[j] <= w[m]  BY <1>4 DEF SpreadTo
<1>10. TurnByTurn(t, q, w)  BY <1>6, <1>7, <1>8, <1>9 DEF TurnByTurn
<1> QED BY <1>10 DEF t

(***************************************************************************)
(* The newest first.                                                       *)
(***************************************************************************)

\* The places that come before place i when the newest is first.
Before(s, i) == {j \in DOMAIN s : \/ s[j].posted > s[i].posted
                                  \/ s[j].posted = s[i].posted /\ j < i}

\* The place of the n-th newest, and what is true of it.
LEMMA PlacesAre ==
  ASSUME NEW S, \A x \in S : x.posted \in Int, NEW s \in Seq(S)
  PROVE  LET place == [n \in DOMAIN s |-> CHOOSE i \in DOMAIN s : Cardinality(Before(s, i)) = n - 1]
         IN  /\ place \in [DOMAIN s -> DOMAIN s]
             /\ \A i \in DOMAIN s : \E n \in DOMAIN s : place[n] = i
             /\ \A m, n \in DOMAIN s : m < n => s[place[m]].posted >= s[place[n]].posted
<1> DEFINE D == DOMAIN s
           rank(i) == Cardinality(Before(s, i))
           place == [n \in D |-> CHOOSE i \in D : rank(i) = n - 1]
           len == Len(s)
<1>1. /\ len \in Nat /\ D = 1..len /\ IsFiniteSet(D) /\ Cardinality(D) = len
      /\ \A i \in D : s[i].posted \in Int /\ i \in Nat
  <2>1. len \in Nat /\ D = 1..len  OBVIOUS
  <2>2. IsFiniteSet(1..len) /\ Cardinality(1..len) = len
    <3>1. IsFiniteSet(1..len) /\ Cardinality(1..len) = IF 1 > len THEN 0 ELSE len - 1 + 1
      <4> HIDE DEF len
      <4> QED BY <2>1, FS_Interval
    <3> HIDE DEF len
    <3> QED BY <2>1, <3>1
  <2>3. \A i \in D : s[i] \in S  OBVIOUS
  <2> HIDE DEF D, len
  <2> QED BY <2>1, <2>2, <2>3
<1> HIDE DEF D, len
<1>2. \A i \in D : Before(s, i) = {j \in D : \/ s[j].posted > s[i].posted
                                             \/ s[j].posted = s[i].posted /\ j < i}
  BY DEF Before, D
<1> DEFINE Earlier(j, i) == \/ s[j].posted > s[i].posted
                            \/ s[j].posted = s[i].posted /\ j < i
<1>3a. \A i \in D : \A j : j \in Before(s, i) <=> j \in D /\ Earlier(j, i)
  BY <1>2
<1>3. ASSUME NEW i \in D
      PROVE  /\ Before(s, i) \in SUBSET D /\ IsFiniteSet(Before(s, i)) /\ i \notin Before(s, i)
             /\ rank(i) \in 0..(len - 1)
  <2>1. Before(s, i) \in SUBSET D /\ i \notin Before(s, i)  BY <1>1, <1>2
  <2>2. IsFiniteSet(Before(s, i)) /\ rank(i) <= len /\ (rank(i) = len => Before(s, i) = D)
    BY <1>1, <2>1, FS_Subset
  <2>3. rank(i) \in Nat  BY <2>2, FS_CardinalityType
  <2>4. rank(i) # len  BY <2>1, <2>2
  <2> HIDE DEF rank
  <2> QED BY <1>1, <2>1, <2>2, <2>3, <2>4
<1>4. ASSUME NEW i \in D, NEW j \in D, j \in Before(s, i)  PROVE rank(j) < rank(i)
  <2>1. Before(s, j) \subseteq Before(s, i)
    <3> SUFFICES ASSUME NEW m \in Before(s, j)  PROVE m \in Before(s, i)
      OBVIOUS
    <3>1. m \in D /\ Earlier(m, j) /\ Earlier(j, i)
      <4> HIDE DEF Earlier
      <4> QED BY <1>3a, <1>4
    <3>2. Earlier(m, i)
      <4> DEFINE a == s[m].posted
                 b == s[j].posted
                 c == s[i].posted
      <4>1. a \in Int /\ b \in Int /\ c \in Int /\ m \in Nat /\ j \in Nat /\ i \in Nat
        BY <1>1, <3>1
      <4> HIDE DEF a, b, c
      <4>2. (a > b \/ (a = b /\ m < j)) /\ (b > c \/ (b = c /\ j < i))  BY <3>1 DEF a, b, c
      <4>3. a > c \/ (a = c /\ m < i)  BY <4>1, <4>2
      <4> QED BY <4>3 DEF a, c
    <3> HIDE DEF Earlier
    <3> QED BY <1>3a, <3>1, <3>2
  <2>2. Before(s, j) # Before(s, i)  BY <1>3, <1>4
  <2>3. rank(j) <= rank(i) /\ rank(j) # rank(i)  BY <1>3, <2>1, <2>2, FS_Subset
  <2>4. rank(j) \in Nat /\ rank(i) \in Nat  BY <1>3
  <2> HIDE DEF rank
  <2> QED BY <2>3, <2>4
<1>5. \A i, j \in D : i # j => i \in Before(s, j) \/ j \in Before(s, i)
  BY <1>1, <1>2
<1>6. \A i, j \in D : rank(i) = rank(j) => i = j
  <2> SUFFICES ASSUME NEW i \in D, NEW j \in D, rank(i) = rank(j), i # j  PROVE FALSE
    OBVIOUS
  <2>1. rank(j) < rank(i) \/ rank(i) < rank(j)  BY <1>4, <1>5
  <2>2. rank(j) \in Nat /\ rank(i) \in Nat  BY <1>3
  <2> HIDE DEF rank
  <2> QED BY <2>1, <2>2
<1>7. \A n \in D : \E i \in D : rank(i) = n - 1
  <2> DEFINE R == 0..(len - 1)
             f == [i \in D |-> rank(i)]
  <2>1. IsFiniteSet(R) /\ Cardinality(R) = len
    <3>1. /\ IsFiniteSet(0..(len - 1))
          /\ Cardinality(0..(len - 1)) = IF 0 > len - 1 THEN 0 ELSE (len - 1) - 0 + 1
      <4>1. 0 \in Int /\ len - 1 \in Int  BY <1>1
      <4> QED BY <4>1, FS_Interval
    <3> QED BY <1>1, <3>1
  <2>2. f \in Injection(D, R)
    <3>1. f \in [D -> R]
      <4> HIDE DEF rank
      <4> QED BY <1>3
    <3>2. \A i, j \in D : f[i] = f[j] => i = j
      <4>1. \A i \in D : f[i] = rank(i)  OBVIOUS
      <4> HIDE DEF f, rank
      <4> QED BY <1>6, <4>1
    <3> HIDE DEF f, R
    <3> QED BY <3>1, <3>2 DEF Injection, IsInjective
  <2>3. f \in Surjection(D, R)
    <3> HIDE DEF f, R
    <3> QED BY <1>1, <2>1, <2>2, FS_Injection
  <2>4. \A r \in R : \E i \in D : f[i] = r
    <3> HIDE DEF f, R
    <3> QED BY <2>3 DEF Surjection
  <2>5. \A n \in D : n - 1 \in R  BY <1>1
  <2> HIDE DEF R, rank
  <2> QED BY <2>4, <2>5
<1>8. \A n \in D : place[n] \in D /\ rank(place[n]) = n - 1
  <2> HIDE DEF rank
  <2> QED BY <1>7
<1>9. place \in [D -> D]
  <2> HIDE DEF rank
  <2> QED BY <1>7
<1> HIDE DEF place
<1>10. \A i \in D : \E n \in D : place[n] = i
  <2> TAKE i \in D
  <2> DEFINE n == rank(i) + 1
  <2>1. n \in D /\ n - 1 = rank(i)  BY <1>1, <1>3
  <2>2. place[n] \in D /\ rank(place[n]) = rank(i)
    <3> HIDE DEF n, rank
    <3> QED BY <1>8, <2>1
  <2>3. place[n] = i  BY <1>6, <2>2
  <2> HIDE DEF n
  <2> QED BY <2>1, <2>3
<1>11. \A m, n \in D : m < n => s[place[m]].posted >= s[place[n]].posted
  <2> SUFFICES ASSUME NEW m \in D, NEW n \in D, m < n, s[place[n]].posted > s[place[m]].posted
      PROVE  FALSE
    <3>1. \A m \in D : s[place[m]].posted \in Int  BY <1>1, <1>8
    <3> QED BY <3>1
  <2> DEFINE i == place[m]
             j == place[n]
  <2>1. i \in D /\ j \in D /\ rank(i) = m - 1 /\ rank(j) = n - 1  BY <1>8
  <2>2. j \in Before(s, i)  BY <1>2, <2>1
  <2>3. rank(j) < rank(i)  BY <1>4, <2>1, <2>2
  <2> HIDE DEF i, j, rank
  <2> QED BY <1>1, <2>1, <2>3
<1>12. /\ place \in [D -> D] /\ \A i \in D : \E n \in D : place[n] = i
       /\ \A m, n \in D : m < n => s[place[m]].posted >= s[place[n]].posted
  BY <1>9, <1>10, <1>11
<1> QED BY <1>12 DEF place, D

\* The newest first: all of them, in that order.
LEMMA NewestAreFirst ==
  ASSUME NEW S, \A x \in S : x.posted \in Int, NEW s \in Seq(S)
  PROVE  LET t == NewestFirst(s)
         IN  /\ t \in Seq(S) /\ Len(t) = Len(s) /\ ToSet(t) = ToSet(s)
             /\ \A m, n \in 1..Len(t) : m < n => t[m].posted >= t[n].posted
<1> DEFINE D == DOMAIN s
           place == [n \in D |-> CHOOSE i \in D : Cardinality(Before(s, i)) = n - 1]
           t == NewestFirst(s)
<1>1. /\ place \in [D -> D] /\ \A i \in D : \E n \in D : place[n] = i
      /\ \A m, n \in D : m < n => s[place[m]].posted >= s[place[n]].posted
  BY PlacesAre
<1>2. t = [n \in D |-> s[place[n]]]
  BY DEF NewestFirst, Before
<1>3. D = 1..Len(s) /\ Len(s) \in Nat /\ \A n \in D : s[n] \in S
  OBVIOUS
<1> HIDE DEF place, t, D
<1>4. t \in [1..Len(s) -> S] /\ \A n \in D : t[n] = s[place[n]]
  BY <1>1, <1>2, <1>3
<1>5. t \in Seq(S) /\ Len(t) = Len(s) /\ DOMAIN t = D
  BY <1>3, <1>4
<1>6. ToSet(t) = ToSet(s)
  <2>1. ToSet(t) = {t[n] : n \in D} /\ ToSet(s) = {s[n] : n \in D}  BY <1>5 DEF ToSet, D
  <2> QED BY <1>1, <1>4, <2>1
<1>7. \A m, n \in 1..Len(t) : m < n => t[m].posted >= t[n].posted
  <2> TAKE m, n \in 1..Len(t)
  <2>1. m \in D /\ n \in D  BY <1>3, <1>5
  <2>2. t[m] = s[place[m]] /\ t[n] = s[place[n]]  BY <1>4, <2>1
  <2> QED BY <1>1, <2>1, <2>2
<1> QED BY <1>5, <1>6, <1>7 DEF t

(***************************************************************************)
(* The postings that are kept.                                             *)
(***************************************************************************)

\* A set listed without repetition has as many elements as places.
LEMMA ListedOnce ==
  ASSUME NEW n \in Nat, NEW T, NEW f \in [1..n -> T],
         \A i, j \in 1..n : i # j => f[i] # f[j],
         \A x \in T : \E i \in 1..n : f[i] = x
  PROVE  Cardinality(T) = n
<1>1. IsFiniteSet(1..n) /\ Cardinality(1..n) = n
  <2>1. IsFiniteSet(1..n) /\ Cardinality(1..n) = IF 1 > n THEN 0 ELSE n - 1 + 1
    BY FS_Interval
  <2> QED BY <2>1
<1>2. f \in Surjection(1..n, T)  BY DEF Surjection
<1>3. f \in Injection(1..n, T)  BY DEF Injection, IsInjective
<1> QED BY <1>1, <1>2, <1>3, FS_Surjection

\* The fresh postings of s, a cut of them, and what is left out.
LEMMA FreshAre ==
  ASSUME NEW S, NEW s \in Seq(S)
  PROVE  LET h == Fresh(s)
         IN  /\ h \in Seq(S)
             /\ \A i, j \in 1..Len(h) : i # j => h[i].fingerprint # h[j].fingerprint
             /\ \A m \in 1..Len(s) : \E i \in 1..Len(h) : h[i].fingerprint = s[m].fingerprint
             /\ \A i \in 1..Len(h) : \E m \in 1..Len(s) :
                   /\ h[i] = s[m]
                   /\ \A j \in 1..(m - 1) : \E l \in 1..(i - 1) : h[l].fingerprint = s[j].fingerprint
<1> DEFINE kind == [posting \in ToSet(s) |-> posting.fingerprint]
           h == Fresh(s)
<1>1. h = FirstOfKind(s, kind)  BY DEF Fresh
<1>2. ToSet(s) \subseteq S /\ \A m \in 1..Len(s) : s[m] \in ToSet(s)
  BY DEF ToSet
<1>3. h \in Seq(ToSet(s))  BY <1>1, FirstsAreSome
<1>4. /\ \A i, j \in 1..Len(h) : i # j => kind[h[i]] # kind[h[j]]
      /\ \A m \in 1..Len(s) : \E i \in 1..Len(h) : kind[h[i]] = kind[s[m]]
      /\ \A i \in 1..Len(h) : \E m \in 1..Len(s) :
            /\ h[i] = s[m]
            /\ \A j \in 1..(m - 1) : \E l \in 1..(i - 1) : kind[h[l]] = kind[s[j]]
  <2> HIDE DEF kind
  <2>1. FirstsOf(h, s, kind)  BY <1>1, FirstsAreTheirOwn
  <2> QED BY <2>1 DEF FirstsOf
<1> HIDE DEF h
<1>5. /\ h \in Seq(S) /\ Len(h) \in Nat /\ Len(s) \in Nat
      /\ \A i \in 1..Len(h) : h[i] \in ToSet(s)
  <2> DEFINE T == ToSet(s)
  <2>1. h \in Seq(T) /\ T \subseteq S  BY <1>2, <1>3
  <2> HIDE DEF T
  <2>2. Seq(T) \subseteq Seq(S)  BY <2>1
  <2>3. h \in Seq(S) /\ Len(h) \in Nat /\ \A i \in 1..Len(h) : h[i] \in T  BY <2>1, <2>2
  <2> QED BY <2>3 DEF T
<1>6. \A x \in ToSet(s) : kind[x] = x.fingerprint
  OBVIOUS
<1>7. /\ \A i \in 1..Len(h) : kind[h[i]] = h[i].fingerprint
      /\ \A m \in 1..Len(s) : kind[s[m]] = s[m].fingerprint
  <2> HIDE DEF kind
  <2> QED BY <1>2, <1>5, <1>6
<1> HIDE DEF kind
<1>8. \A i, j \in 1..Len(h) : i # j => h[i].fingerprint # h[j].fingerprint
  BY <1>4, <1>7
<1>9. \A m \in 1..Len(s) : \E i \in 1..Len(h) : h[i].fingerprint = s[m].fingerprint
  <2> TAKE m \in 1..Len(s)
  <2>1. PICK i \in 1..Len(h) : kind[h[i]] = kind[s[m]]  BY <1>4
  <2> QED BY <1>7, <2>1
<1>10. ASSUME NEW i \in 1..Len(h)
       PROVE  \E m \in 1..Len(s) :
                /\ h[i] = s[m]
                /\ \A j \in 1..(m - 1) : \E l \in 1..(i - 1) : h[l].fingerprint = s[j].fingerprint
  <2>1. PICK m \in 1..Len(s) :
           /\ h[i] = s[m]
           /\ \A j \in 1..(m - 1) : \E l \in 1..(i - 1) : kind[h[l]] = kind[s[j]]
    BY <1>4
  <2>2. ASSUME NEW j \in 1..(m - 1)
        PROVE  \E l \in 1..(i - 1) : h[l].fingerprint = s[j].fingerprint
    <3>1. PICK l \in 1..(i - 1) : kind[h[l]] = kind[s[j]]  BY <2>1
    <3>2. l \in 1..Len(h) /\ j \in 1..Len(s)  BY <1>5
    <3> QED BY <1>7, <3>1, <3>2
  <2> QED BY <2>1, <2>2
<1> QED BY <1>5, <1>8, <1>9, <1>10 DEF h

\* The queue of a portal: its newest postings up to the cap.
LEMMA QueueHasNewest ==
  ASSUME NEW S, \A x \in S : x.posted \in Int, NEW s \in Seq(S), NEW cap \in Nat
  PROVE  LET queue == UpTo(NewestFirst(s), cap)
         IN  /\ queue \in Seq(S)
             /\ \A a \in ToSet(s), b \in ToSet(queue) : a.posted > b.posted => a \in ToSet(queue)
<1> DEFINE t == NewestFirst(s)
           queue == UpTo(t, cap)
           n == Least(cap, Len(t))
<1>1. /\ t \in Seq(S) /\ ToSet(t) = ToSet(s)
      /\ \A j, m \in 1..Len(t) : j < m => t[j].posted >= t[m].posted
  BY NewestAreFirst
<1> HIDE DEF t
<1>2. Len(t) \in Nat /\ \A m \in 1..Len(t) : t[m] \in S /\ t[m].posted \in Int
  BY <1>1
<1>3. n \in 0..Len(t)  BY <1>2 DEF Least
<1> HIDE DEF n
<1>4. queue \in Seq(S) /\ Len(queue) = n /\ \A m \in 1..n : queue[m] = t[m]
  <2>1. \A m \in 1..n : t[m] \in S  BY <1>2, <1>3
  <2> QED BY <1>1, <1>3, <2>1 DEF UpTo, n
<1> HIDE DEF queue
<1>5. ASSUME NEW a \in ToSet(s), NEW b \in ToSet(queue), a.posted > b.posted
      PROVE  a \in ToSet(queue)
  <2>1. PICK x \in 1..Len(t) : t[x] = a
    <3>1. a \in ToSet(t)  BY <1>1
    <3>2. DOMAIN t = 1..Len(t)  BY <1>1
    <3> QED BY <3>1, <3>2 DEF ToSet
  <2>2. DOMAIN queue = 1..n  BY <1>4
  <2>3. PICK y \in 1..n : queue[y] = b  BY <2>2 DEF ToSet
  <2>4. b = t[y] /\ y \in 1..Len(t)  BY <1>3, <1>4, <2>3
  <2>5. x \in 1..n
    <3>1. t[x].posted \in Int /\ t[y].posted \in Int  BY <1>2, <2>1, <2>4
    <3>2. y < x => t[y].posted >= t[x].posted  BY <1>1, <2>1, <2>4
    <3>3. t[x].posted > t[y].posted  BY <1>5, <2>1, <2>4
    <3>4. ~(y < x)
      <4> DEFINE p == t[x].posted
                 r == t[y].posted
      <4> HIDE DEF p, r
      <4>1. p \in Int /\ r \in Int /\ p > r /\ (y < x => r >= p)  BY <3>1, <3>2, <3>3 DEF p, r
      <4> QED BY <4>1
    <3> QED BY <1>3, <2>1, <2>3, <3>4
  <2>6. queue[x] = a  BY <1>4, <2>1, <2>5
  <2> QED BY <2>2, <2>5, <2>6 DEF ToSet
<1> QED BY <1>4, <1>5 DEF queue, t

\* What balancedSelection returns is a fair selection.
LEMMA SelectionIsFair ==
  ASSUME NEW S, \A x \in S : x.posted \in Int, NEW results \in Seq(Seq(S)),
         NEW target \in Nat, NEW cap \in Nat
  PROVE  FairSelection(results, target, cap, Balanced(results, target, cap))
<1> DEFINE W == Seq(S)
           queue(i) == UpTo(NewestFirst(results[i]), cap)
           q == [i \in DOMAIN results |-> queue(i)]
           s == InTurns(q)
           h == Fresh(s)
           chosen == Balanced(results, target, cap)
           offered == UNION {{<<k, queue(i)[k]>> : k \in DOMAIN queue(i)} : i \in DOMAIN results}
           fingerprints == {chosen[n].fingerprint : n \in DOMAIN chosen}
           all == {o[2].fingerprint : o \in offered}
           last == Least(target, Len(h))
<1>1. /\ Len(results) \in Nat /\ DOMAIN results = 1..Len(results)
      /\ \A i \in 1..Len(results) : results[i] \in Seq(S)
  BY ElementsAre
<1>2. ASSUME NEW i \in 1..Len(results)
      PROVE  /\ queue(i) \in Seq(S)
             /\ \A a \in ToSet(results[i]), b \in ToSet(queue(i)) :
                   a.posted > b.posted => a \in ToSet(queue(i))
  BY <1>1, QueueHasNewest
<1>3. q \in Seq(Seq(S)) /\ Len(q) = Len(results) /\ \A i \in 1..Len(q) : q[i] = queue(i)
  <2>1. \A i \in 1..Len(results) : queue(i) \in W  BY <1>2
  <2> DEFINE n == Len(results)
  <2>2. q = [i \in 1..n |-> queue(i)]  BY <1>1
  <2> HIDE DEF W, queue, q
  <2>3. q \in [1..n -> W] /\ n \in Nat /\ \A i \in 1..n : q[i] = queue(i)  BY <1>1, <2>1, <2>2
  <2> HIDE DEF n
  <2>4. q \in Seq(W) /\ Len(q) = n  BY <2>3
  <2> QED BY <2>3, <2>4 DEF W, n
<1>4. \A o : o \in offered <=> \E i \in 1..Len(q) : \E k \in 1..Len(q[i]) : o = <<k, q[i][k]>>
  <2>1. \A i \in 1..Len(q) : DOMAIN queue(i) = 1..Len(q[i])
    <3> TAKE i \in 1..Len(q)
    <3>1. queue(i) \in Seq(S) /\ q[i] = queue(i)  BY <1>2, <1>3
    <3> HIDE DEF queue, q
    <3> QED BY <3>1
  <2>2. \A o : o \in offered <=> \E i \in DOMAIN results : \E k \in DOMAIN queue(i) : o = <<k, queue(i)[k]>>
    <3> HIDE DEF queue
    <3> QED OBVIOUS
  <2>3. Len(q) = Len(results) /\ \A i \in 1..Len(q) : q[i] = queue(i)  BY <1>3
  <2> HIDE DEF queue, q, offered
  <2> TAKE o
  <2>4. ASSUME o \in offered
        PROVE  \E i \in 1..Len(q) : \E k \in 1..Len(q[i]) : o = <<k, q[i][k]>>
    <3>1. PICK i \in 1..Len(q) : \E k \in DOMAIN queue(i) : o = <<k, queue(i)[k]>>
      BY <1>1, <2>2, <2>3, <2>4
    <3>2. PICK k \in DOMAIN queue(i) : o = <<k, queue(i)[k]>>  BY <3>1
    <3> QED BY <2>1, <2>3, <3>2
  <2>5. ASSUME NEW i \in 1..Len(q), NEW k \in 1..Len(q[i]), o = <<k, q[i][k]>>
        PROVE  o \in offered
    <3>1. i \in DOMAIN results /\ k \in DOMAIN queue(i)  BY <1>1, <2>1, <2>3
    <3>2. o = <<k, queue(i)[k]>>  BY <2>3, <2>5
    <3> QED BY <2>2, <3>1, <3>2
  <2> QED BY <2>4, <2>5
<1> HIDE DEF q, offered
<1>5. s \in Seq(S) /\ \E w : TurnByTurn(s, q, w)  BY <1>3, TurnsAreSome, TurnsFollow
<1> HIDE DEF s
<1>6. PICK w : TurnByTurn(s, q, w)  BY <1>5
<1>7. /\ h \in Seq(S)
      /\ \A i, j \in 1..Len(h) : i # j => h[i].fingerprint # h[j].fingerprint
      /\ \A m \in 1..Len(s) : \E i \in 1..Len(h) : h[i].fingerprint = s[m].fingerprint
      /\ \A i \in 1..Len(h) : \E m \in 1..Len(s) :
            /\ h[i] = s[m]
            /\ \A j \in 1..(m - 1) : \E l \in 1..(i - 1) : h[l].fingerprint = s[j].fingerprint
  BY <1>5, FreshAre
<1> HIDE DEF h
<1>8. last \in 0..Len(h) /\ Len(h) \in Nat  BY <1>7 DEF Least
<1>9. chosen = UpTo(h, target)  BY DEF Balanced, h, s, q
<1> HIDE DEF chosen
<1>10. Len(chosen) = last /\ DOMAIN chosen = 1..last /\ \A n \in 1..last : chosen[n] = h[n]
  <2> HIDE DEF last
  <2>1. \A n \in 1..last : h[n] \in S  BY <1>7, <1>8
  <2> QED BY <1>7, <1>8, <1>9, <2>1 DEF UpTo, last
<1> HIDE DEF last
<1>11. \A o \in offered : \E m \in 1..Len(s) : w[m] = o[1] /\ s[m] = o[2]
  <2> TAKE o \in offered
  <2>1. PICK i \in 1..Len(q) : \E k \in 1..Len(q[i]) : o = <<k, q[i][k]>>  BY <1>4
  <2>2. PICK k \in 1..Len(q[i]) : o = <<k, q[i][k]>>  BY <2>1
  <2>3. \E m \in 1..Len(s) : w[m] = k /\ s[m] = q[i][k]  BY <1>6 DEF TurnByTurn
  <2> QED BY <2>2, <2>3
<1>12. \A m \in 1..Len(s) : <<w[m], s[m]>> \in offered
  <2> TAKE m \in 1..Len(s)
  <2>1. PICK i \in 1..Len(q) : w[m] \in 1..Len(q[i]) /\ s[m] = q[i][w[m]]
    BY <1>6 DEF TurnByTurn
  <2> QED BY <1>4, <2>1
<1>13. Cardinality(fingerprints) = last
  <2> DEFINE f == [n \in 1..last |-> h[n].fingerprint]
  <2>1. fingerprints = {h[n].fingerprint : n \in 1..last}  BY <1>10
  <2> HIDE DEF fingerprints
  <2>2. f \in [1..last -> fingerprints] /\ last \in Nat  BY <1>8, <2>1
  <2>3. \A i, j \in 1..last : i # j => f[i] # f[j]
    <3>1. \A i \in 1..last : i \in 1..Len(h) /\ f[i] = h[i].fingerprint  BY <1>8
    <3> HIDE DEF f
    <3> QED BY <1>7, <3>1
  <2>4. \A x \in fingerprints : \E i \in 1..last : f[i] = x  BY <2>1
  <2> HIDE DEF f
  <2> QED BY <2>2, <2>3, <2>4, ListedOnce
<1>14. Cardinality(all) = Len(h)
  <2> DEFINE n == Len(h)
             f == [i \in 1..n |-> h[i].fingerprint]
  <2>1. \A o \in offered : o[2].fingerprint \in all  OBVIOUS
  <2>2. ASSUME NEW i \in 1..n  PROVE h[i].fingerprint \in all
    <3>1. PICK m \in 1..Len(s) : h[i] = s[m]  BY <1>7
    <3>2. <<w[m], s[m]>> \in offered /\ <<w[m], s[m]>>[2] = s[m]  BY <1>12
    <3> HIDE DEF all
    <3> QED BY <2>1, <3>1, <3>2
  <2>3. ASSUME NEW x \in all  PROVE \E i \in 1..n : f[i] = x
    <3>1. PICK o \in offered : x = o[2].fingerprint  OBVIOUS
    <3>2. PICK m \in 1..Len(s) : s[m] = o[2]  BY <1>11
    <3>3. PICK i \in 1..Len(h) : h[i].fingerprint = s[m].fingerprint  BY <1>7
    <3> QED BY <3>1, <3>2, <3>3
  <2> HIDE DEF all
  <2>4. f \in [1..n -> all] /\ n \in Nat /\ \A i \in 1..n : f[i] = h[i].fingerprint
    BY <1>8, <2>2
  <2> HIDE DEF f
  <2>5. \A i, j \in 1..n : i # j => f[i] # f[j]
    <3>1. \A i, j \in 1..n : i # j => h[i].fingerprint # h[j].fingerprint  BY <1>7
    <3> HIDE DEF n
    <3> QED BY <2>4, <3>1
  <2> HIDE DEF n
  <2> QED BY <2>3, <2>4, <2>5, ListedOnce DEF n
<1>15. ASSUME NEW n \in 1..last
       PROVE  \E o \in offered :
                 /\ o[2] = chosen[n]
                 /\ \A earlier \in offered :
                       earlier[1] < o[1] => earlier[2].fingerprint \in fingerprints
  <2>1. n \in 1..Len(h) /\ chosen[n] = h[n]  BY <1>8, <1>10
  <2>2. PICK m \in 1..Len(s) :
           /\ h[n] = s[m]
           /\ \A j \in 1..(m - 1) : \E l \in 1..(n - 1) : h[l].fingerprint = s[j].fingerprint
    BY <1>7, <2>1
  <2> DEFINE o == <<w[m], s[m]>>
  <2>3. o \in offered /\ o[1] = w[m] /\ o[2] = s[m]  BY <1>12
  <2>4. ASSUME NEW earlier \in offered, earlier[1] < w[m]
        PROVE  earlier[2].fingerprint \in fingerprints
    <3>1. PICK j \in 1..Len(s) : w[j] = earlier[1] /\ s[j] = earlier[2]  BY <1>11
    <3>2. j < m
      <4>1. w[j] \in Nat /\ w[m] \in Nat /\ w[j] < w[m]  BY <1>6, <2>4, <3>1 DEF TurnByTurn
      <4>2. m < j => w[m] <= w[j]  BY <1>6 DEF TurnByTurn
      <4> QED BY <4>1, <4>2
    <3>3. PICK l \in 1..(n - 1) : h[l].fingerprint = s[j].fingerprint
      <4>1. j \in 1..(m - 1)  BY <3>2
      <4> QED BY <2>2, <4>1
    <3>4. l \in 1..last  BY <1>8
    <3>5. chosen[l].fingerprint \in fingerprints  BY <1>10, <3>4
    <3> QED BY <1>10, <3>1, <3>3, <3>4, <3>5
  <2> HIDE DEF o, fingerprints
  <2> QED BY <2>1, <2>2, <2>3, <2>4
<1>16. /\ Len(chosen) = Cardinality(fingerprints)
       /\ Len(chosen) = Least(target, Cardinality(all))
  BY <1>10, <1>13, <1>14 DEF last
<1>17. \A n \in DOMAIN chosen : \E o \in offered :
          /\ o[2] = chosen[n]
          /\ \A earlier \in offered :
                earlier[1] < o[1] => earlier[2].fingerprint \in fingerprints
  <2> HIDE DEF fingerprints
  <2> QED BY <1>10, <1>15
<1>18. \A i \in DOMAIN results : \A a \in ToSet(results[i]), b \in ToSet(queue(i)) :
          a.posted > b.posted => a \in ToSet(queue(i))
  <2> HIDE DEF queue
  <2> QED BY <1>1, <1>2
<1> HIDE DEF fingerprints, all, queue
<1> QED BY <1>16, <1>17, <1>18 DEF FairSelection, chosen, offered, queue, fingerprints, all

\* balancedSelection, for all postings found, any target and any cap: no posting
\* is kept twice, none is given up while there is room, and no portal crowds
\* out another.
THEOREM EverySelectionIsFair == ChoicesSpec => []SelectionsAreFair
<1>1. ChoicesInit => SelectionsAreFair  BY DEF ChoicesInit, SelectionsAreFair
<1>2. SelectionsAreFair /\ [ChoicesNext]_choiceVars => SelectionsAreFair'
  <2> SUFFICES ASSUME SelectionsAreFair, [ChoicesNext]_choiceVars  PROVE SelectionsAreFair'
    OBVIOUS
  <2>1. CASE MakeSelection
    <3>1. PICK results \in [1..Sources -> BoundedSeq(Posting, MaxFound)],
               target \in 1..MaxTarget, cap \in 1..MaxFound :
            kept' = [results |-> results, target |-> target, cap |-> cap,
                     chosen |-> Balanced(results, target, cap)]
      BY <2>1 DEF MakeSelection
    <3>2. results \in Seq(Seq(Posting)) /\ target \in Nat /\ cap \in Nat
      <4> DEFINE W == Seq(Posting)
      <4>1. /\ Sources \in Nat /\ MaxFound \in Nat /\ MaxTarget \in Nat
        BY ChoicesAssumption DEF ChoicesAssumption
      <4>2. BoundedSeq(Posting, MaxFound) \subseteq W
        <5> SUFFICES ASSUME NEW s \in BoundedSeq(Posting, MaxFound)  PROVE s \in W
          OBVIOUS
        <5>1. PICK m \in 0..MaxFound : s \in [1..m -> Posting]  BY DEF BoundedSeq, SeqOf
        <5> QED BY <4>1, <5>1
      <4> HIDE DEF W
      <4>3. results \in [1..Sources -> W]  BY <4>2
      <4>4. results \in Seq(W)  BY <4>1, <4>3
      <4> QED BY <4>1, <4>4 DEF W
    <3>3. \A x \in Posting : x.posted \in Int  BY ChoicesAssumption DEF ChoicesAssumption
    <3>4. FairSelection(results, target, cap, Balanced(results, target, cap))
      BY <3>2, <3>3, SelectionIsFair
    <3>5. /\ kept'.results = results /\ kept'.target = target /\ kept'.cap = cap
          /\ kept'.chosen = Balanced(results, target, cap)
      BY <3>1
    <3> QED BY <3>4, <3>5 DEF SelectionsAreFair
  <2>2. CASE UNCHANGED kept  BY <2>2 DEF SelectionsAreFair
  <2> QED BY <2>1, <2>2 DEF ChoicesNext, MakePlan, choiceVars
<1> QED BY <1>1, <1>2, PTL DEF ChoicesSpec

\* A sequence has at most as many elements as places.
LEMMA FewAreChosen ==
  ASSUME NEW S, NEW s \in Seq(S)
  PROVE  ToSet(s) \subseteq S /\ IsFiniteSet(ToSet(s)) /\ Cardinality(ToSet(s)) <= Len(s)
<1>1. s \in Surjection(1..Len(s), ToSet(s))
  BY DEF ToSet, Surjection
<1>2. IsFiniteSet(1..Len(s)) /\ Cardinality(1..Len(s)) = Len(s)
  <2>1. Len(s) \in Nat  OBVIOUS
  <2>2. IsFiniteSet(1..Len(s))  BY <2>1, FS_Interval
  <2>3. Cardinality(1..Len(s)) = IF 1 > Len(s) THEN 0 ELSE Len(s) - 1 + 1
    BY <2>1, FS_Interval
  <2> QED BY <2>1, <2>2, <2>3
<1>3. IsFiniteSet(ToSet(s)) /\ Cardinality(ToSet(s)) <= Cardinality(1..Len(s))
  BY <1>1, <1>2, FS_Surjection
<1> QED BY <1>2, <1>3 DEF ToSet
=============================================================================
