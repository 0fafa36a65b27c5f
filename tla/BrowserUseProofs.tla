-------------------------- MODULE BrowserUseProofs --------------------------
(***************************************************************************)
(* For any callers, resources, limit and bounds: exclusion under a lease   *)
(* holds until two renewals in a row are missed, the lock implements       *)
(* LeasedExclusion, and the semaphore neither loses a slot, nor gives one  *)
(* out twice, nor keeps one beside a waiter, nor lets anybody pass.        *)
(***************************************************************************)
EXTENDS BrowserUse, FiniteSetTheorems, TLAPS

USE MaxMissedAssumption, NoCallerAssumption, LimitAssumption
DEF MaxMissedAssumption, NoCallerAssumption, LimitAssumption

(***************************************************************************)
(* The lease.                                                              *)
(***************************************************************************)

\* Only callers at work have a heartbeat.
BeatsAtWork == \A c \in due : task[c].pc = "inside"

LockInv == LockTypeOK /\ BeatsAtWork /\ LeaseInv

LEMMA CallShapes ==
  /\ Idle.pc = "idle"
  /\ \A r : Waiting(r).pc = "waiting" /\ Waiting(r).on = r
  /\ \A r : Inside(r).pc = "inside" /\ Inside(r).on = r
BY DEF Idle, Waiting, Inside

LEMMA InsideIsNot ==
  \A r, s : /\ Inside(r) # Idle /\ Inside(r) # Waiting(s)
            /\ Inside(r) = Inside(s) => r = s
BY CallShapes

LEMMA LockInitInv == LockInit => LockInv
BY CallShapes, InsideIsNot
DEF LockInit, LockInv, LockTypeOK, BeatsAtWork, LeaseInv, BeatsPerTtl

\* Every step of the lock keeps its invariant.
LEMMA AskForInv == LockInv /\ (\E c \in Caller, r \in Resource : AskFor(c, r)) => LockInv'
BY CallShapes, InsideIsNot
DEF AskFor, LockInv, LockTypeOK, BeatsAtWork, LeaseInv, BeatsPerTtl

LEMMA AcquireInv == LockInv /\ (\E c \in Caller, r \in Resource : Acquire(c, r)) => LockInv'
<1> SUFFICES ASSUME LockInv, NEW c \in Caller, NEW r \in Resource, Acquire(c, r)
             PROVE  LockInv'
  OBVIOUS
<1>1. LockTypeOK' /\ BeatsAtWork'
  BY CallShapes DEF Acquire, LockInv, LockTypeOK, BeatsAtWork, BeatsPerTtl
<1>2. c \notin due
  BY CallShapes DEF Acquire, LockInv, BeatsAtWork
<1>3. ASSUME NEW d \in Caller, NEW s \in Resource, task'[d] = Inside(s), missed'[d] < 2
      PROVE  /\ lease'[s] = d
             /\ left'[s] >= (IF d \in due' THEN 2 ELSE 3) - missed'[d]
  <2>1. CASE d = c
    <3>1. s = r
      BY <1>3, <2>1, InsideIsNot DEF Acquire, LockInv, LockTypeOK
    <3> QED
      BY <2>1, <3>1, <1>2 DEF Acquire, LockInv, LockTypeOK, BeatsPerTtl
  <2>2. CASE d # c
    <3>1. task[d] = Inside(s) /\ missed[d] < 2
      BY <1>3, <2>2 DEF Acquire, LockInv, LockTypeOK
    <3>2. lease[s] = d /\ left[s] >= (IF d \in due THEN 2 ELSE 3) - missed[d]
      BY <3>1 DEF LockInv, LeaseInv
    <3>3. s # r
      BY <3>2 DEF Acquire
    <3>4. lease'[s] = lease[s] /\ left'[s] = left[s] /\ missed'[d] = missed[d] /\ due' = due
      BY <2>2, <3>3 DEF Acquire, LockInv, LockTypeOK
    <3> QED
      BY <3>2, <3>4
  <2> QED
    BY <2>1, <2>2
<1> QED
  BY <1>1, <1>3 DEF LockInv, LeaseInv

LEMMA GiveUpInv == LockInv /\ (\E c \in Caller, r \in Resource : GiveUp(c, r)) => LockInv'
BY CallShapes, InsideIsNot
DEF GiveUp, LockInv, LockTypeOK, BeatsAtWork, LeaseInv, BeatsPerTtl

LEMMA RenewInv == LockInv /\ (\E c \in Caller, r \in Resource : Renew(c, r)) => LockInv'
<1> SUFFICES ASSUME LockInv, NEW c \in Caller, NEW r \in Resource, Renew(c, r)
             PROVE  LockInv'
  OBVIOUS
<1>1. LockTypeOK' /\ BeatsAtWork'
  BY DEF Renew, LockInv, LockTypeOK, BeatsAtWork, BeatsPerTtl
<1>2. ASSUME NEW d \in Caller, NEW s \in Resource, task'[d] = Inside(s), missed'[d] < 2
      PROVE  /\ lease'[s] = d
             /\ left'[s] >= (IF d \in due' THEN 2 ELSE 3) - missed'[d]
  <2>1. task[d] = Inside(s) /\ lease' = lease
    BY <1>2 DEF Renew
  <2>2. CASE d = c
    <3>1. s = r
      BY <2>1, <2>2, InsideIsNot DEF Renew
    <3>2. CASE lease[r] = c
      BY <2>1, <2>2, <3>1, <3>2 DEF Renew, LockInv, LockTypeOK, BeatsPerTtl
    <3>3. CASE lease[r] # c
      BY <1>2, <2>1, <2>2, <3>1, <3>3 DEF Renew, LockInv, LeaseInv
    <3> QED
      BY <3>2, <3>3
  <2>3. CASE d # c
    <3>1. missed'[d] = missed[d] /\ (d \in due' <=> d \in due)
      BY <2>3 DEF Renew, LockInv, LockTypeOK
    <3>2. lease[s] = d /\ left[s] >= (IF d \in due THEN 2 ELSE 3) - missed[d]
      BY <1>2, <2>1, <3>1 DEF LockInv, LeaseInv
    <3>3. left'[s] = left[s] \/ left'[s] = BeatsPerTtl
      BY DEF Renew, LockInv, LockTypeOK
    <3>4. missed[d] \in Nat /\ left[s] \in 0..BeatsPerTtl
      BY DEF LockInv, LockTypeOK
    <3> QED
      BY <2>1, <3>1, <3>2, <3>3, <3>4 DEF BeatsPerTtl
  <2> QED
    BY <2>2, <2>3
<1> QED
  BY <1>1, <1>2 DEF LockInv, LeaseInv

LEMMA MissBeatInv == LockInv /\ (\E c \in Caller : MissBeat(c)) => LockInv'
<1> SUFFICES ASSUME LockInv, NEW c \in Caller, MissBeat(c)
             PROVE  LockInv'
  OBVIOUS
<1>1. LockTypeOK' /\ BeatsAtWork'
  BY DEF MissBeat, LockInv, LockTypeOK, BeatsAtWork
<1>2. ASSUME NEW d \in Caller, NEW s \in Resource, task'[d] = Inside(s), missed'[d] < 2
      PROVE  /\ lease'[s] = d
             /\ left'[s] >= (IF d \in due' THEN 2 ELSE 3) - missed'[d]
  <2>1. CASE d = c
    BY <1>2, <2>1 DEF MissBeat, LockInv, LockTypeOK, LeaseInv
  <2>2. CASE d # c
    BY <1>2, <2>2 DEF MissBeat, LockInv, LockTypeOK, LeaseInv
  <2> QED
    BY <2>1, <2>2
<1> QED
  BY <1>1, <1>2 DEF LockInv, LeaseInv

LEMMA TickInv == LockInv /\ Tick => LockInv'
<1> SUFFICES ASSUME LockInv, Tick
             PROVE  LockInv'
  OBVIOUS
<1>1. LockTypeOK'
  BY DEF Tick, LockInv, LockTypeOK, BeatsPerTtl
<1>2. BeatsAtWork'
  BY DEF Tick, BeatsAtWork
<1>3. ASSUME NEW d \in Caller, NEW s \in Resource, task'[d] = Inside(s), missed'[d] < 2
      PROVE  /\ lease'[s] = d
             /\ left'[s] >= (IF d \in due' THEN 2 ELSE 3) - missed'[d]
  <2>1. lease[s] = d /\ left[s] >= 3 - missed[d] /\ missed'[d] = missed[d]
    BY <1>3 DEF Tick, LockInv, LeaseInv
  <2>2. d \in due'
    BY <1>3, CallShapes DEF Tick
  <2>3. missed[d] \in Nat /\ left[s] \in 0..BeatsPerTtl
    BY DEF LockInv, LockTypeOK
  <2> QED
    BY <1>3, <2>1, <2>2, <2>3 DEF Tick, BeatsPerTtl
<1> QED
  BY <1>1, <1>2, <1>3 DEF LockInv, LeaseInv

LEMMA ReleaseInv == LockInv /\ (\E c \in Caller, r \in Resource : Release(c, r)) => LockInv'
<1> SUFFICES ASSUME LockInv, NEW c \in Caller, NEW r \in Resource, Release(c, r)
             PROVE  LockInv'
  OBVIOUS
<1>1. LockTypeOK' /\ BeatsAtWork'
  BY CallShapes DEF Release, Released, LockInv, LockTypeOK, BeatsAtWork, BeatsPerTtl
<1>2. ASSUME NEW d \in Caller, NEW s \in Resource, task'[d] = Inside(s), missed'[d] < 2
      PROVE  /\ lease'[s] = d
             /\ left'[s] >= (IF d \in due' THEN 2 ELSE 3) - missed'[d]
  <2>1. d # c
    BY <1>2, InsideIsNot DEF Release, LockInv, LockTypeOK
  <2>2. task[d] = Inside(s) /\ missed'[d] = missed[d] /\ (d \in due' <=> d \in due)
    BY <1>2, <2>1 DEF Release, LockInv, LockTypeOK
  <2>3. lease[s] = d /\ left[s] >= (IF d \in due THEN 2 ELSE 3) - missed[d]
    BY <1>2, <2>2 DEF LockInv, LeaseInv
  <2>4. lease'[s] = d
    BY <2>1, <2>3 DEF Release, Released, LockInv, LockTypeOK
  <2>5. left'[s] = left[s]
    BY <2>4 DEF Release, LockInv, LockTypeOK
  <2> QED
    BY <2>2, <2>3, <2>4, <2>5
<1> QED
  BY <1>1, <1>2 DEF LockInv, LeaseInv

LEMMA LockCrashInv == LockInv /\ (\E callers \in SUBSET Caller : LockCrash(callers)) => LockInv'
<1> SUFFICES ASSUME LockInv, NEW callers \in SUBSET Caller, LockCrash(callers)
             PROVE  LockInv'
  OBVIOUS
<1>1. LockTypeOK' /\ BeatsAtWork'
  BY DEF LockCrash, LockInv, LockTypeOK, BeatsAtWork
<1>2. ASSUME NEW d \in Caller, NEW s \in Resource, task'[d] = Inside(s), missed'[d] < 2
      PROVE  /\ lease'[s] = d
             /\ left'[s] >= (IF d \in due' THEN 2 ELSE 3) - missed'[d]
  <2>1. d \notin callers
    BY <1>2, InsideIsNot DEF LockCrash
  <2> QED
    BY <1>2, <2>1 DEF LockCrash, LockInv, LockTypeOK, LeaseInv
<1> QED
  BY <1>1, <1>2 DEF LockInv, LeaseInv

LEMMA LockStepInv == LockInv /\ [LockNext]_lockVars => LockInv'
<1>1. LockInv /\ UNCHANGED lockVars => LockInv'
  BY DEF lockVars, LockInv, LockTypeOK, BeatsAtWork, LeaseInv
<1> QED
  BY <1>1, AskForInv, AcquireInv, GiveUpInv, RenewInv, MissBeatInv, TickInv,
     ReleaseInv, LockCrashInv
  DEF LockNext

LEMMA LockInvExcludes == LockInv => ExclusiveUntilTwoMisses
BY DEF LockInv, LockTypeOK, LeaseInv, ExclusiveUntilTwoMisses

(***************************************************************************)
(* The pool.                                                               *)
(***************************************************************************)

PoolInv == PoolTypeOK /\ SlotsAddUp

LEMMA HoldersFinite == IsFiniteSet(Holders) /\ Cardinality(Holders) \in Nat
BY UserAssumption, FS_Subset, FS_CardinalityType DEF Holders

\* Taking an element out of a sequence without repetitions.
LEMMA WithoutFacts ==
  ASSUME NEW S, NEW s \in Seq(S), NEW i \in DOMAIN s,
         \A j, k \in DOMAIN s : s[j] = s[k] => j = k
  PROVE  /\ Without(s, i) \in Seq(S)
         /\ {Without(s, i)[j] : j \in DOMAIN Without(s, i)} = {s[j] : j \in DOMAIN s} \ {s[i]}
         /\ \A j, k \in DOMAIN Without(s, i) : Without(s, i)[j] = Without(s, i)[k] => j = k
<1> DEFINE t == Without(s, i)
<1>1. Len(s) \in Nat /\ DOMAIN s = 1..Len(s) /\ i \in 1..Len(s)
  OBVIOUS
<1>2. DOMAIN t = 1..Len(s) - 1 /\ \A j \in 1..Len(s) - 1 : t[j] = IF j < i THEN s[j] ELSE s[j + 1]
  BY DEF Without
<1>3. t \in Seq(S)
  BY <1>1 DEF Without
<1>4. \A j, k \in DOMAIN t : t[j] = t[k] => j = k
  BY <1>1, <1>2
<1>5. ASSUME NEW x
      PROVE  x \in {t[j] : j \in DOMAIN t} <=> x \in {s[j] : j \in DOMAIN s} \ {s[i]}
  <2>1. ASSUME NEW j \in DOMAIN t
        PROVE  t[j] \in {s[k] : k \in DOMAIN s} \ {s[i]}
    BY <1>1, <1>2
  <2>2. ASSUME NEW j \in DOMAIN s, j # i
        PROVE  s[j] \in {t[k] : k \in DOMAIN t}
    <3>1. CASE j < i
      <4>1. j \in DOMAIN t /\ t[j] = s[j]
        BY <1>1, <1>2, <3>1
      <4> QED
        BY <4>1
    <3>2. CASE j > i
      <4>1. j - 1 \in DOMAIN t /\ t[j - 1] = s[j]
        BY <1>1, <1>2, <3>2
      <4> QED
        BY <4>1
    <3> QED
      BY <1>1, <2>2, <3>1, <3>2
  <2> QED
    BY <2>1, <2>2
<1> QED
  BY <1>3, <1>4, <1>5

LEMMA PoolInitInv == PoolInit => PoolInv
<1> SUFFICES ASSUME PoolInit PROVE PoolInv
  OBVIOUS
<1>1. Holders = {} /\ Waiters = {}
  BY DEF PoolInit, Holders, Waiters
<1>2. Cardinality(Holders) = 0
  BY <1>1, FS_EmptySet
<1>3. queue \in Seq(User) /\ DOMAIN queue = {} /\ Len(queue) = 0
  BY DEF PoolInit
<1> QED
  BY <1>1, <1>2, <1>3 DEF PoolInit, PoolInv, PoolTypeOK, SlotsAddUp, SlotState

\* A slot is taken or given back: the number of holders follows.
LEMMA MoreHolders ==
  ASSUME NEW u \in User, u \notin Holders, Holders' = Holders \cup {u}
  PROVE  Cardinality(Holders') = Cardinality(Holders) + 1
BY HoldersFinite, FS_AddElement

LEMMA FewerHolders ==
  ASSUME NEW u \in Holders, Holders' = Holders \ {u}
  PROVE  Cardinality(Holders') = Cardinality(Holders) - 1
BY HoldersFinite, FS_RemoveElement

LEMMA OtherHolder ==
  ASSUME NEW u \in Holders, NEW v \in User, v \notin Holders,
         Holders' = (Holders \ {u}) \cup {v}
  PROVE  Cardinality(Holders') = Cardinality(Holders)
<1>1. IsFiniteSet(Holders \ {u}) /\ Cardinality(Holders \ {u}) = Cardinality(Holders) - 1
  BY HoldersFinite, FS_RemoveElement
<1>2. Cardinality(Holders') = Cardinality(Holders \ {u}) + 1
  BY <1>1, FS_AddElement
<1> QED
  BY <1>1, <1>2, HoldersFinite

LEMMA TakeSlotInv == PoolInv /\ (\E u \in User : TakeSlot(u)) => PoolInv'
<1> SUFFICES ASSUME PoolInv, NEW u \in User, TakeSlot(u)
             PROVE  PoolInv'
  OBVIOUS
<1>t. slot \in [User -> SlotState] /\ queue \in Seq(User) /\ active \in 0..Limit
  BY DEF PoolInv, PoolTypeOK
<1>1. CASE active < Limit
  <2>1. /\ active' = active + 1
        /\ slot' = [slot EXCEPT ![u] = "opening"]
        /\ UNCHANGED <<queue, handed, signing>>
    BY <1>1 DEF TakeSlot
  <2>2. u \notin Holders /\ Holders' = Holders \cup {u} /\ Waiters' = Waiters
    BY <1>t, <2>1 DEF TakeSlot, Holders, Waiters
  <2>3. Cardinality(Holders') = Cardinality(Holders) + 1
    BY <2>2, MoreHolders
  <2>4. queue = <<>>
    BY <1>1 DEF PoolInv, SlotsAddUp
  <2>5. PoolTypeOK'
    BY <1>1, <1>t, <2>1 DEF PoolInv, PoolTypeOK, SlotState
  <2> QED
    BY <1>1, <1>t, <2>1, <2>2, <2>3, <2>4, <2>5, HoldersFinite
    DEF PoolInv, PoolTypeOK, SlotsAddUp
<1>2. CASE ~(active < Limit)
  <2>1. /\ queue' = Append(queue, u)
        /\ slot' = [slot EXCEPT ![u] = "waiting"]
        /\ UNCHANGED <<active, handed, signing>>
    BY <1>2 DEF TakeSlot
  <2>2. u \notin Waiters /\ Holders' = Holders /\ Waiters' = Waiters \cup {u}
    BY <1>t, <2>1 DEF TakeSlot, Holders, Waiters
  <2>3. active = Limit
    BY <1>2, <1>t
  <2>4. /\ Len(queue') = Len(queue) + 1
        /\ \A i \in DOMAIN queue : queue'[i] = queue[i]
        /\ queue'[Len(queue) + 1] = u
        /\ DOMAIN queue' = (DOMAIN queue) \cup {Len(queue) + 1}
        /\ Len(queue) + 1 \notin DOMAIN queue
    BY <1>t, <2>1
  <2>5. \A i \in DOMAIN queue : queue[i] # u
    BY <2>2 DEF PoolInv, SlotsAddUp
  <2>6. {queue'[i] : i \in DOMAIN queue'} = Waiters'
    BY <2>2, <2>4 DEF PoolInv, SlotsAddUp
  <2>7. \A i, j \in DOMAIN queue' : queue'[i] = queue'[j] => i = j
    BY <2>4, <2>5 DEF PoolInv, SlotsAddUp
  <2>8. PoolTypeOK'
    BY <1>t, <2>1 DEF PoolInv, PoolTypeOK, SlotState
  <2>9. Cardinality(Holders') = Cardinality(Holders)
    BY <2>2
  <2> QED
    BY <1>t, <2>1, <2>3, <2>6, <2>7, <2>8, <2>9 DEF PoolInv, SlotsAddUp
<1> QED
  BY <1>1, <1>2

LEMMA WaitTimeoutInv == PoolInv /\ (\E u \in User : WaitTimeout(u)) => PoolInv'
<1> SUFFICES ASSUME PoolInv, NEW u \in User, WaitTimeout(u)
             PROVE  PoolInv'
  OBVIOUS
<1>t. slot \in [User -> SlotState] /\ queue \in Seq(User) /\ active \in 0..Limit
  BY DEF PoolInv, PoolTypeOK
<1>1. PICK i \in DOMAIN queue : queue[i] = u /\ queue' = Without(queue, i)
  BY DEF WaitTimeout
<1>u. \A j, k \in DOMAIN queue : queue[j] = queue[k] => j = k
  BY DEF PoolInv, SlotsAddUp
<1>w. /\ Without(queue, i) \in Seq(User)
      /\ {Without(queue, i)[j] : j \in DOMAIN Without(queue, i)}
           = {queue[j] : j \in DOMAIN queue} \ {queue[i]}
      /\ \A j, k \in DOMAIN Without(queue, i) :
            Without(queue, i)[j] = Without(queue, i)[k] => j = k
  BY <1>t, <1>u, WithoutFacts
<1>2. /\ queue' \in Seq(User)
      /\ {queue'[j] : j \in DOMAIN queue'} = {queue[j] : j \in DOMAIN queue} \ {u}
      /\ \A j, k \in DOMAIN queue' : queue'[j] = queue'[k] => j = k
  BY <1>1, <1>w
<1>3. Holders' = Holders /\ Waiters' = Waiters \ {u}
  BY <1>t DEF WaitTimeout, Holders, Waiters
<1>4. PoolTypeOK'
  BY <1>t, <1>2 DEF WaitTimeout, PoolInv, PoolTypeOK, SlotState
<1>5. active = Limit
  BY <1>t, <1>1 DEF PoolInv, SlotsAddUp
<1>6. Cardinality(Holders') = Cardinality(Holders)
  BY <1>3
<1> QED
  BY <1>2, <1>3, <1>4, <1>5, <1>6 DEF WaitTimeout, PoolInv, SlotsAddUp

\* release, whoever calls it: the slot passes to the head of the line or back.
LEMMA GiveSlotBackInv ==
  ASSUME PoolInv, NEW u \in Holders, NEW s \in {"none", "closed"},
         GiveSlotBack(u, s), UNCHANGED <<handed, signing>>
  PROVE  PoolInv'
<1>t. slot \in [User -> SlotState] /\ queue \in Seq(User) /\ active \in 0..Limit /\ u \in User
  BY DEF PoolInv, PoolTypeOK, Holders
<1>1. CASE queue # <<>>
  <2> DEFINE v == Head(queue)
  <2>1. /\ slot' = [slot EXCEPT ![u] = s, ![v] = "opening"]
        /\ queue' = Tail(queue)
        /\ active' = active
    BY <1>1 DEF GiveSlotBack
  <2>2. /\ v = queue[1] /\ 1 \in DOMAIN queue /\ v \in User
        /\ queue' \in Seq(User)
        /\ DOMAIN queue' = 1..Len(queue) - 1
        /\ \A i \in DOMAIN queue' : queue'[i] = queue[i + 1] /\ i + 1 \in DOMAIN queue
        /\ \A i \in DOMAIN queue : i # 1 => i - 1 \in DOMAIN queue' /\ queue[i] = queue'[i - 1]
    BY <1>t, <1>1, <2>1
  <2>3. v \in Waiters
    BY <2>2 DEF PoolInv, SlotsAddUp
  <2>4. v # u /\ v \notin Holders
    BY <2>3 DEF Waiters, Holders
  <2>5. Holders' = (Holders \ {u}) \cup {v} /\ Waiters' = Waiters \ {v}
    BY <1>t, <2>1, <2>2, <2>4 DEF Holders, Waiters
  <2>6. Cardinality(Holders') = Cardinality(Holders)
    BY <2>2, <2>4, <2>5, OtherHolder
  <2>7. {queue'[i] : i \in DOMAIN queue'} = Waiters'
    <3>1. \A i \in DOMAIN queue' : queue'[i] \in Waiters'
      BY <2>2, <2>5 DEF PoolInv, SlotsAddUp
    <3>2. ASSUME NEW w \in Waiters'
          PROVE  \E i \in DOMAIN queue' : queue'[i] = w
      <4>1. PICK i \in DOMAIN queue : queue[i] = w
        BY <2>5 DEF PoolInv, SlotsAddUp
      <4>2. i # 1
        BY <2>2, <2>5, <4>1
      <4> QED
        BY <2>2, <4>1, <4>2
    <3> QED
      BY <3>1, <3>2
  <2>8. \A i, j \in DOMAIN queue' : queue'[i] = queue'[j] => i = j
    BY <1>t, <2>2 DEF PoolInv, SlotsAddUp
  <2>9. PoolTypeOK'
    BY <1>t, <2>1, <2>2 DEF PoolInv, PoolTypeOK, SlotState
  <2> QED
    BY <1>1, <2>1, <2>6, <2>7, <2>8, <2>9 DEF PoolInv, SlotsAddUp
<1>2. CASE queue = <<>>
  <2>1. /\ slot' = [slot EXCEPT ![u] = s]
        /\ queue' = queue
        /\ active' = active - 1
    BY <1>2 DEF GiveSlotBack
  <2>2. Holders' = Holders \ {u} /\ Waiters' = Waiters
    BY <1>t, <2>1 DEF Holders, Waiters
  <2>3. Cardinality(Holders') = Cardinality(Holders) - 1
    BY <2>2, FewerHolders
  <2>4. active' = Cardinality(Holders') + handed'
    BY <2>1, <2>3, HoldersFinite DEF PoolInv, PoolTypeOK, SlotsAddUp
  <2>5. IsFiniteSet(Holders') /\ Cardinality(Holders') \in Nat
    BY <2>2, HoldersFinite, FS_Subset, FS_CardinalityType
  <2>6. active' \in 0..Limit
    BY <1>t, <2>1, <2>4, <2>5 DEF PoolInv, PoolTypeOK
  <2>7. PoolTypeOK'
    BY <1>t, <2>1, <2>6 DEF PoolInv, PoolTypeOK, SlotState
  <2> QED
    BY <1>2, <2>1, <2>2, <2>4, <2>6, <2>7 DEF PoolInv, SlotsAddUp
<1> QED
  BY <1>1, <1>2

LEMMA OpenFailsInv == PoolInv /\ (\E u \in User : OpenFails(u)) => PoolInv'
BY GiveSlotBackInv DEF OpenFails, Holders

LEMMA CloseInv == PoolInv /\ (\E u \in User : Close(u)) => PoolInv'
BY GiveSlotBackInv DEF Close, Holders

LEMMA OpenDoneInv == PoolInv /\ (\E u \in User : OpenDone(u)) => PoolInv'
<1> SUFFICES ASSUME PoolInv, NEW u \in User, OpenDone(u)
             PROVE  PoolInv'
  OBVIOUS
<1>1. Holders' = Holders /\ Waiters' = Waiters
  BY DEF OpenDone, PoolInv, PoolTypeOK, Holders, Waiters
<1>2. PoolTypeOK'
  BY DEF OpenDone, PoolInv, PoolTypeOK, SlotState
<1> QED
  BY <1>1, <1>2 DEF OpenDone, PoolInv, SlotsAddUp

LEMMA CloseAgainInv == PoolInv /\ (\E u \in User : CloseAgain(u)) => PoolInv'
<1> SUFFICES ASSUME PoolInv, NEW u \in User, CloseAgain(u)
             PROVE  PoolInv'
  OBVIOUS
<1>1. Holders' = Holders /\ Waiters' = Waiters
  BY DEF CloseAgain, PoolInv, PoolTypeOK, Holders, Waiters
<1>2. PoolTypeOK'
  BY DEF CloseAgain, PoolInv, PoolTypeOK, SlotState
<1> QED
  BY <1>1, <1>2 DEF CloseAgain, PoolInv, SlotsAddUp

LEMMA HandOverInv == PoolInv /\ (\E u \in User : HandOver(u)) => PoolInv'
<1> SUFFICES ASSUME PoolInv, NEW u \in User, HandOver(u)
             PROVE  PoolInv'
  OBVIOUS
<1>t. slot \in [User -> SlotState] /\ handed \in 0..MaxLogins /\ signing \in 0..MaxLogins
  BY DEF PoolInv, PoolTypeOK
<1>1. u \in Holders /\ Holders' = Holders \ {u} /\ Waiters' = Waiters
  BY <1>t DEF HandOver, Holders, Waiters
<1>2. Cardinality(Holders') = Cardinality(Holders) - 1
  BY <1>1, FewerHolders
<1>3. PoolTypeOK'
  BY <1>t DEF HandOver, PoolInv, PoolTypeOK, SlotState
<1>4. active' = Cardinality(Holders') + handed'
  BY <1>t, <1>2, HoldersFinite DEF HandOver, PoolInv, SlotsAddUp
<1> QED
  BY <1>1, <1>3, <1>4 DEF HandOver, PoolInv, SlotsAddUp

LEMMA LoginEndsInv == PoolInv /\ LoginEnds => PoolInv'
<1> SUFFICES ASSUME PoolInv, LoginEnds
             PROVE  PoolInv'
  OBVIOUS
<1>1. Holders' = Holders /\ Waiters' = Waiters
  BY DEF LoginEnds, Holders, Waiters
<1> QED
  BY <1>1 DEF LoginEnds, PoolInv, PoolTypeOK, SlotsAddUp

LEMMA PoolCrashInv == PoolInv /\ PoolCrash => PoolInv'
<1> SUFFICES ASSUME PoolInv, PoolCrash
             PROVE  PoolInv'
  OBVIOUS
<1>1. Holders' = {} /\ Waiters' = {}
  BY DEF PoolCrash, Holders, Waiters
<1>2. Cardinality(Holders') = 0
  BY <1>1, FS_EmptySet
<1>3. queue' \in Seq(User) /\ DOMAIN queue' = {}
  BY DEF PoolCrash
<1> QED
  BY <1>1, <1>2, <1>3 DEF PoolCrash, PoolInv, PoolTypeOK, SlotsAddUp, SlotState

LEMMA PoolStepInv == PoolInv /\ [PoolNext]_poolVars => PoolInv'
<1>1. PoolInv /\ UNCHANGED poolVars => PoolInv'
  BY DEF poolVars, PoolInv, PoolTypeOK, SlotsAddUp, Holders, Waiters
<1> QED
  BY <1>1, TakeSlotInv, WaitTimeoutInv, OpenFailsInv, OpenDoneInv, CloseInv,
     CloseAgainInv, HandOverInv, LoginEndsInv, PoolCrashInv
  DEF PoolNext

(***************************************************************************)
(* Both together.                                                          *)
(***************************************************************************)

\* A step of the composition is a step of the lock or of the pool, or both.
LEMMA UseSteps == [UseNext]_useVars => [LockNext]_lockVars /\ [PoolNext]_poolVars
<1> SUFFICES ASSUME [UseNext]_useVars
             PROVE  [LockNext]_lockVars /\ [PoolNext]_poolVars
  OBVIOUS
<1>1. CASE UNCHANGED useVars
  BY <1>1 DEF useVars, lockVars, poolVars
<1>2. CASE \E c \in Caller : LockMove(c) \/ MissMove(c)
  BY <1>2 DEF LockMove, MissMove, LockNext
<1>3. CASE \E c \in Caller : PoolMove(c)
  BY <1>3, SameCallers DEF PoolMove, PoolNext
<1>4. CASE TimePasses
  BY <1>4 DEF TimePasses, LockNext
<1>5. CASE SignInEnds
  BY <1>5 DEF SignInEnds, PoolNext
<1>6. CASE ProcessStops
  BY <1>6 DEF ProcessStops, LockNext, PoolNext
<1> QED
  BY <1>1, <1>2, <1>3, <1>4, <1>5, <1>6 DEF UseNext

\* Types, for any number of callers, slots and resources.
THEOREM UseTypesAreKept == UseSpec => []UseTypeOK
<1>1. UseInit => LockInv /\ PoolInv
  BY LockInitInv, PoolInitInv DEF UseInit
<1>2. LockInv /\ PoolInv /\ [UseNext]_useVars => LockInv' /\ PoolInv'
  BY UseSteps, LockStepInv, PoolStepInv
<1>3. LockInv /\ PoolInv => UseTypeOK
  BY DEF LockInv, PoolInv, UseTypeOK
<1> QED
  BY <1>1, <1>2, <1>3, PTL DEF UseSpec

\* Two operations meet on one resource only after one of them missed two
\* renewals in a row, whatever crashes, gives up or is released late.
THEOREM LeaseExcludes == UseSpec => []ExclusiveUntilTwoMisses
<1>1. UseInit => LockInv
  BY LockInitInv DEF UseInit
<1>2. LockInv /\ [UseNext]_useVars => LockInv'
  BY UseSteps, LockStepInv
<1> QED
  BY <1>1, <1>2, LockInvExcludes, PTL DEF UseSpec

\* The semaphore's count is right and its line holds exactly the waiters.
THEOREM SemaphoreAddsUp == UseSpec => []SlotsAddUp
<1>1. UseInit => PoolInv
  BY PoolInitInv DEF UseInit
<1>2. PoolInv /\ [UseNext]_useVars => PoolInv'
  BY UseSteps, PoolStepInv
<1>3. PoolInv => SlotsAddUp
  BY DEF PoolInv
<1> QED
  BY <1>1, <1>2, <1>3, PTL DEF UseSpec

\* Nobody is given a slot past the line: a newcomer only when nobody waits, a
\* waiter only at its head (browser/limit.ts:66-68).
THEOREM LineIsKept == UseSpec => NobodyPassesTheLine
<1>1. UseInit => PoolInv
  BY PoolInitInv DEF UseInit
<1>2. PoolInv /\ [UseNext]_useVars => PoolInv'
  BY UseSteps, PoolStepInv
<1>3. PoolInv /\ [UseNext]_useVars =>
        [\A u \in User : slot[u] # "opening" /\ slot'[u] = "opening" =>
           \/ slot[u] = "none" /\ queue = <<>>
           \/ queue # <<>> /\ u = Head(queue)]_poolVars
  <2> SUFFICES ASSUME PoolInv, [PoolNext]_poolVars, ~UNCHANGED poolVars,
                      NEW u \in User, slot[u] # "opening", slot'[u] = "opening"
               PROVE  \/ slot[u] = "none" /\ queue = <<>>
                      \/ queue # <<>> /\ u = Head(queue)
    BY UseSteps
  <2>t. slot \in [User -> SlotState] /\ queue \in Seq(User) /\ active \in 0..Limit
    BY DEF PoolInv, PoolTypeOK
  <2>1. ASSUME NEW v \in User, TakeSlot(v)
        PROVE  slot[u] = "none" /\ queue = <<>>
    <3>1. u = v /\ active < Limit
      BY <2>t, <2>1 DEF TakeSlot
    <3> QED
      BY <2>t, <2>1, <3>1 DEF TakeSlot, PoolInv, SlotsAddUp
  <2>2. ASSUME NEW v \in User, NEW s \in {"none", "closed"}, GiveSlotBack(v, s)
        PROVE  queue # <<>> /\ u = Head(queue)
    BY <2>t, <2>2 DEF GiveSlotBack
  <2>3. ASSUME NEW v \in User, WaitTimeout(v) \/ OpenDone(v) \/ CloseAgain(v) \/ HandOver(v)
        PROVE  FALSE
    BY <2>t, <2>3 DEF WaitTimeout, OpenDone, CloseAgain, HandOver
  <2>4. ~LoginEnds /\ ~PoolCrash
    BY DEF LoginEnds, PoolCrash
  <2> QED
    BY <2>1, <2>2, <2>3, <2>4 DEF PoolNext, OpenFails, Close
<1> QED
  BY <1>1, <1>2, <1>3, PTL DEF UseSpec, NobodyPassesTheLine

(***************************************************************************)
(* The lease implements one owner at a time.  The owner of a resource is   *)
(* the holder of its key that is at work; LeaseInv says that a key runs    *)
(* out under its holder only when that is late, and that whoever works on  *)
(* a resource whose key is gone is late.                                   *)
(***************************************************************************)

OwnerOf   == [r \in Resource |-> IF \E c \in Caller : Holds(c, r) THEN lease[r] ELSE NoCaller]
WorkingOn == [r \in Resource |-> {c \in Caller : task[c] = Inside(r)}]
LateOnes  == {c \in Caller : missed[c] >= 2}

LEMMA Owners ==
  ASSUME LockInv, NEW r \in Resource
  PROVE  /\ \/ OwnerOf[r] = NoCaller
            \/ OwnerOf[r] = lease[r] /\ lease[r] \in Caller /\ Holds(lease[r], r)
         /\ OwnerOf[r] = NoCaller => \A c \in Caller : ~Holds(c, r)
         /\ OwnerOf[r] \in Caller \cup {NoCaller}
<1>1. \A c \in Caller : Holds(c, r) => lease[r] = c /\ c # NoCaller
  BY DEF Holds
<1>2. OwnerOf[r] = IF \E c \in Caller : Holds(c, r) THEN lease[r] ELSE NoCaller
  BY DEF OwnerOf
<1>3. CASE \E c \in Caller : Holds(c, r)
  BY <1>1, <1>2, <1>3
<1>4. CASE ~\E c \in Caller : Holds(c, r)
  BY <1>2, <1>4
<1> QED
  BY <1>3, <1>4

\* A step that changes neither keys nor tasks nor misses is a stutter.
LEMMA StutterImplements ==
  ASSUME UNCHANGED <<lease, missed>>, \A c \in Caller, r \in Resource :
           task'[c] = Inside(r) <=> task[c] = Inside(r)
  PROVE  UNCHANGED Exclusion!absVars
<1>1. \A c \in Caller, r \in Resource : Holds(c, r)' <=> Holds(c, r)
  BY DEF Holds
<1> QED
  BY <1>1 DEF Exclusion!absVars

LEMMA AcquireImplements ==
  ASSUME LockInv, NEW c \in Caller, NEW r \in Resource, Acquire(c, r)
  PROVE  Exclusion!Enter(c, r)
<1>t. lease \in [Resource -> Caller \cup {NoCaller}] /\ missed \in [Caller -> 0..MaxMissed]
      /\ DOMAIN task = Caller
  BY DEF LockInv, LockTypeOK
<1>1. /\ lease' = [lease EXCEPT ![r] = c] /\ task' = [task EXCEPT ![c] = Inside(r)]
      /\ missed' = [missed EXCEPT ![c] = 0] /\ lease[r] = NoCaller /\ task[c] = Waiting(r)
  BY DEF Acquire
<1>2. \A d \in Caller, s \in Resource :
        task'[d] = Inside(s) <=> task[d] = Inside(s) \/ (d = c /\ s = r)
  BY <1>t, <1>1, InsideIsNot
<1>3. OwnerOf[r] = NoCaller
  BY <1>t, <1>1 DEF OwnerOf, Holds
<1>4. WorkingOn[r] \subseteq LateOnes
  <2>1. ASSUME NEW d \in Caller, task[d] = Inside(r)  PROVE missed[d] >= 2
    BY <1>t, <1>1, <2>1 DEF LockInv, LeaseInv
  <2> QED
    BY <2>1 DEF WorkingOn, LateOnes
<1>5. OwnerOf' = [OwnerOf EXCEPT ![r] = c]
  <2>1. ASSUME NEW s \in Resource
        PROVE  OwnerOf'[s] = [OwnerOf EXCEPT ![r] = c][s]
    <3>1. CASE s = r
      <4>1. lease'[r] = c /\ task'[c] = Inside(r)
        BY <1>t, <1>1, <1>2
      <4> QED
        BY <3>1, <4>1 DEF OwnerOf, Holds
    <3>2. CASE s # r
      <4>1. lease'[s] = lease[s] /\ \A d \in Caller : task'[d] = Inside(s) <=> task[d] = Inside(s)
        BY <1>t, <1>1, <1>2, <3>2
      <4> QED
        BY <3>2, <4>1 DEF OwnerOf, Holds
    <3> QED
      BY <3>1, <3>2
  <2> QED
    BY <2>1 DEF OwnerOf
<1>6. WorkingOn' = [WorkingOn EXCEPT ![r] = @ \cup {c}]
  <2>1. ASSUME NEW s \in Resource
        PROVE  WorkingOn'[s] = IF s = r THEN WorkingOn[s] \cup {c} ELSE WorkingOn[s]
    BY <1>2 DEF WorkingOn
  <2> QED
    BY <2>1 DEF WorkingOn
<1>7. LateOnes' = LateOnes \ {c}
  BY <1>t, <1>1 DEF LateOnes
<1> QED
  BY <1>3, <1>4, <1>5, <1>6, <1>7 DEF Exclusion!Enter, OwnerOf, WorkingOn, LateOnes

LEMMA ReleaseImplements ==
  ASSUME LockInv, NEW c \in Caller, NEW r \in Resource, Release(c, r)
  PROVE  Exclusion!Leave(c, r)
<1>t. lease \in [Resource -> Caller \cup {NoCaller}] /\ missed \in [Caller -> 0..MaxMissed]
      /\ DOMAIN task = Caller
  BY DEF LockInv, LockTypeOK
<1>1. /\ lease' = IF lease[r] = c THEN [lease EXCEPT ![r] = NoCaller] ELSE lease
      /\ task' = [task EXCEPT ![c] = Idle]
      /\ missed' = [missed EXCEPT ![c] = 0] /\ task[c] = Inside(r)
  BY DEF Release, Released
<1>2. \A d \in Caller, s \in Resource :
        task'[d] = Inside(s) <=> task[d] = Inside(s) /\ d # c
  BY <1>t, <1>1, InsideIsNot
<1>3. c \in WorkingOn[r]
  BY <1>1 DEF WorkingOn
<1>4. OwnerOf' = [OwnerOf EXCEPT ![r] = IF @ = c THEN NoCaller ELSE @]
  <2>1. ASSUME NEW s \in Resource
        PROVE  OwnerOf'[s] = IF s = r /\ OwnerOf[s] = c THEN NoCaller ELSE OwnerOf[s]
    <3>1. CASE s # r
      <4>1. lease'[s] = lease[s]
        BY <1>t, <1>1, <3>1
      <4>2. task[c] # Inside(s)
        BY <1>1, <3>1, InsideIsNot
      <4>3. \A d \in Caller : Holds(d, s)' <=> Holds(d, s)
        BY <1>2, <4>1, <4>2 DEF Holds
      <4> QED
        BY <3>1, <4>1, <4>3 DEF OwnerOf
    <3>2. CASE s = r /\ lease[r] = c
      <4>1. OwnerOf[r] = c
        BY <1>1, <3>2 DEF OwnerOf, Holds
      <4>2. lease'[r] = NoCaller
        BY <1>t, <1>1, <3>2
      <4> QED
        BY <3>2, <4>1, <4>2 DEF OwnerOf, Holds
    <3>3. CASE s = r /\ lease[r] # c
      <4>1. lease'[r] = lease[r]
        BY <1>1, <3>3
      <4>2. \A d \in Caller : Holds(d, r)' <=> Holds(d, r)
        BY <1>2, <3>3, <4>1 DEF Holds
      <4>3. OwnerOf'[r] = OwnerOf[r]
        BY <4>1, <4>2 DEF OwnerOf
      <4>4. OwnerOf[r] # c
        BY <3>3, Owners
      <4> QED
        BY <3>3, <4>3, <4>4
    <3> QED
      BY <3>1, <3>2, <3>3
  <2> QED
    BY <2>1 DEF OwnerOf
<1>5. WorkingOn' = [WorkingOn EXCEPT ![r] = @ \ {c}]
  <2>1. ASSUME NEW s \in Resource
        PROVE  WorkingOn'[s] = IF s = r THEN WorkingOn[s] \ {c} ELSE WorkingOn[s]
    <3>1. s # r => task[c] # Inside(s)
      BY <1>1, InsideIsNot
    <3> QED
      BY <1>2, <3>1 DEF WorkingOn
  <2> QED
    BY <2>1 DEF WorkingOn
<1>6. LateOnes' = LateOnes \ {c}
  BY <1>t, <1>1 DEF LateOnes
<1> QED
  BY <1>3, <1>4, <1>5, <1>6 DEF Exclusion!Leave, OwnerOf, WorkingOn, LateOnes

LEMMA BeatsImplement ==
  ASSUME LockInv, NEW c \in Caller, MissBeat(c) \/ \E r \in Resource : Renew(c, r)
  PROVE  Exclusion!Delay(c)
<1>t. missed \in [Caller -> 0..MaxMissed]
  BY DEF LockInv, LockTypeOK
<1>1. UNCHANGED <<lease, task>>
      /\ (missed' = missed \/ \E n \in 0..MaxMissed : missed' = [missed EXCEPT ![c] = n])
  BY <1>t DEF MissBeat, Renew
<1>2. UNCHANGED <<OwnerOf, WorkingOn>>
  BY <1>1 DEF OwnerOf, WorkingOn, Holds
<1>3. \A d \in Caller \ {c} : missed'[d] = missed[d]
  BY <1>t, <1>1
<1>4. LateOnes' = LateOnes \cup {c} \/ LateOnes' = LateOnes \ {c}
  BY <1>3 DEF LateOnes
<1> QED
  BY <1>2, <1>4 DEF Exclusion!Delay, OwnerOf, WorkingOn, LateOnes

LEMMA TickImplements ==
  ASSUME LockInv, Tick
  PROVE  Exclusion!Lapse
<1>t. /\ lease \in [Resource -> Caller \cup {NoCaller}] /\ missed \in [Caller -> 0..MaxMissed]
      /\ left \in [Resource -> 0..BeatsPerTtl]
  BY DEF LockInv, LockTypeOK
<1>1. /\ lease' = [r \in Resource |-> IF left[r] > 1 THEN lease[r] ELSE NoCaller]
      /\ UNCHANGED <<task, missed>> /\ due = {}
  BY DEF Tick
<1>2. UNCHANGED <<WorkingOn, LateOnes>>
  BY <1>1 DEF WorkingOn, LateOnes
<1>3. ASSUME NEW r \in Resource
      PROVE  \/ OwnerOf'[r] = OwnerOf[r]
             \/ OwnerOf[r] \in LateOnes /\ OwnerOf'[r] = NoCaller
  <2>1. CASE left[r] > 1
    <3>1. lease'[r] = lease[r]
      BY <1>1, <2>1
    <3> QED
      BY <1>1, <3>1 DEF OwnerOf, Holds
  <2>2. CASE ~(left[r] > 1)
    <3>1. OwnerOf'[r] = NoCaller
      BY <1>1, <2>2 DEF OwnerOf
    <3>2. CASE OwnerOf[r] = NoCaller
      BY <3>1, <3>2
    <3>3. CASE OwnerOf[r] # NoCaller
      <4>1. OwnerOf[r] = lease[r] /\ lease[r] \in Caller /\ task[lease[r]] = Inside(r)
        BY <3>3, Owners DEF Holds
      <4>2. missed[lease[r]] >= 2
        BY <1>t, <1>1, <2>2, <4>1 DEF LockInv, LeaseInv, BeatsPerTtl
      <4> QED
        BY <3>1, <4>1, <4>2 DEF LateOnes
    <3> QED
      BY <3>2, <3>3
  <2> QED
    BY <2>1, <2>2
<1>4. OwnerOf' \in [Resource -> Caller \cup {NoCaller}]
  <2>1. \A r \in Resource : OwnerOf'[r] \in Caller \cup {NoCaller}
    BY <1>3, Owners
  <2> QED
    BY <2>1 DEF OwnerOf
<1> QED
  BY <1>2, <1>3, <1>4 DEF Exclusion!Lapse, OwnerOf, WorkingOn, LateOnes

LEMMA StopImplements ==
  ASSUME LockCrash(Caller)
  PROVE  Exclusion!AbsCrash
<1>1. \A c \in Caller : task'[c] = Idle /\ missed'[c] = 0
  BY DEF LockCrash
<1>2. \A c \in Caller, r \in Resource : task'[c] # Inside(r)
  BY <1>1, InsideIsNot
<1> QED
  BY <1>1, <1>2 DEF Exclusion!AbsCrash, Holds

\* withUserResourceLock implements one owner at a time, who may be replaced
\* while it works only when it is late (lib/locks.ts:81-90), for any callers,
\* resources and numbers of missed heartbeats.
THEOREM LeaseImplementsExclusion == UseSpec => ImplementsExclusion
<1>1. UseInit => LockInv
  BY LockInitInv DEF UseInit
<1>2. LockInv /\ [UseNext]_useVars => LockInv'
  BY UseSteps, LockStepInv
<1>3. UseInit => Exclusion!AbsInit
  <2> SUFFICES ASSUME LockInit  PROVE Exclusion!AbsInit
    BY DEF UseInit
  <2>1. \A c \in Caller, r \in Resource : task[c] # Inside(r)
    BY InsideIsNot DEF LockInit
  <2> QED
    BY <2>1 DEF LockInit, Exclusion!AbsInit, Holds
<1>4. LockInv /\ [UseNext]_useVars => [Exclusion!AbsNext]_(Exclusion!absVars)
  <2> SUFFICES ASSUME LockInv, [UseNext]_useVars
               PROVE  Exclusion!AbsNext \/ UNCHANGED Exclusion!absVars
    OBVIOUS
  <2>1. CASE UNCHANGED lockVars
    BY <2>1, StutterImplements DEF lockVars
  <2>2. ASSUME NEW c \in Caller, LockMove(c)
        PROVE  Exclusion!AbsNext \/ UNCHANGED Exclusion!absVars
    <3>1. PICK r \in Resource :
            AskFor(c, r) \/ Acquire(c, r) \/ GiveUp(c, r) \/ Renew(c, r) \/ Release(c, r)
      BY <2>2 DEF LockMove
    <3>2. CASE AskFor(c, r) \/ GiveUp(c, r)
      <4>1. UNCHANGED <<lease, missed>>
            /\ (task[c] = Idle \/ task[c] = Waiting(r))
            /\ (task' = [task EXCEPT ![c] = Idle] \/ task' = [task EXCEPT ![c] = Waiting(r)])
        BY <3>2 DEF AskFor, GiveUp
      <4>2. DOMAIN task = Caller
        BY DEF LockInv, LockTypeOK
      <4>3. \A d \in Caller, s \in Resource : task'[d] = Inside(s) <=> task[d] = Inside(s)
        BY <4>1, <4>2, InsideIsNot
      <4> QED
        BY <4>1, <4>3, StutterImplements
    <3>3. CASE Acquire(c, r)
      BY <3>3, AcquireImplements DEF Exclusion!AbsNext
    <3>4. CASE Release(c, r)
      BY <3>4, ReleaseImplements DEF Exclusion!AbsNext
    <3>5. CASE Renew(c, r)
      BY <3>5, BeatsImplement DEF Exclusion!AbsNext
    <3> QED
      BY <3>1, <3>2, <3>3, <3>4, <3>5
  <2>3. ASSUME NEW c \in Caller, MissMove(c)
        PROVE  Exclusion!AbsNext
    BY <2>3, BeatsImplement DEF MissMove, Exclusion!AbsNext
  <2>4. CASE TimePasses
    BY <2>4, TickImplements DEF TimePasses, Exclusion!AbsNext
  <2>5. CASE ProcessStops
    BY <2>5, StopImplements DEF ProcessStops, Exclusion!AbsNext
  <2> QED
    BY <2>1, <2>2, <2>3, <2>4, <2>5 DEF UseNext, PoolMove, SignInEnds, useVars, lockVars
<1> QED
  BY <1>1, <1>2, <1>3, <1>4, PTL DEF UseSpec, ImplementsExclusion, Exclusion!AbsSpec
=============================================================================
