---------------------------- MODULE BrowserPool ----------------------------
(***************************************************************************)
(* createSemaphore (browser/limit.ts) and the sessions that use it         *)
(* (browser/session.ts): every browser of a process takes a slot, whoever  *)
(* finds none waits in line with a deadline, a released slot goes to the   *)
(* head of the line.                                                       *)
(***************************************************************************)
EXTENDS Integers, Sequences, FiniteSets

CONSTANTS User,       \* whoever opens browsers in this process
          Limit,      \* BROWSER_MAX_CONCURRENT_SESSIONS
          MaxLogins   \* bound: interactive sign-ins handed over

ASSUME UserAssumption == IsFiniteSet(User)
ASSUME LimitAssumption == Limit \in Nat \ {0} /\ MaxLogins \in Nat

VARIABLES active,     \* slots in use, as the semaphore counts them
          queue,      \* the waiters in order of arrival
          slot,       \* user -> where its session stands
          handed,     \* slots of sessions handed over for an interactive login
          signing     \* handed-over browsers that still run

poolVars == <<active, queue, slot, handed, signing>>

\* "opening": has a slot, no session yet; "closed": close() ran, the caller
\* may call it again.
SlotState == {"none", "waiting", "opening", "open", "closed"}

PoolTypeOK ==
    /\ active \in 0..Limit
    /\ queue \in Seq(User)
    /\ slot \in [User -> SlotState]
    /\ handed \in 0..MaxLogins
    /\ signing \in 0..MaxLogins

PoolInit ==
    /\ active = 0
    /\ queue = <<>>
    /\ slot = [u \in User |-> "none"]
    /\ handed = 0
    /\ signing = 0

Holders == {u \in User : slot[u] \in {"opening", "open"}}
Waiters == {u \in User : slot[u] = "waiting"}

\* acquire: a free slot, or a place at the end of the line.
TakeSlot(u) ==
    /\ slot[u] = "none"
    /\ IF active < Limit
         THEN /\ active' = active + 1
              /\ slot' = [slot EXCEPT ![u] = "opening"]
              /\ UNCHANGED queue
         ELSE /\ queue' = Append(queue, u)
              /\ slot' = [slot EXCEPT ![u] = "waiting"]
              /\ UNCHANGED active
    /\ UNCHANGED <<handed, signing>>

\* Mutant: the rejected waiter stays in the line.
TimeoutStaysInLine(u) ==
    /\ slot[u] = "waiting"
    /\ slot' = [slot EXCEPT ![u] = "none"]
    /\ UNCHANGED <<active, queue, handed, signing>>

\* Mutant: no timer.
WaitForEver(u) == slot[u] = "waiting" /\ FALSE /\ UNCHANGED poolVars

\* queue.splice(i, 1).
Without(s, i) == [j \in 1..Len(s) - 1 |-> IF j < i THEN s[j] ELSE s[j + 1]]

\* A waiter's timer: out of the line first, then the error.
WaitTimeout(u) ==
    /\ slot[u] = "waiting"
    /\ \E i \in DOMAIN queue : queue[i] = u /\ queue' = Without(queue, i)
    /\ slot' = [slot EXCEPT ![u] = "none"]
    /\ UNCHANGED <<active, handed, signing>>

\* Mutant: decrement and let the waiter look again.
GiveSlotBackToAnyone(u, s) ==
    /\ active' = active - 1
    /\ slot' = [slot EXCEPT ![u] = s]
    /\ UNCHANGED queue

\* release by u, which goes to state s: straight to the next waiter, whose
\* timer is cleared, or back to the pool.
GiveSlotBack(u, s) ==
    IF queue # <<>>
      THEN /\ slot' = [slot EXCEPT ![u] = s, ![Head(queue)] = "opening"]
           /\ queue' = Tail(queue)
           /\ UNCHANGED active
      ELSE /\ active' = active - 1
           /\ slot' = [slot EXCEPT ![u] = s]
           /\ UNCHANGED queue

\* No browser, none that can be reached, or no page in it.
OpenFails(u) ==
    /\ slot[u] = "opening"
    /\ GiveSlotBack(u, "none")
    /\ UNCHANGED <<handed, signing>>

OpenDone(u) ==
    /\ slot[u] = "opening"
    /\ slot' = [slot EXCEPT ![u] = "open"]
    /\ UNCHANGED <<active, queue, handed, signing>>

\* session.close(): the browser stops or fails to; the slot is released.
Close(u) ==
    /\ slot[u] = "open"
    /\ GiveSlotBack(u, "closed")
    /\ UNCHANGED <<handed, signing>>

\* Mutant: neither close() nor release() remembers that it ran.
CloseAgainReleases(u) ==
    /\ slot[u] = "closed"
    /\ GiveSlotBack(u, "none")
    /\ UNCHANGED <<handed, signing>>

\* A second close() finds the flag set and does nothing; or there is none.
CloseAgain(u) ==
    /\ slot[u] = "closed"
    /\ slot' = [slot EXCEPT ![u] = "none"]
    /\ UNCHANGED <<active, queue, handed, signing>>

\* beginInteractiveLogin: the connection is dropped, the session goes on for
\* its person, and nobody keeps the object whose close() has the slot.
HandOver(u) ==
    /\ slot[u] = "open"
    /\ handed < MaxLogins /\ signing < MaxLogins
    /\ handed' = handed + 1
    /\ signing' = signing + 1
    /\ slot' = [slot EXCEPT ![u] = "none"]
    /\ UNCHANGED <<active, queue>>

\* completeInteractiveLogin stops the browser by its id, or the provider ends
\* it after its minutes; neither knows of a slot.
LoginEnds ==
    /\ signing > 0
    /\ signing' = signing - 1
    /\ UNCHANGED <<active, queue, slot, handed>>

\* The process stops, and its semaphore with it.
PoolCrash ==
    /\ active' = 0
    /\ queue' = <<>>
    /\ slot' = [u \in User |-> "none"]
    /\ handed' = 0
    /\ UNCHANGED signing

PoolNext ==
    \/ \E u \in User :
          \/ TakeSlot(u) \/ WaitTimeout(u)
          \/ OpenFails(u) \/ OpenDone(u)
          \/ Close(u) \/ CloseAgain(u) \/ HandOver(u)
    \/ LoginEnds
    \/ PoolCrash

PoolSpec == PoolInit /\ [][PoolNext]_poolVars

(***************************************************************************)
(* Properties.                                                             *)
(***************************************************************************)

\* The semaphore's number is the number of slots somebody has, never more
\* than the limit; the line holds exactly the waiters, each once, and only
\* while every slot is taken: a slot is neither lost, nor given out twice,
\* nor idle beside a waiter (browser/limit.ts:60-76, 95-99).
SlotsAddUp ==
    /\ active = Cardinality(Holders) + handed
    /\ active <= Limit
    /\ {queue[i] : i \in DOMAIN queue} = Waiters
    /\ \A i, j \in DOMAIN queue : queue[i] = queue[j] => i = j
    /\ queue # <<>> => active = Limit

\* Nobody passes a waiter: a newcomer gets a slot at once only when the line
\* is empty, and a waiter gets one only as the head of the line ("the queue
\* would never drain under load", browser/limit.ts:66-68).
NobodyPassesTheLine ==
    [][\A u \in User : slot[u] # "opening" /\ slot'[u] = "opening" =>
          \/ slot[u] = "none" /\ queue = <<>>
          \/ queue # <<>> /\ u = Head(queue)]_poolVars

\* A slot in use is held by a session that will release it, or by a sign-in
\* whose browser still runs: none outlives its browser (session.ts:156-158
\* frees a slot even when stopping fails, because holding it "would make one
\* stuck session permanently shrink the pool").
NoSlotOutlivesItsBrowser == active <= Cardinality(Holders) + signing
=============================================================================
