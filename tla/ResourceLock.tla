---------------------------- MODULE ResourceLock ----------------------------
(***************************************************************************)
(* withUserResourceLock (lib/locks.ts): a key in Redis holds the token of  *)
(* the one caller that may drive a user's resource.  The key expires       *)
(* unless its holder's heartbeat renews it; a holder whose renewals failed *)
(* is not told.  Time is counted in heartbeats.                            *)
(***************************************************************************)
EXTENDS Integers

CONSTANTS Caller,      \* one call at a time each: jobs of workers and runners
          Resource,    \* the keys huntly:lock:<user>:<resource>
          NoCaller,    \* the key does not exist
          MaxMissed    \* bound: consecutive heartbeats that do not arrive

ASSUME MaxMissedAssumption == MaxMissed \in Nat
ASSUME NoCallerAssumption == NoCaller \notin Caller

VARIABLES lease,   \* resource -> the caller whose token it holds
          left,    \* resource -> heartbeats until the key expires
          task,    \* caller -> where its call stands
          missed,  \* caller -> consecutive renewals that did not arrive
          due      \* callers whose heartbeat has fired and is under way

lockVars == <<lease, left, task, missed, due>>

\* Mutant: the interval is half of the time to live.
TwoBeatsPerTtl == 2

\* The interval of the heartbeat is a third of the time to live.
BeatsPerTtl == 3

Idle == [pc |-> "idle"]
Waiting(r) == [pc |-> "waiting", on |-> r]
Inside(r) == [pc |-> "inside", on |-> r]

LockTypeOK ==
    /\ lease \in [Resource -> Caller \cup {NoCaller}]
    /\ left \in [Resource -> 0..BeatsPerTtl]
    /\ task \in [Caller -> {Idle} \cup {Waiting(r) : r \in Resource}
                                  \cup {Inside(r) : r \in Resource}]
    /\ missed \in [Caller -> 0..MaxMissed]
    /\ due \subseteq Caller

LockInit ==
    /\ lease = [r \in Resource |-> NoCaller]
    /\ left = [r \in Resource |-> 0]
    /\ task = [c \in Caller |-> Idle]
    /\ missed = [c \in Caller |-> 0]
    /\ due = {}

Holds(c, r) == lease[r] = c /\ task[c] = Inside(r)

AskFor(c, r) ==
    /\ task[c] = Idle
    /\ task' = [task EXCEPT ![c] = Waiting(r)]
    /\ UNCHANGED <<lease, left, missed, due>>

\* SET key token PX ttl NX, and the start of the heartbeat.
Acquire(c, r) ==
    /\ task[c] = Waiting(r)
    /\ lease[r] = NoCaller
    /\ lease' = [lease EXCEPT ![r] = c]
    /\ left' = [left EXCEPT ![r] = BeatsPerTtl]
    /\ task' = [task EXCEPT ![c] = Inside(r)]
    /\ missed' = [missed EXCEPT ![c] = 0]
    /\ UNCHANGED due

\* LockBusyError: an attempt failed and waitMs is over.
GiveUp(c, r) ==
    /\ task[c] = Waiting(r)
    /\ lease[r] # NoCaller
    /\ task' = [task EXCEPT ![c] = Idle]
    /\ UNCHANGED <<lease, left, missed, due>>

\* RENEW_IF_MINE; its answer is not looked at.
Renew(c, r) ==
    /\ c \in due
    /\ task[c] = Inside(r)
    /\ due' = due \ {c}
    /\ IF lease[r] = c
         THEN /\ left' = [left EXCEPT ![r] = BeatsPerTtl]
              /\ missed' = [missed EXCEPT ![c] = 0]
         ELSE UNCHANGED <<left, missed>>
    /\ UNCHANGED <<lease, task>>

\* The renewal fails; the heartbeat's catch ignores it.
MissBeat(c) ==
    /\ c \in due
    /\ missed[c] < MaxMissed
    /\ missed' = [missed EXCEPT ![c] = @ + 1]
    /\ due' = due \ {c}
    /\ UNCHANGED <<lease, left, task>>

\* Mutant: SET without PX.
TickWithoutExpiry ==
    /\ due = {}
    /\ \E r \in Resource : lease[r] # NoCaller
    /\ due' = {c \in Caller : task[c].pc = "inside"}
    /\ UNCHANGED <<lease, left, task, missed>>

\* One interval passes: keys grow older and expire, and every holder's timer
\* fires.  A heartbeat takes less than an interval to arrive or to fail.
Tick ==
    /\ due = {}
    /\ \E r \in Resource : lease[r] # NoCaller
    /\ left' = [r \in Resource |-> IF left[r] > 0 THEN left[r] - 1 ELSE 0]
    /\ lease' = [r \in Resource |-> IF left[r] > 1 THEN lease[r] ELSE NoCaller]
    /\ due' = {c \in Caller : task[c].pc = "inside"}
    /\ UNCHANGED <<task, missed>>

\* Mutant: DEL without the comparison of tokens.
ReleasedBlindly(c, r) == [lease EXCEPT ![r] = NoCaller]

\* RELEASE_IF_MINE: the key, when this call's token is still in it.
Released(c, r) ==
    IF lease[r] = c THEN [lease EXCEPT ![r] = NoCaller] ELSE lease

\* The operation has ended, in whatever way: the finally clause.
Release(c, r) ==
    /\ task[c] = Inside(r)
    /\ lease' = Released(c, r)
    /\ left' = [left EXCEPT ![r] = IF lease'[r] = NoCaller THEN 0 ELSE @]
    /\ task' = [task EXCEPT ![c] = Idle]
    /\ missed' = [missed EXCEPT ![c] = 0]
    /\ due' = due \ {c}

\* The processes of these callers stop: what they held stays until it expires.
LockCrash(callers) ==
    /\ task' = [c \in Caller |-> IF c \in callers THEN Idle ELSE task[c]]
    /\ missed' = [c \in Caller |-> IF c \in callers THEN 0 ELSE missed[c]]
    /\ due' = due \ callers
    /\ UNCHANGED <<lease, left>>

LockNext ==
    \/ \E c \in Caller :
          \/ MissBeat(c)
          \/ \E r \in Resource :
                AskFor(c, r) \/ Acquire(c, r) \/ GiveUp(c, r) \/ Renew(c, r) \/ Release(c, r)
    \/ \E callers \in SUBSET Caller : LockCrash(callers)
    \/ Tick

LockSpec == LockInit /\ [][LockNext]_lockVars

(***************************************************************************)
(* Properties.                                                             *)
(***************************************************************************)

\* Two operations work on one resource only if one of them has missed two
\* renewals in a row: one failed heartbeat, or a late release by a holder
\* that lost its lease, never lets a second one in (lib/locks.ts:81-90).
ExclusiveUntilTwoMisses ==
    \A c, d \in Caller, r \in Resource :
        c # d /\ task[c] = Inside(r) /\ task[d] = Inside(r)
          => missed[c] >= 2 \/ missed[d] >= 2

\* What keeps it so: a holder with fewer misses owns the key, and the key
\* has the life that the missed renewals leave it.
LeaseInv ==
    \A c \in Caller, r \in Resource :
        task[c] = Inside(r) /\ missed[c] < 2 =>
            /\ lease[r] = c
            /\ left[r] >= (IF c \in due THEN 2 ELSE 3) - missed[c]

\* A holder that died frees the resource: its key expires (lib/locks.ts:29-34,
\* "it is how long a dead holder blocks everyone else").
DeadHolderFreesResource ==
    \A c \in Caller, r \in Resource :
        (lease[r] = c /\ task[c] # Inside(r)) ~> (lease[r] # c \/ task[c] = Inside(r))
=============================================================================
