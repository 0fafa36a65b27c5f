----------------------------- MODULE BrowserUse -----------------------------
(***************************************************************************)
(* Who opens browsers: the jobs that hold a user's resource (runner.ts,    *)
(* queues/discover.ts) and the callers that take no such lock, interactive *)
(* sign-in and applications (browser/profiles.ts, hunt/apply.ts).  The     *)
(* lock is taken first, the slot inside it.                                *)
(***************************************************************************)
EXTENDS ResourceLock, BrowserPool

ASSUME SameCallers == User = Caller

useVars == <<lockVars, poolVars>>

UseInit == LockInit /\ PoolInit

\* withUserResourceLock returns when its operation has closed its sessions.
MayRelease(c) == slot[c] = "none"

LockMove(c) ==
    /\ \E r \in Resource :
          \/ slot[c] = "none" /\ AskFor(c, r)
          \/ Acquire(c, r)
          \/ GiveUp(c, r)
          \/ Renew(c, r)
          \/ MayRelease(c) /\ Release(c, r)
    /\ UNCHANGED poolVars

MissMove(c) == MissBeat(c) /\ UNCHANGED poolVars

PoolMove(u) ==
    /\ \/ task[u].pc # "waiting" /\ TakeSlot(u)
       \/ WaitTimeout(u)
       \/ OpenFails(u)
       \/ OpenDone(u)
       \/ Close(u)
       \/ CloseAgain(u)
       \/ task[u] = Idle /\ HandOver(u)
    /\ UNCHANGED lockVars

TimePasses == Tick /\ UNCHANGED poolVars

SignInEnds == LoginEnds /\ UNCHANGED lockVars

\* The one process in which all of them run stops.
ProcessStops == LockCrash(Caller) /\ PoolCrash

UseNext ==
    \/ \E c \in Caller : LockMove(c) \/ MissMove(c) \/ PoolMove(c)
    \/ TimePasses
    \/ SignInEnds
    \/ ProcessStops

UseSpec == UseInit /\ [][UseNext]_useVars

\* What the callers' timers and the pool bring about by themselves.
LockAnswers(c) ==
    /\ \E r \in Resource : Acquire(c, r) \/ GiveUp(c, r) \/ Renew(c, r)
    /\ UNCHANGED poolVars
PoolAnswers(c) ==
    /\ WaitTimeout(c) \/ OpenFails(c) \/ OpenDone(c) \/ Close(c) \/ CloseAgain(c)
    /\ UNCHANGED lockVars
OperationEnds(c) ==
    /\ \E r \in Resource : MayRelease(c) /\ Release(c, r)
    /\ UNCHANGED poolVars

\* Timers fire (poll, deadline, heartbeat, wait of the semaphore), a started
\* browser comes up or fails, and an operation ends and closes what it opened.
UseFairness ==
    /\ WF_useVars(TimePasses)
    /\ \A c \in Caller :
          /\ WF_useVars(LockAnswers(c))
          /\ WF_useVars(PoolAnswers(c))
          /\ SF_useVars(OperationEnds(c))

UseFairSpec == UseSpec /\ UseFairness

(***************************************************************************)
(* Properties.                                                             *)
(***************************************************************************)

\* Types of the lock's and of the pool's variables.
UseTypeOK == LockTypeOK /\ PoolTypeOK

\* The leases implement one owner at a time, replaced only when it is late.
Exclusion == INSTANCE LeasedExclusion WITH
    owner   <- [r \in Resource |-> IF \E c \in Caller : Holds(c, r)
                                     THEN lease[r] ELSE NoCaller],
    working <- [r \in Resource |-> {c \in Caller : task[c] = Inside(r)}],
    late    <- {c \in Caller : missed[c] >= 2}
ImplementsExclusion == Exclusion!AbsSpec

\* Whoever asks for a resource or a slot is served or told that it is busy,
\* and what it was given comes back: no call waits for ever on the lock, on
\* the line or on a browser that it holds itself (deadlock across the two).
EveryCallEnds ==
    \A c \in Caller : (task[c] # Idle \/ slot[c] # "none")
                        ~> (task[c] = Idle /\ slot[c] = "none")
=============================================================================
