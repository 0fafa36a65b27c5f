---------------------------- MODULE PoliteFetch ----------------------------
(***************************************************************************)
(* The detail stage of a discovery on one host: the loops of one           *)
(* mapWithConcurrency (hunt/discovery/runner.ts) take the listed jobs in   *)
(* order, and every request passes the host's gate (fetcher.ts), which     *)
(* bounds how many are under way and spaces their starts.                  *)
(*                                                                         *)
(* JavaScript runs one turn at a time: what follows an answer, a timer or  *)
(* robots.txt up to the next await is one step here, and a waiter that a   *)
(* release wakes goes on in the same turn, behind its releaser.            *)
(***************************************************************************)
EXTENDS Integers, Sequences, FiniteSets

CONSTANTS Loop,          \* the runs of mapWithConcurrency
          Listed,        \* how many jobs were listed
          PageOf,        \* job -> its page; a posting may be listed twice
          MaxConcurrent, \* the host's policy
          MinInterval,   \* the same, in ticks
          Retries        \* attempts after the first one

ASSUME FetchAssumption ==
    /\ IsFiniteSet(Loop)
    /\ Listed \in Nat /\ Retries \in Nat
    /\ MaxConcurrent \in Nat \ {0} /\ MinInterval \in Nat \ {0}

Listing == 1..Listed
Page == {PageOf[j] : j \in Listing}
Detail == {"unknown", "read", "empty"}

VARIABLES gate,    \* HostGate: active, ticks since lastStart, and the line
          loop,    \* loop -> its job, its attempt and what it waits for
          cursor,  \* the jobs taken so far
          details, \* job -> the result of its worker
          pages,   \* detailCache
          robots,  \* robotsCache: the rules for the host's job pages
          age      \* history: loop -> ticks since its last request went out

netVars == <<gate, loop, cursor, details, pages, robots, age>>
gateVars == <<gate, age>>
listVars == <<cursor, details, pages, robots>>

LoopPC == {"unborn", "free", "asking", "waiting", "pausing", "fetching",
           "backing", "reading", "ended"}
Rest(pc) == [pc |-> pc, job |-> 0, attempt |-> 0, left |-> 0]

FetchTypeOK ==
    /\ gate \in [active : Nat, since : 0..MinInterval, line : Seq(Loop)]
    /\ loop \in [Loop -> [pc : LoopPC, job : 0..Listed, attempt : 0..Retries,
                          left : 0..MinInterval]]
    /\ cursor \in 0..Listed
    /\ details \in [Listing -> {"none", "detail", "null"}]
    /\ pages \in [Page -> Detail]
    /\ robots \in {"unasked", "asked", "allow", "disallow"}
    /\ age \in [Loop -> 0..MinInterval]

FetchInit ==
    /\ gate = [active |-> 0, since |-> MinInterval, line |-> <<>>]
    /\ loop = [l \in Loop |-> Rest("unborn")]
    /\ cursor = 0
    /\ details = [j \in Listing |-> "none"]
    /\ pages = [p \in Page |-> "unknown"]
    /\ robots = "unasked"
    /\ age = [l \in Loop |-> MinInterval]

InLoop(l, pc) == loop[l].pc = pc

(***************************************************************************)
(* The gate, as functions of where it and the loops stand.                 *)
(***************************************************************************)

Net == [gate |-> gate, loop |-> loop, age |-> age]
Becomes(n) == gate' = n.gate /\ loop' = n.loop /\ age' = n.age

Moved(n, l, next) == [n EXCEPT !.loop[l] = next]

\* lastStart = now, and the request goes out.
Started(n, l) ==
    [gate |-> [n.gate EXCEPT !.since = 0],
     loop |-> [n.loop EXCEPT ![l] = [@ EXCEPT !.pc = "fetching", !.left = 0]],
     age |-> [n.age EXCEPT ![l] = 0]]

\* A place in the gate, and a pause until the interval since lastStart is
\* over: lastStart is the last start before this moment.
Admitted(n, l) ==
    LET in == [n EXCEPT !.gate.active = @ + 1]
        wait == MinInterval - n.gate.since
    IN IF wait > 0
         THEN Moved(in, l, [n.loop[l] EXCEPT !.pc = "pausing", !.left = wait])
         ELSE Started(in, l)

\* Mutant: nobody is asked to wait.
AcquiredFreely(n, l) == Admitted(n, l)

\* acquire.
Acquired(n, l) ==
    IF n.gate.active >= MaxConcurrent
      THEN Moved([n EXCEPT !.gate.line = Append(@, l)], l,
                 [n.loop[l] EXCEPT !.pc = "waiting"])
      ELSE Admitted(n, l)

\* line.shift().
Behind(line) == IF line = <<>> THEN line ELSE Tail(line)

\* release, and what its loop goes on to.
Vacated(n, l, next) ==
    [gate |-> [n.gate EXCEPT !.active = @ - 1, !.line = Behind(@)],
     loop |-> [n.loop EXCEPT ![l] = next],
     age |-> n.age]

\* Mutant: release gives the place back and wakes nobody.
WakesNobody(before, n) == n

\* The waiter that release took from the line goes on at the turn's end.
Wakes(before, n) ==
    IF before.gate.line = <<>> THEN n ELSE Admitted(n, Head(before.gate.line))

(***************************************************************************)
(* The loops                                                               *)
(***************************************************************************)

\* The list came back with jobs inside the window.
BeginDetails ==
    /\ \A l \in Loop : InLoop(l, "unborn")
    /\ loop' = [l \in Loop |-> Rest("free")]
    /\ UNCHANGED <<gateVars, listVars>>

\* The next job needs no page: its posting is complete, or the cache has it.
TakeKnown(l) ==
    /\ InLoop(l, "free") /\ cursor < Listed
    /\ cursor' = cursor + 1
    /\ \/ details' = [details EXCEPT ![cursor'] = "null"]
       \/ /\ pages[PageOf[cursor']] = "read"
          /\ details' = [details EXCEPT ![cursor'] = "detail"]
    /\ UNCHANGED <<gateVars, loop, pages, robots>>

\* The next job's page is to be read; robots.txt is asked for once.
TakeUnread(l) ==
    /\ InLoop(l, "free") /\ cursor < Listed
    /\ pages[PageOf[cursor + 1]] = "unknown"
    /\ cursor' = cursor + 1
    /\ loop' = [loop EXCEPT ![l] = [Rest("asking") EXCEPT !.job = cursor']]
    /\ robots' = IF robots = "unasked" THEN "asked" ELSE robots
    /\ UNCHANGED <<gateVars, details, pages>>

\* Nothing is left to take.
EndLoop(l) ==
    /\ InLoop(l, "free") /\ cursor = Listed
    /\ loop' = [loop EXCEPT ![l] = Rest("ended")]
    /\ UNCHANGED <<gateVars, listVars>>

\* The longest rule that matches; a file that is missing or unreadable
\* disallows nothing. A host's job pages lie under one path.
RobotsKnown ==
    /\ robots = "asked"
    /\ robots' \in {"allow", "disallow"}
    /\ UNCHANGED <<gateVars, loop, cursor, details, pages>>

Settled(l, result) == details' = [details EXCEPT ![loop[l].job] = result]

\* RobotsDisallowedError; the listed data must do.
Barred(l) ==
    /\ InLoop(l, "asking") /\ robots = "disallow"
    /\ Settled(l, "null")
    /\ loop' = [loop EXCEPT ![l] = Rest("free")]
    /\ UNCHANGED <<gateVars, cursor, pages, robots>>

Enter(l) ==
    /\ InLoop(l, "asking") /\ robots = "allow"
    /\ Becomes(Acquired(Net, l))
    /\ UNCHANGED listVars

\* The pause before the start is over; meanwhile others may have started.
PauseEnds(l) ==
    /\ InLoop(l, "pausing") /\ loop[l].left = 0
    /\ Becomes(Started(Net, l))
    /\ UNCHANGED listVars

\* finally release().
Leaves(l, next) == Becomes(Wakes(Net, Vacated(Net, l, next)))

\* The host answers: the request is over; its body is read outside the gate.
Answered(l) ==
    /\ InLoop(l, "fetching")
    /\ Leaves(l, [loop[l] EXCEPT !.pc = "reading"])
    /\ UNCHANGED listVars

\* The page, with or without a posting in it; both are remembered.
PageRead(l) ==
    /\ InLoop(l, "reading")
    /\ \E found \in {"read", "empty"} :
          /\ pages' = [pages EXCEPT ![PageOf[loop[l].job]] = found]
          /\ Settled(l, IF found = "read" THEN "detail" ELSE "null")
    /\ loop' = [loop EXCEPT ![l] = Rest("free")]
    /\ UNCHANGED <<gateVars, cursor, robots>>

\* The body breaks off. Nothing is remembered.
PageLost(l) ==
    /\ InLoop(l, "reading")
    /\ Settled(l, "null")
    /\ loop' = [loop EXCEPT ![l] = Rest("free")]
    /\ UNCHANGED <<gateVars, cursor, pages, robots>>

\* An error no retry can help, or the last attempt's.
RequestFails(l) ==
    /\ InLoop(l, "fetching")
    /\ Settled(l, "null")
    /\ Leaves(l, Rest("free"))
    /\ UNCHANGED <<cursor, pages, robots>>

\* A retryable status, a timeout or a lost connection: the delay before the
\* next attempt is slept inside the gate.
BackOff(l) ==
    /\ InLoop(l, "fetching") /\ loop[l].attempt < Retries
    /\ loop' = [loop EXCEPT ![l].pc = "backing"]
    /\ UNCHANGED <<gateVars, listVars>>

\* The loop goes round: release and acquire in one turn, so the loop enters
\* before the waiter that its own release has woken.
Retry(l) ==
    /\ InLoop(l, "backing")
    /\ loop[l].attempt < Retries
    /\ LET next == [loop[l] EXCEPT !.pc = "asking", !.attempt = @ + 1]
       IN Becomes(Wakes(Net, Acquired(Vacated(Net, l, next), l)))
    /\ UNCHANGED listVars

\* A tick of the clock; a timer whose time has come may still be late.
TimePassesBy ==
    /\ gate.since < MinInterval \/ \E l \in Loop : loop[l].left > 0
    /\ gate' = [gate EXCEPT !.since = IF @ < MinInterval THEN @ + 1 ELSE @]
    /\ loop' = [l \in Loop |-> [loop[l] EXCEPT !.left = IF @ > 0 THEN @ - 1 ELSE 0]]
    /\ age' = [l \in Loop |-> IF age[l] < MinInterval THEN age[l] + 1 ELSE age[l]]
    /\ UNCHANGED listVars

LoopStep(l) ==
    \/ TakeKnown(l) \/ TakeUnread(l) \/ EndLoop(l)
    \/ Barred(l) \/ Enter(l) \/ PauseEnds(l)
    \/ Answered(l) \/ RequestFails(l) \/ BackOff(l) \/ Retry(l)
    \/ PageRead(l) \/ PageLost(l)

\* Promise.all: the stage is over, and nothing is left to do.
StageOver == (\A l \in Loop : InLoop(l, "ended")) /\ UNCHANGED netVars

FetchNext ==
    \/ BeginDetails \/ RobotsKnown \/ TimePassesBy \/ StageOver
    \/ \E l \in Loop : LoopStep(l)

FetchSpec == FetchInit /\ [][FetchNext]_netVars

\* Time passes, robots.txt and pages have deadlines of 8 and 15 seconds, and
\* the process runs what is ready.
FetchFairness ==
    /\ WF_netVars(TimePassesBy) /\ WF_netVars(RobotsKnown)
    /\ \A l \in Loop : WF_netVars(LoopStep(l))

FetchFairSpec == FetchSpec /\ FetchFairness

(***************************************************************************)
(* Properties.                                                             *)
(***************************************************************************)

\* Started less than an interval ago.
Recent == {l \in Loop : age[l] < MinInterval}

\* What the gate grants a host (fetcher.ts:54-75): a loop that retries may
\* enter beside the waiter it woke, so one request more than the policy's
\* limit is under way, never two, however many retry and wait; and in no
\* interval do more requests start than that, although requests that pause
\* together do not see each other's starts.
HostIsSpared ==
    /\ gate.active <= MaxConcurrent + 1
    /\ Cardinality(Recent) <= MaxConcurrent + 1

\* Every listed job comes out of the detail stage with or without its page: a
\* failed or barred page, a line at the gate or a retry never keeps the stage
\* from ending (fetcher.ts:295-299).
EveryJobIsSettled ==
    (\E l \in Loop : loop[l].pc = "free") ~>
        /\ \A l \in Loop : InLoop(l, "ended")
        /\ \A j \in Listing : details[j] # "none"
=============================================================================
