------------------------- MODULE TenantBrowserProofs -------------------------
(***************************************************************************)
(* A user's browser on its host, for any sessions, visits, crashes, lost   *)
(* lanes and calls given up: nobody ends the browser somebody else uses, and *)
(* a removed profile rests.                                                *)
(*                                                                         *)
(* A stop names the tenant and not the browser it is meant for. That it    *)
(* reaches the right one rests on the order of the requests: a session has *)
(* one of them with the agent at a time (RequestsInTurn), its browser is its *)
(* own until its stop is served (OwnBrowser), and the sweep, which stops   *)
(* another's, asks only when the lane is free and nobody's launch is ahead *)
(* of its stop (SweepFindsNobody).                                         *)
(***************************************************************************)
EXTENDS TenantBrowser, SequenceTheorems, TLAPS

CallerPc == {"idle", "ready", "opening", "undoing", "working", "closing", "done", "dead",
             "connecting", "reusing", "disconnecting", "removing", "locked", "looking", "stopping"}
CallerType == [pc : CallerPc, reply : {"none", "ok", "connect", "apply", "error"}]
ChromeType == [mode : {"idle", "connect", "apply"}, by : Session \cup {Person, TbNobody}]
TbPastType == [gone : SUBSET Session, ended : SUBSET Session,
               visits : 0..TbMaxVisits, faults : 0..TbMaxFaults]
RequestType == [kind : RequestKind, from : Caller, heard : BOOLEAN, begun : BOOLEAN]
LaunchKind == {"connect", "apply"}

TenantTyped ==
    /\ chrome \in ChromeType /\ chain \in Seq(RequestType)
    /\ lifecycle \in Caller \cup {TbNobody} /\ lane \in Applying \cup {TbNobody}
    /\ profile \in {"kept", "absent"} /\ caller \in [Caller -> CallerType]
    /\ window \in BOOLEAN /\ tbPast \in TbPastType

\* What a caller that listens for a reply of the agent has asked for.
Awaited(pc) ==
    CASE pc = "opening" -> "apply"
      [] pc = "connecting" -> "connect"
      [] pc \in {"disconnecting", "removing"} -> "disconnect"
      [] pc \in {"undoing", "closing", "stopping"} -> "stop"
      [] OTHER -> "none"

\* A request that is listened for is the last of its caller.
RequestsAwaited ==
    \A i \in DOMAIN chain : chain[i].heard =>
        /\ caller[chain[i].from].reply = "none"
        /\ Awaited(caller[chain[i].from].pc) = chain[i].kind
        /\ \A j \in DOMAIN chain : chain[j].heard /\ chain[j].from = chain[i].from => i = j

\* Who asks for what. A session has one request with the agent at a time: its
\* launch before it works, its stop after it.
RequestsInTurn ==
    \A i \in DOMAIN chain :
        LET q == chain[i]  s == q.from IN
        /\ q.kind = "apply" =>
              /\ s \in Session
              /\ \/ TbAt(s, "opening") /\ (q.heard \/ caller[s].reply = "error")
                 \/ TbAt(s, "done") \/ TbAt(s, "dead")
        /\ q.kind \in {"connect", "disconnect"} => s = Person
        /\ q.kind = "stop" =>
              \/ s = Sweeper
              \/ s \in Session /\ caller[s].pc \in {"undoing", "closing", "done", "dead"}
        /\ s \in Session => \A j \in DOMAIN chain : chain[j].from = s => i = j

\* Whoever waits between its look and its last change of the rows has the lock.
LockHeld ==
    \A c \in Caller :
        caller[c].pc \in {"opening", "undoing", "connecting", "reusing", "disconnecting",
                          "removing", "locked", "looking", "stopping"} => lifecycle = c

\* Only the first request is being served, and Chrome is its own, if it runs.
BegunAtHead ==
    \A i \in DOMAIN chain : chain[i].begun =>
        /\ i = 1 /\ chain[i].kind \in LaunchKind
        /\ chrome = Stopped \/ chrome = [mode |-> chain[i].kind, by |-> chain[i].from]

\* Until its stop is served, a session's browser is its own, unless it went
\* or another ended it.
OwnBrowser ==
    \A s \in Session \ (tbPast.gone \cup tbPast.ended) :
        \/ TbAt(s, "opening") /\ caller[s].reply = "ok"
        \/ TbAt(s, "working")
        \/ \E i \in DOMAIN chain : chain[i].kind = "stop" /\ chain[i].from = s
        => chrome = [mode |-> "apply", by |-> s]

\* Behind a launch that is listened for there is no other, nor behind a window
\* about to open.
NoLaunchBehind ==
    /\ \A i, j \in DOMAIN chain :
          chain[i].heard /\ chain[i].kind \in LaunchKind /\ chain[j].kind \in LaunchKind => j <= i
    /\ \/ TbAt(Person, "connecting") /\ caller[Person].reply \in {"ok", "connect"}
       \/ TbAt(Person, "reusing")
       => \A i \in DOMAIN chain : chain[i].kind \notin LaunchKind

WindowIsOpen ==
    window => chrome.mode = "connect" /\ \A i \in DOMAIN chain : ~chain[i].begun

\* Nobody uses the browser the sweep is going to stop: it saw the lane free,
\* and who opens one since then comes after the stop.
LaneSeenFree == \A a \in Applying : TbAt(a, "working") => lane # a
SweepFindsNobody ==
    /\ TbAt(Sweeper, "looking") => LaneSeenFree
    /\ \A i \in DOMAIN chain : chain[i].kind = "stop" /\ chain[i].from = Sweeper =>
          /\ LaneSeenFree /\ ~window /\ ~TbAt(Person, "reusing")
          /\ \A c \in Caller :
                TbAt(c, "opening") \/ TbAt(c, "connecting") => caller[c].reply \in {"none", "error"}
          /\ \A j \in DOMAIN chain : chain[j].heard /\ chain[j].kind \in LaunchKind => i < j

\* A profile that is gone has no session, nor has one that is let go.
NobodyInProfile ==
    /\ profile = "absent" => \A s \in Session : ~TbAt(s, "opening") /\ ~Uses(s)
    /\ (TbAt(Person, "removing") \/ TbAt(Person, "disconnecting")) /\ caller[Person].reply = "ok" =>
          \A s \in Session : ~Uses(s)

TenantInv ==
    /\ TenantTyped
    /\ RequestsAwaited /\ RequestsInTurn /\ LockHeld /\ BegunAtHead /\ OwnBrowser
    /\ NoLaunchBehind /\ WindowIsOpen /\ SweepFindsNobody /\ NobodyInProfile

USE TenantAssumption DEF TenantAssumption

LEMMA TenantTypes == TenantTyped => TenantTypeOK
<1>1. chain \in Seq(RequestType) => \A i \in DOMAIN chain : chain[i] \in RequestType
  OBVIOUS
<1> QED BY <1>1 DEF TenantTyped, TenantTypeOK, CallerType, CallerPc, ChromeType, TbPastType,
           RequestType

LEMMA Callers ==
  /\ Session \subseteq Caller /\ Person \in Caller \ Session /\ Sweeper \in Caller \ Session
  /\ Person # Sweeper /\ TbNobody \notin Caller /\ Applying \subseteq Session
BY DEF Session, Caller

\* The chain of requests, as the agent's callers and the agent change it.
LEMMA AFunctionIsASeq ==
  ASSUME NEW S, NEW n \in Nat, NEW f \in [1..n -> S]
  PROVE  f \in Seq(S) /\ DOMAIN f = 1..n
OBVIOUS

LEMMA ChainKeeps ==
  ASSUME chain \in Seq(RequestType)
  PROVE  /\ Len(chain) \in Nat /\ DOMAIN chain = 1..Len(chain)
         /\ \A i \in DOMAIN chain :
               /\ i \in Nat /\ i >= 1 /\ chain[i] \in RequestType
               /\ chain[i].from \in Caller /\ chain[i].kind \in RequestKind
         /\ chain # <<>> => 1 \in DOMAIN chain /\ Head(chain) = chain[1]
<1>1. /\ Len(chain) \in Nat /\ DOMAIN chain = 1..Len(chain)
      /\ chain # <<>> => 1 \in DOMAIN chain /\ Head(chain) = chain[1]
      /\ \A i \in DOMAIN chain : chain[i] \in RequestType
  OBVIOUS
<1> QED BY <1>1 DEF RequestType

LEMMA ChainAsked ==
  ASSUME chain \in Seq(RequestType), NEW c \in Caller, NEW kind \in RequestKind, Ask(c, kind)
  PROVE  /\ chain' \in Seq(RequestType)
         /\ \A i \in DOMAIN chain : i \in DOMAIN chain' /\ chain'[i] = chain[i] /\ i < Len(chain) + 1
         /\ DOMAIN chain' = DOMAIN chain \cup {Len(chain) + 1}
         /\ chain'[Len(chain) + 1] = [kind |-> kind, from |-> c, heard |-> TRUE, begun |-> FALSE]
<1>1. [kind |-> kind, from |-> c, heard |-> TRUE, begun |-> FALSE] \in RequestType
  BY DEF RequestType
<1> QED BY <1>1 DEF Ask

LEMMA ChainAnswered ==
  ASSUME TenantTyped, chain # <<>>,
         NEW reply \in {"ok", "connect", "apply", "error"}, TbAnswer(reply)
  PROVE  /\ chain' \in Seq(RequestType)
         /\ \A i \in DOMAIN chain' : i + 1 \in DOMAIN chain /\ chain'[i] = chain[i + 1] /\ i \in Nat
                                     /\ i >= 1
         /\ caller' \in [Caller -> CallerType]
         /\ \A c \in Caller :
              /\ caller'[c].pc = caller[c].pc
              /\ caller'[c].reply = IF chain[1].heard /\ c = chain[1].from THEN reply
                                                                        ELSE caller[c].reply
<1>1. /\ chain' = Tail(chain) /\ Head(chain) = chain[1] /\ chain[1].from \in Caller
      /\ chain[1].heard \in BOOLEAN
  BY ChainKeeps DEF TenantTyped, TbAnswer, RequestType
<1>2. /\ chain' \in Seq(RequestType) /\ Len(chain') = Len(chain) - 1
      /\ \A i \in 1..Len(chain') : chain'[i] = chain[i + 1]
  BY <1>1, HeadTailProperties DEF TenantTyped
<1>3. caller \in [Caller -> CallerType]
  BY DEF TenantTyped
<1>4. caller' = IF chain[1].heard THEN [caller EXCEPT ![chain[1].from].reply = reply] ELSE caller
  BY <1>1 DEF TbAnswer
<1>5. /\ caller' \in [Caller -> CallerType]
      /\ \A c \in Caller :
              /\ caller'[c].pc = caller[c].pc
              /\ caller'[c].reply = IF chain[1].heard /\ c = chain[1].from THEN reply
                                                                        ELSE caller[c].reply
  BY <1>1, <1>3, <1>4 DEF CallerType
<1>6. \A i \in DOMAIN chain' : i + 1 \in DOMAIN chain /\ chain'[i] = chain[i + 1] /\ i \in Nat /\ i >= 1
  BY <1>2, ChainKeeps DEF TenantTyped
<1> QED BY <1>2, <1>5, <1>6

LEMMA ChainUnheard ==
  ASSUME chain \in Seq(RequestType), NEW c \in Caller, chain' = Unheard(c)
  PROVE  /\ chain' \in Seq(RequestType) /\ DOMAIN chain' = DOMAIN chain
         /\ \A i \in DOMAIN chain :
              /\ chain'[i].kind = chain[i].kind /\ chain'[i].from = chain[i].from
              /\ chain'[i].begun = chain[i].begun
              /\ chain'[i].heard = (chain[i].heard /\ chain[i].from # c)
<1>1. \A i \in DOMAIN chain : chain[i] \in RequestType
  OBVIOUS
<1>2. \A i \in DOMAIN chain : [chain[i] EXCEPT !.heard = FALSE] \in RequestType
  BY <1>1 DEF RequestType
<1>3. chain' = [i \in 1..Len(chain) |-> IF chain[i].from = c THEN [chain[i] EXCEPT !.heard = FALSE]
                                                             ELSE chain[i]]
  BY DEF Unheard
<1>4. chain' \in [1..Len(chain) -> RequestType] /\ Len(chain) \in Nat
  BY <1>1, <1>2, <1>3
<1>5. chain' \in Seq(RequestType) /\ DOMAIN chain' = DOMAIN chain
  BY <1>4, AFunctionIsASeq
<1>6. ASSUME NEW i \in DOMAIN chain
      PROVE  /\ chain'[i].kind = chain[i].kind /\ chain'[i].from = chain[i].from
             /\ chain'[i].begun = chain[i].begun
             /\ chain'[i].heard = (chain[i].heard /\ chain[i].from # c)
  <2>1. chain[i] \in RequestType /\ i \in 1..Len(chain)
    BY <1>1
  <2>2. CASE chain[i].from = c
    BY <1>3, <2>1, <2>2 DEF RequestType
  <2>3. CASE chain[i].from # c
    BY <1>3, <2>1, <2>3 DEF RequestType
  <2> QED BY <2>2, <2>3
<1> QED BY <1>5, <1>6

LEMMA ChainBegun ==
  ASSUME chain \in Seq(RequestType), chain # <<>>, chain' = [chain EXCEPT ![1].begun = TRUE]
  PROVE  /\ chain' \in Seq(RequestType) /\ DOMAIN chain' = DOMAIN chain /\ 1 \in DOMAIN chain
         /\ \A i \in DOMAIN chain :
              /\ chain'[i].kind = chain[i].kind /\ chain'[i].from = chain[i].from
              /\ chain'[i].heard = chain[i].heard
              /\ chain'[i].begun = (i = 1 \/ chain[i].begun)
<1>1. 1 \in DOMAIN chain /\ chain[1] \in RequestType /\ Len(chain) \in Nat
  OBVIOUS
<1>2. [chain[1] EXCEPT !.begun = TRUE] \in RequestType
  BY <1>1 DEF RequestType
<1>3. chain' = [chain EXCEPT ![1] = [chain[1] EXCEPT !.begun = TRUE]]
  OBVIOUS
<1>4. chain' \in Seq(RequestType) /\ DOMAIN chain' = DOMAIN chain
  BY <1>1, <1>2, <1>3
<1>5. \A i \in DOMAIN chain : chain'[i] = IF i = 1 THEN [chain[1] EXCEPT !.begun = TRUE] ELSE chain[i]
  BY <1>1, <1>3
<1>6. \A i \in DOMAIN chain : chain[i] \in RequestType
  OBVIOUS
<1>7. ASSUME NEW i \in DOMAIN chain
      PROVE  /\ chain'[i].kind = chain[i].kind /\ chain'[i].from = chain[i].from
             /\ chain'[i].heard = chain[i].heard
             /\ chain'[i].begun = (i = 1 \/ chain[i].begun)
  <2>1. CASE i = 1
    BY <1>1, <1>5, <2>1 DEF RequestType
  <2>2. CASE i # 1
    BY <1>5, <1>6, <2>2 DEF RequestType
  <2> QED BY <2>1, <2>2
<1> QED BY <1>1, <1>4, <1>7

LEMMA TbGoes ==
  ASSUME TenantTyped, NEW c \in Caller, NEW pc \in CallerPc, TbGo(c, pc)
  PROVE  /\ caller' \in [Caller -> CallerType]
         /\ caller'[c].pc = pc /\ caller'[c].reply = "none"
         /\ \A d \in Caller \ {c} : caller'[d] = caller[d]
<1>1. caller \in [Caller -> CallerType]
  BY DEF TenantTyped
<1>2. [pc |-> pc, reply |-> "none"] \in CallerType
  BY DEF CallerType
<1> QED BY <1>1, <1>2 DEF TbGo

LEMMA TimesOut ==
  ASSUME TenantTyped, NEW c \in Caller, CallTimesOut(c)
  PROVE  /\ caller' \in [Caller -> CallerType]
         /\ caller'[c].pc = caller[c].pc /\ caller'[c].reply = "error"
         /\ \A d \in Caller \ {c} : caller'[d] = caller[d]
<1>1. caller \in [Caller -> CallerType]
  BY DEF TenantTyped
<1>2. caller' = [caller EXCEPT ![c] = [caller[c] EXCEPT !.reply = "error"]]
  BY DEF CallTimesOut
<1> QED BY <1>1, <1>2 DEF CallerType

\* What the steps do to the chain and to their callers.
Asked(c, kind) ==
    /\ chain' \in Seq(RequestType)
    /\ \A i \in DOMAIN chain : i \in DOMAIN chain' /\ chain'[i] = chain[i] /\ i < Len(chain) + 1
    /\ DOMAIN chain' = DOMAIN chain \cup {Len(chain) + 1}
    /\ chain'[Len(chain) + 1] = [kind |-> kind, from |-> c, heard |-> TRUE, begun |-> FALSE]

Went(c, pc) ==
    /\ caller' \in [Caller -> CallerType]
    /\ caller'[c].pc = pc /\ caller'[c].reply = "none"
    /\ \A d \in Caller \ {c} : caller'[d] = caller[d]

Answered(reply) ==
    /\ chain' \in Seq(RequestType)
    /\ \A i \in DOMAIN chain' : i + 1 \in DOMAIN chain /\ chain'[i] = chain[i + 1] /\ i \in Nat
                                /\ i >= 1
    /\ caller' \in [Caller -> CallerType]
    /\ \A c \in Caller :
         /\ caller'[c].pc = caller[c].pc
         /\ caller'[c].reply = IF chain[1].heard /\ c = chain[1].from THEN reply
                                                                   ELSE caller[c].reply
    /\ 1 \in DOMAIN chain /\ Head(chain) = chain[1]

LetGo(c) ==
    /\ chain' \in Seq(RequestType) /\ DOMAIN chain' = DOMAIN chain
    /\ \A i \in DOMAIN chain :
         /\ chain'[i].kind = chain[i].kind /\ chain'[i].from = chain[i].from
         /\ chain'[i].begun = chain[i].begun
         /\ chain'[i].heard = (chain[i].heard /\ chain[i].from # c)

LEMMA WhoAsks ==
  ASSUME TenantTyped
  PROVE  /\ \A s \in Session :
              /\ OpenVm(s) => Asked(s, "apply") /\ Went(s, "opening")
              /\ CannotAttach(s) => Asked(s, "stop") /\ Went(s, "undoing")
              /\ TbClose(s) => Asked(s, "stop") /\ Went(s, "closing")
         /\ Connect => Asked(Person, "connect") /\ Went(Person, "connecting")
         /\ Disconnect => Asked(Person, "disconnect") /\ Went(Person, "disconnecting")
         /\ RemoveWindow => Asked(Person, "disconnect") /\ Went(Person, "removing")
         /\ SweepStops => Asked(Sweeper, "stop") /\ Went(Sweeper, "stopping")
<1>1. ASSUME NEW c \in Caller, NEW kind \in RequestKind, NEW pc \in CallerPc, Ask(c, kind), TbGo(c, pc)
      PROVE  Asked(c, kind) /\ Went(c, pc)
  <2>1. Asked(c, kind)
    BY <1>1, ChainAsked DEF Asked, TenantTyped
  <2>2. Went(c, pc)
    BY <1>1, TbGoes DEF Went
  <2> QED BY <2>1, <2>2
<1> QED BY <1>1, Callers DEF OpenVm, CannotAttach, TbClose, Connect, Disconnect, RemoveWindow,
                             SweepStops, RequestKind, CallerPc

LEMMA WhoAnswers ==
  ASSUME TenantTyped
  PROVE  /\ AgentRefuses => Answered(chrome.mode) /\ chrome.mode \in {"connect", "apply"}
         /\ AgentReady => Answered("ok")
         /\ AgentLaunchFails => Answered("error")
         /\ AgentStops => Answered("ok")
<1>1. ASSUME NEW reply \in {"ok", "connect", "apply", "error"}, chain # <<>>, TbAnswer(reply)
      PROVE  Answered(reply)
  <2>1. 1 \in DOMAIN chain /\ Head(chain) = chain[1]
    BY <1>1, ChainKeeps DEF TenantTyped
  <2> QED BY <1>1, <2>1, ChainAnswered DEF Answered
<1>2. AgentRefuses => chrome.mode \in {"connect", "apply"}
  BY DEF AgentRefuses, AtHead, disconnectAllowed, TenantTyped, ChromeType
<1> QED BY <1>1, <1>2 DEF AgentRefuses, AgentReady, AgentLaunchFails, AgentStops, AtHead

LEMMA WhoLetsGo ==
  ASSUME TenantTyped
  PROVE  /\ \A c \in Caller : CallTimesOut(c) => LetGo(c)
         /\ \A s \in Session : SessionDies(s) => LetGo(s) /\ Went(s, "dead")
<1>1. \A c \in Caller : chain' = Unheard(c) => LetGo(c)
  BY ChainUnheard DEF LetGo, TenantTyped
<1>2. \A s \in Session : TbGo(s, "dead") => Went(s, "dead")
  BY TbGoes, Callers DEF Went, CallerPc
<1> QED BY <1>1, <1>2, Callers DEF CallTimesOut, SessionDies


\* Requests that are awaited, when one is made, answered or let go.
LEMMA AskedAwaited ==
  ASSUME TenantTyped, RequestsAwaited, NEW c \in Caller, NEW kind \in RequestKind, NEW pc,
         Asked(c, kind), Went(c, pc),
         Awaited(caller[c].pc) = "none" \/ caller[c].reply # "none", Awaited(pc) = kind
  PROVE  RequestsAwaited'
<1>1. \A i \in DOMAIN chain : chain[i].heard => chain[i].from # c
  BY ChainKeeps DEF TenantTyped, RequestsAwaited, RequestKind
<1>2. \A d \in Caller \ {c} : caller'[d] = caller[d]
  BY DEF Went
<1>3. ASSUME NEW i \in DOMAIN chain', chain'[i].heard
      PROVE  /\ caller'[chain'[i].from].reply = "none"
             /\ Awaited(caller'[chain'[i].from].pc) = chain'[i].kind
             /\ \A j \in DOMAIN chain' : chain'[j].heard /\ chain'[j].from = chain'[i].from => i = j
  <2>1. CASE i \in DOMAIN chain
    BY <1>1, <1>2, <1>3, <2>1, ChainKeeps DEF TenantTyped, RequestsAwaited, Asked
  <2>2. CASE i = Len(chain) + 1
    BY <1>1, <2>2, ChainKeeps DEF TenantTyped, Asked, Went
  <2> QED BY <2>1, <2>2 DEF Asked
<1> QED BY <1>3 DEF RequestsAwaited

LEMMA AnsweredAwaited ==
  ASSUME TenantTyped, RequestsAwaited, NEW reply, Answered(reply)
  PROVE  RequestsAwaited'
<1>1. \A d \in Caller : caller'[d].pc = caller[d].pc
  BY DEF Answered
<1>2. ASSUME NEW i \in DOMAIN chain', chain'[i].heard
      PROVE  /\ caller'[chain'[i].from].reply = "none"
             /\ Awaited(caller'[chain'[i].from].pc) = chain'[i].kind
             /\ \A j \in DOMAIN chain' : chain'[j].heard /\ chain'[j].from = chain'[i].from => i = j
  <2>1. /\ i + 1 \in DOMAIN chain /\ chain'[i] = chain[i + 1] /\ i \in Nat /\ i >= 1
        /\ chain[i + 1].from \in Caller
    BY <1>2, ChainKeeps DEF Answered, TenantTyped
  <2>2. ~(chain[1].heard /\ chain[1].from = chain[i + 1].from)
    BY <1>2, <2>1 DEF Answered, RequestsAwaited
  <2>3. caller'[chain'[i].from].reply = "none" /\ Awaited(caller'[chain'[i].from].pc) = chain'[i].kind
    <3>1. caller'[chain'[i].from].reply = caller[chain[i + 1].from].reply
      BY <2>1, <2>2 DEF Answered
    <3>2. caller[chain[i + 1].from].reply = "none"
          /\ Awaited(caller[chain[i + 1].from].pc) = chain[i + 1].kind
      BY <1>2, <2>1 DEF RequestsAwaited
    <3> QED BY <1>1, <2>1, <3>1, <3>2
  <2>4. ASSUME NEW j \in DOMAIN chain', chain'[j].heard, chain'[j].from = chain'[i].from
        PROVE  i = j
    <3>1. j + 1 \in DOMAIN chain /\ chain'[j] = chain[j + 1] /\ j \in Nat
      BY DEF Answered
    <3>2. i + 1 = j + 1
      BY <1>2, <2>1, <2>4, <3>1 DEF RequestsAwaited
    <3> QED BY <2>1, <3>1, <3>2
  <2> QED BY <2>3, <2>4
<1> QED BY <1>2 DEF RequestsAwaited

LEMMA LetGoAwaited ==
  ASSUME TenantTyped, RequestsAwaited, NEW c \in Caller, LetGo(c),
         \A d \in Caller \ {c} : caller'[d] = caller[d]
  PROVE  RequestsAwaited'
<1>1. \A d \in Caller \ {c} : caller'[d] = caller[d]
  OBVIOUS
<1>2. ASSUME NEW i \in DOMAIN chain', chain'[i].heard
      PROVE  /\ caller'[chain'[i].from].reply = "none"
             /\ Awaited(caller'[chain'[i].from].pc) = chain'[i].kind
             /\ \A j \in DOMAIN chain' : chain'[j].heard /\ chain'[j].from = chain'[i].from => i = j
  <2>1. /\ i \in DOMAIN chain /\ chain[i].heard /\ chain[i].from \in Caller \ {c}
        /\ chain'[i].kind = chain[i].kind /\ chain'[i].from = chain[i].from
    BY <1>2, ChainKeeps DEF LetGo, TenantTyped
  <2>2. caller[chain[i].from].reply = "none" /\ Awaited(caller[chain[i].from].pc) = chain[i].kind
    BY <2>1 DEF RequestsAwaited
  <2>3. ASSUME NEW j \in DOMAIN chain', chain'[j].heard, chain'[j].from = chain'[i].from
        PROVE  i = j
    BY <2>1, <2>3 DEF LetGo, RequestsAwaited
  <2> QED BY <1>1, <2>1, <2>2, <2>3
<1> QED BY <1>2 DEF RequestsAwaited

\* An answered request leaves the others in turn.
LEMMA AnsweredInTurn ==
  ASSUME TenantTyped, RequestsInTurn, NEW reply, Answered(reply)
  PROVE  RequestsInTurn'
<1>1. ASSUME NEW i \in DOMAIN chain'
      PROVE  /\ i + 1 \in DOMAIN chain /\ chain'[i] = chain[i + 1] /\ i \in Nat /\ i >= 1
             /\ chain[i + 1].from \in Caller
             /\ caller'[chain[i + 1].from].pc = caller[chain[i + 1].from].pc
             /\ chain[i + 1].from \in Session =>
                  caller'[chain[i + 1].from].reply = caller[chain[i + 1].from].reply
  <2>1. /\ i + 1 \in DOMAIN chain /\ chain'[i] = chain[i + 1] /\ i \in Nat /\ i >= 1
        /\ chain[i + 1].from \in Caller /\ 1 \in DOMAIN chain /\ i + 1 # 1
    BY ChainKeeps DEF Answered, TenantTyped
  <2>2. chain[i + 1].from \in Session => chain[1].from # chain[i + 1].from
    BY <2>1 DEF RequestsInTurn
  <2> QED BY <2>1, <2>2 DEF Answered
<1>2. ASSUME NEW i \in DOMAIN chain', chain'[i].from \in Session,
             NEW j \in DOMAIN chain', chain'[j].from = chain'[i].from
      PROVE  i = j
  <2>1. i + 1 = j + 1
    BY <1>1, <1>2 DEF RequestsInTurn
  <2> QED BY <1>1, <2>1
<1> SUFFICES ASSUME NEW i \in DOMAIN chain'
             PROVE  LET q == chain'[i]  s == q.from IN
                    /\ q.kind = "apply" =>
                          /\ s \in Session
                          /\ \/ /\ caller'[s].pc = "opening"
                                /\ q.heard \/ caller'[s].reply = "error"
                             \/ caller'[s].pc \in {"done", "dead"}
                    /\ q.kind \in {"connect", "disconnect"} => s = Person
                    /\ q.kind = "stop" =>
                          \/ s = Sweeper
                          \/ s \in Session /\ caller'[s].pc \in {"undoing", "closing", "done", "dead"}
  BY <1>2 DEF RequestsInTurn, TbAt
<1> QED BY <1>1 DEF RequestsInTurn, TbAt

LEMMA LockStep ==
  ASSUME TenantInv, [TenantNext]_tbVars
  PROVE  LockHeld'
<1> USE DEF TenantInv, TenantTyped, TbAt, Unlocked, OutOfLane, TbFault, AtHead, disconnectAllowed,
        TbVisit, LaneIsFree,
           LockHeld, CallerPc, RequestKind
<1>1. ASSUME NEW s \in Session, TbEnter(s)  PROVE LockHeld'
  BY <1>1, Callers, ChainKeeps, TbGoes DEF TbEnter
<1>2. ASSUME NEW s \in Session, OpenVm(s)  PROVE LockHeld'
  <2>1. Asked(s, "apply") /\ Went(s, "opening")
    BY <1>2, WhoAsks
  <2> QED BY <1>2, <2>1, Callers, ChainKeeps DEF OpenVm, Asked, Went
<1>3. ASSUME NEW s \in Session, OpenFails(s)  PROVE LockHeld'
  BY <1>3, Callers, ChainKeeps, TbGoes DEF OpenFails
<1>4. ASSUME NEW s \in Session, TbOpened(s)  PROVE LockHeld'
  BY <1>4, Callers, ChainKeeps, TbGoes DEF TbOpened
<1>5. ASSUME NEW s \in Session, CannotAttach(s)  PROVE LockHeld'
  <2>1. Asked(s, "stop") /\ Went(s, "undoing")
    BY <1>5, WhoAsks
  <2> QED BY <1>5, <2>1, Callers, ChainKeeps DEF CannotAttach, Asked, Went
<1>6. ASSUME NEW s \in Session, CannotPrepare(s)  PROVE LockHeld'
  BY <1>6, Callers, ChainKeeps, TbGoes DEF CannotPrepare
<1>7. ASSUME NEW s \in Session, TbClose(s)  PROVE LockHeld'
  <2>1. Asked(s, "stop") /\ Went(s, "closing")
    BY <1>7, WhoAsks
  <2> QED BY <1>7, <2>1, Callers, ChainKeeps DEF TbClose, Asked, Went
<1>8. ASSUME NEW s \in Session, TbLeave(s)  PROVE LockHeld'
  BY <1>8, Callers, ChainKeeps, TbGoes DEF TbLeave
<1>9. ASSUME NEW s \in Session, SessionDies(s)  PROVE LockHeld'
  <2>1. LetGo(s) /\ Went(s, "dead")
    BY <1>9, WhoLetsGo
  <2> QED BY <1>9, <2>1, Callers, ChainKeeps DEF SessionDies, LetGo, Went
<1>10. ASSUME NEW c \in Caller, CallTimesOut(c)  PROVE LockHeld'
  <2>1. LetGo(c)
    BY <1>10, WhoLetsGo
  <2> QED BY <1>10, <2>1, Callers, ChainKeeps, TimesOut DEF CallTimesOut, LetGo
<1>11. ASSUME AgentRefuses  PROVE LockHeld'
  <2>1. Answered(chrome.mode) /\ chrome.mode \in {"connect", "apply"}
    BY <1>11, WhoAnswers
  <2> QED BY <1>11, <2>1, Callers, ChainKeeps DEF AgentRefuses, Answered
<1>12. ASSUME AgentLaunches  PROVE LockHeld'
  BY <1>12, Callers, ChainKeeps, ChainBegun DEF AgentLaunches
<1>13. ASSUME AgentReady  PROVE LockHeld'
  <2>1. Answered("ok")
    BY <1>13, WhoAnswers
  <2> QED BY <1>13, <2>1, Callers, ChainKeeps DEF AgentReady, Answered
<1>14. ASSUME AgentLaunchFails  PROVE LockHeld'
  <2>1. Answered("error")
    BY <1>14, WhoAnswers
  <2> QED BY <1>14, <2>1, Callers, ChainKeeps DEF AgentLaunchFails, Answered
<1>15. ASSUME AgentStops  PROVE LockHeld'
  <2>1. Answered("ok")
    BY <1>15, WhoAnswers
  <2> QED BY <1>15, <2>1, Callers, ChainKeeps DEF AgentStops, Answered
<1>16. ASSUME BrowserGoes  PROVE LockHeld'
  BY <1>16, Callers, ChainKeeps DEF BrowserGoes
<1>17. ASSUME Connect  PROVE LockHeld'
  <2>1. Asked(Person, "connect") /\ Went(Person, "connecting")
    BY <1>17, WhoAsks
  <2> QED BY <1>17, <2>1, Callers, ChainKeeps DEF Connect, Asked, Went
<1>18. ASSUME Reuse  PROVE LockHeld'
  BY <1>18, Callers, ChainKeeps, TbGoes DEF Reuse
<1>19. ASSUME Connected  PROVE LockHeld'
  BY <1>19, Callers, ChainKeeps, TbGoes DEF Connected
<1>20. ASSUME Disconnect  PROVE LockHeld'
  <2>1. Asked(Person, "disconnect") /\ Went(Person, "disconnecting")
    BY <1>20, WhoAsks
  <2> QED BY <1>20, <2>1, Callers, ChainKeeps DEF Disconnect, Asked, Went
<1>21. ASSUME Disconnected  PROVE LockHeld'
  BY <1>21, Callers, ChainKeeps, TbGoes DEF Disconnected
<1>22. ASSUME RemoveProfile  PROVE LockHeld'
  BY <1>22, Callers, ChainKeeps DEF RemoveProfile
<1>23. ASSUME RemoveWindow  PROVE LockHeld'
  <2>1. Asked(Person, "disconnect") /\ Went(Person, "removing")
    BY <1>23, WhoAsks
  <2> QED BY <1>23, <2>1, Callers, ChainKeeps DEF RemoveWindow, Asked, Went
<1>24. ASSUME Removed  PROVE LockHeld'
  BY <1>24, Callers, ChainKeeps, TbGoes DEF Removed
<1>25. ASSUME VisitFails  PROVE LockHeld'
  BY <1>25, Callers, ChainKeeps, TbGoes DEF VisitFails
<1>26. ASSUME SweepTenant  PROVE LockHeld'
  BY <1>26, Callers, ChainKeeps, TbGoes DEF SweepTenant
<1>27. ASSUME SweepLooks  PROVE LockHeld'
  BY <1>27, Callers, ChainKeeps, TbGoes DEF SweepLooks
<1>28. ASSUME SweepStops  PROVE LockHeld'
  <2>1. Asked(Sweeper, "stop") /\ Went(Sweeper, "stopping")
    BY <1>28, WhoAsks
  <2> QED BY <1>28, <2>1, Callers, ChainKeeps DEF SweepStops, Asked, Went
<1>29. ASSUME SweepEnds  PROVE LockHeld'
  BY <1>29, Callers, ChainKeeps, TbGoes DEF SweepEnds
<1>30. ASSUME TbLaneLost  PROVE LockHeld'
  BY <1>30, Callers, ChainKeeps DEF TbLaneLost
<1>31. ASSUME DeadLaneExpires  PROVE LockHeld'
  BY <1>31, Callers, ChainKeeps DEF DeadLaneExpires
<1>32. ASSUME UNCHANGED tbVars  PROVE LockHeld'
  BY <1>32 DEF tbVars
<1> QED BY <1>1, <1>2, <1>3, <1>4, <1>5, <1>6, <1>7, <1>8, <1>9, <1>10, <1>11, <1>12, <1>13, <1>14,
           <1>15, <1>16, <1>17, <1>18, <1>19, <1>20, <1>21, <1>22, <1>23, <1>24, <1>25, <1>26,
           <1>27, <1>28, <1>29, <1>30, <1>31, <1>32
           DEF TenantNext, AgentStep, SessionStep, PersonStep, SweepTenantStep

LEMMA FaultCounted ==
  ASSUME TenantTyped, TbFault
  PROVE  tbPast' \in TbPastType
BY DEF TenantTyped, TbFault, TbPastType

LEMMA VisitCounted ==
  ASSUME TenantTyped, TbVisit
  PROVE  tbPast' \in TbPastType
BY DEF TenantTyped, TbVisit, TbPastType

LEMMA TenantTypeStep ==
  ASSUME TenantInv, [TenantNext]_tbVars
  PROVE  TenantTyped'
<1> USE DEF TenantInv, TenantTyped, TbAt, Unlocked, OutOfLane, TbFault, AtHead, disconnectAllowed,
        TbVisit, LaneIsFree,
           CallerType, CallerPc, ChromeType, TbPastType, RequestKind, Stopped
<1>1. ASSUME NEW s \in Session, TbEnter(s)  PROVE TenantTyped'
  BY <1>1, Callers, ChainKeeps, TbGoes DEF TbEnter
<1>2. ASSUME NEW s \in Session, OpenVm(s)  PROVE TenantTyped'
  <2>1. Asked(s, "apply") /\ Went(s, "opening")
    BY <1>2, WhoAsks
  <2>2. chain' \in Seq(RequestType) /\ caller' \in [Caller -> CallerType]
    BY <2>1 DEF Asked, Went
  <2> QED BY <1>2, <2>2, Callers DEF OpenVm
<1>3. ASSUME NEW s \in Session, OpenFails(s)  PROVE TenantTyped'
  BY <1>3, Callers, ChainKeeps, TbGoes DEF OpenFails
<1>4. ASSUME NEW s \in Session, TbOpened(s)  PROVE TenantTyped'
  BY <1>4, Callers, ChainKeeps, TbGoes DEF TbOpened
<1>5. ASSUME NEW s \in Session, CannotAttach(s)  PROVE TenantTyped'
  <2>1. Asked(s, "stop") /\ Went(s, "undoing")
    BY <1>5, WhoAsks
  <2>2. chain' \in Seq(RequestType) /\ caller' \in [Caller -> CallerType]
    BY <2>1 DEF Asked, Went
  <2> QED BY <1>5, <2>2, Callers DEF CannotAttach
<1>6. ASSUME NEW s \in Session, CannotPrepare(s)  PROVE TenantTyped'
  BY <1>6, Callers, ChainKeeps, TbGoes DEF CannotPrepare
<1>7. ASSUME NEW s \in Session, TbClose(s)  PROVE TenantTyped'
  <2>1. Asked(s, "stop") /\ Went(s, "closing")
    BY <1>7, WhoAsks
  <2>2. chain' \in Seq(RequestType) /\ caller' \in [Caller -> CallerType]
    BY <2>1 DEF Asked, Went
  <2> QED BY <1>7, <2>2, Callers DEF TbClose
<1>8. ASSUME NEW s \in Session, TbLeave(s)  PROVE TenantTyped'
  BY <1>8, Callers, ChainKeeps, TbGoes DEF TbLeave
<1>9. ASSUME NEW s \in Session, SessionDies(s)  PROVE TenantTyped'
  <2>1. LetGo(s) /\ Went(s, "dead")
    BY <1>9, WhoLetsGo
  <2>2. tbPast' \in TbPastType
    BY <1>9, FaultCounted DEF SessionDies
  <2> QED BY <1>9, <2>1, <2>2, Callers DEF SessionDies, LetGo, Went
<1>10. ASSUME NEW c \in Caller, CallTimesOut(c)  PROVE TenantTyped'
  <2>1. LetGo(c)
    BY <1>10, WhoLetsGo
  <2>2. tbPast' \in TbPastType
    BY <1>10, FaultCounted DEF CallTimesOut
  <2>3. caller' \in [Caller -> CallerType]
    BY <1>10, TimesOut
  <2> QED BY <1>10, <2>1, <2>2, <2>3 DEF CallTimesOut, LetGo
<1>11. ASSUME AgentRefuses  PROVE TenantTyped'
  <2>1. Answered(chrome.mode) /\ chrome.mode \in {"connect", "apply"}
    BY <1>11, WhoAnswers
  <2> QED BY <1>11, <2>1, Callers, ChainKeeps DEF AgentRefuses, Answered
<1>12. ASSUME AgentLaunches  PROVE TenantTyped'
  <2>1. chain' \in Seq(RequestType) /\ 1 \in DOMAIN chain /\ Head(chain) = chain[1]
    BY <1>12, ChainBegun, ChainKeeps DEF AgentLaunches
  <2>2. chain[1].from \in Session \cup {Person}
    BY <1>12, <2>1 DEF AgentLaunches, RequestsInTurn
  <2>3. chrome' \in ChromeType
    BY <1>12, <2>1, <2>2 DEF AgentLaunches
  <2> QED BY <1>12, <2>1, <2>3 DEF AgentLaunches
<1>13. ASSUME AgentReady  PROVE TenantTyped'
  <2>1. Answered("ok")
    BY <1>13, WhoAnswers
  <2> QED BY <1>13, <2>1, Callers, ChainKeeps DEF AgentReady, Answered
<1>14. ASSUME AgentLaunchFails  PROVE TenantTyped'
  <2>1. Answered("error")
    BY <1>14, WhoAnswers
  <2> QED BY <1>14, <2>1, Callers, ChainKeeps DEF AgentLaunchFails, Answered
<1>15. ASSUME AgentStops  PROVE TenantTyped'
  <2>1. Answered("ok")
    BY <1>15, WhoAnswers
  <2> QED BY <1>15, <2>1, Callers, ChainKeeps DEF AgentStops, Answered
<1>16. ASSUME BrowserGoes  PROVE TenantTyped'
  BY <1>16, Callers, ChainKeeps DEF BrowserGoes
<1>17. ASSUME Connect  PROVE TenantTyped'
  <2>1. Asked(Person, "connect") /\ Went(Person, "connecting")
    BY <1>17, WhoAsks
  <2>2. chain' \in Seq(RequestType) /\ caller' \in [Caller -> CallerType]
    BY <2>1 DEF Asked, Went
  <2>3. tbPast' \in TbPastType
    BY <1>17, VisitCounted DEF Connect
  <2>4. UNCHANGED <<chrome, lane, profile, window>> /\ lifecycle' = Person
    BY <1>17 DEF Connect
  <2> QED BY <2>2, <2>3, <2>4, Callers
<1>18. ASSUME Reuse  PROVE TenantTyped'
  BY <1>18, Callers, ChainKeeps, TbGoes DEF Reuse
<1>19. ASSUME Connected  PROVE TenantTyped'
  BY <1>19, Callers, ChainKeeps, TbGoes DEF Connected
<1>20. ASSUME Disconnect  PROVE TenantTyped'
  <2>1. Asked(Person, "disconnect") /\ Went(Person, "disconnecting")
    BY <1>20, WhoAsks
  <2>2. chain' \in Seq(RequestType) /\ caller' \in [Caller -> CallerType]
    BY <2>1 DEF Asked, Went
  <2>3. tbPast' \in TbPastType
    BY <1>20, VisitCounted DEF Disconnect
  <2>4. UNCHANGED <<chrome, lane, profile, window>> /\ lifecycle' = Person
    BY <1>20 DEF Disconnect
  <2> QED BY <2>2, <2>3, <2>4, Callers
<1>21. ASSUME Disconnected  PROVE TenantTyped'
  BY <1>21, Callers, ChainKeeps, TbGoes DEF Disconnected
<1>22. ASSUME RemoveProfile  PROVE TenantTyped'
  BY <1>22, Callers, ChainKeeps DEF RemoveProfile
<1>23. ASSUME RemoveWindow  PROVE TenantTyped'
  <2>1. Asked(Person, "disconnect") /\ Went(Person, "removing")
    BY <1>23, WhoAsks
  <2>2. chain' \in Seq(RequestType) /\ caller' \in [Caller -> CallerType]
    BY <2>1 DEF Asked, Went
  <2>3. tbPast' \in TbPastType
    BY <1>23, VisitCounted DEF RemoveWindow
  <2>4. UNCHANGED <<chrome, lane, profile, window>> /\ lifecycle' = Person
    BY <1>23 DEF RemoveWindow
  <2> QED BY <2>2, <2>3, <2>4, Callers
<1>24. ASSUME Removed  PROVE TenantTyped'
  BY <1>24, Callers, ChainKeeps, TbGoes DEF Removed
<1>25. ASSUME VisitFails  PROVE TenantTyped'
  BY <1>25, Callers, ChainKeeps, TbGoes DEF VisitFails
<1>26. ASSUME SweepTenant  PROVE TenantTyped'
  BY <1>26, Callers, ChainKeeps, TbGoes DEF SweepTenant
<1>27. ASSUME SweepLooks  PROVE TenantTyped'
  BY <1>27, Callers, ChainKeeps, TbGoes DEF SweepLooks
<1>28. ASSUME SweepStops  PROVE TenantTyped'
  <2>1. Asked(Sweeper, "stop") /\ Went(Sweeper, "stopping")
    BY <1>28, WhoAsks
  <2>2. chain' \in Seq(RequestType) /\ caller' \in [Caller -> CallerType]
    BY <2>1 DEF Asked, Went
  <2> QED BY <1>28, <2>2, Callers DEF SweepStops
<1>29. ASSUME SweepEnds  PROVE TenantTyped'
  BY <1>29, Callers, ChainKeeps, TbGoes DEF SweepEnds
<1>30. ASSUME TbLaneLost  PROVE TenantTyped'
  BY <1>30, Callers, ChainKeeps DEF TbLaneLost
<1>31. ASSUME DeadLaneExpires  PROVE TenantTyped'
  BY <1>31, Callers, ChainKeeps DEF DeadLaneExpires
<1>32. ASSUME UNCHANGED tbVars  PROVE TenantTyped'
  BY <1>32 DEF tbVars
<1> QED BY <1>1, <1>2, <1>3, <1>4, <1>5, <1>6, <1>7, <1>8, <1>9, <1>10, <1>11, <1>12, <1>13, <1>14,
           <1>15, <1>16, <1>17, <1>18, <1>19, <1>20, <1>21, <1>22, <1>23, <1>24, <1>25, <1>26,
           <1>27, <1>28, <1>29, <1>30, <1>31, <1>32
           DEF TenantNext, AgentStep, SessionStep, PersonStep, SweepTenantStep

LEMMA AwaitedStep ==
  ASSUME TenantInv, [TenantNext]_tbVars
  PROVE  RequestsAwaited'
<1> USE DEF TenantInv, TenantTyped, TbAt, Unlocked, OutOfLane, TbFault, AtHead, disconnectAllowed,
        TbVisit, LaneIsFree,
           RequestsAwaited, Awaited, CallerPc, RequestKind, RequestType
<1>1. ASSUME NEW s \in Session, TbEnter(s)  PROVE RequestsAwaited'
  BY <1>1, Callers, ChainKeeps, TbGoes DEF TbEnter
<1>2. ASSUME NEW s \in Session, OpenVm(s)  PROVE RequestsAwaited'
  <2>1. Asked(s, "apply") /\ Went(s, "opening")
    BY <1>2, WhoAsks
  <2>2. Awaited(caller[s].pc) = "none"
    BY <1>2, Callers DEF OpenVm
  <2>3. Awaited("opening") = "apply"
    OBVIOUS
  <2> HIDE DEF Awaited, RequestsAwaited
  <2> QED BY <2>1, <2>2, <2>3, AskedAwaited, Callers
<1>3. ASSUME NEW s \in Session, OpenFails(s)  PROVE RequestsAwaited'
  BY <1>3, Callers, ChainKeeps, TbGoes DEF OpenFails
<1>4. ASSUME NEW s \in Session, TbOpened(s)  PROVE RequestsAwaited'
  BY <1>4, Callers, ChainKeeps, TbGoes DEF TbOpened
<1>5. ASSUME NEW s \in Session, CannotAttach(s)  PROVE RequestsAwaited'
  <2>1. Asked(s, "stop") /\ Went(s, "undoing")
    BY <1>5, WhoAsks
  <2>2. caller[s].reply # "none"
    BY <1>5, Callers DEF CannotAttach
  <2>3. Awaited("undoing") = "stop"
    OBVIOUS
  <2> HIDE DEF Awaited, RequestsAwaited
  <2> QED BY <2>1, <2>2, <2>3, AskedAwaited, Callers
<1>6. ASSUME NEW s \in Session, CannotPrepare(s)  PROVE RequestsAwaited'
  BY <1>6, Callers, ChainKeeps, TbGoes DEF CannotPrepare
<1>7. ASSUME NEW s \in Session, TbClose(s)  PROVE RequestsAwaited'
  <2>1. Asked(s, "stop") /\ Went(s, "closing")
    BY <1>7, WhoAsks
  <2>2. Awaited(caller[s].pc) = "none"
    BY <1>7, Callers DEF TbClose
  <2>3. Awaited("closing") = "stop"
    OBVIOUS
  <2> HIDE DEF Awaited, RequestsAwaited
  <2> QED BY <2>1, <2>2, <2>3, AskedAwaited, Callers
<1>8. ASSUME NEW s \in Session, TbLeave(s)  PROVE RequestsAwaited'
  BY <1>8, Callers, ChainKeeps, TbGoes DEF TbLeave
<1>9. ASSUME NEW s \in Session, SessionDies(s)  PROVE RequestsAwaited'
  <2>1. LetGo(s) /\ Went(s, "dead")
    BY <1>9, WhoLetsGo
  <2> QED BY <2>1, LetGoAwaited, Callers DEF Went
<1>10. ASSUME NEW c \in Caller, CallTimesOut(c)  PROVE RequestsAwaited'
  BY <1>10, WhoLetsGo, TimesOut, LetGoAwaited
<1>11. ASSUME AgentRefuses  PROVE RequestsAwaited'
  BY <1>11, WhoAnswers, AnsweredAwaited
<1>12. ASSUME AgentLaunches  PROVE RequestsAwaited'
  BY <1>12, Callers, ChainKeeps, ChainBegun DEF AgentLaunches
<1>13. ASSUME AgentReady  PROVE RequestsAwaited'
  BY <1>13, WhoAnswers, AnsweredAwaited
<1>14. ASSUME AgentLaunchFails  PROVE RequestsAwaited'
  BY <1>14, WhoAnswers, AnsweredAwaited
<1>15. ASSUME AgentStops  PROVE RequestsAwaited'
  BY <1>15, WhoAnswers, AnsweredAwaited
<1>16. ASSUME BrowserGoes  PROVE RequestsAwaited'
  BY <1>16, Callers, ChainKeeps DEF BrowserGoes
<1>17. ASSUME Connect  PROVE RequestsAwaited'
  <2>1. Asked(Person, "connect") /\ Went(Person, "connecting")
    BY <1>17, WhoAsks
  <2>2. Awaited(caller[Person].pc) = "none"
    BY <1>17, Callers DEF Connect
  <2>3. Awaited("connecting") = "connect"
    OBVIOUS
  <2> HIDE DEF Awaited, RequestsAwaited
  <2> QED BY <2>1, <2>2, <2>3, AskedAwaited, Callers
<1>18. ASSUME Reuse  PROVE RequestsAwaited'
  BY <1>18, Callers, ChainKeeps, TbGoes DEF Reuse
<1>19. ASSUME Connected  PROVE RequestsAwaited'
  BY <1>19, Callers, ChainKeeps, TbGoes DEF Connected
<1>20. ASSUME Disconnect  PROVE RequestsAwaited'
  <2>1. Asked(Person, "disconnect") /\ Went(Person, "disconnecting")
    BY <1>20, WhoAsks
  <2>2. Awaited(caller[Person].pc) = "none"
    BY <1>20, Callers DEF Disconnect
  <2>3. Awaited("disconnecting") = "disconnect"
    OBVIOUS
  <2> HIDE DEF Awaited, RequestsAwaited
  <2> QED BY <2>1, <2>2, <2>3, AskedAwaited, Callers
<1>21. ASSUME Disconnected  PROVE RequestsAwaited'
  BY <1>21, Callers, ChainKeeps, TbGoes DEF Disconnected
<1>22. ASSUME RemoveProfile  PROVE RequestsAwaited'
  BY <1>22, Callers, ChainKeeps DEF RemoveProfile
<1>23. ASSUME RemoveWindow  PROVE RequestsAwaited'
  <2>1. Asked(Person, "disconnect") /\ Went(Person, "removing")
    BY <1>23, WhoAsks
  <2>2. Awaited(caller[Person].pc) = "none"
    BY <1>23, Callers DEF RemoveWindow
  <2>3. Awaited("removing") = "disconnect"
    OBVIOUS
  <2> HIDE DEF Awaited, RequestsAwaited
  <2> QED BY <2>1, <2>2, <2>3, AskedAwaited, Callers
<1>24. ASSUME Removed  PROVE RequestsAwaited'
  BY <1>24, Callers, ChainKeeps, TbGoes DEF Removed
<1>25. ASSUME VisitFails  PROVE RequestsAwaited'
  BY <1>25, Callers, ChainKeeps, TbGoes DEF VisitFails
<1>26. ASSUME SweepTenant  PROVE RequestsAwaited'
  BY <1>26, Callers, ChainKeeps, TbGoes DEF SweepTenant
<1>27. ASSUME SweepLooks  PROVE RequestsAwaited'
  BY <1>27, Callers, ChainKeeps, TbGoes DEF SweepLooks
<1>28. ASSUME SweepStops  PROVE RequestsAwaited'
  <2>1. Asked(Sweeper, "stop") /\ Went(Sweeper, "stopping")
    BY <1>28, WhoAsks
  <2>2. Awaited(caller[Sweeper].pc) = "none"
    BY <1>28, Callers DEF SweepStops
  <2>3. Awaited("stopping") = "stop"
    OBVIOUS
  <2> HIDE DEF Awaited, RequestsAwaited
  <2> QED BY <2>1, <2>2, <2>3, AskedAwaited, Callers
<1>29. ASSUME SweepEnds  PROVE RequestsAwaited'
  BY <1>29, Callers, ChainKeeps, TbGoes DEF SweepEnds
<1>30. ASSUME TbLaneLost  PROVE RequestsAwaited'
  BY <1>30, Callers, ChainKeeps DEF TbLaneLost
<1>31. ASSUME DeadLaneExpires  PROVE RequestsAwaited'
  BY <1>31, Callers, ChainKeeps DEF DeadLaneExpires
<1>32. ASSUME UNCHANGED tbVars  PROVE RequestsAwaited'
  BY <1>32 DEF tbVars
<1> QED BY <1>1, <1>2, <1>3, <1>4, <1>5, <1>6, <1>7, <1>8, <1>9, <1>10, <1>11, <1>12, <1>13, <1>14,
           <1>15, <1>16, <1>17, <1>18, <1>19, <1>20, <1>21, <1>22, <1>23, <1>24, <1>25, <1>26,
           <1>27, <1>28, <1>29, <1>30, <1>31, <1>32
           DEF TenantNext, AgentStep, SessionStep, PersonStep, SweepTenantStep

LEMMA InTurnStep ==
  ASSUME TenantInv, [TenantNext]_tbVars
  PROVE  RequestsInTurn'
<1> USE DEF TenantInv, TenantTyped, TbAt, Unlocked, OutOfLane, TbFault, AtHead, disconnectAllowed,
        TbVisit, LaneIsFree,
           RequestsInTurn, RequestsAwaited, Awaited, CallerPc, RequestKind, RequestType
<1>1. ASSUME NEW s \in Session, TbEnter(s)  PROVE RequestsInTurn'
  BY <1>1, Callers, ChainKeeps, TbGoes DEF TbEnter
<1>2. ASSUME NEW s \in Session, OpenVm(s)  PROVE RequestsInTurn'
  <2>1. Asked(s, "apply") /\ Went(s, "opening")
    BY <1>2, WhoAsks
  <2>2. \A i \in DOMAIN chain : chain[i].from # s
    BY <1>2, ChainKeeps, Callers DEF OpenVm
  <2> HIDE DEF RequestsAwaited
  <2> QED BY <2>1, <2>2, Callers, ChainKeeps DEF Asked, Went
<1>3. ASSUME NEW s \in Session, OpenFails(s)  PROVE RequestsInTurn'
  BY <1>3, Callers, ChainKeeps, TbGoes DEF OpenFails
<1>4. ASSUME NEW s \in Session, TbOpened(s)  PROVE RequestsInTurn'
  BY <1>4, Callers, ChainKeeps, TbGoes DEF TbOpened
<1>5. ASSUME NEW s \in Session, CannotAttach(s)  PROVE RequestsInTurn'
  <2>1. Asked(s, "stop") /\ Went(s, "undoing")
    BY <1>5, WhoAsks
  <2>2. \A i \in DOMAIN chain : chain[i].from # s
    BY <1>5, ChainKeeps, Callers DEF CannotAttach
  <2> HIDE DEF RequestsAwaited
  <2> QED BY <2>1, <2>2, Callers, ChainKeeps DEF Asked, Went
<1>6. ASSUME NEW s \in Session, CannotPrepare(s)  PROVE RequestsInTurn'
  BY <1>6, Callers, ChainKeeps, TbGoes DEF CannotPrepare
<1>7. ASSUME NEW s \in Session, TbClose(s)  PROVE RequestsInTurn'
  <2>1. Asked(s, "stop") /\ Went(s, "closing")
    BY <1>7, WhoAsks
  <2>2. \A i \in DOMAIN chain : chain[i].from # s
    BY <1>7, ChainKeeps, Callers DEF TbClose
  <2> HIDE DEF RequestsAwaited
  <2> QED BY <2>1, <2>2, Callers, ChainKeeps DEF Asked, Went
<1>8. ASSUME NEW s \in Session, TbLeave(s)  PROVE RequestsInTurn'
  BY <1>8, Callers, ChainKeeps, TbGoes DEF TbLeave
<1>9. ASSUME NEW s \in Session, SessionDies(s)  PROVE RequestsInTurn'
  <2>1. LetGo(s) /\ Went(s, "dead")
    BY <1>9, WhoLetsGo
  <2> QED BY <1>9, <2>1, Callers, ChainKeeps DEF SessionDies, LetGo, Went
<1>10. ASSUME NEW c \in Caller, CallTimesOut(c)  PROVE RequestsInTurn'
  <2>1. LetGo(c)
    BY <1>10, WhoLetsGo
  <2> QED BY <1>10, <2>1, Callers, ChainKeeps, TimesOut DEF CallTimesOut, LetGo
<1>11. ASSUME AgentRefuses  PROVE RequestsInTurn'
  BY <1>11, WhoAnswers, AnsweredInTurn
<1>12. ASSUME AgentLaunches  PROVE RequestsInTurn'
  BY <1>12, Callers, ChainKeeps, ChainBegun DEF AgentLaunches
<1>13. ASSUME AgentReady  PROVE RequestsInTurn'
  BY <1>13, WhoAnswers, AnsweredInTurn
<1>14. ASSUME AgentLaunchFails  PROVE RequestsInTurn'
  BY <1>14, WhoAnswers, AnsweredInTurn
<1>15. ASSUME AgentStops  PROVE RequestsInTurn'
  BY <1>15, WhoAnswers, AnsweredInTurn
<1>16. ASSUME BrowserGoes  PROVE RequestsInTurn'
  BY <1>16, Callers, ChainKeeps DEF BrowserGoes
<1>17. ASSUME Connect  PROVE RequestsInTurn'
  <2>1. Asked(Person, "connect") /\ Went(Person, "connecting")
    BY <1>17, WhoAsks
  <2> QED BY <1>17, <2>1, Callers, ChainKeeps DEF Connect, Asked, Went
<1>18. ASSUME Reuse  PROVE RequestsInTurn'
  BY <1>18, Callers, ChainKeeps, TbGoes DEF Reuse
<1>19. ASSUME Connected  PROVE RequestsInTurn'
  BY <1>19, Callers, ChainKeeps, TbGoes DEF Connected
<1>20. ASSUME Disconnect  PROVE RequestsInTurn'
  <2>1. Asked(Person, "disconnect") /\ Went(Person, "disconnecting")
    BY <1>20, WhoAsks
  <2> QED BY <1>20, <2>1, Callers, ChainKeeps DEF Disconnect, Asked, Went
<1>21. ASSUME Disconnected  PROVE RequestsInTurn'
  BY <1>21, Callers, ChainKeeps, TbGoes DEF Disconnected
<1>22. ASSUME RemoveProfile  PROVE RequestsInTurn'
  BY <1>22, Callers, ChainKeeps DEF RemoveProfile
<1>23. ASSUME RemoveWindow  PROVE RequestsInTurn'
  <2>1. Asked(Person, "disconnect") /\ Went(Person, "removing")
    BY <1>23, WhoAsks
  <2> QED BY <1>23, <2>1, Callers, ChainKeeps DEF RemoveWindow, Asked, Went
<1>24. ASSUME Removed  PROVE RequestsInTurn'
  BY <1>24, Callers, ChainKeeps, TbGoes DEF Removed
<1>25. ASSUME VisitFails  PROVE RequestsInTurn'
  BY <1>25, Callers, ChainKeeps, TbGoes DEF VisitFails
<1>26. ASSUME SweepTenant  PROVE RequestsInTurn'
  BY <1>26, Callers, ChainKeeps, TbGoes DEF SweepTenant
<1>27. ASSUME SweepLooks  PROVE RequestsInTurn'
  BY <1>27, Callers, ChainKeeps, TbGoes DEF SweepLooks
<1>28. ASSUME SweepStops  PROVE RequestsInTurn'
  <2>1. Asked(Sweeper, "stop") /\ Went(Sweeper, "stopping")
    BY <1>28, WhoAsks
  <2> QED BY <1>28, <2>1, Callers, ChainKeeps DEF SweepStops, Asked, Went
<1>29. ASSUME SweepEnds  PROVE RequestsInTurn'
  BY <1>29, Callers, ChainKeeps, TbGoes DEF SweepEnds
<1>30. ASSUME TbLaneLost  PROVE RequestsInTurn'
  BY <1>30, Callers, ChainKeeps DEF TbLaneLost
<1>31. ASSUME DeadLaneExpires  PROVE RequestsInTurn'
  BY <1>31, Callers, ChainKeeps DEF DeadLaneExpires
<1>32. ASSUME UNCHANGED tbVars  PROVE RequestsInTurn'
  BY <1>32 DEF tbVars
<1> QED BY <1>1, <1>2, <1>3, <1>4, <1>5, <1>6, <1>7, <1>8, <1>9, <1>10, <1>11, <1>12, <1>13, <1>14,
           <1>15, <1>16, <1>17, <1>18, <1>19, <1>20, <1>21, <1>22, <1>23, <1>24, <1>25, <1>26,
           <1>27, <1>28, <1>29, <1>30, <1>31, <1>32
           DEF TenantNext, AgentStep, SessionStep, PersonStep, SweepTenantStep

LEMMA BegunStep ==
  ASSUME TenantInv, [TenantNext]_tbVars
  PROVE  BegunAtHead'
<1> USE DEF TenantInv, TenantTyped, TbAt, Unlocked, OutOfLane, TbFault, AtHead, disconnectAllowed,
        TbVisit, LaneIsFree,
           BegunAtHead, LaunchKind, CallerPc, RequestKind, Stopped
<1>1. ASSUME NEW s \in Session, TbEnter(s)  PROVE BegunAtHead'
  BY <1>1, Callers, ChainKeeps, TbGoes DEF TbEnter
<1>2. ASSUME NEW s \in Session, OpenVm(s)  PROVE BegunAtHead'
  <2>1. Asked(s, "apply") /\ Went(s, "opening")
    BY <1>2, WhoAsks
  <2> QED BY <1>2, <2>1, Callers, ChainKeeps DEF OpenVm, Asked, Went
<1>3. ASSUME NEW s \in Session, OpenFails(s)  PROVE BegunAtHead'
  BY <1>3, Callers, ChainKeeps, TbGoes DEF OpenFails
<1>4. ASSUME NEW s \in Session, TbOpened(s)  PROVE BegunAtHead'
  BY <1>4, Callers, ChainKeeps, TbGoes DEF TbOpened
<1>5. ASSUME NEW s \in Session, CannotAttach(s)  PROVE BegunAtHead'
  <2>1. Asked(s, "stop") /\ Went(s, "undoing")
    BY <1>5, WhoAsks
  <2> QED BY <1>5, <2>1, Callers, ChainKeeps DEF CannotAttach, Asked, Went
<1>6. ASSUME NEW s \in Session, CannotPrepare(s)  PROVE BegunAtHead'
  BY <1>6, Callers, ChainKeeps, TbGoes DEF CannotPrepare
<1>7. ASSUME NEW s \in Session, TbClose(s)  PROVE BegunAtHead'
  <2>1. Asked(s, "stop") /\ Went(s, "closing")
    BY <1>7, WhoAsks
  <2> QED BY <1>7, <2>1, Callers, ChainKeeps DEF TbClose, Asked, Went
<1>8. ASSUME NEW s \in Session, TbLeave(s)  PROVE BegunAtHead'
  BY <1>8, Callers, ChainKeeps, TbGoes DEF TbLeave
<1>9. ASSUME NEW s \in Session, SessionDies(s)  PROVE BegunAtHead'
  <2>1. LetGo(s) /\ Went(s, "dead")
    BY <1>9, WhoLetsGo
  <2> QED BY <1>9, <2>1 DEF SessionDies, LetGo
<1>10. ASSUME NEW c \in Caller, CallTimesOut(c)  PROVE BegunAtHead'
  <2>1. LetGo(c)
    BY <1>10, WhoLetsGo
  <2> QED BY <1>10, <2>1, Callers, ChainKeeps, TimesOut DEF CallTimesOut, LetGo
<1>11. ASSUME AgentRefuses  PROVE BegunAtHead'
  <2>1. Answered(chrome.mode) /\ chrome.mode \in {"connect", "apply"}
    BY <1>11, WhoAnswers
  <2> QED BY <1>11, <2>1, Callers, ChainKeeps DEF AgentRefuses, Answered
<1>12. ASSUME AgentLaunches  PROVE BegunAtHead'
  BY <1>12, Callers, ChainKeeps, ChainBegun DEF AgentLaunches
<1>13. ASSUME AgentReady  PROVE BegunAtHead'
  <2>1. Answered("ok")
    BY <1>13, WhoAnswers
  <2> QED BY <1>13, <2>1, Callers, ChainKeeps DEF AgentReady, Answered
<1>14. ASSUME AgentLaunchFails  PROVE BegunAtHead'
  <2>1. Answered("error")
    BY <1>14, WhoAnswers
  <2> QED BY <1>14, <2>1, Callers, ChainKeeps DEF AgentLaunchFails, Answered
<1>15. ASSUME AgentStops  PROVE BegunAtHead'
  <2>1. Answered("ok")
    BY <1>15, WhoAnswers
  <2> QED BY <1>15, <2>1, Callers, ChainKeeps DEF AgentStops, Answered
<1>16. ASSUME BrowserGoes  PROVE BegunAtHead'
  BY <1>16, Callers, ChainKeeps DEF BrowserGoes
<1>17. ASSUME Connect  PROVE BegunAtHead'
  <2>1. Asked(Person, "connect") /\ Went(Person, "connecting")
    BY <1>17, WhoAsks
  <2> QED BY <1>17, <2>1, Callers, ChainKeeps DEF Connect, Asked, Went
<1>18. ASSUME Reuse  PROVE BegunAtHead'
  BY <1>18, Callers, ChainKeeps, TbGoes DEF Reuse
<1>19. ASSUME Connected  PROVE BegunAtHead'
  BY <1>19, Callers, ChainKeeps, TbGoes DEF Connected
<1>20. ASSUME Disconnect  PROVE BegunAtHead'
  <2>1. Asked(Person, "disconnect") /\ Went(Person, "disconnecting")
    BY <1>20, WhoAsks
  <2> QED BY <1>20, <2>1, Callers, ChainKeeps DEF Disconnect, Asked, Went
<1>21. ASSUME Disconnected  PROVE BegunAtHead'
  BY <1>21, Callers, ChainKeeps, TbGoes DEF Disconnected
<1>22. ASSUME RemoveProfile  PROVE BegunAtHead'
  BY <1>22, Callers, ChainKeeps DEF RemoveProfile
<1>23. ASSUME RemoveWindow  PROVE BegunAtHead'
  <2>1. Asked(Person, "disconnect") /\ Went(Person, "removing")
    BY <1>23, WhoAsks
  <2> QED BY <1>23, <2>1, Callers, ChainKeeps DEF RemoveWindow, Asked, Went
<1>24. ASSUME Removed  PROVE BegunAtHead'
  BY <1>24, Callers, ChainKeeps, TbGoes DEF Removed
<1>25. ASSUME VisitFails  PROVE BegunAtHead'
  BY <1>25, Callers, ChainKeeps, TbGoes DEF VisitFails
<1>26. ASSUME SweepTenant  PROVE BegunAtHead'
  BY <1>26, Callers, ChainKeeps, TbGoes DEF SweepTenant
<1>27. ASSUME SweepLooks  PROVE BegunAtHead'
  BY <1>27, Callers, ChainKeeps, TbGoes DEF SweepLooks
<1>28. ASSUME SweepStops  PROVE BegunAtHead'
  <2>1. Asked(Sweeper, "stop") /\ Went(Sweeper, "stopping")
    BY <1>28, WhoAsks
  <2> QED BY <1>28, <2>1, Callers, ChainKeeps DEF SweepStops, Asked, Went
<1>29. ASSUME SweepEnds  PROVE BegunAtHead'
  BY <1>29, Callers, ChainKeeps, TbGoes DEF SweepEnds
<1>30. ASSUME TbLaneLost  PROVE BegunAtHead'
  BY <1>30, Callers, ChainKeeps DEF TbLaneLost
<1>31. ASSUME DeadLaneExpires  PROVE BegunAtHead'
  BY <1>31, Callers, ChainKeeps DEF DeadLaneExpires
<1>32. ASSUME UNCHANGED tbVars  PROVE BegunAtHead'
  BY <1>32 DEF tbVars
<1> QED BY <1>1, <1>2, <1>3, <1>4, <1>5, <1>6, <1>7, <1>8, <1>9, <1>10, <1>11, <1>12, <1>13, <1>14,
           <1>15, <1>16, <1>17, <1>18, <1>19, <1>20, <1>21, <1>22, <1>23, <1>24, <1>25, <1>26,
           <1>27, <1>28, <1>29, <1>30, <1>31, <1>32
           DEF TenantNext, AgentStep, SessionStep, PersonStep, SweepTenantStep

LEMMA OwnStep ==
  ASSUME TenantInv, [TenantNext]_tbVars
  PROVE  OwnBrowser'
<1> USE DEF TenantInv, TenantTyped, TbAt, Unlocked, OutOfLane, TbFault, AtHead, disconnectAllowed,
        TbVisit, LaneIsFree,
           OwnBrowser, RequestsInTurn, RequestsAwaited, Awaited, BegunAtHead, CallerPc, RequestKind, LaunchKind, Stopped
<1>1. ASSUME NEW s \in Session, TbEnter(s)  PROVE OwnBrowser'
  BY <1>1, Callers, ChainKeeps, TbGoes DEF TbEnter
<1>2. ASSUME NEW s \in Session, OpenVm(s)  PROVE OwnBrowser'
  <2>1. Asked(s, "apply") /\ Went(s, "opening")
    BY <1>2, WhoAsks
  <2> QED BY <1>2, <2>1, Callers, ChainKeeps DEF OpenVm, Asked, Went
<1>3. ASSUME NEW s \in Session, OpenFails(s)  PROVE OwnBrowser'
  BY <1>3, Callers, ChainKeeps, TbGoes DEF OpenFails
<1>4. ASSUME NEW s \in Session, TbOpened(s)  PROVE OwnBrowser'
  BY <1>4, Callers, ChainKeeps, TbGoes DEF TbOpened
<1>5. ASSUME NEW s \in Session, CannotAttach(s)  PROVE OwnBrowser'
  <2>1. Asked(s, "stop") /\ Went(s, "undoing")
    BY <1>5, WhoAsks
  <2> QED BY <1>5, <2>1, Callers, ChainKeeps DEF CannotAttach, Asked, Went
<1>6. ASSUME NEW s \in Session, CannotPrepare(s)  PROVE OwnBrowser'
  BY <1>6, Callers, ChainKeeps, TbGoes DEF CannotPrepare
<1>7. ASSUME NEW s \in Session, TbClose(s)  PROVE OwnBrowser'
  <2>1. Asked(s, "stop") /\ Went(s, "closing")
    BY <1>7, WhoAsks
  <2> QED BY <1>7, <2>1, Callers, ChainKeeps DEF TbClose, Asked, Went
<1>8. ASSUME NEW s \in Session, TbLeave(s)  PROVE OwnBrowser'
  BY <1>8, Callers, ChainKeeps, TbGoes DEF TbLeave
<1>9. ASSUME NEW s \in Session, SessionDies(s)  PROVE OwnBrowser'
  <2>1. LetGo(s) /\ Went(s, "dead")
    BY <1>9, WhoLetsGo
  <2> QED BY <1>9, <2>1, Callers, ChainKeeps DEF SessionDies, LetGo, Went
<1>10. ASSUME NEW c \in Caller, CallTimesOut(c)  PROVE OwnBrowser'
  <2>1. LetGo(c)
    BY <1>10, WhoLetsGo
  <2> QED BY <1>10, <2>1, Callers, ChainKeeps, TimesOut DEF CallTimesOut, LetGo
<1>11. ASSUME AgentRefuses  PROVE OwnBrowser'
  <2>1. Answered(chrome.mode) /\ chrome.mode \in {"connect", "apply"}
    BY <1>11, WhoAnswers
  <2>2. ASSUME NEW s \in Session
        PROVE  /\ TbAt(s, "working")' => TbAt(s, "working")
               /\ TbAt(s, "opening")' /\ caller'[s].reply = "ok" =>
                     TbAt(s, "opening") /\ caller[s].reply = "ok"
    BY <2>1, Callers DEF Answered
  <2>3. ASSUME NEW s \in Session, NEW i \in DOMAIN chain', chain'[i].kind = "stop", chain'[i].from = s
        PROVE  \E j \in DOMAIN chain : chain[j].kind = "stop" /\ chain[j].from = s
    BY <2>1, <2>3 DEF Answered
  <2> HIDE DEF RequestsAwaited, RequestsInTurn, BegunAtHead
  <2> QED BY <1>11, <2>2, <2>3 DEF AgentRefuses
<1>12. ASSUME AgentLaunches  PROVE OwnBrowser'
  BY <1>12, Callers, ChainKeeps, ChainBegun DEF AgentLaunches
<1>13. ASSUME AgentReady  PROVE OwnBrowser'
  <2>1. Answered("ok")
    BY <1>13, WhoAnswers
  <2>2. chrome = [mode |-> chain[1].kind, by |-> chain[1].from]
    BY <1>13, <2>1, ChainKeeps DEF AgentReady, Answered
  <2>3. chain[1].heard => Awaited(caller[chain[1].from].pc) = chain[1].kind
    BY <2>1 DEF Answered
  <2>4. ASSUME NEW s \in Session, TbAt(s, "opening")', caller'[s].reply = "ok", caller[s].reply # "ok"
        PROVE  chrome = [mode |-> "apply", by |-> s]
    BY <2>1, <2>2, <2>3, <2>4, Callers DEF Answered
  <2>5. ASSUME NEW s \in Session, NEW i \in DOMAIN chain', chain'[i].kind = "stop", chain'[i].from = s
        PROVE  \E j \in DOMAIN chain : chain[j].kind = "stop" /\ chain[j].from = s
    BY <2>1, <2>5 DEF Answered
  <2> HIDE DEF RequestsAwaited, RequestsInTurn, BegunAtHead
  <2> SUFFICES ASSUME NEW s \in Session \ (tbPast.gone \cup tbPast.ended),
                      \/ TbAt(s, "opening")' /\ caller'[s].reply = "ok"
                      \/ TbAt(s, "working")'
                      \/ \E i \in DOMAIN chain' : chain'[i].kind = "stop" /\ chain'[i].from = s
               PROVE  chrome = [mode |-> "apply", by |-> s]
    BY <1>13 DEF AgentReady
  <2>6. CASE TbAt(s, "opening")' /\ caller'[s].reply = "ok"
    BY <2>1, <2>4, <2>6, Callers DEF Answered
  <2>7. CASE TbAt(s, "working")'
    BY <2>1, <2>7, Callers DEF Answered
  <2>8. CASE \E i \in DOMAIN chain' : chain'[i].kind = "stop" /\ chain'[i].from = s
    BY <2>5, <2>8
  <2> QED BY <2>6, <2>7, <2>8
<1>14. ASSUME AgentLaunchFails  PROVE OwnBrowser'
  <2>1. Answered("error")
    BY <1>14, WhoAnswers
  <2>2. ASSUME NEW s \in Session
        PROVE  /\ TbAt(s, "working")' => TbAt(s, "working")
               /\ TbAt(s, "opening")' /\ caller'[s].reply = "ok" =>
                     TbAt(s, "opening") /\ caller[s].reply = "ok"
    BY <2>1, Callers DEF Answered
  <2>3. ASSUME NEW s \in Session, NEW i \in DOMAIN chain', chain'[i].kind = "stop", chain'[i].from = s
        PROVE  \E j \in DOMAIN chain : chain[j].kind = "stop" /\ chain[j].from = s
    BY <2>1, <2>3 DEF Answered
  <2>4. 1 \in DOMAIN chain /\ chain[1].begun
    BY <1>14, <2>1 DEF AgentLaunchFails, Answered
  <2>5. ASSUME NEW s \in Session, chrome = [mode |-> "apply", by |-> s]
        PROVE  chain[1].kind = "apply" /\ chain[1].from = s
    BY <2>4, <2>5
  <2>6. ASSUME NEW s \in Session, chain[1].kind = "apply", chain[1].from = s
        PROVE  /\ ~TbAt(s, "working")
               /\ ~\E j \in DOMAIN chain : chain[j].kind = "stop" /\ chain[j].from = s
               /\ TbAt(s, "opening") => caller[s].reply # "ok"
    BY <2>4, <2>6
  <2> HIDE DEF RequestsAwaited, RequestsInTurn, BegunAtHead
  <2> QED BY <1>14, <2>2, <2>3, <2>5, <2>6 DEF AgentLaunchFails
<1>15. ASSUME AgentStops  PROVE OwnBrowser'
  <2>1. Answered("ok")
    BY <1>15, WhoAnswers
  <2>2. chain[1].kind \in {"stop", "disconnect"}
    BY <1>15, <2>1 DEF AgentStops, Answered
  <2> SUFFICES ASSUME NEW s \in Session, s \notin tbPast'.gone \cup tbPast'.ended,
                      \/ TbAt(s, "opening")' /\ caller'[s].reply = "ok"
                      \/ TbAt(s, "working")'
                      \/ \E i \in DOMAIN chain' : chain'[i].kind = "stop" /\ chain'[i].from = s
               PROVE  FALSE
    OBVIOUS
  <2>3. /\ s \notin tbPast.gone \cup tbPast.ended /\ (s = chrome.by => s = chain[1].from)
    BY <1>15, <2>1 DEF AgentStops, Answered, TbPastType
  <2>4. ~(chain[1].heard /\ s = chain[1].from /\ TbAt(s, "opening"))
    BY <2>1, <2>2 DEF Answered
  <2>5. \/ TbAt(s, "opening") /\ caller[s].reply = "ok"
        \/ TbAt(s, "working")
        \/ \E i \in DOMAIN chain : i # 1 /\ chain[i].kind = "stop" /\ chain[i].from = s
    BY <2>1, <2>4, Callers DEF Answered
  <2>6. s = chain[1].from
    BY <2>3, <2>5
  <2> QED BY <2>1, <2>2, <2>5, <2>6, Callers DEF Answered
<1>16. ASSUME BrowserGoes  PROVE OwnBrowser'
  BY <1>16, Callers, ChainKeeps DEF BrowserGoes
<1>17. ASSUME Connect  PROVE OwnBrowser'
  <2>1. Asked(Person, "connect") /\ Went(Person, "connecting")
    BY <1>17, WhoAsks
  <2> QED BY <1>17, <2>1, Callers, ChainKeeps DEF Connect, Asked, Went
<1>18. ASSUME Reuse  PROVE OwnBrowser'
  BY <1>18, Callers, ChainKeeps, TbGoes DEF Reuse
<1>19. ASSUME Connected  PROVE OwnBrowser'
  BY <1>19, Callers, ChainKeeps, TbGoes DEF Connected
<1>20. ASSUME Disconnect  PROVE OwnBrowser'
  <2>1. Asked(Person, "disconnect") /\ Went(Person, "disconnecting")
    BY <1>20, WhoAsks
  <2> QED BY <1>20, <2>1, Callers, ChainKeeps DEF Disconnect, Asked, Went
<1>21. ASSUME Disconnected  PROVE OwnBrowser'
  BY <1>21, Callers, ChainKeeps, TbGoes DEF Disconnected
<1>22. ASSUME RemoveProfile  PROVE OwnBrowser'
  BY <1>22, Callers, ChainKeeps DEF RemoveProfile
<1>23. ASSUME RemoveWindow  PROVE OwnBrowser'
  <2>1. Asked(Person, "disconnect") /\ Went(Person, "removing")
    BY <1>23, WhoAsks
  <2> QED BY <1>23, <2>1, Callers, ChainKeeps DEF RemoveWindow, Asked, Went
<1>24. ASSUME Removed  PROVE OwnBrowser'
  BY <1>24, Callers, ChainKeeps, TbGoes DEF Removed
<1>25. ASSUME VisitFails  PROVE OwnBrowser'
  BY <1>25, Callers, ChainKeeps, TbGoes DEF VisitFails
<1>26. ASSUME SweepTenant  PROVE OwnBrowser'
  BY <1>26, Callers, ChainKeeps, TbGoes DEF SweepTenant
<1>27. ASSUME SweepLooks  PROVE OwnBrowser'
  BY <1>27, Callers, ChainKeeps, TbGoes DEF SweepLooks
<1>28. ASSUME SweepStops  PROVE OwnBrowser'
  <2>1. Asked(Sweeper, "stop") /\ Went(Sweeper, "stopping")
    BY <1>28, WhoAsks
  <2> QED BY <1>28, <2>1, Callers, ChainKeeps DEF SweepStops, Asked, Went
<1>29. ASSUME SweepEnds  PROVE OwnBrowser'
  BY <1>29, Callers, ChainKeeps, TbGoes DEF SweepEnds
<1>30. ASSUME TbLaneLost  PROVE OwnBrowser'
  BY <1>30, Callers, ChainKeeps DEF TbLaneLost
<1>31. ASSUME DeadLaneExpires  PROVE OwnBrowser'
  BY <1>31, Callers, ChainKeeps DEF DeadLaneExpires
<1>32. ASSUME UNCHANGED tbVars  PROVE OwnBrowser'
  BY <1>32 DEF tbVars
<1> QED BY <1>1, <1>2, <1>3, <1>4, <1>5, <1>6, <1>7, <1>8, <1>9, <1>10, <1>11, <1>12, <1>13, <1>14,
           <1>15, <1>16, <1>17, <1>18, <1>19, <1>20, <1>21, <1>22, <1>23, <1>24, <1>25, <1>26,
           <1>27, <1>28, <1>29, <1>30, <1>31, <1>32
           DEF TenantNext, AgentStep, SessionStep, PersonStep, SweepTenantStep

LEMMA BehindStep ==
  ASSUME TenantInv, [TenantNext]_tbVars
  PROVE  NoLaunchBehind'
<1> USE DEF TenantInv, TenantTyped, TbAt, Unlocked, OutOfLane, TbFault, AtHead, disconnectAllowed,
        TbVisit, LaneIsFree,
           NoLaunchBehind, RequestsInTurn, RequestsAwaited, Awaited, LockHeld, CallerPc, RequestKind, LaunchKind
<1>1. ASSUME NEW s \in Session, TbEnter(s)  PROVE NoLaunchBehind'
  BY <1>1, Callers, ChainKeeps, TbGoes DEF TbEnter
<1>2. ASSUME NEW s \in Session, OpenVm(s)  PROVE NoLaunchBehind'
  <2>1. Asked(s, "apply") /\ Went(s, "opening")
    BY <1>2, WhoAsks
  <2>2. \A c \in Caller : ~TbAt(c, "opening") /\ ~TbAt(c, "connecting") /\ ~TbAt(c, "reusing")
    BY <1>2, Callers DEF OpenVm
  <2>3. \A i \in DOMAIN chain : chain[i].heard => chain[i].kind \notin LaunchKind
    BY <2>2, ChainKeeps
  <2> HIDE DEF RequestsAwaited, RequestsInTurn
  <2> QED BY <2>1, <2>2, <2>3, Callers, ChainKeeps DEF Asked, Went
<1>3. ASSUME NEW s \in Session, OpenFails(s)  PROVE NoLaunchBehind'
  BY <1>3, Callers, ChainKeeps, TbGoes DEF OpenFails
<1>4. ASSUME NEW s \in Session, TbOpened(s)  PROVE NoLaunchBehind'
  BY <1>4, Callers, ChainKeeps, TbGoes DEF TbOpened
<1>5. ASSUME NEW s \in Session, CannotAttach(s)  PROVE NoLaunchBehind'
  <2>1. Asked(s, "stop") /\ Went(s, "undoing")
    BY <1>5, WhoAsks
  <2> QED BY <1>5, <2>1, Callers, ChainKeeps DEF CannotAttach, Asked, Went
<1>6. ASSUME NEW s \in Session, CannotPrepare(s)  PROVE NoLaunchBehind'
  BY <1>6, Callers, ChainKeeps, TbGoes DEF CannotPrepare
<1>7. ASSUME NEW s \in Session, TbClose(s)  PROVE NoLaunchBehind'
  <2>1. Asked(s, "stop") /\ Went(s, "closing")
    BY <1>7, WhoAsks
  <2> QED BY <1>7, <2>1, Callers, ChainKeeps DEF TbClose, Asked, Went
<1>8. ASSUME NEW s \in Session, TbLeave(s)  PROVE NoLaunchBehind'
  BY <1>8, Callers, ChainKeeps, TbGoes DEF TbLeave
<1>9. ASSUME NEW s \in Session, SessionDies(s)  PROVE NoLaunchBehind'
  <2>1. LetGo(s) /\ Went(s, "dead")
    BY <1>9, WhoLetsGo
  <2>2. caller'[Person] = caller[Person]
    BY <2>1, Callers DEF Went
  <2> HIDE DEF RequestsAwaited, RequestsInTurn
  <2> QED BY <2>1, <2>2 DEF LetGo
<1>10. ASSUME NEW c \in Caller, CallTimesOut(c)  PROVE NoLaunchBehind'
  <2>1. LetGo(c)
    BY <1>10, WhoLetsGo
  <2>2. ~TbAt(c, "reusing")
    BY <1>10, ChainKeeps DEF CallTimesOut
  <2>3. caller'[Person] = caller[Person] \/ (~TbAt(Person, "reusing")' /\ caller'[Person].reply = "error")
    BY <1>10, <2>2, TimesOut, Callers
  <2> HIDE DEF RequestsAwaited, RequestsInTurn
  <2> QED BY <2>1, <2>3 DEF LetGo
<1>11. ASSUME AgentRefuses  PROVE NoLaunchBehind'
  <2>1. Answered(chrome.mode) /\ chrome.mode \in {"connect", "apply"}
    BY <1>11, WhoAnswers
  <2>2. ASSUME chain[1].heard, chain[1].from = Person, TbAt(Person, "connecting"),
               NEW i \in DOMAIN chain'
        PROVE  chain'[i].kind \notin LaunchKind
    <3>1. chain[1].kind = "connect" /\ 1 \in DOMAIN chain
      BY <2>1, <2>2 DEF Answered
    <3>2. /\ i + 1 \in DOMAIN chain /\ chain'[i] = chain[i + 1] /\ i \in Nat /\ i >= 1
      BY <2>1 DEF Answered
    <3> QED BY <2>2, <3>1, <3>2
  <2>3. \A i, j \in DOMAIN chain' :
          chain'[i].heard /\ chain'[i].kind \in LaunchKind /\ chain'[j].kind \in LaunchKind => j <= i
    <3> SUFFICES ASSUME NEW i \in DOMAIN chain', NEW j \in DOMAIN chain', chain'[i].heard,
                        chain'[i].kind \in LaunchKind, chain'[j].kind \in LaunchKind
                 PROVE  j <= i
      OBVIOUS
    <3>1. /\ i + 1 \in DOMAIN chain /\ chain'[i] = chain[i + 1] /\ i \in Nat
          /\ j + 1 \in DOMAIN chain /\ chain'[j] = chain[j + 1] /\ j \in Nat
      BY <2>1 DEF Answered
    <3>2. j + 1 <= i + 1
      BY <3>1
    <3> QED BY <3>1, <3>2
  <2> HIDE DEF RequestsAwaited, RequestsInTurn, LaunchKind
  <2> QED BY <2>1, <2>2, <2>3, Callers DEF Answered
<1>12. ASSUME AgentLaunches  PROVE NoLaunchBehind'
  BY <1>12, Callers, ChainKeeps, ChainBegun DEF AgentLaunches
<1>13. ASSUME AgentReady  PROVE NoLaunchBehind'
  <2>1. Answered("ok")
    BY <1>13, WhoAnswers
  <2>2. ASSUME chain[1].heard, chain[1].from = Person, TbAt(Person, "connecting"),
               NEW i \in DOMAIN chain'
        PROVE  chain'[i].kind \notin LaunchKind
    <3>1. chain[1].kind = "connect" /\ 1 \in DOMAIN chain
      BY <2>1, <2>2 DEF Answered
    <3>2. /\ i + 1 \in DOMAIN chain /\ chain'[i] = chain[i + 1] /\ i \in Nat /\ i >= 1
      BY <2>1 DEF Answered
    <3> QED BY <2>2, <3>1, <3>2
  <2>3. \A i, j \in DOMAIN chain' :
          chain'[i].heard /\ chain'[i].kind \in LaunchKind /\ chain'[j].kind \in LaunchKind => j <= i
    <3> SUFFICES ASSUME NEW i \in DOMAIN chain', NEW j \in DOMAIN chain', chain'[i].heard,
                        chain'[i].kind \in LaunchKind, chain'[j].kind \in LaunchKind
                 PROVE  j <= i
      OBVIOUS
    <3>1. /\ i + 1 \in DOMAIN chain /\ chain'[i] = chain[i + 1] /\ i \in Nat
          /\ j + 1 \in DOMAIN chain /\ chain'[j] = chain[j + 1] /\ j \in Nat
      BY <2>1 DEF Answered
    <3>2. j + 1 <= i + 1
      BY <3>1
    <3> QED BY <3>1, <3>2
  <2> HIDE DEF RequestsAwaited, RequestsInTurn, LaunchKind
  <2> QED BY <2>1, <2>2, <2>3, Callers DEF Answered
<1>14. ASSUME AgentLaunchFails  PROVE NoLaunchBehind'
  <2>1. Answered("error")
    BY <1>14, WhoAnswers
  <2>2. ASSUME chain[1].heard, chain[1].from = Person, TbAt(Person, "connecting"),
               NEW i \in DOMAIN chain'
        PROVE  chain'[i].kind \notin LaunchKind
    <3>1. chain[1].kind = "connect" /\ 1 \in DOMAIN chain
      BY <2>1, <2>2 DEF Answered
    <3>2. /\ i + 1 \in DOMAIN chain /\ chain'[i] = chain[i + 1] /\ i \in Nat /\ i >= 1
      BY <2>1 DEF Answered
    <3> QED BY <2>2, <3>1, <3>2
  <2>3. \A i, j \in DOMAIN chain' :
          chain'[i].heard /\ chain'[i].kind \in LaunchKind /\ chain'[j].kind \in LaunchKind => j <= i
    <3> SUFFICES ASSUME NEW i \in DOMAIN chain', NEW j \in DOMAIN chain', chain'[i].heard,
                        chain'[i].kind \in LaunchKind, chain'[j].kind \in LaunchKind
                 PROVE  j <= i
      OBVIOUS
    <3>1. /\ i + 1 \in DOMAIN chain /\ chain'[i] = chain[i + 1] /\ i \in Nat
          /\ j + 1 \in DOMAIN chain /\ chain'[j] = chain[j + 1] /\ j \in Nat
      BY <2>1 DEF Answered
    <3>2. j + 1 <= i + 1
      BY <3>1
    <3> QED BY <3>1, <3>2
  <2> HIDE DEF RequestsAwaited, RequestsInTurn, LaunchKind
  <2> QED BY <2>1, <2>2, <2>3, Callers DEF Answered
<1>15. ASSUME AgentStops  PROVE NoLaunchBehind'
  <2>1. Answered("ok")
    BY <1>15, WhoAnswers
  <2>2. ASSUME chain[1].heard, chain[1].from = Person, TbAt(Person, "connecting"),
               NEW i \in DOMAIN chain'
        PROVE  chain'[i].kind \notin LaunchKind
    <3>1. chain[1].kind = "connect" /\ 1 \in DOMAIN chain
      BY <2>1, <2>2 DEF Answered
    <3>2. /\ i + 1 \in DOMAIN chain /\ chain'[i] = chain[i + 1] /\ i \in Nat /\ i >= 1
      BY <2>1 DEF Answered
    <3> QED BY <2>2, <3>1, <3>2
  <2>3. \A i, j \in DOMAIN chain' :
          chain'[i].heard /\ chain'[i].kind \in LaunchKind /\ chain'[j].kind \in LaunchKind => j <= i
    <3> SUFFICES ASSUME NEW i \in DOMAIN chain', NEW j \in DOMAIN chain', chain'[i].heard,
                        chain'[i].kind \in LaunchKind, chain'[j].kind \in LaunchKind
                 PROVE  j <= i
      OBVIOUS
    <3>1. /\ i + 1 \in DOMAIN chain /\ chain'[i] = chain[i + 1] /\ i \in Nat
          /\ j + 1 \in DOMAIN chain /\ chain'[j] = chain[j + 1] /\ j \in Nat
      BY <2>1 DEF Answered
    <3>2. j + 1 <= i + 1
      BY <3>1
    <3> QED BY <3>1, <3>2
  <2> HIDE DEF RequestsAwaited, RequestsInTurn, LaunchKind
  <2> QED BY <2>1, <2>2, <2>3, Callers DEF Answered
<1>16. ASSUME BrowserGoes  PROVE NoLaunchBehind'
  BY <1>16, Callers, ChainKeeps DEF BrowserGoes
<1>17. ASSUME Connect  PROVE NoLaunchBehind'
  <2>1. Asked(Person, "connect") /\ Went(Person, "connecting")
    BY <1>17, WhoAsks
  <2>2. \A c \in Caller : ~TbAt(c, "opening") /\ ~TbAt(c, "connecting") /\ ~TbAt(c, "reusing")
    BY <1>17, Callers DEF Connect
  <2>3. \A i \in DOMAIN chain : chain[i].heard => chain[i].kind \notin LaunchKind
    BY <2>2, ChainKeeps
  <2> HIDE DEF RequestsAwaited, RequestsInTurn
  <2> QED BY <2>1, <2>2, <2>3, Callers, ChainKeeps DEF Asked, Went
<1>18. ASSUME Reuse  PROVE NoLaunchBehind'
  BY <1>18, Callers, ChainKeeps, TbGoes DEF Reuse
<1>19. ASSUME Connected  PROVE NoLaunchBehind'
  BY <1>19, Callers, ChainKeeps, TbGoes DEF Connected
<1>20. ASSUME Disconnect  PROVE NoLaunchBehind'
  <2>1. Asked(Person, "disconnect") /\ Went(Person, "disconnecting")
    BY <1>20, WhoAsks
  <2> QED BY <1>20, <2>1, Callers, ChainKeeps DEF Disconnect, Asked, Went
<1>21. ASSUME Disconnected  PROVE NoLaunchBehind'
  BY <1>21, Callers, ChainKeeps, TbGoes DEF Disconnected
<1>22. ASSUME RemoveProfile  PROVE NoLaunchBehind'
  BY <1>22, Callers, ChainKeeps DEF RemoveProfile
<1>23. ASSUME RemoveWindow  PROVE NoLaunchBehind'
  <2>1. Asked(Person, "disconnect") /\ Went(Person, "removing")
    BY <1>23, WhoAsks
  <2> QED BY <1>23, <2>1, Callers, ChainKeeps DEF RemoveWindow, Asked, Went
<1>24. ASSUME Removed  PROVE NoLaunchBehind'
  BY <1>24, Callers, ChainKeeps, TbGoes DEF Removed
<1>25. ASSUME VisitFails  PROVE NoLaunchBehind'
  BY <1>25, Callers, ChainKeeps, TbGoes DEF VisitFails
<1>26. ASSUME SweepTenant  PROVE NoLaunchBehind'
  BY <1>26, Callers, ChainKeeps, TbGoes DEF SweepTenant
<1>27. ASSUME SweepLooks  PROVE NoLaunchBehind'
  BY <1>27, Callers, ChainKeeps, TbGoes DEF SweepLooks
<1>28. ASSUME SweepStops  PROVE NoLaunchBehind'
  <2>1. Asked(Sweeper, "stop") /\ Went(Sweeper, "stopping")
    BY <1>28, WhoAsks
  <2> QED BY <1>28, <2>1, Callers, ChainKeeps DEF SweepStops, Asked, Went
<1>29. ASSUME SweepEnds  PROVE NoLaunchBehind'
  BY <1>29, Callers, ChainKeeps, TbGoes DEF SweepEnds
<1>30. ASSUME TbLaneLost  PROVE NoLaunchBehind'
  BY <1>30, Callers, ChainKeeps DEF TbLaneLost
<1>31. ASSUME DeadLaneExpires  PROVE NoLaunchBehind'
  BY <1>31, Callers, ChainKeeps DEF DeadLaneExpires
<1>32. ASSUME UNCHANGED tbVars  PROVE NoLaunchBehind'
  BY <1>32 DEF tbVars
<1> QED BY <1>1, <1>2, <1>3, <1>4, <1>5, <1>6, <1>7, <1>8, <1>9, <1>10, <1>11, <1>12, <1>13, <1>14,
           <1>15, <1>16, <1>17, <1>18, <1>19, <1>20, <1>21, <1>22, <1>23, <1>24, <1>25, <1>26,
           <1>27, <1>28, <1>29, <1>30, <1>31, <1>32
           DEF TenantNext, AgentStep, SessionStep, PersonStep, SweepTenantStep

LEMMA WindowStep ==
  ASSUME TenantInv, [TenantNext]_tbVars
  PROVE  WindowIsOpen'
<1> USE DEF TenantInv, TenantTyped, TbAt, Unlocked, OutOfLane, TbFault, AtHead, disconnectAllowed,
        TbVisit, LaneIsFree,
           WindowIsOpen, BegunAtHead, CallerPc, RequestKind, LaunchKind, Stopped
<1>1. ASSUME NEW s \in Session, TbEnter(s)  PROVE WindowIsOpen'
  BY <1>1, Callers, ChainKeeps, TbGoes DEF TbEnter
<1>2. ASSUME NEW s \in Session, OpenVm(s)  PROVE WindowIsOpen'
  <2>1. Asked(s, "apply") /\ Went(s, "opening")
    BY <1>2, WhoAsks
  <2> QED BY <1>2, <2>1, Callers, ChainKeeps DEF OpenVm, Asked, Went
<1>3. ASSUME NEW s \in Session, OpenFails(s)  PROVE WindowIsOpen'
  BY <1>3, Callers, ChainKeeps, TbGoes DEF OpenFails
<1>4. ASSUME NEW s \in Session, TbOpened(s)  PROVE WindowIsOpen'
  BY <1>4, Callers, ChainKeeps, TbGoes DEF TbOpened
<1>5. ASSUME NEW s \in Session, CannotAttach(s)  PROVE WindowIsOpen'
  <2>1. Asked(s, "stop") /\ Went(s, "undoing")
    BY <1>5, WhoAsks
  <2> QED BY <1>5, <2>1, Callers, ChainKeeps DEF CannotAttach, Asked, Went
<1>6. ASSUME NEW s \in Session, CannotPrepare(s)  PROVE WindowIsOpen'
  BY <1>6, Callers, ChainKeeps, TbGoes DEF CannotPrepare
<1>7. ASSUME NEW s \in Session, TbClose(s)  PROVE WindowIsOpen'
  <2>1. Asked(s, "stop") /\ Went(s, "closing")
    BY <1>7, WhoAsks
  <2> QED BY <1>7, <2>1, Callers, ChainKeeps DEF TbClose, Asked, Went
<1>8. ASSUME NEW s \in Session, TbLeave(s)  PROVE WindowIsOpen'
  BY <1>8, Callers, ChainKeeps, TbGoes DEF TbLeave
<1>9. ASSUME NEW s \in Session, SessionDies(s)  PROVE WindowIsOpen'
  <2>1. LetGo(s) /\ Went(s, "dead")
    BY <1>9, WhoLetsGo
  <2> QED BY <1>9, <2>1, Callers, ChainKeeps DEF SessionDies, LetGo, Went
<1>10. ASSUME NEW c \in Caller, CallTimesOut(c)  PROVE WindowIsOpen'
  <2>1. LetGo(c)
    BY <1>10, WhoLetsGo
  <2> QED BY <1>10, <2>1, Callers, ChainKeeps, TimesOut DEF CallTimesOut, LetGo
<1>11. ASSUME AgentRefuses  PROVE WindowIsOpen'
  <2>1. Answered(chrome.mode) /\ chrome.mode \in {"connect", "apply"}
    BY <1>11, WhoAnswers
  <2> QED BY <1>11, <2>1, Callers, ChainKeeps DEF AgentRefuses, Answered
<1>12. ASSUME AgentLaunches  PROVE WindowIsOpen'
  BY <1>12, Callers, ChainKeeps, ChainBegun DEF AgentLaunches
<1>13. ASSUME AgentReady  PROVE WindowIsOpen'
  <2>1. Answered("ok")
    BY <1>13, WhoAnswers
  <2> QED BY <1>13, <2>1, Callers, ChainKeeps DEF AgentReady, Answered
<1>14. ASSUME AgentLaunchFails  PROVE WindowIsOpen'
  <2>1. Answered("error")
    BY <1>14, WhoAnswers
  <2>2. ~window
    BY <1>14, <2>1 DEF AgentLaunchFails, Answered
  <2> QED BY <1>14, <2>2 DEF AgentLaunchFails
<1>15. ASSUME AgentStops  PROVE WindowIsOpen'
  <2>1. Answered("ok")
    BY <1>15, WhoAnswers
  <2> QED BY <1>15, <2>1, Callers, ChainKeeps DEF AgentStops, Answered
<1>16. ASSUME BrowserGoes  PROVE WindowIsOpen'
  BY <1>16, Callers, ChainKeeps DEF BrowserGoes
<1>17. ASSUME Connect  PROVE WindowIsOpen'
  <2>1. Asked(Person, "connect") /\ Went(Person, "connecting")
    BY <1>17, WhoAsks
  <2> QED BY <1>17, <2>1, Callers, ChainKeeps DEF Connect, Asked, Went
<1>18. ASSUME Reuse  PROVE WindowIsOpen'
  BY <1>18, Callers, ChainKeeps, TbGoes DEF Reuse
<1>19. ASSUME Connected  PROVE WindowIsOpen'
  <2>1. \A i \in DOMAIN chain : ~chain[i].begun
    BY <1>19 DEF Connected, NoLaunchBehind
  <2> QED BY <1>19, <2>1 DEF Connected
<1>20. ASSUME Disconnect  PROVE WindowIsOpen'
  <2>1. Asked(Person, "disconnect") /\ Went(Person, "disconnecting")
    BY <1>20, WhoAsks
  <2> QED BY <1>20, <2>1, Callers, ChainKeeps DEF Disconnect, Asked, Went
<1>21. ASSUME Disconnected  PROVE WindowIsOpen'
  BY <1>21, Callers, ChainKeeps, TbGoes DEF Disconnected
<1>22. ASSUME RemoveProfile  PROVE WindowIsOpen'
  BY <1>22, Callers, ChainKeeps DEF RemoveProfile
<1>23. ASSUME RemoveWindow  PROVE WindowIsOpen'
  <2>1. Asked(Person, "disconnect") /\ Went(Person, "removing")
    BY <1>23, WhoAsks
  <2> QED BY <1>23, <2>1, Callers, ChainKeeps DEF RemoveWindow, Asked, Went
<1>24. ASSUME Removed  PROVE WindowIsOpen'
  BY <1>24, Callers, ChainKeeps, TbGoes DEF Removed
<1>25. ASSUME VisitFails  PROVE WindowIsOpen'
  BY <1>25, Callers, ChainKeeps, TbGoes DEF VisitFails
<1>26. ASSUME SweepTenant  PROVE WindowIsOpen'
  BY <1>26, Callers, ChainKeeps, TbGoes DEF SweepTenant
<1>27. ASSUME SweepLooks  PROVE WindowIsOpen'
  BY <1>27, Callers, ChainKeeps, TbGoes DEF SweepLooks
<1>28. ASSUME SweepStops  PROVE WindowIsOpen'
  <2>1. Asked(Sweeper, "stop") /\ Went(Sweeper, "stopping")
    BY <1>28, WhoAsks
  <2> QED BY <1>28, <2>1, Callers, ChainKeeps DEF SweepStops, Asked, Went
<1>29. ASSUME SweepEnds  PROVE WindowIsOpen'
  BY <1>29, Callers, ChainKeeps, TbGoes DEF SweepEnds
<1>30. ASSUME TbLaneLost  PROVE WindowIsOpen'
  BY <1>30, Callers, ChainKeeps DEF TbLaneLost
<1>31. ASSUME DeadLaneExpires  PROVE WindowIsOpen'
  BY <1>31, Callers, ChainKeeps DEF DeadLaneExpires
<1>32. ASSUME UNCHANGED tbVars  PROVE WindowIsOpen'
  BY <1>32 DEF tbVars
<1> QED BY <1>1, <1>2, <1>3, <1>4, <1>5, <1>6, <1>7, <1>8, <1>9, <1>10, <1>11, <1>12, <1>13, <1>14,
           <1>15, <1>16, <1>17, <1>18, <1>19, <1>20, <1>21, <1>22, <1>23, <1>24, <1>25, <1>26,
           <1>27, <1>28, <1>29, <1>30, <1>31, <1>32
           DEF TenantNext, AgentStep, SessionStep, PersonStep, SweepTenantStep

LEMMA SweepStep ==
  ASSUME TenantInv, [TenantNext]_tbVars
  PROVE  SweepFindsNobody'
<1> USE DEF TenantInv, TenantTyped, TbAt, Unlocked, OutOfLane, TbFault, AtHead, disconnectAllowed,
        TbVisit, LaneIsFree,
           SweepFindsNobody, LaneSeenFree, LockHeld, RequestsInTurn, RequestsAwaited, Awaited, CallerPc, RequestKind, LaunchKind, Stopped
<1>1. ASSUME NEW s \in Session, TbEnter(s)  PROVE SweepFindsNobody'
  BY <1>1, Callers, ChainKeeps, TbGoes DEF TbEnter
<1>2. ASSUME NEW s \in Session, OpenVm(s)  PROVE SweepFindsNobody'
  <2>1. Asked(s, "apply") /\ Went(s, "opening")
    BY <1>2, WhoAsks
  <2>2. /\ \A d \in Caller : TbAt(d, "working")' => TbAt(d, "working")
        /\ \A d \in Caller : TbAt(d, "opening")' \/ TbAt(d, "connecting")' =>
              \/ TbAt(d, "opening") /\ caller'[d] = caller[d]
              \/ TbAt(d, "connecting") /\ caller'[d] = caller[d]
              \/ caller'[d].reply = "none"
        /\ TbAt(Person, "reusing")' => TbAt(Person, "reusing")
        /\ TbAt(Sweeper, "looking")' => TbAt(Sweeper, "looking")
    BY <2>1, Callers DEF Went
  <2>3. LaneSeenFree => LaneSeenFree'
    BY <1>2, <2>2, Callers DEF OpenVm
  <2>4. window' = window
    BY <1>2 DEF OpenVm
  <2> HIDE DEF RequestsAwaited, RequestsInTurn, LockHeld, LaneSeenFree
  <2> QED BY <2>1, <2>2, <2>3, <2>4, Callers, ChainKeeps DEF Asked
<1>3. ASSUME NEW s \in Session, OpenFails(s)  PROVE SweepFindsNobody'
  BY <1>3, Callers, ChainKeeps, TbGoes DEF OpenFails
<1>4. ASSUME NEW s \in Session, TbOpened(s)  PROVE SweepFindsNobody'
  BY <1>4, Callers, ChainKeeps, TbGoes DEF TbOpened
<1>5. ASSUME NEW s \in Session, CannotAttach(s)  PROVE SweepFindsNobody'
  <2>1. Asked(s, "stop") /\ Went(s, "undoing")
    BY <1>5, WhoAsks
  <2>2. /\ \A d \in Caller : TbAt(d, "working")' => TbAt(d, "working")
        /\ \A d \in Caller : TbAt(d, "opening")' \/ TbAt(d, "connecting")' =>
              \/ TbAt(d, "opening") /\ caller'[d] = caller[d]
              \/ TbAt(d, "connecting") /\ caller'[d] = caller[d]
              \/ caller'[d].reply = "none"
        /\ TbAt(Person, "reusing")' => TbAt(Person, "reusing")
        /\ TbAt(Sweeper, "looking")' => TbAt(Sweeper, "looking")
    BY <2>1, Callers DEF Went
  <2>3. LaneSeenFree => LaneSeenFree'
    BY <1>5, <2>2, Callers DEF CannotAttach
  <2>4. window' = window
    BY <1>5 DEF CannotAttach
  <2> HIDE DEF RequestsAwaited, RequestsInTurn, LockHeld, LaneSeenFree
  <2> QED BY <2>1, <2>2, <2>3, <2>4, Callers, ChainKeeps DEF Asked
<1>6. ASSUME NEW s \in Session, CannotPrepare(s)  PROVE SweepFindsNobody'
  BY <1>6, Callers, ChainKeeps, TbGoes DEF CannotPrepare
<1>7. ASSUME NEW s \in Session, TbClose(s)  PROVE SweepFindsNobody'
  <2>1. Asked(s, "stop") /\ Went(s, "closing")
    BY <1>7, WhoAsks
  <2>2. /\ \A d \in Caller : TbAt(d, "working")' => TbAt(d, "working")
        /\ \A d \in Caller : TbAt(d, "opening")' \/ TbAt(d, "connecting")' =>
              \/ TbAt(d, "opening") /\ caller'[d] = caller[d]
              \/ TbAt(d, "connecting") /\ caller'[d] = caller[d]
              \/ caller'[d].reply = "none"
        /\ TbAt(Person, "reusing")' => TbAt(Person, "reusing")
        /\ TbAt(Sweeper, "looking")' => TbAt(Sweeper, "looking")
    BY <2>1, Callers DEF Went
  <2>3. LaneSeenFree => LaneSeenFree'
    BY <1>7, <2>2, Callers DEF TbClose
  <2>4. window' = window
    BY <1>7 DEF TbClose
  <2> HIDE DEF RequestsAwaited, RequestsInTurn, LockHeld, LaneSeenFree
  <2> QED BY <2>1, <2>2, <2>3, <2>4, Callers, ChainKeeps DEF Asked
<1>8. ASSUME NEW s \in Session, TbLeave(s)  PROVE SweepFindsNobody'
  BY <1>8, Callers, ChainKeeps, TbGoes DEF TbLeave
<1>9. ASSUME NEW s \in Session, SessionDies(s)  PROVE SweepFindsNobody'
  <2>1. LetGo(s) /\ Went(s, "dead")
    BY <1>9, WhoLetsGo
  <2> QED BY <1>9, <2>1, Callers, ChainKeeps DEF SessionDies, LetGo, Went
<1>10. ASSUME NEW c \in Caller, CallTimesOut(c)  PROVE SweepFindsNobody'
  <2>1. LetGo(c)
    BY <1>10, WhoLetsGo
  <2>2. \A d \in Caller : /\ caller'[d].pc = caller[d].pc
                          /\ caller'[d].reply \in {caller[d].reply, "error"}
    BY <1>10, TimesOut
  <2>3. LaneSeenFree => LaneSeenFree'
    BY <1>10, <2>2, Callers DEF CallTimesOut
  <2>4. window' = window
    BY <1>10 DEF CallTimesOut
  <2> HIDE DEF RequestsAwaited, RequestsInTurn, LockHeld, LaneSeenFree, LaunchKind
  <2> QED BY <2>1, <2>2, <2>3, <2>4, Callers DEF LetGo
<1>11. ASSUME AgentRefuses  PROVE SweepFindsNobody'
  <2>1. Answered(chrome.mode) /\ chrome.mode \in {"connect", "apply"}
    BY <1>11, WhoAnswers
  <2>2. LaneSeenFree => LaneSeenFree'
    BY <1>11, <2>1, Callers DEF AgentRefuses, Answered
  <2>3. window' => window
    BY <1>11 DEF AgentRefuses
  <2>4. ASSUME NEW i \in DOMAIN chain', chain'[i].kind = "stop", chain'[i].from = Sweeper
        PROVE  /\ LaneSeenFree' /\ ~window' /\ ~TbAt(Person, "reusing")'
               /\ \A c \in Caller : TbAt(c, "opening")' \/ TbAt(c, "connecting")' =>
                                      caller'[c].reply \in {"none", "error"}
               /\ \A j \in DOMAIN chain' : chain'[j].heard /\ chain'[j].kind \in LaunchKind => i < j
    <3>1. i + 1 \in DOMAIN chain /\ chain'[i] = chain[i + 1] /\ i \in Nat /\ i >= 1
      BY <2>1 DEF Answered
    <3>2. /\ LaneSeenFree /\ ~window /\ ~TbAt(Person, "reusing")
          /\ \A c \in Caller : TbAt(c, "opening") \/ TbAt(c, "connecting") =>
                                 caller[c].reply \in {"none", "error"}
          /\ \A j \in DOMAIN chain : chain[j].heard /\ chain[j].kind \in LaunchKind => i + 1 < j
      BY <2>4, <3>1
    <3>3. ~(chain[1].heard /\ chain[1].kind \in LaunchKind)
      BY <2>1, <3>1, <3>2 DEF Answered
    <3>4. ASSUME NEW c \in Caller, TbAt(c, "opening") \/ TbAt(c, "connecting")
          PROVE  ~(chain[1].heard /\ chain[1].from = c)
      <4>1. chain[1].heard => Awaited(caller[chain[1].from].pc) = chain[1].kind
        BY <2>1 DEF Answered
      <4> QED BY <3>3, <3>4, <4>1
    <3>5. \A c \in Caller : TbAt(c, "opening")' \/ TbAt(c, "connecting")' =>
                              caller'[c].reply \in {"none", "error"}
      BY <2>1, <3>2, <3>4 DEF Answered
    <3>6. ASSUME NEW j \in DOMAIN chain', chain'[j].heard, chain'[j].kind \in LaunchKind
          PROVE  i < j
      <4>1. j + 1 \in DOMAIN chain /\ chain'[j] = chain[j + 1] /\ j \in Nat
        BY <2>1 DEF Answered
      <4>2. i + 1 < j + 1
        BY <3>2, <3>6, <4>1
      <4> QED BY <3>1, <4>1, <4>2
    <3>7. ~TbAt(Person, "reusing")'
      BY <2>1, <3>2, Callers DEF Answered
    <3> QED BY <2>2, <2>3, <3>2, <3>5, <3>6, <3>7
  <2>5. TbAt(Sweeper, "looking")' => TbAt(Sweeper, "looking")
    BY <2>1, Callers DEF Answered
  <2> HIDE DEF RequestsAwaited, RequestsInTurn, LockHeld, LaneSeenFree, LaunchKind
  <2> QED BY <2>2, <2>4, <2>5
<1>12. ASSUME AgentLaunches  PROVE SweepFindsNobody'
  BY <1>12, Callers, ChainKeeps, ChainBegun DEF AgentLaunches
<1>13. ASSUME AgentReady  PROVE SweepFindsNobody'
  <2>1. Answered("ok")
    BY <1>13, WhoAnswers
  <2>2. LaneSeenFree => LaneSeenFree'
    BY <1>13, <2>1, Callers DEF AgentReady, Answered
  <2>3. window' => window
    BY <1>13 DEF AgentReady
  <2>4. ASSUME NEW i \in DOMAIN chain', chain'[i].kind = "stop", chain'[i].from = Sweeper
        PROVE  /\ LaneSeenFree' /\ ~window' /\ ~TbAt(Person, "reusing")'
               /\ \A c \in Caller : TbAt(c, "opening")' \/ TbAt(c, "connecting")' =>
                                      caller'[c].reply \in {"none", "error"}
               /\ \A j \in DOMAIN chain' : chain'[j].heard /\ chain'[j].kind \in LaunchKind => i < j
    <3>1. i + 1 \in DOMAIN chain /\ chain'[i] = chain[i + 1] /\ i \in Nat /\ i >= 1
      BY <2>1 DEF Answered
    <3>2. /\ LaneSeenFree /\ ~window /\ ~TbAt(Person, "reusing")
          /\ \A c \in Caller : TbAt(c, "opening") \/ TbAt(c, "connecting") =>
                                 caller[c].reply \in {"none", "error"}
          /\ \A j \in DOMAIN chain : chain[j].heard /\ chain[j].kind \in LaunchKind => i + 1 < j
      BY <2>4, <3>1
    <3>3. ~(chain[1].heard /\ chain[1].kind \in LaunchKind)
      BY <2>1, <3>1, <3>2 DEF Answered
    <3>4. ASSUME NEW c \in Caller, TbAt(c, "opening") \/ TbAt(c, "connecting")
          PROVE  ~(chain[1].heard /\ chain[1].from = c)
      <4>1. chain[1].heard => Awaited(caller[chain[1].from].pc) = chain[1].kind
        BY <2>1 DEF Answered
      <4> QED BY <3>3, <3>4, <4>1
    <3>5. \A c \in Caller : TbAt(c, "opening")' \/ TbAt(c, "connecting")' =>
                              caller'[c].reply \in {"none", "error"}
      BY <2>1, <3>2, <3>4 DEF Answered
    <3>6. ASSUME NEW j \in DOMAIN chain', chain'[j].heard, chain'[j].kind \in LaunchKind
          PROVE  i < j
      <4>1. j + 1 \in DOMAIN chain /\ chain'[j] = chain[j + 1] /\ j \in Nat
        BY <2>1 DEF Answered
      <4>2. i + 1 < j + 1
        BY <3>2, <3>6, <4>1
      <4> QED BY <3>1, <4>1, <4>2
    <3>7. ~TbAt(Person, "reusing")'
      BY <2>1, <3>2, Callers DEF Answered
    <3> QED BY <2>2, <2>3, <3>2, <3>5, <3>6, <3>7
  <2>5. TbAt(Sweeper, "looking")' => TbAt(Sweeper, "looking")
    BY <2>1, Callers DEF Answered
  <2> HIDE DEF RequestsAwaited, RequestsInTurn, LockHeld, LaneSeenFree, LaunchKind
  <2> QED BY <2>2, <2>4, <2>5
<1>14. ASSUME AgentLaunchFails  PROVE SweepFindsNobody'
  <2>1. Answered("error")
    BY <1>14, WhoAnswers
  <2>2. LaneSeenFree => LaneSeenFree'
    BY <1>14, <2>1, Callers DEF AgentLaunchFails, Answered
  <2>3. window' => window
    BY <1>14 DEF AgentLaunchFails
  <2>4. ASSUME NEW i \in DOMAIN chain', chain'[i].kind = "stop", chain'[i].from = Sweeper
        PROVE  /\ LaneSeenFree' /\ ~window' /\ ~TbAt(Person, "reusing")'
               /\ \A c \in Caller : TbAt(c, "opening")' \/ TbAt(c, "connecting")' =>
                                      caller'[c].reply \in {"none", "error"}
               /\ \A j \in DOMAIN chain' : chain'[j].heard /\ chain'[j].kind \in LaunchKind => i < j
    <3>1. i + 1 \in DOMAIN chain /\ chain'[i] = chain[i + 1] /\ i \in Nat /\ i >= 1
      BY <2>1 DEF Answered
    <3>2. /\ LaneSeenFree /\ ~window /\ ~TbAt(Person, "reusing")
          /\ \A c \in Caller : TbAt(c, "opening") \/ TbAt(c, "connecting") =>
                                 caller[c].reply \in {"none", "error"}
          /\ \A j \in DOMAIN chain : chain[j].heard /\ chain[j].kind \in LaunchKind => i + 1 < j
      BY <2>4, <3>1
    <3>3. ~(chain[1].heard /\ chain[1].kind \in LaunchKind)
      BY <2>1, <3>1, <3>2 DEF Answered
    <3>4. ASSUME NEW c \in Caller, TbAt(c, "opening") \/ TbAt(c, "connecting")
          PROVE  ~(chain[1].heard /\ chain[1].from = c)
      <4>1. chain[1].heard => Awaited(caller[chain[1].from].pc) = chain[1].kind
        BY <2>1 DEF Answered
      <4> QED BY <3>3, <3>4, <4>1
    <3>5. \A c \in Caller : TbAt(c, "opening")' \/ TbAt(c, "connecting")' =>
                              caller'[c].reply \in {"none", "error"}
      BY <2>1, <3>2, <3>4 DEF Answered
    <3>6. ASSUME NEW j \in DOMAIN chain', chain'[j].heard, chain'[j].kind \in LaunchKind
          PROVE  i < j
      <4>1. j + 1 \in DOMAIN chain /\ chain'[j] = chain[j + 1] /\ j \in Nat
        BY <2>1 DEF Answered
      <4>2. i + 1 < j + 1
        BY <3>2, <3>6, <4>1
      <4> QED BY <3>1, <4>1, <4>2
    <3>7. ~TbAt(Person, "reusing")'
      BY <2>1, <3>2, Callers DEF Answered
    <3> QED BY <2>2, <2>3, <3>2, <3>5, <3>6, <3>7
  <2>5. TbAt(Sweeper, "looking")' => TbAt(Sweeper, "looking")
    BY <2>1, Callers DEF Answered
  <2> HIDE DEF RequestsAwaited, RequestsInTurn, LockHeld, LaneSeenFree, LaunchKind
  <2> QED BY <2>2, <2>4, <2>5
<1>15. ASSUME AgentStops  PROVE SweepFindsNobody'
  <2>1. Answered("ok")
    BY <1>15, WhoAnswers
  <2>2. LaneSeenFree => LaneSeenFree'
    BY <1>15, <2>1, Callers DEF AgentStops, Answered
  <2>3. window' => window
    BY <1>15 DEF AgentStops
  <2>4. ASSUME NEW i \in DOMAIN chain', chain'[i].kind = "stop", chain'[i].from = Sweeper
        PROVE  /\ LaneSeenFree' /\ ~window' /\ ~TbAt(Person, "reusing")'
               /\ \A c \in Caller : TbAt(c, "opening")' \/ TbAt(c, "connecting")' =>
                                      caller'[c].reply \in {"none", "error"}
               /\ \A j \in DOMAIN chain' : chain'[j].heard /\ chain'[j].kind \in LaunchKind => i < j
    <3>1. i + 1 \in DOMAIN chain /\ chain'[i] = chain[i + 1] /\ i \in Nat /\ i >= 1
      BY <2>1 DEF Answered
    <3>2. /\ LaneSeenFree /\ ~window /\ ~TbAt(Person, "reusing")
          /\ \A c \in Caller : TbAt(c, "opening") \/ TbAt(c, "connecting") =>
                                 caller[c].reply \in {"none", "error"}
          /\ \A j \in DOMAIN chain : chain[j].heard /\ chain[j].kind \in LaunchKind => i + 1 < j
      BY <2>4, <3>1
    <3>3. ~(chain[1].heard /\ chain[1].kind \in LaunchKind)
      BY <2>1, <3>1, <3>2 DEF Answered
    <3>4. ASSUME NEW c \in Caller, TbAt(c, "opening") \/ TbAt(c, "connecting")
          PROVE  ~(chain[1].heard /\ chain[1].from = c)
      <4>1. chain[1].heard => Awaited(caller[chain[1].from].pc) = chain[1].kind
        BY <2>1 DEF Answered
      <4> QED BY <3>3, <3>4, <4>1
    <3>5. \A c \in Caller : TbAt(c, "opening")' \/ TbAt(c, "connecting")' =>
                              caller'[c].reply \in {"none", "error"}
      BY <2>1, <3>2, <3>4 DEF Answered
    <3>6. ASSUME NEW j \in DOMAIN chain', chain'[j].heard, chain'[j].kind \in LaunchKind
          PROVE  i < j
      <4>1. j + 1 \in DOMAIN chain /\ chain'[j] = chain[j + 1] /\ j \in Nat
        BY <2>1 DEF Answered
      <4>2. i + 1 < j + 1
        BY <3>2, <3>6, <4>1
      <4> QED BY <3>1, <4>1, <4>2
    <3>7. ~TbAt(Person, "reusing")'
      BY <2>1, <3>2, Callers DEF Answered
    <3> QED BY <2>2, <2>3, <3>2, <3>5, <3>6, <3>7
  <2>5. TbAt(Sweeper, "looking")' => TbAt(Sweeper, "looking")
    BY <2>1, Callers DEF Answered
  <2> HIDE DEF RequestsAwaited, RequestsInTurn, LockHeld, LaneSeenFree, LaunchKind
  <2> QED BY <2>2, <2>4, <2>5
<1>16. ASSUME BrowserGoes  PROVE SweepFindsNobody'
  BY <1>16, Callers, ChainKeeps DEF BrowserGoes
<1>17. ASSUME Connect  PROVE SweepFindsNobody'
  <2>1. Asked(Person, "connect") /\ Went(Person, "connecting")
    BY <1>17, WhoAsks
  <2>2. /\ \A d \in Caller : TbAt(d, "working")' => TbAt(d, "working")
        /\ \A d \in Caller : TbAt(d, "opening")' \/ TbAt(d, "connecting")' =>
              \/ TbAt(d, "opening") /\ caller'[d] = caller[d]
              \/ TbAt(d, "connecting") /\ caller'[d] = caller[d]
              \/ caller'[d].reply = "none"
        /\ TbAt(Person, "reusing")' => TbAt(Person, "reusing")
        /\ TbAt(Sweeper, "looking")' => TbAt(Sweeper, "looking")
    BY <2>1, Callers DEF Went
  <2>3. LaneSeenFree => LaneSeenFree'
    BY <1>17, <2>2, Callers DEF Connect
  <2>4. window' = window
    BY <1>17 DEF Connect
  <2> HIDE DEF RequestsAwaited, RequestsInTurn, LockHeld, LaneSeenFree
  <2> QED BY <2>1, <2>2, <2>3, <2>4, Callers, ChainKeeps DEF Asked
<1>18. ASSUME Reuse  PROVE SweepFindsNobody'
  BY <1>18, Callers, ChainKeeps, TbGoes DEF Reuse
<1>19. ASSUME Connected  PROVE SweepFindsNobody'
  BY <1>19, Callers, ChainKeeps, TbGoes DEF Connected
<1>20. ASSUME Disconnect  PROVE SweepFindsNobody'
  <2>1. Asked(Person, "disconnect") /\ Went(Person, "disconnecting")
    BY <1>20, WhoAsks
  <2>2. /\ \A d \in Caller : TbAt(d, "working")' => TbAt(d, "working")
        /\ \A d \in Caller : TbAt(d, "opening")' \/ TbAt(d, "connecting")' =>
              \/ TbAt(d, "opening") /\ caller'[d] = caller[d]
              \/ TbAt(d, "connecting") /\ caller'[d] = caller[d]
              \/ caller'[d].reply = "none"
        /\ TbAt(Person, "reusing")' => TbAt(Person, "reusing")
        /\ TbAt(Sweeper, "looking")' => TbAt(Sweeper, "looking")
    BY <2>1, Callers DEF Went
  <2>3. LaneSeenFree => LaneSeenFree'
    BY <1>20, <2>2, Callers DEF Disconnect
  <2>4. window' = window
    BY <1>20 DEF Disconnect
  <2> HIDE DEF RequestsAwaited, RequestsInTurn, LockHeld, LaneSeenFree
  <2> QED BY <2>1, <2>2, <2>3, <2>4, Callers, ChainKeeps DEF Asked
<1>21. ASSUME Disconnected  PROVE SweepFindsNobody'
  BY <1>21, Callers, ChainKeeps, TbGoes DEF Disconnected
<1>22. ASSUME RemoveProfile  PROVE SweepFindsNobody'
  BY <1>22, Callers, ChainKeeps DEF RemoveProfile
<1>23. ASSUME RemoveWindow  PROVE SweepFindsNobody'
  <2>1. Asked(Person, "disconnect") /\ Went(Person, "removing")
    BY <1>23, WhoAsks
  <2>2. /\ \A d \in Caller : TbAt(d, "working")' => TbAt(d, "working")
        /\ \A d \in Caller : TbAt(d, "opening")' \/ TbAt(d, "connecting")' =>
              \/ TbAt(d, "opening") /\ caller'[d] = caller[d]
              \/ TbAt(d, "connecting") /\ caller'[d] = caller[d]
              \/ caller'[d].reply = "none"
        /\ TbAt(Person, "reusing")' => TbAt(Person, "reusing")
        /\ TbAt(Sweeper, "looking")' => TbAt(Sweeper, "looking")
    BY <2>1, Callers DEF Went
  <2>3. LaneSeenFree => LaneSeenFree'
    BY <1>23, <2>2, Callers DEF RemoveWindow
  <2>4. window' = window
    BY <1>23 DEF RemoveWindow
  <2> HIDE DEF RequestsAwaited, RequestsInTurn, LockHeld, LaneSeenFree
  <2> QED BY <2>1, <2>2, <2>3, <2>4, Callers, ChainKeeps DEF Asked
<1>24. ASSUME Removed  PROVE SweepFindsNobody'
  BY <1>24, Callers, ChainKeeps, TbGoes DEF Removed
<1>25. ASSUME VisitFails  PROVE SweepFindsNobody'
  BY <1>25, Callers, ChainKeeps, TbGoes DEF VisitFails
<1>26. ASSUME SweepTenant  PROVE SweepFindsNobody'
  BY <1>26, Callers, ChainKeeps, TbGoes DEF SweepTenant
<1>27. ASSUME SweepLooks  PROVE SweepFindsNobody'
  BY <1>27, Callers, ChainKeeps, TbGoes DEF SweepLooks
<1>28. ASSUME SweepStops  PROVE SweepFindsNobody'
  <2>1. Asked(Sweeper, "stop") /\ Went(Sweeper, "stopping")
    BY <1>28, WhoAsks
  <2>2. \A c \in Caller : ~TbAt(c, "opening") /\ ~TbAt(c, "connecting") /\ ~TbAt(c, "reusing")
    BY <1>28, Callers DEF SweepStops
  <2>3. \A i \in DOMAIN chain : chain[i].heard => chain[i].kind \notin LaunchKind
    BY <2>2, ChainKeeps
  <2>4. LaneSeenFree'
    BY <1>28, <2>1, Callers DEF SweepStops, Went
  <2>5. ~window'
    BY <1>28 DEF SweepStops, WindowIsOpen
  <2>6. \A c \in Caller : ~TbAt(c, "opening")' /\ ~TbAt(c, "connecting")' /\ ~TbAt(c, "reusing")'
    BY <2>1, <2>2 DEF Went
  <2>7. \A i \in DOMAIN chain' : chain'[i].heard => chain'[i].kind \notin LaunchKind
    BY <2>1, <2>3 DEF Asked
  <2> HIDE DEF RequestsAwaited, RequestsInTurn, LockHeld, LaneSeenFree, LaunchKind
  <2> QED BY <2>4, <2>5, <2>6, <2>7, Callers
<1>29. ASSUME SweepEnds  PROVE SweepFindsNobody'
  BY <1>29, Callers, ChainKeeps, TbGoes DEF SweepEnds
<1>30. ASSUME TbLaneLost  PROVE SweepFindsNobody'
  BY <1>30, Callers, ChainKeeps DEF TbLaneLost
<1>31. ASSUME DeadLaneExpires  PROVE SweepFindsNobody'
  BY <1>31, Callers, ChainKeeps DEF DeadLaneExpires
<1>32. ASSUME UNCHANGED tbVars  PROVE SweepFindsNobody'
  BY <1>32 DEF tbVars
<1> QED BY <1>1, <1>2, <1>3, <1>4, <1>5, <1>6, <1>7, <1>8, <1>9, <1>10, <1>11, <1>12, <1>13, <1>14,
           <1>15, <1>16, <1>17, <1>18, <1>19, <1>20, <1>21, <1>22, <1>23, <1>24, <1>25, <1>26,
           <1>27, <1>28, <1>29, <1>30, <1>31, <1>32
           DEF TenantNext, AgentStep, SessionStep, PersonStep, SweepTenantStep

LEMMA NobodyStep ==
  ASSUME TenantInv, [TenantNext]_tbVars
  PROVE  NobodyInProfile'
<1> USE DEF TenantInv, TenantTyped, TbAt, Unlocked, OutOfLane, TbFault, AtHead, disconnectAllowed,
        TbVisit, LaneIsFree,
           NobodyInProfile, Uses, LockHeld, RequestsInTurn, RequestsAwaited, Awaited, OwnBrowser, CallerPc, RequestKind, LaunchKind, Stopped
<1>1. ASSUME NEW s \in Session, TbEnter(s)  PROVE NobodyInProfile'
  BY <1>1, Callers, ChainKeeps, TbGoes DEF TbEnter
<1>2. ASSUME NEW s \in Session, OpenVm(s)  PROVE NobodyInProfile'
  <2>1. Asked(s, "apply") /\ Went(s, "opening")
    BY <1>2, WhoAsks
  <2> QED BY <1>2, <2>1, Callers, ChainKeeps DEF OpenVm, Asked, Went
<1>3. ASSUME NEW s \in Session, OpenFails(s)  PROVE NobodyInProfile'
  BY <1>3, Callers, ChainKeeps, TbGoes DEF OpenFails
<1>4. ASSUME NEW s \in Session, TbOpened(s)  PROVE NobodyInProfile'
  BY <1>4, Callers, ChainKeeps, TbGoes DEF TbOpened
<1>5. ASSUME NEW s \in Session, CannotAttach(s)  PROVE NobodyInProfile'
  <2>1. Asked(s, "stop") /\ Went(s, "undoing")
    BY <1>5, WhoAsks
  <2> QED BY <1>5, <2>1, Callers, ChainKeeps DEF CannotAttach, Asked, Went
<1>6. ASSUME NEW s \in Session, CannotPrepare(s)  PROVE NobodyInProfile'
  BY <1>6, Callers, ChainKeeps, TbGoes DEF CannotPrepare
<1>7. ASSUME NEW s \in Session, TbClose(s)  PROVE NobodyInProfile'
  <2>1. Asked(s, "stop") /\ Went(s, "closing")
    BY <1>7, WhoAsks
  <2> QED BY <1>7, <2>1, Callers, ChainKeeps DEF TbClose, Asked, Went
<1>8. ASSUME NEW s \in Session, TbLeave(s)  PROVE NobodyInProfile'
  BY <1>8, Callers, ChainKeeps, TbGoes DEF TbLeave
<1>9. ASSUME NEW s \in Session, SessionDies(s)  PROVE NobodyInProfile'
  <2>1. LetGo(s) /\ Went(s, "dead")
    BY <1>9, WhoLetsGo
  <2> QED BY <1>9, <2>1, Callers, ChainKeeps DEF SessionDies, LetGo, Went
<1>10. ASSUME NEW c \in Caller, CallTimesOut(c)  PROVE NobodyInProfile'
  <2>1. LetGo(c)
    BY <1>10, WhoLetsGo
  <2> QED BY <1>10, <2>1, Callers, ChainKeeps, TimesOut DEF CallTimesOut, LetGo
<1>11. ASSUME AgentRefuses  PROVE NobodyInProfile'
  <2>1. Answered(chrome.mode) /\ chrome.mode \in {"connect", "apply"}
    BY <1>11, WhoAnswers
  <2> QED BY <1>11, <2>1, Callers, ChainKeeps DEF AgentRefuses, Answered
<1>12. ASSUME AgentLaunches  PROVE NobodyInProfile'
  BY <1>12, Callers, ChainKeeps, ChainBegun DEF AgentLaunches
<1>13. ASSUME AgentReady  PROVE NobodyInProfile'
  <2>1. Answered("ok")
    BY <1>13, WhoAnswers
  <2>2. chain[1].kind \in LaunchKind /\ UNCHANGED <<profile, chrome>>
    BY <1>13, <2>1 DEF AgentReady, Answered
  <2>3. chain[1].heard => Awaited(caller[chain[1].from].pc) = chain[1].kind
    BY <2>1 DEF Answered
  <2>4. TbAt(Person, "removing") \/ TbAt(Person, "disconnecting") =>
          ~(chain[1].heard /\ chain[1].from = Person)
    BY <2>2, <2>3
  <2>5. \A s \in Session : /\ TbAt(s, "opening")' = TbAt(s, "opening")
                           /\ TbAt(s, "working")' = TbAt(s, "working")
    BY <2>1, Callers DEF Answered
  <2>6. /\ (TbAt(Person, "removing") \/ TbAt(Person, "disconnecting"))' =>
              TbAt(Person, "removing") \/ TbAt(Person, "disconnecting")
        /\ (TbAt(Person, "removing") \/ TbAt(Person, "disconnecting")) /\ caller'[Person].reply = "ok" =>
              caller[Person].reply = "ok"
    BY <2>1, <2>4, Callers DEF Answered
  <2> HIDE DEF RequestsAwaited, RequestsInTurn, OwnBrowser, LockHeld
  <2> QED BY <2>2, <2>5, <2>6
<1>14. ASSUME AgentLaunchFails  PROVE NobodyInProfile'
  <2>1. Answered("error")
    BY <1>14, WhoAnswers
  <2> QED BY <1>14, <2>1, Callers, ChainKeeps DEF AgentLaunchFails, Answered
<1>15. ASSUME AgentStops  PROVE NobodyInProfile'
  <2>1. Answered("ok")
    BY <1>15, WhoAnswers
  <2> QED BY <1>15, <2>1, Callers, ChainKeeps DEF AgentStops, Answered
<1>16. ASSUME BrowserGoes  PROVE NobodyInProfile'
  BY <1>16, Callers, ChainKeeps DEF BrowserGoes
<1>17. ASSUME Connect  PROVE NobodyInProfile'
  <2>1. Asked(Person, "connect") /\ Went(Person, "connecting")
    BY <1>17, WhoAsks
  <2> QED BY <1>17, <2>1, Callers, ChainKeeps DEF Connect, Asked, Went
<1>18. ASSUME Reuse  PROVE NobodyInProfile'
  BY <1>18, Callers, ChainKeeps, TbGoes DEF Reuse
<1>19. ASSUME Connected  PROVE NobodyInProfile'
  BY <1>19, Callers, ChainKeeps, TbGoes DEF Connected
<1>20. ASSUME Disconnect  PROVE NobodyInProfile'
  <2>1. Asked(Person, "disconnect") /\ Went(Person, "disconnecting")
    BY <1>20, WhoAsks
  <2> QED BY <1>20, <2>1, Callers, ChainKeeps DEF Disconnect, Asked, Went
<1>21. ASSUME Disconnected  PROVE NobodyInProfile'
  BY <1>21, Callers, ChainKeeps, TbGoes DEF Disconnected
<1>22. ASSUME RemoveProfile  PROVE NobodyInProfile'
  BY <1>22, Callers, ChainKeeps DEF RemoveProfile
<1>23. ASSUME RemoveWindow  PROVE NobodyInProfile'
  <2>1. Asked(Person, "disconnect") /\ Went(Person, "removing")
    BY <1>23, WhoAsks
  <2> QED BY <1>23, <2>1, Callers, ChainKeeps DEF RemoveWindow, Asked, Went
<1>24. ASSUME Removed  PROVE NobodyInProfile'
  BY <1>24, Callers, ChainKeeps, TbGoes DEF Removed
<1>25. ASSUME VisitFails  PROVE NobodyInProfile'
  BY <1>25, Callers, ChainKeeps, TbGoes DEF VisitFails
<1>26. ASSUME SweepTenant  PROVE NobodyInProfile'
  BY <1>26, Callers, ChainKeeps, TbGoes DEF SweepTenant
<1>27. ASSUME SweepLooks  PROVE NobodyInProfile'
  BY <1>27, Callers, ChainKeeps, TbGoes DEF SweepLooks
<1>28. ASSUME SweepStops  PROVE NobodyInProfile'
  <2>1. Asked(Sweeper, "stop") /\ Went(Sweeper, "stopping")
    BY <1>28, WhoAsks
  <2> QED BY <1>28, <2>1, Callers, ChainKeeps DEF SweepStops, Asked, Went
<1>29. ASSUME SweepEnds  PROVE NobodyInProfile'
  BY <1>29, Callers, ChainKeeps, TbGoes DEF SweepEnds
<1>30. ASSUME TbLaneLost  PROVE NobodyInProfile'
  BY <1>30, Callers, ChainKeeps DEF TbLaneLost
<1>31. ASSUME DeadLaneExpires  PROVE NobodyInProfile'
  BY <1>31, Callers, ChainKeeps DEF DeadLaneExpires
<1>32. ASSUME UNCHANGED tbVars  PROVE NobodyInProfile'
  BY <1>32 DEF tbVars
<1> QED BY <1>1, <1>2, <1>3, <1>4, <1>5, <1>6, <1>7, <1>8, <1>9, <1>10, <1>11, <1>12, <1>13, <1>14,
           <1>15, <1>16, <1>17, <1>18, <1>19, <1>20, <1>21, <1>22, <1>23, <1>24, <1>25, <1>26,
           <1>27, <1>28, <1>29, <1>30, <1>31, <1>32
           DEF TenantNext, AgentStep, SessionStep, PersonStep, SweepTenantStep

LEMMA TenantInitInv == TenantInit => TenantInv
<1> SUFFICES ASSUME TenantInit  PROVE TenantInv
  OBVIOUS
<1> USE DEF TenantInit
<1>1. TenantTyped
  <2>1. [c \in Caller |-> [pc |-> "idle", reply |-> "none"]] \in [Caller -> CallerType]
    BY DEF CallerType, CallerPc
  <2>2. tbPast \in TbPastType
    BY DEF TbPastType
  <2>3. <<>> \in Seq(RequestType)
    OBVIOUS
  <2> QED BY <2>1, <2>2, <2>3 DEF TenantTyped, ChromeType, Stopped
<1>2. \A c \in Caller : caller[c].pc = "idle" /\ caller[c].reply = "none"
  OBVIOUS
<1>3. DOMAIN chain = {}
  OBVIOUS
<1> QED
  BY <1>1, <1>2, <1>3, Callers
  DEF TenantInv, RequestsAwaited, RequestsInTurn, LockHeld, BegunAtHead, OwnBrowser, NoLaunchBehind,
      WindowIsOpen, SweepFindsNobody, LaneSeenFree, NobodyInProfile, Uses, TbAt

LEMMA TenantKeepsInv == TenantSpec => []TenantInv
<1>1. TenantInv /\ [TenantNext]_tbVars => TenantInv'
  BY LockStep, TenantTypeStep, AwaitedStep, InTurnStep, BegunStep, OwnStep, BehindStep, WindowStep,
     SweepStep, NobodyStep DEF TenantInv
<1> QED BY <1>1, TenantInitInv, PTL DEF TenantSpec

\* The browser of a user, the agent's line of requests, the lane and every
\* caller keep their types (browser/session.ts, vm-agent/server.ts).
THEOREM TenantTypeCorrect == TenantSpec => []TenantTypeOK
<1>1. TenantInv => TenantTypeOK
  BY TenantTypes DEF TenantInv
<1> QED BY <1>1, TenantKeepsInv, PTL

\* Once the person has been told that the profile is removed, no session works
\* in it until the person connects again, for any sessions, visits, crashes and
\* calls given up (modules/me/routes.ts).
THEOREM RemovedProfileIsFree == TenantSpec => []RemovedProfileRests
<1>1. TenantInv => RemovedProfileRests
  BY DEF TenantInv, NobodyInProfile, RemovedProfileRests
<1> QED BY <1>1, TenantKeepsInv, PTL

\* An application keeps its browser, and the person the window, until they let
\* it go: whoever else stops the tenant's Chrome had lost its own before
\* (vm-agent/server.ts, browser/session.ts).
THEOREM BrowserIsLeft == TenantSpec => BrowserLeftToItsUser
<1> DEFINE closer == Head(chain).from
           Left == /\ \A a \in Applying :
                         Uses(a) /\ lane = a /\ ~Uses(a)' /\ TbAt(a, "working")' =>
                             \/ a \in tbPast'.gone
                             \/ closer \in tbPast.gone \cup tbPast.ended
                   /\ window /\ ~window' /\ chain' # chain =>
                         closer = Person \/ closer \in tbPast.gone \cup tbPast.ended
<1>1. ASSUME TenantInv, [TenantNext]_tbVars  PROVE Left
  <2> USE <1>1 DEF TenantInv
  <2>1. ASSUME AgentStops
        PROVE  Left
    <3>1. /\ 1 \in DOMAIN chain /\ Head(chain) = chain[1] /\ chrome' = Stopped
          /\ chain[1].kind \in {"stop", "disconnect"}
          /\ chain[1].kind = "disconnect" => chrome.mode # "apply"
          /\ chain[1].from \in Caller
      BY <2>1, WhoAnswers, ChainKeeps
         DEF AgentStops, AtHead, Answered, TenantTyped, disconnectAllowed
    <3>2. closer \in Session \ (tbPast.gone \cup tbPast.ended) =>
            chrome = [mode |-> "apply", by |-> closer]
      BY <3>1, Callers DEF OwnBrowser, RequestsInTurn
    <3>3. ASSUME NEW a \in Applying, Uses(a), lane = a
          PROVE  closer \in tbPast.gone \cup tbPast.ended
      <4>1. chain[1].kind = "stop" /\ chrome.by = a /\ TbAt(a, "working")
        BY <3>1, <3>3 DEF Uses
      <4>2. closer # Sweeper
        BY <3>1, <3>3, <4>1 DEF SweepFindsNobody, LaneSeenFree
      <4>3. closer \in Session /\ closer # a
        BY <3>1, <4>1, <4>2, Callers DEF RequestsInTurn, TbAt
      <4> QED BY <3>2, <4>1, <4>3
    <3>4. ASSUME window
          PROVE  closer = Person \/ closer \in tbPast.gone \cup tbPast.ended
      <4>1. chrome.mode = "connect"
        BY <3>4 DEF WindowIsOpen
      <4>2. chain[1].kind = "stop" => closer # Sweeper
        BY <3>1, <3>4 DEF SweepFindsNobody
      <4> QED BY <3>1, <3>2, <4>1, <4>2 DEF RequestsInTurn
    <3> QED BY <3>3, <3>4
  <2>2. ASSUME AgentLaunchFails
        PROVE  Left
    <3>1. /\ 1 \in DOMAIN chain /\ Head(chain) = chain[1] /\ chain[1].begun /\ window' = window
      BY <2>2, WhoAnswers DEF AgentLaunchFails, Answered
    <3>2. ASSUME NEW a \in Applying, Uses(a)
          PROVE  FALSE
      <4>1. chain[1].kind = "apply" /\ chain[1].from = a /\ TbAt(a, "working")
        BY <3>1, <3>2 DEF BegunAtHead, Uses, Stopped
      <4> QED BY <3>1, <4>1 DEF RequestsInTurn, TbAt
    <3> QED BY <3>1, <3>2
  <2>3. ASSUME BrowserGoes
        PROVE  Left
    <3>1. \A a \in Applying : Uses(a) => a \in tbPast'.gone
      BY <2>3, Callers DEF BrowserGoes, Uses, TenantTyped, TbPastType
    <3> QED BY <2>3, <3>1 DEF BrowserGoes
  <2>4. CASE AgentLaunches
    BY <2>4 DEF AgentLaunches, Uses
  <2>5. CASE Connected
    <3>1. chain' = chain /\ chrome' = chrome
      BY <2>5 DEF Connected
    <3> QED BY <3>1 DEF Uses
  <2>6. CASE UNCHANGED <<chrome, window>>
    BY <2>6 DEF Uses
  <2>7. \/ AgentStops \/ AgentLaunchFails \/ BrowserGoes \/ AgentLaunches \/ Connected
        \/ UNCHANGED <<chrome, window>>
    BY DEF TenantNext, AgentStep, SessionStep, PersonStep, SweepTenantStep, tbVars, AgentRefuses,
           AgentReady, TbEnter, OpenVm, OpenFails, TbOpened, CannotAttach, CannotPrepare, TbClose,
           TbLeave, SessionDies, Connect, Reuse, Disconnect, Disconnected, RemoveProfile,
           RemoveWindow, Removed, VisitFails, SweepTenant, SweepLooks, SweepStops, SweepEnds,
           TbLaneLost, DeadLaneExpires, CallTimesOut
  <2> QED BY <2>1, <2>2, <2>3, <2>4, <2>5, <2>6, <2>7
<1>2. TenantInv /\ [TenantNext]_tbVars => [Left]_tbVars
  BY <1>1
<1> QED BY <1>2, TenantKeepsInv, PTL DEF TenantSpec, BrowserLeftToItsUser
=============================================================================
