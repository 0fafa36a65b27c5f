---------------------------- MODULE TenantBrowser ----------------------------
(***************************************************************************)
(* One user's browser on the browser host. Its agent (vm-agent/server.ts)  *)
(* runs the requests of a tenant one after another, in the order they      *)
(* came; only /status does not wait. It is asked to start and stop Chrome  *)
(* by the sessions of applications and skills (browser/session.ts), by the *)
(* person who signs in to providers there (modules/me/routes.ts), and by   *)
(* the recovery sweep (hunt/application-queue.ts), who keep out of each    *)
(* other's way with the lifecycle lock (browser/lifecycle.ts) and, for     *)
(* applications, the lane of the profile.                                  *)
(***************************************************************************)
EXTENDS Integers, Sequences

CONSTANTS Applying,    \* sessions of applications, which hold the profile's lane
          Skilled,     \* sessions of LinkedIn skills and the playground: no lane
          Person, Sweeper,
          TbNobody,
          TbMaxVisits, \* bound: what the person asks for
          TbMaxFaults  \* bound: calls given up, crashes, lost lanes

ASSUME TenantAssumption ==
    /\ Person \notin Applying \cup Skilled /\ Sweeper \notin Applying \cup Skilled
    /\ Person # Sweeper
    /\ TbNobody \notin Applying \cup Skilled \cup {Person, Sweeper}
    /\ TbMaxVisits \in Nat /\ TbMaxFaults \in Nat

Session == Applying \cup Skilled
Caller == Session \cup {Person, Sweeper}
RequestKind == {"connect", "apply", "stop", "disconnect"}

VARIABLES chrome,    \* the agent's TenantState, and whose request started it
          chain,     \* the agent's requests for the tenant, in order (exclusive)
          lifecycle, \* who has the advisory lock browser-lifecycle:<user>
          lane,      \* huntly:apply-profile:<vm>:<tenant>
          profile,   \* user_browser_sessions: "absent" after a removal
          caller,    \* caller -> where it stands, and the last reply it got
          window,    \* the person was told that the window is open
          tbPast     \* history: sessions whose browser went by itself, or
                     \* was ended by another; visits, faults

tbVars == <<chrome, chain, lifecycle, lane, profile, caller, window, tbPast>>

Stopped == [mode |-> "idle", by |-> TbNobody]

TenantTypeOK ==
    /\ chrome \in [mode : {"idle", "connect", "apply"}, by : Session \cup {Person, TbNobody}]
    /\ \A i \in DOMAIN chain :
          chain[i] \in [kind : RequestKind, from : Caller, heard : BOOLEAN, begun : BOOLEAN]
    /\ lifecycle \in Caller \cup {TbNobody}
    /\ lane \in Applying \cup {TbNobody}
    /\ profile \in {"kept", "absent"}
    /\ caller \in [Caller -> [pc : {"idle", "ready", "opening", "undoing", "working", "closing",
                                    "done", "dead", "connecting", "reusing", "disconnecting",
                                    "removing", "locked", "looking", "stopping"},
                              reply : {"none", "ok", "connect", "apply", "error"}]]
    /\ window \in BOOLEAN
    /\ tbPast \in [gone : SUBSET Session, ended : SUBSET Session,
                   visits : 0..TbMaxVisits, faults : 0..TbMaxFaults]

TenantInit ==
    /\ chrome = Stopped /\ chain = <<>>
    /\ lifecycle = TbNobody /\ lane = TbNobody
    /\ profile = "kept"
    /\ caller = [c \in Caller |-> [pc |-> "idle", reply |-> "none"]]
    /\ window = FALSE
    /\ tbPast = [gone |-> {}, ended |-> {}, visits |-> 0, faults |-> 0]

TbAt(c, pc) == caller[c].pc = pc
TbGo(c, pc) == caller' = [caller EXCEPT ![c] = [pc |-> pc, reply |-> "none"]]
Unlocked(c) == IF lifecycle = c THEN TbNobody ELSE lifecycle
OutOfLane(c) == IF lane = c THEN TbNobody ELSE lane

Ask(c, kind) ==
    chain' = Append(chain, [kind |-> kind, from |-> c, heard |-> TRUE, begun |-> FALSE])

TbFault ==
    /\ tbPast.faults < TbMaxFaults
    /\ tbPast' = [tbPast EXCEPT !.faults = @ + 1]

(***************************************************************************)
(* The agent                                                               *)
(***************************************************************************)

AtHead(kinds) == chain # <<>> /\ Head(chain).kind \in kinds

TbAnswer(reply) ==
    /\ chain' = Tail(chain)
    /\ caller' = IF Head(chain).heard
                 THEN [caller EXCEPT ![Head(chain).from].reply = reply]
                 ELSE caller

disconnectAllowed(mode) == mode # "apply"

\* 409, with the mode the browser is in.
AgentRefuses ==
    /\ \/ AtHead({"connect", "apply"}) /\ ~Head(chain).begun /\ chrome.mode # "idle"
       \/ AtHead({"disconnect"}) /\ ~disconnectAllowed(chrome.mode)
    /\ TbAnswer(chrome.mode)
    /\ UNCHANGED <<chrome, lifecycle, lane, profile, window, tbPast>>

\* launch: Chrome is spawned and the mode set, then the agent waits for it.
AgentLaunches ==
    /\ AtHead({"connect", "apply"}) /\ ~Head(chain).begun /\ chrome.mode = "idle"
    /\ chrome' = [mode |-> Head(chain).kind, by |-> Head(chain).from]
    /\ chain' = [chain EXCEPT ![1].begun = TRUE]
    /\ UNCHANGED <<lifecycle, lane, profile, caller, window, tbPast>>

AgentReady ==
    /\ AtHead({"connect", "apply"}) /\ Head(chain).begun /\ chrome.mode # "idle"
    /\ TbAnswer("ok")
    /\ UNCHANGED <<chrome, lifecycle, lane, profile, window, tbPast>>

\* No debugging port, no extension, no gateway, or Chrome has gone: stopProcess.
AgentLaunchFails ==
    /\ AtHead({"connect", "apply"}) /\ Head(chain).begun
    /\ chrome' = Stopped
    /\ TbAnswer("error")
    /\ UNCHANGED <<lifecycle, lane, profile, window, tbPast>>

AgentStops ==
    /\ \/ AtHead({"stop"})
       \/ AtHead({"disconnect"}) /\ disconnectAllowed(chrome.mode)
    /\ chrome' = Stopped
    /\ window' = FALSE
    /\ TbAnswer("ok")
    /\ tbPast' = [tbPast EXCEPT !.ended = @ \cup ({chrome.by} \cap (Session \ {Head(chain).from}))]
    /\ UNCHANGED <<lifecycle, lane, profile>>

\* Chrome exits; or the agent stops it, being idle or shutting down.
BrowserGoes ==
    /\ chrome.mode # "idle"
    /\ chrome' = Stopped
    /\ window' = FALSE
    /\ tbPast' = [tbPast EXCEPT !.gone = @ \cup ({chrome.by} \cap Session)]
    /\ UNCHANGED <<chain, lifecycle, lane, profile, caller>>

(***************************************************************************)
(* Sessions                                                                *)
(***************************************************************************)

\* acquireApplicationLanes; the others have no lane to take.
TbEnter(s) ==
    /\ TbAt(s, "idle")
    /\ s \in Applying => lane = TbNobody
    /\ lane' = IF s \in Applying THEN s ELSE lane
    /\ TbGo(s, "ready")
    /\ UNCHANGED <<chrome, chain, lifecycle, profile, window, tbPast>>

\* openVmLocked, up to its call of the agent.
OpenVm(s) ==
    /\ TbAt(s, "ready") /\ lifecycle = TbNobody /\ profile # "absent"
    /\ lifecycle' = s
    /\ Ask(s, "apply")
    /\ TbGo(s, "opening")
    /\ UNCHANGED <<chrome, lane, profile, window, tbPast>>

\* The lock is taken, the profile removed, the browser busy, or the call failed.
OpenFails(s) ==
    /\ \/ TbAt(s, "ready") /\ (lifecycle # TbNobody \/ profile = "absent")
       \/ TbAt(s, "opening") /\ caller[s].reply \in {"connect", "apply", "error"}
    /\ lifecycle' = Unlocked(s) /\ lane' = OutOfLane(s)
    /\ TbGo(s, "done")
    /\ UNCHANGED <<chrome, chain, profile, window, tbPast>>

TbOpened(s) ==
    /\ TbAt(s, "opening") /\ caller[s].reply = "ok"
    /\ lifecycle' = Unlocked(s)
    /\ TbGo(s, "working")
    /\ UNCHANGED <<chrome, chain, lane, profile, window, tbPast>>

\* connectOverCDP fails: the browser is stopped, still under the lock.
CannotAttach(s) ==
    /\ TbAt(s, "opening") /\ caller[s].reply = "ok"
    /\ Ask(s, "stop")
    /\ TbGo(s, "undoing")
    /\ UNCHANGED <<chrome, lifecycle, lane, profile, window, tbPast>>

\* An error after that leaves the browser to the agent's idle sweep.
CannotPrepare(s) ==
    /\ TbAt(s, "opening") /\ caller[s].reply = "ok"
    /\ lifecycle' = Unlocked(s) /\ lane' = OutOfLane(s)
    /\ TbGo(s, "done")
    /\ UNCHANGED <<chrome, chain, profile, window, tbPast>>

\* session.close, at the end or when the lane is lost: without the lock.
TbClose(s) ==
    /\ TbAt(s, "working")
    /\ Ask(s, "stop")
    /\ TbGo(s, "closing")
    /\ UNCHANGED <<chrome, lifecycle, lane, profile, window, tbPast>>

TbLeave(s) ==
    /\ TbAt(s, "undoing") \/ TbAt(s, "closing")
    /\ caller[s].reply # "none"
    /\ lifecycle' = Unlocked(s) /\ lane' = OutOfLane(s)
    /\ TbGo(s, "done")
    /\ UNCHANGED <<chrome, chain, profile, window, tbPast>>

\* A lane that is lost aborts the application, which closes its session.
TbLaneLost ==
    /\ TbFault
    /\ lane # TbNobody /\ lane' = TbNobody
    /\ UNCHANGED <<chrome, chain, lifecycle, profile, caller, window>>

(***************************************************************************)
(* The person                                                              *)
(***************************************************************************)

TbVisit ==
    /\ TbAt(Person, "idle") /\ lifecycle = TbNobody /\ tbPast.visits < TbMaxVisits
    /\ tbPast' = [tbPast EXCEPT !.visits = @ + 1]

Connect ==
    /\ TbVisit
    /\ lifecycle' = Person
    /\ Ask(Person, "connect")
    /\ TbGo(Person, "connecting")
    /\ UNCHANGED <<chrome, lane, profile, window>>

\* ensureTenantConnected takes an open window for its own, after a look.
Reuse ==
    /\ TbAt(Person, "connecting") /\ caller[Person].reply = "connect"
    /\ TbGo(Person, "reusing")
    /\ UNCHANGED <<chrome, chain, lifecycle, lane, profile, window, tbPast>>

Connected ==
    /\ \/ TbAt(Person, "connecting") /\ caller[Person].reply = "ok"
       \/ TbAt(Person, "reusing") /\ chrome.mode = "connect"
    /\ profile' = "kept" /\ window' = (chrome.mode = "connect")
    /\ lifecycle' = Unlocked(Person)
    /\ TbGo(Person, "idle")
    /\ UNCHANGED <<chrome, chain, lane, tbPast>>

\* Disconnect looks at the mode first, and leaves an application alone.
Disconnect ==
    /\ TbVisit /\ chrome.mode # "apply"
    /\ lifecycle' = Person
    /\ Ask(Person, "disconnect")
    /\ TbGo(Person, "disconnecting")
    /\ UNCHANGED <<chrome, lane, profile, window>>

\* What the cookies prove decides whether the profile can be used.
Disconnected ==
    /\ TbAt(Person, "disconnecting") /\ caller[Person].reply = "ok"
    /\ profile' \in {"kept", "absent"}
    /\ lifecycle' = Unlocked(Person)
    /\ TbGo(Person, "idle")
    /\ UNCHANGED <<chrome, chain, lane, window, tbPast>>

\* Mutant: the profile is removed whatever the browser does.
RemoveBusyProfile ==
    /\ TbVisit
    /\ profile' = "absent"
    /\ UNCHANGED <<chrome, chain, lifecycle, lane, caller, window>>

\* No window: the row is updated at once, under the lock.
RemoveProfile ==
    /\ TbVisit /\ chrome.mode = "idle"
    /\ profile' = "absent"
    /\ UNCHANGED <<chrome, chain, lifecycle, lane, caller, window>>

RemoveWindow ==
    /\ TbVisit /\ chrome.mode = "connect"
    /\ lifecycle' = Person
    /\ Ask(Person, "disconnect")
    /\ TbGo(Person, "removing")
    /\ UNCHANGED <<chrome, lane, profile, window>>

Removed ==
    /\ TbAt(Person, "removing") /\ caller[Person].reply = "ok"
    /\ profile' = "absent"
    /\ lifecycle' = Unlocked(Person)
    /\ TbGo(Person, "idle")
    /\ UNCHANGED <<chrome, chain, lane, window, tbPast>>

\* An error rolls the request back.
VisitFails ==
    /\ \/ /\ caller[Person].reply \in {"apply", "error"}
          /\ caller[Person].pc \in {"connecting", "disconnecting", "removing"}
       \/ TbAt(Person, "reusing") /\ chrome.mode # "connect"
    /\ lifecycle' = Unlocked(Person)
    /\ TbGo(Person, "idle")
    /\ UNCHANGED <<chrome, chain, lane, profile, window, tbPast>>

(***************************************************************************)
(* The sweep, for the recorded browser of a session that died              *)
(***************************************************************************)

SweepTenant ==
    /\ TbAt(Sweeper, "idle") /\ lifecycle = TbNobody
    /\ \E a \in Applying : TbAt(a, "dead")
    /\ lifecycle' = Sweeper
    /\ TbGo(Sweeper, "locked")
    /\ UNCHANGED <<chrome, chain, lane, profile, window, tbPast>>

\* Mutant: the sweep does not ask for the lane.
AnyLane == TRUE

LaneIsFree == lane = TbNobody

SweepLooks ==
    /\ TbAt(Sweeper, "locked") /\ LaneIsFree
    /\ TbGo(Sweeper, "looking")
    /\ UNCHANGED <<chrome, chain, lifecycle, lane, profile, window, tbPast>>

SweepStops ==
    /\ TbAt(Sweeper, "looking") /\ chrome.mode = "apply"
    /\ Ask(Sweeper, "stop")
    /\ TbGo(Sweeper, "stopping")
    /\ UNCHANGED <<chrome, lifecycle, lane, profile, window, tbPast>>

SweepEnds ==
    /\ \/ TbAt(Sweeper, "locked") /\ ~LaneIsFree
       \/ TbAt(Sweeper, "looking") /\ chrome.mode # "apply"
       \/ TbAt(Sweeper, "stopping") /\ caller[Sweeper].reply # "none"
    /\ lifecycle' = Unlocked(Sweeper)
    /\ TbGo(Sweeper, "done")
    /\ UNCHANGED <<chrome, chain, lane, profile, window, tbPast>>

(***************************************************************************)
(* Calls given up and processes that stop                                  *)
(***************************************************************************)

\* The caller of c's request no longer listens; the agent still serves it.
Unheard(c) == [i \in DOMAIN chain |-> IF chain[i].from = c THEN [chain[i] EXCEPT !.heard = FALSE]
                                                           ELSE chain[i]]

\* AbortSignal.timeout(45_000).
CallTimesOut(c) ==
    /\ TbFault
    /\ \E i \in DOMAIN chain : chain[i].from = c /\ chain[i].heard
    /\ chain' = Unheard(c)
    /\ caller' = [caller EXCEPT ![c].reply = "error"]
    /\ UNCHANGED <<chrome, lifecycle, lane, profile, window>>

\* Its transaction rolls back; its lane expires later.
SessionDies(s) ==
    /\ TbFault
    /\ caller[s].pc \in {"opening", "undoing", "working", "closing"}
    /\ chain' = Unheard(s)
    /\ lifecycle' = Unlocked(s)
    /\ TbGo(s, "dead")
    /\ UNCHANGED <<chrome, lane, profile, window>>

DeadLaneExpires ==
    /\ lane # TbNobody /\ TbAt(lane, "dead")
    /\ lane' = TbNobody
    /\ UNCHANGED <<chrome, chain, lifecycle, profile, caller, window, tbPast>>

(***************************************************************************)
(* The specification                                                       *)
(***************************************************************************)

AgentStep ==
    \/ AgentRefuses \/ AgentLaunches \/ AgentReady \/ AgentLaunchFails \/ AgentStops
    \/ BrowserGoes

SessionStep(s) ==
    \/ TbEnter(s) \/ OpenVm(s) \/ OpenFails(s) \/ TbOpened(s) \/ CannotAttach(s)
    \/ CannotPrepare(s) \/ TbClose(s) \/ TbLeave(s) \/ SessionDies(s)

PersonStep ==
    \/ Connect \/ Reuse \/ Connected \/ Disconnect \/ Disconnected
    \/ RemoveProfile \/ RemoveWindow \/ Removed \/ VisitFails

SweepTenantStep == SweepTenant \/ SweepLooks \/ SweepStops \/ SweepEnds

TenantNext ==
    \/ AgentStep \/ PersonStep \/ SweepTenantStep \/ TbLaneLost \/ DeadLaneExpires
    \/ \E s \in Session : SessionStep(s)
    \/ \E c \in Caller : CallTimesOut(c)

TenantSpec == TenantInit /\ [][TenantNext]_tbVars

(***************************************************************************)
(* Properties                                                              *)
(***************************************************************************)

Uses(s) == TbAt(s, "working") /\ chrome = [mode |-> "apply", by |-> s]

\* An application keeps its browser until it closes it, unless Chrome goes by
\* itself, its lane was lost, or a session closes that had lost its own (its
\* stop names the tenant and nothing else); and so does the person, who also
\* may disconnect. ("Never interrupt an application", browser/vm-client.ts;
\* "an active application returns 409 untouched", modules/me/routes.ts.)
BrowserLeftToItsUser ==
    [][ LET closer == Head(chain).from
        IN  /\ \A a \in Applying :
                  Uses(a) /\ lane = a /\ ~Uses(a)' /\ TbAt(a, "working")' =>
                      \/ a \in tbPast'.gone
                      \/ closer \in tbPast.gone \cup tbPast.ended
            /\ window /\ ~window' /\ chain' # chain =>
                  closer = Person \/ closer \in tbPast.gone \cup tbPast.ended ]_tbVars

\* Once the person has been told that the profile is removed, no application
\* works in it, and none comes to, until the person connects again.
RemovedProfileRests == profile = "absent" => \A s \in Session : ~Uses(s)
=============================================================================
