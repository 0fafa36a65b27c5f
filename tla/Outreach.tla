------------------------------ MODULE Outreach ------------------------------
(***************************************************************************)
(* Invitations and messages sent in one user's LinkedIn account: the drafts*)
(* and their approval (modules/outreach/routes.ts), the gate and the state *)
(* machine (outreach/sequence.ts, outreach/limits.ts), the send            *)
(* (skills/linkedin/send.ts, outreach.ts), the prospecting sweep           *)
(* (outreach/sweep.ts) and the two jobs of the runner (runner.ts) that do  *)
(* all this under two different locks.                                     *)
(***************************************************************************)
EXTENDS Integers, FiniteSets

CONSTANTS Prospect,   \* people found at the targets' companies
          Sender,     \* executions of the outreach job
          OrNobody,   \* nobody holds a lock
          OrCap,      \* invitesPerDay, and the other caps
          Draft,      \* the drafts the instance looks at, of Prospect \X Kind
          OrMaxEdits, \* bound: edits of the drafts
          OrMaxTrips, \* bound: checkpoints LinkedIn shows
          OrMaxFaults \* bound: crashes, and errors after the click

Kind == {"invite", "ask"}

ASSUME OutreachAssumption ==
    /\ Draft \subseteq Prospect \X Kind
    /\ OrNobody \notin Sender /\ OrCap \in Nat
    /\ OrMaxEdits \in Nat /\ OrMaxTrips \in Nat /\ OrMaxFaults \in Nat

Message == Draft
NoMessage == <<OrNobody, "none">>
Version == 0..OrMaxEdits

VARIABLES orState,    \* prospect -> outreach_prospects.state; "none" before it is found
          orDrafted,  \* messages that exist
          orVersion,  \* message -> how often its body was edited
          orApproved, \* messages with approved_at
          orSentAt,   \* messages with sent_at
          orToday,    \* prospects with invited_at in the last day
          orEnabled,  \* user_schedules.outreach_enabled
          orHealth,   \* account_health: no row, a row, or paused_until ahead
          orLock,     \* who holds the user's lock "outreach"
          orSender,   \* sender -> where it stands, and the message it took
          orSweep,    \* the referral-sync job, under the lock "linkedin"
          orSeen,     \* LinkedIn: prospects it saw invited in the last day
          orHistory   \* what was agreed to, and what was counted

orRows == <<orState, orDrafted, orVersion, orApproved, orSentAt, orToday>>
orVars == <<orRows, orEnabled, orHealth, orLock, orSender, orSweep, orSeen, orHistory>>

OutreachTypeOK ==
    /\ orState \in [Prospect -> {"none", "identified", "drafted", "approved", "invited",
                                 "accepted", "asked"}]
    /\ orDrafted \subseteq Message /\ orApproved \subseteq orDrafted
    /\ orSentAt \subseteq orDrafted
    /\ orVersion \in [Message -> Version]
    /\ orToday \subseteq Prospect /\ orSeen \subseteq Prospect
    /\ orEnabled \in BOOLEAN
    /\ orHealth \in {"none", "clear", "paused"}
    /\ orLock \in Sender \cup {OrNobody}
    /\ orSender \in [Sender -> [pc : {"idle", "locked", "sending", "marking", "settling",
                                     "tripping"},
                                msg : Message \cup {NoMessage}, version : Version]]
    /\ orSweep \in {"idle", "looking", "tripping"} \cup Prospect
    /\ orHistory \in [agreed : SUBSET (Message \X Version),
                      lost : Nat, outran : Nat, edits : Version, trips : 0..OrMaxTrips,
                      faults : 0..OrMaxFaults]

IdleSender == [pc |-> "idle", msg |-> NoMessage, version |-> 0]

OutreachInit ==
    /\ orState = [p \in Prospect |-> "none"]
    /\ orDrafted = {} /\ orApproved = {} /\ orSentAt = {}
    /\ orVersion = [m \in Message |-> 0]
    /\ orToday = {} /\ orSeen = {}
    /\ orEnabled = FALSE
    /\ orHealth = "none"
    /\ orLock = OrNobody
    /\ orSender = [s \in Sender |-> IdleSender]
    /\ orSweep = "idle"
    /\ orHistory = [agreed |-> {}, lost |-> 0, outran |-> 0, edits |-> 0, trips |-> 0, faults |-> 0]

OrAt(s, pc) == orSender[s].pc = pc

(***************************************************************************)
(* The person.                                                             *)
(***************************************************************************)

\* PUT /settings; sending and prospecting are off until then.
OrToggle ==
    /\ orEnabled' = ~orEnabled
    /\ UNCHANGED <<orRows, orHealth, orLock, orSender, orSweep, orSeen, orHistory>>

\* GET /health opens the account's row when there is none (loadHealth).
OrLookAtHealth ==
    /\ orHealth = "none"
    /\ orHealth' = "clear"
    /\ UNCHANGED <<orRows, orEnabled, orLock, orSender, orSweep, orSeen, orHistory>>

\* POST /messages/approve: messages, then prospects that are drafted.
OrApprove(m) ==
    /\ m \in orDrafted \ orApproved
    /\ orApproved' = orApproved \cup {m}
    /\ orState' = [orState EXCEPT ![m[1]] = IF @ = "drafted" THEN "approved" ELSE @]
    /\ orHistory' = [orHistory EXCEPT !.agreed = @ \cup {<<m, orVersion[m]>>}]
    /\ UNCHANGED <<orDrafted, orVersion, orSentAt, orToday, orEnabled, orHealth, orLock,
                   orSender, orSweep, orSeen>>

\* Mutant: the approval survives the edit.
EditKeepsApproval(m) ==
    /\ m \in orDrafted \ orSentAt /\ orHistory.edits < OrMaxEdits
    /\ orVersion' = [orVersion EXCEPT ![m] = @ + 1]
    /\ orHistory' = [orHistory EXCEPT !.edits = @ + 1]
    /\ UNCHANGED <<orState, orDrafted, orApproved, orSentAt, orToday, orEnabled, orHealth,
                   orLock, orSender, orSweep, orSeen>>

\* PUT /messages/:id.
OrEdit(m) ==
    /\ m \in orDrafted \ orSentAt /\ orHistory.edits < OrMaxEdits
    /\ orVersion' = [orVersion EXCEPT ![m] = @ + 1]
    /\ orApproved' = orApproved \ {m}
    /\ orHistory' = [orHistory EXCEPT !.edits = @ + 1]
    /\ UNCHANGED <<orState, orDrafted, orSentAt, orToday, orEnabled, orHealth,
                   orLock, orSender, orSweep, orSeen>>

(***************************************************************************)
(* The outreach job: one message, under the lock "outreach".               *)
(***************************************************************************)

\* Mutant: the job runs without the user's lock.
TakeUnlocked(s) ==
    /\ OrAt(s, "idle")
    /\ orSender' = [orSender EXCEPT ![s].pc = "locked"]
    /\ UNCHANGED <<orRows, orEnabled, orHealth, orLock, orSweep, orSeen, orHistory>>

\* A job may wait at any time. It gets the lock, or LockBusyError ends it.
OrTake(s) ==
    /\ OrAt(s, "idle")
    /\ IF orLock = OrNobody
         THEN orLock' = s /\ orSender' = [orSender EXCEPT ![s].pc = "locked"]
         ELSE UNCHANGED <<orLock, orSender>>
    /\ UNCHANGED <<orRows, orEnabled, orHealth, orSweep, orSeen, orHistory>>

\* Of the approved and unsent messages, an invitation only for a prospect
\* who was not invited, an ask only for one who accepted.
MessageFits(m) ==
    /\ m \in orApproved \ orSentAt
    /\ IF m[2] = "invite" THEN orState[m[1]] \in {"drafted", "approved"}
                          ELSE orState[m[1]] = "accepted"

\* Mutant: the breaker is not looked at.
CanSendPaused == Cardinality(orToday) < OrCap

\* canSend: the breaker, then the caps, counted on the prospects' rows.
CanSend == orHealth # "paused" /\ Cardinality(orToday) < OrCap

OrLeave(s) ==
    /\ orSender' = [orSender EXCEPT ![s] = IdleSender]
    /\ orLock' = IF orLock = s THEN OrNobody ELSE orLock

\* nextSendable, and no usable LinkedIn session.
OrNext(s) ==
    /\ OrAt(s, "locked")
    /\ orHealth' = IF orHealth = "none" THEN "clear" ELSE orHealth
    /\ \/ /\ orEnabled /\ CanSend
          /\ \E m \in Message :
                /\ MessageFits(m)
                /\ orSender' = [orSender EXCEPT ![s] = [pc |-> "sending", msg |-> m,
                                                        version |-> orVersion[m]]]
          /\ UNCHANGED orLock
       \/ OrLeave(s)
    /\ UNCHANGED <<orRows, orEnabled, orSweep, orSeen, orHistory>>

\* What LinkedIn sees of a click on Send.
Delivered(s) ==
    LET m == orSender[s].msg IN
    /\ orSeen' = IF m[2] = "invite" THEN orSeen \cup {m[1]} ELSE orSeen
    /\ orHistory' = [orHistory EXCEPT !.outran = IF orHealth = "paused" THEN @ + 1 ELSE @]

\* Sent, or refused before the click: the message keeps its approval and the
\* chain of jobs ends.
OrSend(s) ==
    /\ OrAt(s, "sending")
    /\ \/ Delivered(s) /\ orSender' = [orSender EXCEPT ![s].pc = "marking"] /\ UNCHANGED orLock
       \/ OrLeave(s) /\ UNCHANGED <<orSeen, orHistory>>
    /\ UNCHANGED <<orRows, orEnabled, orHealth, orSweep>>

\* The click arrived, and what followed threw: reported as a failure, so the
\* message keeps its approval.
OrUnsure(s) ==
    /\ OrAt(s, "sending")
    /\ orHistory.faults < OrMaxFaults
    /\ LET m == orSender[s].msg IN
       /\ orSeen' = IF m[2] = "invite" THEN orSeen \cup {m[1]} ELSE orSeen
       /\ orHistory' = [orHistory EXCEPT !.faults = @ + 1, !.lost = @ + 1,
                           !.outran = IF orHealth = "paused" THEN @ + 1 ELSE @]
    /\ OrLeave(s)
    /\ UNCHANGED <<orRows, orEnabled, orHealth, orSweep>>

\* A checkpoint before the click, or after it: then the send is not recorded.
OrCheckpoint(s) ==
    /\ OrAt(s, "sending")
    /\ orHistory.trips < OrMaxTrips
    /\ \/ /\ orHistory' = [orHistory EXCEPT !.trips = @ + 1]
          /\ UNCHANGED orSeen
       \/ /\ orSeen' = IF orSender[s].msg[2] = "invite" THEN orSeen \cup {orSender[s].msg[1]}
                                                        ELSE orSeen
          /\ orHistory' = [orHistory EXCEPT !.trips = @ + 1, !.lost = @ + 1,
                              !.outran = IF orHealth = "paused" THEN @ + 1 ELSE @]
    /\ orSender' = [orSender EXCEPT ![s].pc = "tripping"]
    /\ UNCHANGED <<orRows, orEnabled, orHealth, orLock, orSweep>>

\* tripBreaker updates the account's row; where there is none, nothing.
OrTrip == orHealth' = IF orHealth = "none" THEN "none" ELSE "paused"

OrTripAfterSend(s) ==
    /\ OrAt(s, "tripping")
    /\ OrTrip
    /\ OrLeave(s)
    /\ UNCHANGED <<orRows, orEnabled, orSweep, orSeen, orHistory>>

\* markSent: the message's row ...
OrMarkMessage(s) ==
    /\ OrAt(s, "marking")
    /\ orSentAt' = orSentAt \cup {orSender[s].msg}
    /\ orSender' = [orSender EXCEPT ![s].pc = "settling"]
    /\ UNCHANGED <<orState, orDrafted, orVersion, orApproved, orToday, orEnabled, orHealth,
                   orLock, orSweep, orSeen, orHistory>>

\* ... then the prospect's; the next job is queued with a delay.
OrMarkProspect(s) ==
    /\ OrAt(s, "settling")
    /\ LET m == orSender[s].msg IN
       IF m[2] = "invite"
         THEN /\ orState' = [orState EXCEPT ![m[1]] = "invited"]
              /\ orToday' = orToday \cup {m[1]}
         ELSE /\ orState' = [orState EXCEPT ![m[1]] = "asked"]
              /\ UNCHANGED orToday
    /\ OrLeave(s)
    /\ UNCHANGED <<orDrafted, orVersion, orApproved, orSentAt, orEnabled, orHealth, orSweep,
                   orSeen, orHistory>>

\* The runner stops: a click that was not recorded stays unknown.
OrCrash(s) ==
    /\ ~OrAt(s, "idle")
    /\ orHistory.faults < OrMaxFaults
    /\ orHistory' = [orHistory EXCEPT !.faults = @ + 1,
                        !.lost = IF orSender[s].pc \in {"marking", "settling"} THEN @ + 1 ELSE @]
    /\ orSender' = [orSender EXCEPT ![s] = IdleSender]
    /\ UNCHANGED <<orRows, orEnabled, orHealth, orLock, orSweep, orSeen>>

OrLockExpires ==
    /\ orLock # OrNobody /\ OrAt(orLock, "idle")
    /\ orLock' = OrNobody
    /\ UNCHANGED <<orRows, orEnabled, orHealth, orSender, orSweep, orSeen, orHistory>>

(***************************************************************************)
(* The prospecting sweep, under the lock "linkedin".                       *)
(***************************************************************************)

OrSweepStart ==
    /\ orSweep = "idle" /\ orEnabled
    /\ orSweep' = "looking"
    /\ UNCHANGED <<orRows, orEnabled, orHealth, orLock, orSender, orSeen, orHistory>>

\* discoverProspects: the prospect's row, which a second sweep leaves alone
\* (who is already connected needs no invitation) ...
OrDiscover(p) ==
    /\ orSweep = "looking"
    /\ orState[p] = "none"
    /\ \E state \in {"accepted", "identified"} : orState' = [orState EXCEPT ![p] = state]
    /\ orSweep' = p
    /\ UNCHANGED <<orDrafted, orVersion, orApproved, orSentAt, orToday, orEnabled, orHealth,
                   orLock, orSender, orSeen, orHistory>>

\* ... and its two drafts.
OrDraft(p) ==
    /\ orSweep = p
    /\ orDrafted' = orDrafted \cup {m \in Draft : m[1] = p}
    /\ orState' = [orState EXCEPT ![p] = IF @ = "identified" THEN "drafted" ELSE @]
    /\ orSweep' = "looking"
    /\ UNCHANGED <<orVersion, orApproved, orSentAt, orToday, orEnabled, orHealth, orLock,
                   orSender, orSeen, orHistory>>

\* The sweep ends, or its process does.
OrSweepEnd ==
    /\ orSweep # "idle" /\ orSweep # "tripping"
    /\ orSweep' = "idle"
    /\ UNCHANGED <<orRows, orEnabled, orHealth, orLock, orSender, orSeen, orHistory>>

\* A checkpoint while the sweep reads: it holds the other lock.
OrSweepCheckpoint ==
    /\ orSweep = "looking"
    /\ orHistory.trips < OrMaxTrips
    /\ orHistory' = [orHistory EXCEPT !.trips = @ + 1]
    /\ orSweep' = "tripping"
    /\ UNCHANGED <<orRows, orEnabled, orHealth, orLock, orSender, orSeen>>

OrSweepTrips ==
    /\ orSweep = "tripping"
    /\ OrTrip
    /\ orSweep' = "idle"
    /\ UNCHANGED <<orRows, orEnabled, orLock, orSender, orSeen, orHistory>>

(***************************************************************************)
(* Time.                                                                   *)
(***************************************************************************)

\* breakerPauseMs is over; a pause outlasts any send under way.
OrPauseEnds ==
    /\ orHealth = "paused"
    /\ \A s \in Sender : OrAt(s, "idle") \/ OrAt(s, "locked")
    /\ orHealth' = "clear"
    /\ orHistory' = [orHistory EXCEPT !.outran = 0]
    /\ UNCHANGED <<orRows, orEnabled, orLock, orSender, orSweep, orSeen>>

\* A day after an invitation.
OrDayPasses(p) ==
    /\ p \in orSeen
    /\ \A s \in Sender : orSender[s].msg[1] # p
    /\ orSeen' = orSeen \ {p}
    /\ orToday' = orToday \ {p}
    /\ UNCHANGED <<orState, orDrafted, orVersion, orApproved, orSentAt, orEnabled, orHealth,
                   orLock, orSender, orSweep, orHistory>>

OutreachNext ==
    \/ OrToggle \/ OrLookAtHealth
    \/ \E m \in Message : OrApprove(m) \/ OrEdit(m)
    \/ \E s \in Sender :
          \/ OrTake(s) \/ OrNext(s) \/ OrSend(s) \/ OrUnsure(s) \/ OrCheckpoint(s)
          \/ OrTripAfterSend(s) \/ OrMarkMessage(s) \/ OrMarkProspect(s) \/ OrCrash(s)
    \/ OrLockExpires
    \/ OrSweepStart \/ OrSweepEnd \/ OrSweepCheckpoint \/ OrSweepTrips
    \/ \E p \in Prospect : OrDiscover(p) \/ OrDraft(p) \/ OrDayPasses(p)
    \/ OrPauseEnds

OutreachSpec == OutreachInit /\ [][OutreachNext]_orVars

(***************************************************************************)
(* Properties.                                                             *)
(***************************************************************************)

\* LinkedIn sees no more invitations in a day than the cap, except one for
\* each click that a crash, an error or a checkpoint kept from being recorded: the
\* caps are counted on the rows, one sender at a time (sentCounts, canSend).
InvitesStayUnderCap == Cardinality(orSeen) <= OrCap + orHistory.lost

\* Whatever is edited, approved again or retried meanwhile, the words that
\* leave are words the person approved (routes.ts, "the words that were
\* approved are the words that send").
ApprovedWordsSend ==
    \A s \in Sender : OrAt(s, "sending") =>
        <<orSender[s].msg, orSender[s].version>> \in orHistory.agreed

\* Once the breaker has tripped, at most the one send that was already past
\* the gate leaves before the pause is over, although the sweep that trips
\* it holds another lock (canSend, tripBreaker).
OneSendOutrunsTheBreaker == orHistory.outran <= 1
=============================================================================
