------------------------------ MODULE LimitsProofs ------------------------------
(***************************************************************************)
(* The two limits of a day, for every value of their constants.            *)
(*                                                                         *)
(* The allowance, for any requests, days and faults: no day's allowance is *)
(* exceeded.                                                               *)
(*                                                                         *)
(* Outreach, for any prospects, drafts, senders, cap, edits and faults: the *)
(* day's invitations stay under the cap but for those whose row was lost,  *)
(* only approved words leave, and one send at most outruns the breaker.    *)
(* A sender at work holds the lock (OneAtWork), so one at most is between its *)
(* look at the gate and the row of what it sent (UnderCap).                *)
(***************************************************************************)
EXTENDS Outreach, Allowance, TurnsProofs

(***************************************************************************)
(* Outreach.                                                               *)
(***************************************************************************)

\* A sender at work holds the lock, behind the gate with a draft.
OneAtWork ==
    \A s \in Sender : ~OrAt(s, "idle") => orLock = s
AtAMessage ==
    \A s \in Sender : ~OrAt(s, "idle") /\ ~OrAt(s, "locked") => orSender[s].msg \in orDrafted

\* No draft was edited more often than all of them.
EditsAreCounted == \A m \in Message : orVersion[m] <= orHistory.edits

\* An approval covers the words as they are, a send the words it took.
ApprovalsAreAgreed == \A m \in orApproved : <<m, orVersion[m]>> \in orHistory.agreed

\* Invitations LinkedIn has seen whose rows are still to be written.
Clicked == {p \in Prospect : \E s \in Sender : /\ OrAt(s, "marking") \/ OrAt(s, "settling")
                                               /\ orSender[s].msg = <<p, "invite">>}
Unrecorded == orSeen \ (orToday \cup Clicked)

\* Behind the gate there is room for one, until its row is written.
PastTheGate(s) == ~OrAt(s, "idle") /\ ~OrAt(s, "locked")
UnderCap ==
    /\ IsFiniteSet(orSeen) /\ orToday \cup Clicked \subseteq orSeen
    /\ Cardinality(orToday) <= OrCap
    /\ \A s \in Sender : PastTheGate(s) => Cardinality(orToday) < OrCap
    /\ Cardinality(Unrecorded) <= orHistory.lost

\* A click after the breaker tripped was the last one.
BreakerHolds ==
    \/ orHistory.outran = 0
    \/ /\ orHistory.outran = 1 /\ orHealth = "paused"
       /\ \A s \in Sender : ~OrAt(s, "sending")

OutreachInv ==
    /\ OutreachTypeOK /\ OneAtWork /\ AtAMessage /\ EditsAreCounted
    /\ ApprovalsAreAgreed /\ ApprovedWordsSend /\ UnderCap /\ BreakerHolds

USE OutreachAssumption DEF OutreachAssumption

SenderType == [pc : {"idle", "locked", "sending", "marking", "settling", "tripping"},
               msg : Message \cup {NoMessage}, version : Version]
HistoryType == [agreed : SUBSET (Message \X Version), lost : Nat, outran : Nat, edits : Version,
                trips : 0..OrMaxTrips, faults : 0..OrMaxFaults]

LEMMA IdleSenderType == IdleSender \in SenderType /\ IdleSender.pc = "idle"
BY DEF IdleSender, SenderType, Version

LEMMA OutreachInitInv == OutreachInit => OutreachInv
<1> SUFFICES ASSUME OutreachInit  PROVE OutreachInv
  OBVIOUS
<1>1. \A s \in Sender : orSender[s] = IdleSender /\ OrAt(s, "idle")
  BY DEF OutreachInit, OrAt, IdleSender
<1>2. OutreachTypeOK
  <2>1. orSender \in [Sender -> SenderType]
    BY IdleSenderType DEF OutreachInit
  <2>2. orHistory \in HistoryType
    BY DEF OutreachInit, HistoryType, Version
  <2>3. orVersion \in [Message -> Version]
    BY DEF OutreachInit, Version
  <2> QED BY <2>1, <2>2, <2>3 DEF OutreachInit, OutreachTypeOK, SenderType, HistoryType
<1>3. Clicked = {} /\ Unrecorded = {}
  BY <1>1 DEF OutreachInit, Clicked, Unrecorded, OrAt
<1>4. UnderCap
  BY <1>1, <1>3, FS_EmptySet DEF OutreachInit, UnderCap, PastTheGate
<1>5. OneAtWork /\ AtAMessage /\ ApprovedWordsSend /\ BreakerHolds /\ EditsAreCounted
  BY <1>1 DEF OutreachInit, EditsAreCounted, OneAtWork, AtAMessage, ApprovedWordsSend,
     BreakerHolds, OrAt
<1>6. ApprovalsAreAgreed
  BY DEF OutreachInit, ApprovalsAreAgreed
<1> QED BY <1>2, <1>4, <1>5, <1>6 DEF OutreachInv

\* The types of what an action reads.
LEMMA OutreachParts ==
  ASSUME OutreachTypeOK
  PROVE  /\ orState \in [Prospect -> {"none", "identified", "drafted", "approved", "invited",
                                      "accepted", "asked"}]
         /\ orVersion \in [Message -> Version]
         /\ orLock \in Sender \cup {OrNobody}
         /\ orSender \in [Sender -> SenderType] /\ orHistory \in HistoryType
         /\ orDrafted \subseteq Message /\ orApproved \subseteq orDrafted
         /\ orSentAt \subseteq orDrafted /\ orToday \subseteq Prospect /\ orSeen \subseteq Prospect
         /\ \A m \in Message : m \in Prospect \X Kind
BY DEF OutreachTypeOK, Message, SenderType, HistoryType

\* What a run of the job that fails leaves in the history.
LEMMA UnsureCounts ==
  ASSUME OutreachTypeOK, NEW s \in Sender, OrUnsure(s)
  PROVE  /\ orHistory' = [agreed |-> orHistory.agreed, lost |-> orHistory.lost + 1,
                          outran |-> IF orHealth = "paused" THEN orHistory.outran + 1
                                                            ELSE orHistory.outran,
                          edits |-> orHistory.edits, trips |-> orHistory.trips,
                          faults |-> orHistory.faults + 1]
         /\ orHistory' \in HistoryType
<1>1. orHistory \in HistoryType
  BY OutreachParts
<1>2. orHistory' = [agreed |-> orHistory.agreed, lost |-> orHistory.lost + 1,
                    outran |-> IF orHealth = "paused" THEN orHistory.outran + 1
                                                      ELSE orHistory.outran,
                    edits |-> orHistory.edits, trips |-> orHistory.trips,
                    faults |-> orHistory.faults + 1]
  BY <1>1 DEF HistoryType, OrUnsure
<1>3. /\ orHistory.faults + 1 \in 0..OrMaxFaults
      /\ orHistory.lost + 1 \in Nat /\ orHistory.outran + 1 \in Nat
  BY <1>1 DEF HistoryType, OrUnsure
<1> QED BY <1>1, <1>2, <1>3 DEF HistoryType

LEMMA CheckpointCounts ==
  ASSUME OutreachTypeOK, NEW s \in Sender, OrCheckpoint(s)
  PROVE  /\ \/ /\ orHistory' = [agreed |-> orHistory.agreed, lost |-> orHistory.lost,
                                outran |-> orHistory.outran, edits |-> orHistory.edits,
                                trips |-> orHistory.trips + 1, faults |-> orHistory.faults]
               /\ UNCHANGED orSeen
            \/ /\ orHistory' = [agreed |-> orHistory.agreed, lost |-> orHistory.lost + 1,
                                outran |-> IF orHealth = "paused" THEN orHistory.outran + 1
                                                                  ELSE orHistory.outran,
                                edits |-> orHistory.edits, trips |-> orHistory.trips + 1,
                                faults |-> orHistory.faults]
               /\ orSeen' = IF orSender[s].msg[2] = "invite" THEN orSeen \cup {orSender[s].msg[1]}
                                                             ELSE orSeen
         /\ orHistory' \in HistoryType
<1>1. orHistory \in HistoryType
  BY OutreachParts
<1>2. /\ orHistory.trips + 1 \in 0..OrMaxTrips
      /\ orHistory.lost + 1 \in Nat /\ orHistory.outran + 1 \in Nat
  BY <1>1 DEF HistoryType, OrCheckpoint
<1>3. CASE orHistory' = [orHistory EXCEPT !.trips = @ + 1] /\ UNCHANGED orSeen
  <2>1. orHistory' = [agreed |-> orHistory.agreed, lost |-> orHistory.lost,
                      outran |-> orHistory.outran, edits |-> orHistory.edits,
                      trips |-> orHistory.trips + 1, faults |-> orHistory.faults]
    BY <1>1, <1>3 DEF HistoryType
  <2> QED BY <1>1, <1>2, <1>3, <2>1 DEF HistoryType
<1>4. CASE /\ orSeen' = IF orSender[s].msg[2] = "invite" THEN orSeen \cup {orSender[s].msg[1]}
                                                         ELSE orSeen
           /\ orHistory' = [orHistory EXCEPT !.trips = @ + 1, !.lost = @ + 1,
                               !.outran = IF orHealth = "paused" THEN @ + 1 ELSE @]
  <2>1. orHistory' = [agreed |-> orHistory.agreed, lost |-> orHistory.lost + 1,
                      outran |-> IF orHealth = "paused" THEN orHistory.outran + 1
                                                        ELSE orHistory.outran,
                      edits |-> orHistory.edits, trips |-> orHistory.trips + 1,
                      faults |-> orHistory.faults]
    BY <1>1, <1>4 DEF HistoryType
  <2> QED BY <1>1, <1>2, <1>4, <2>1 DEF HistoryType
<1> QED BY <1>3, <1>4 DEF OrCheckpoint

LEMMA CrashCounts ==
  ASSUME OutreachTypeOK, NEW s \in Sender, OrCrash(s)
  PROVE  /\ orHistory' = [agreed |-> orHistory.agreed,
                          lost |-> IF OrAt(s, "marking") \/ OrAt(s, "settling")
                                     THEN orHistory.lost + 1 ELSE orHistory.lost,
                          outran |-> orHistory.outran, edits |-> orHistory.edits,
                          trips |-> orHistory.trips, faults |-> orHistory.faults + 1]
         /\ orHistory' \in HistoryType
<1>1. orHistory \in HistoryType
  BY OutreachParts
<1>2. orHistory' = [agreed |-> orHistory.agreed,
                    lost |-> IF OrAt(s, "marking") \/ OrAt(s, "settling")
                               THEN orHistory.lost + 1 ELSE orHistory.lost,
                    outran |-> orHistory.outran, edits |-> orHistory.edits,
                    trips |-> orHistory.trips, faults |-> orHistory.faults + 1]
  BY <1>1 DEF HistoryType, OrCrash, OrAt
<1>3. orHistory.faults + 1 \in 0..OrMaxFaults /\ orHistory.lost + 1 \in Nat
  BY <1>1 DEF HistoryType, OrCrash
<1> QED BY <1>1, <1>2, <1>3 DEF HistoryType

\* The two ways on from the gate.
LEMMA GateStep ==
  ASSUME OutreachTypeOK, NEW s \in Sender, OrNext(s)
  PROVE  \/ /\ CanSend /\ UNCHANGED orLock
            /\ \E m \in Message : /\ MessageFits(m)
                                  /\ orSender' = [orSender EXCEPT ![s] =
                                        [pc |-> "sending", msg |-> m, version |-> orVersion[m]]]
         \/ OrLeave(s)
BY DEF OrNext

LEMMA OutreachTypeStep ==
  ASSUME OutreachInv, [OutreachNext]_orVars
  PROVE  OutreachTypeOK'
<1> USE OutreachParts, IdleSenderType
        DEF OutreachInv, orRows, OutreachTypeOK, OrLeave, OrTrip, Delivered, Version, OrAt
<1>1. ASSUME NEW s \in Sender, OrTake(s)  PROVE OutreachTypeOK'
  BY <1>1 DEF OrTake
<1>2. ASSUME NEW s \in Sender, OrNext(s)  PROVE OutreachTypeOK'
  <2>1. CASE OrLeave(s)
    <3>1. orSender' \in [Sender -> SenderType] /\ orLock' \in Sender \cup {OrNobody}
      BY <2>1, OutreachParts, IdleSenderType DEF OrLeave
    <3> QED BY <1>2, <3>1, OutreachParts DEF OrNext, OutreachTypeOK, orRows, SenderType, HistoryType
  <2>2. ASSUME NEW m \in Message, UNCHANGED orLock,
               orSender' = [orSender EXCEPT ![s] = [pc |-> "sending", msg |-> m,
                                                    version |-> orVersion[m]]]
        PROVE  OutreachTypeOK'
    <3>1. [pc |-> "sending", msg |-> m, version |-> orVersion[m]] \in SenderType
      BY <2>2, OutreachParts DEF SenderType
    <3>2. orSender' \in [Sender -> SenderType]
      BY <2>2, <3>1, OutreachParts
    <3> QED BY <1>2, <2>2, <3>2, OutreachParts
            DEF OrNext, OutreachTypeOK, orRows, SenderType, HistoryType
  <2> QED BY <1>2, <2>1, <2>2, GateStep
<1>3. ASSUME NEW s \in Sender, OrSend(s)  PROVE OutreachTypeOK'
  <2>1. orSender[s].msg \in Prospect \X Kind
    BY <1>3, OutreachParts DEF OrSend, OutreachInv, AtAMessage, OrAt
  <2>2. orSeen' \subseteq Prospect
    BY <1>3, <2>1, OutreachParts DEF OrSend, Delivered
  <2>3. orHistory' \in HistoryType
    BY <1>3, OutreachParts DEF OrSend, Delivered, HistoryType, Version
  <2>4. orSender' \in [Sender -> SenderType]
    BY <1>3, OutreachParts, IdleSenderType DEF OrSend, OrLeave, SenderType, OrAt
  <2>5. orLock' \in Sender \cup {OrNobody}
    BY <1>3, OutreachParts, IdleSenderType DEF OrSend, OrLeave, SenderType, OrAt
  <2> QED BY <1>3, OutreachParts, <2>1, <2>2, <2>3, <2>4, <2>5
            DEF OrSend, OutreachTypeOK, orRows, SenderType, HistoryType
<1>4. ASSUME NEW s \in Sender, OrUnsure(s)  PROVE OutreachTypeOK'
  <2>1. orSender[s].msg \in Prospect \X Kind
    BY <1>4, OutreachParts DEF OrUnsure, OutreachInv, AtAMessage, OrAt
  <2>2. orSeen' \subseteq Prospect
    BY <1>4, <2>1, OutreachParts DEF OrUnsure, Delivered
  <2>3. orHistory' \in HistoryType
    BY <1>4, UnsureCounts
  <2>4. orSender' \in [Sender -> SenderType]
    BY <1>4, OutreachParts, IdleSenderType DEF OrUnsure, OrLeave, SenderType, OrAt
  <2>5. orLock' \in Sender \cup {OrNobody}
    BY <1>4, OutreachParts, IdleSenderType DEF OrUnsure, OrLeave, SenderType, OrAt
  <2> QED BY <1>4, OutreachParts, <2>1, <2>2, <2>3, <2>4, <2>5
            DEF OrUnsure, OutreachTypeOK, orRows, SenderType, HistoryType
<1>5. ASSUME NEW s \in Sender, OrCheckpoint(s)  PROVE OutreachTypeOK'
  <2>1. orSender[s].msg \in Prospect \X Kind
    BY <1>5, OutreachParts DEF OrCheckpoint, OutreachInv, AtAMessage, OrAt
  <2>2. orSeen' \subseteq Prospect
    BY <1>5, <2>1, OutreachParts DEF OrCheckpoint, Delivered
  <2>3. orHistory' \in HistoryType
    BY <1>5, CheckpointCounts
  <2>4. orSender' \in [Sender -> SenderType]
    BY <1>5, OutreachParts, IdleSenderType DEF OrCheckpoint, OrLeave, SenderType, OrAt
  <2>5. orLock' \in Sender \cup {OrNobody}
    BY <1>5, OutreachParts, IdleSenderType DEF OrCheckpoint, OrLeave, SenderType, OrAt
  <2> QED BY <1>5, OutreachParts, <2>1, <2>2, <2>3, <2>4, <2>5
            DEF OrCheckpoint, OutreachTypeOK, orRows, SenderType, HistoryType
<1>6. ASSUME NEW s \in Sender, OrTripAfterSend(s)  PROVE OutreachTypeOK'
  <2>1. orSender' \in [Sender -> SenderType]
    BY <1>6, OutreachParts, IdleSenderType DEF OrTripAfterSend, OrLeave, SenderType, OrAt
  <2>2. orLock' \in Sender \cup {OrNobody}
    BY <1>6, OutreachParts, IdleSenderType DEF OrTripAfterSend, OrLeave, SenderType, OrAt
  <2> QED BY <1>6, OutreachParts, <2>1, <2>2
            DEF OrTripAfterSend, OrTrip, OutreachTypeOK, orRows, SenderType, HistoryType
<1>7. ASSUME NEW s \in Sender, OrMarkMessage(s)  PROVE OutreachTypeOK'
  <2>1. orSender[s].msg \in orDrafted
    BY <1>7 DEF OrMarkMessage, OutreachInv, AtAMessage, OrAt
  <2>2. orSender' \in [Sender -> SenderType]
    BY <1>7, OutreachParts, IdleSenderType DEF OrMarkMessage, OrLeave, SenderType, OrAt
  <2> QED BY <1>7, OutreachParts, <2>1, <2>2
            DEF OrMarkMessage, OutreachTypeOK, orRows, SenderType, HistoryType
<1>8. ASSUME NEW s \in Sender, OrMarkProspect(s)  PROVE OutreachTypeOK'
  <2>1. orSender[s].msg \in Prospect \X Kind
    BY <1>8, OutreachParts DEF OrMarkProspect, OutreachInv, AtAMessage, OrAt
  <2>2. orSender' \in [Sender -> SenderType]
    BY <1>8, OutreachParts, IdleSenderType DEF OrMarkProspect, OrLeave, SenderType, OrAt
  <2>3. orLock' \in Sender \cup {OrNobody}
    BY <1>8, OutreachParts, IdleSenderType DEF OrMarkProspect, OrLeave, SenderType, OrAt
  <2> QED BY <1>8, OutreachParts, <2>1, <2>2, <2>3
            DEF OrMarkProspect, OutreachTypeOK, orRows, SenderType, HistoryType
<1>9. ASSUME NEW s \in Sender, OrCrash(s)  PROVE OutreachTypeOK'
  <2>1. orHistory' \in HistoryType
    BY <1>9, CrashCounts
  <2>2. orSender' \in [Sender -> SenderType]
    BY <1>9, OutreachParts, IdleSenderType DEF OrCrash, OrLeave, SenderType, OrAt
  <2>3. orLock' \in Sender \cup {OrNobody}
    BY <1>9, OutreachParts, IdleSenderType DEF OrCrash, OrLeave, SenderType, OrAt
  <2> QED BY <1>9, OutreachParts, <2>1, <2>2, <2>3
            DEF OrCrash, OutreachTypeOK, orRows, SenderType, HistoryType
<1>10. ASSUME NEW m \in Message, OrApprove(m)  PROVE OutreachTypeOK'
  BY <1>10 DEF OrApprove
<1>11. ASSUME NEW m \in Message, OrEdit(m)  PROVE OutreachTypeOK'
  <2>1. orHistory' \in HistoryType
    <3>1. orHistory \in HistoryType /\ orHistory.edits < OrMaxEdits
      BY <1>11, OutreachParts DEF OrEdit
    <3>2. orHistory' = [orHistory EXCEPT !.edits = orHistory.edits + 1]
      BY <1>11 DEF OrEdit
    <3> QED BY <3>1, <3>2 DEF HistoryType, Version
  <2>2. orVersion' \in [Message -> Version]
    BY <1>11, OutreachParts DEF OrEdit, HistoryType, Version, OutreachInv, EditsAreCounted
  <2> QED BY <1>11, OutreachParts, <2>1, <2>2
            DEF OrEdit, OutreachTypeOK, orRows, SenderType, HistoryType
<1>12. ASSUME NEW p \in Prospect, OrDiscover(p)  PROVE OutreachTypeOK'
  BY <1>12 DEF OrDiscover
<1>13. ASSUME NEW p \in Prospect, OrDraft(p)  PROVE OutreachTypeOK'
  <2>1. orDrafted' \subseteq Message
    BY <1>13, OutreachParts DEF OrDraft, Message
  <2>2. orState' \in [Prospect -> {"none", "identified", "drafted", "approved", "invited", "accepted", "asked"}]
    BY <1>13, OutreachParts DEF OrDraft
  <2> QED BY <1>13, OutreachParts, <2>1, <2>2
            DEF OrDraft, OutreachTypeOK, orRows, SenderType, HistoryType
<1>14. ASSUME NEW p \in Prospect, OrDayPasses(p)  PROVE OutreachTypeOK'
  BY <1>14 DEF OrDayPasses
<1>15. ASSUME OrToggle  PROVE OutreachTypeOK'
  BY <1>15 DEF OrToggle
<1>16. ASSUME OrLookAtHealth  PROVE OutreachTypeOK'
  BY <1>16 DEF OrLookAtHealth
<1>17. ASSUME OrLockExpires  PROVE OutreachTypeOK'
  BY <1>17 DEF OrLockExpires
<1>18. ASSUME OrSweepStart  PROVE OutreachTypeOK'
  BY <1>18 DEF OrSweepStart
<1>19. ASSUME OrSweepEnd  PROVE OutreachTypeOK'
  BY <1>19 DEF OrSweepEnd
<1>20. ASSUME OrSweepCheckpoint  PROVE OutreachTypeOK'
  BY <1>20 DEF OrSweepCheckpoint
<1>21. ASSUME OrSweepTrips  PROVE OutreachTypeOK'
  BY <1>21 DEF OrSweepTrips
<1>22. ASSUME OrPauseEnds  PROVE OutreachTypeOK'
  BY <1>22 DEF OrPauseEnds
<1>23. ASSUME UNCHANGED orVars  PROVE OutreachTypeOK'
  BY <1>23 DEF orVars
<1> QED BY <1>1, <1>2, <1>3, <1>4, <1>5, <1>6, <1>7, <1>8, <1>9, <1>10, <1>11, <1>12, <1>13, <1>14,
           <1>15, <1>16, <1>17, <1>18, <1>19, <1>20, <1>21, <1>22, <1>23 DEF OutreachNext

LEMMA OneAtWorkStep ==
  ASSUME OutreachInv, [OutreachNext]_orVars
  PROVE  OneAtWork' /\ AtAMessage' /\ EditsAreCounted'
<1> USE OutreachParts, IdleSenderType
        DEF OutreachInv, OneAtWork, AtAMessage, EditsAreCounted, orRows, OrLeave, OrAt,
        MessageFits, Delivered, Version, SenderType, HistoryType
<1>1. ASSUME NEW s \in Sender, OrTake(s)  PROVE OneAtWork' /\ AtAMessage' /\ EditsAreCounted'
  BY <1>1 DEF OrTake
<1>2. ASSUME NEW s \in Sender, OrNext(s)  PROVE OneAtWork' /\ AtAMessage' /\ EditsAreCounted'
  <2>1. CASE OrLeave(s)
    BY <1>2, <2>1, OutreachParts, IdleSenderType DEF OrNext, OrLeave, OrAt, orRows
  <2>2. ASSUME NEW m \in Message, MessageFits(m), UNCHANGED orLock,
               orSender' = [orSender EXCEPT ![s] = [pc |-> "sending", msg |-> m,
                                                    version |-> orVersion[m]]]
        PROVE  OneAtWork' /\ AtAMessage' /\ EditsAreCounted'
    <3>1. /\ \A r \in Sender \ {s} : orSender'[r] = orSender[r]
          /\ orSender'[s].pc = "sending" /\ orSender'[s].msg = m
      BY <2>2, OutreachParts
    <3>2. m \in orDrafted  BY <2>2, OutreachParts DEF MessageFits
    <3> QED BY <1>2, <2>2, <3>1, <3>2, OutreachParts DEF OrNext, OrAt, orRows
  <2> QED BY <1>2, <2>1, <2>2, GateStep
<1>3. ASSUME NEW s \in Sender, OrSend(s)  PROVE OneAtWork' /\ AtAMessage' /\ EditsAreCounted'
  <2>1. CASE OrLeave(s) /\ UNCHANGED <<orSeen, orHistory>>
    BY <1>3, <2>1 DEF OrSend
  <2>2. CASE Delivered(s) /\ orSender' = [orSender EXCEPT ![s].pc = "marking"] /\ UNCHANGED orLock
    <3>1. orHistory'.edits = orHistory.edits
      BY <2>2 DEF Delivered, HistoryType
    <3>2. /\ orSender'[s].pc = "marking" /\ orSender'[s].msg = orSender[s].msg
          /\ \A r \in Sender \ {s} : orSender'[r] = orSender[r]
      BY <2>2, OutreachParts DEF SenderType
    <3> QED BY <1>3, <2>2, <3>1, <3>2 DEF OrSend, OrAt, orRows
  <2> QED BY <1>3, <2>1, <2>2 DEF OrSend
<1>4. ASSUME NEW s \in Sender, OrUnsure(s)  PROVE OneAtWork' /\ AtAMessage' /\ EditsAreCounted'
  BY <1>4 DEF OrUnsure
<1>5. ASSUME NEW s \in Sender, OrCheckpoint(s)  PROVE OneAtWork' /\ AtAMessage' /\ EditsAreCounted'
  BY <1>5 DEF OrCheckpoint
<1>6. ASSUME NEW s \in Sender, OrTripAfterSend(s)  PROVE OneAtWork' /\ AtAMessage' /\ EditsAreCounted'
  BY <1>6 DEF OrTripAfterSend
<1>7. ASSUME NEW s \in Sender, OrMarkMessage(s)  PROVE OneAtWork' /\ AtAMessage' /\ EditsAreCounted'
  BY <1>7 DEF OrMarkMessage
<1>8. ASSUME NEW s \in Sender, OrMarkProspect(s)  PROVE OneAtWork' /\ AtAMessage' /\ EditsAreCounted'
  BY <1>8 DEF OrMarkProspect
<1>9. ASSUME NEW s \in Sender, OrCrash(s)  PROVE OneAtWork' /\ AtAMessage' /\ EditsAreCounted'
  BY <1>9 DEF OrCrash
<1>10. ASSUME NEW m \in Message, OrApprove(m)  PROVE OneAtWork' /\ AtAMessage' /\ EditsAreCounted'
  BY <1>10 DEF OrApprove
<1>11. ASSUME NEW m \in Message, OrEdit(m)  PROVE OneAtWork' /\ AtAMessage' /\ EditsAreCounted'
  BY <1>11 DEF OrEdit
<1>12. ASSUME NEW p \in Prospect, OrDiscover(p)  PROVE OneAtWork' /\ AtAMessage' /\ EditsAreCounted'
  BY <1>12 DEF OrDiscover
<1>13. ASSUME NEW p \in Prospect, OrDraft(p)  PROVE OneAtWork' /\ AtAMessage' /\ EditsAreCounted'
  BY <1>13 DEF OrDraft
<1>14. ASSUME NEW p \in Prospect, OrDayPasses(p)  PROVE OneAtWork' /\ AtAMessage' /\ EditsAreCounted'
  BY <1>14 DEF OrDayPasses
<1>15. ASSUME OrToggle  PROVE OneAtWork' /\ AtAMessage' /\ EditsAreCounted'
  BY <1>15 DEF OrToggle
<1>16. ASSUME OrLookAtHealth  PROVE OneAtWork' /\ AtAMessage' /\ EditsAreCounted'
  BY <1>16 DEF OrLookAtHealth
<1>17. ASSUME OrLockExpires  PROVE OneAtWork' /\ AtAMessage' /\ EditsAreCounted'
  BY <1>17 DEF OrLockExpires
<1>18. ASSUME OrSweepStart  PROVE OneAtWork' /\ AtAMessage' /\ EditsAreCounted'
  BY <1>18 DEF OrSweepStart
<1>19. ASSUME OrSweepEnd  PROVE OneAtWork' /\ AtAMessage' /\ EditsAreCounted'
  BY <1>19 DEF OrSweepEnd
<1>20. ASSUME OrSweepCheckpoint  PROVE OneAtWork' /\ AtAMessage' /\ EditsAreCounted'
  BY <1>20 DEF OrSweepCheckpoint
<1>21. ASSUME OrSweepTrips  PROVE OneAtWork' /\ AtAMessage' /\ EditsAreCounted'
  BY <1>21 DEF OrSweepTrips
<1>22. ASSUME OrPauseEnds  PROVE OneAtWork' /\ AtAMessage' /\ EditsAreCounted'
  BY <1>22 DEF OrPauseEnds
<1>23. ASSUME UNCHANGED orVars  PROVE OneAtWork' /\ AtAMessage' /\ EditsAreCounted'
  BY <1>23 DEF orVars
<1> QED BY <1>1, <1>2, <1>3, <1>4, <1>5, <1>6, <1>7, <1>8, <1>9, <1>10, <1>11, <1>12, <1>13, <1>14,
           <1>15, <1>16, <1>17, <1>18, <1>19, <1>20, <1>21, <1>22, <1>23 DEF OutreachNext

LEMMA AgreedStep ==
  ASSUME OutreachInv, [OutreachNext]_orVars
  PROVE  ApprovalsAreAgreed' /\ ApprovedWordsSend'
<1> USE OutreachParts, IdleSenderType
        DEF OutreachInv, ApprovalsAreAgreed, ApprovedWordsSend, orRows, OrLeave, OrAt, Delivered,
        MessageFits, SenderType, HistoryType
<1>1. ASSUME NEW s \in Sender, OrTake(s)  PROVE ApprovalsAreAgreed' /\ ApprovedWordsSend'
  <2>1. \A r \in Sender : /\ orSender'[r].pc = "sending" => orSender[r].pc = "sending"
                         /\ orSender'[r].msg = orSender[r].msg
                         /\ orSender'[r].version = orSender[r].version
    BY <1>1, OutreachParts DEF OrTake, SenderType
  <2> QED BY <1>1, <2>1 DEF OrTake, OrAt, orRows
<1>2. ASSUME NEW s \in Sender, OrNext(s)  PROVE ApprovalsAreAgreed' /\ ApprovedWordsSend'
  BY <1>2 DEF OrNext
<1>3. ASSUME NEW s \in Sender, OrSend(s)  PROVE ApprovalsAreAgreed' /\ ApprovedWordsSend'
  <2>1. CASE OrLeave(s) /\ UNCHANGED <<orSeen, orHistory>>
    BY <1>3, <2>1, OutreachParts, IdleSenderType DEF OrSend, OrLeave, OrAt, orRows
  <2>2. CASE Delivered(s) /\ orSender' = [orSender EXCEPT ![s].pc = "marking"]
    <3>1. orHistory'.agreed = orHistory.agreed
      BY <2>2, OutreachParts DEF Delivered, HistoryType
    <3> QED BY <1>3, <2>2, <3>1, OutreachParts DEF OrSend, OrAt, orRows, SenderType
  <2> QED BY <1>3, <2>1, <2>2 DEF OrSend
<1>4. ASSUME NEW s \in Sender, OrUnsure(s)  PROVE ApprovalsAreAgreed' /\ ApprovedWordsSend'
  BY <1>4 DEF OrUnsure
<1>5. ASSUME NEW s \in Sender, OrCheckpoint(s)  PROVE ApprovalsAreAgreed' /\ ApprovedWordsSend'
  BY <1>5 DEF OrCheckpoint
<1>6. ASSUME NEW s \in Sender, OrTripAfterSend(s)  PROVE ApprovalsAreAgreed' /\ ApprovedWordsSend'
  BY <1>6 DEF OrTripAfterSend
<1>7. ASSUME NEW s \in Sender, OrMarkMessage(s)  PROVE ApprovalsAreAgreed' /\ ApprovedWordsSend'
  BY <1>7 DEF OrMarkMessage
<1>8. ASSUME NEW s \in Sender, OrMarkProspect(s)  PROVE ApprovalsAreAgreed' /\ ApprovedWordsSend'
  BY <1>8 DEF OrMarkProspect
<1>9. ASSUME NEW s \in Sender, OrCrash(s)  PROVE ApprovalsAreAgreed' /\ ApprovedWordsSend'
  BY <1>9 DEF OrCrash
<1>10. ASSUME NEW m \in Message, OrApprove(m)  PROVE ApprovalsAreAgreed' /\ ApprovedWordsSend'
  BY <1>10 DEF OrApprove
<1>11. ASSUME NEW m \in Message, OrEdit(m)  PROVE ApprovalsAreAgreed' /\ ApprovedWordsSend'
  BY <1>11 DEF OrEdit
<1>12. ASSUME NEW p \in Prospect, OrDiscover(p)  PROVE ApprovalsAreAgreed' /\ ApprovedWordsSend'
  BY <1>12 DEF OrDiscover
<1>13. ASSUME NEW p \in Prospect, OrDraft(p)  PROVE ApprovalsAreAgreed' /\ ApprovedWordsSend'
  BY <1>13 DEF OrDraft
<1>14. ASSUME NEW p \in Prospect, OrDayPasses(p)  PROVE ApprovalsAreAgreed' /\ ApprovedWordsSend'
  BY <1>14 DEF OrDayPasses
<1>15. ASSUME OrToggle  PROVE ApprovalsAreAgreed' /\ ApprovedWordsSend'
  BY <1>15 DEF OrToggle
<1>16. ASSUME OrLookAtHealth  PROVE ApprovalsAreAgreed' /\ ApprovedWordsSend'
  BY <1>16 DEF OrLookAtHealth
<1>17. ASSUME OrLockExpires  PROVE ApprovalsAreAgreed' /\ ApprovedWordsSend'
  BY <1>17 DEF OrLockExpires
<1>18. ASSUME OrSweepStart  PROVE ApprovalsAreAgreed' /\ ApprovedWordsSend'
  BY <1>18 DEF OrSweepStart
<1>19. ASSUME OrSweepEnd  PROVE ApprovalsAreAgreed' /\ ApprovedWordsSend'
  BY <1>19 DEF OrSweepEnd
<1>20. ASSUME OrSweepCheckpoint  PROVE ApprovalsAreAgreed' /\ ApprovedWordsSend'
  BY <1>20 DEF OrSweepCheckpoint
<1>21. ASSUME OrSweepTrips  PROVE ApprovalsAreAgreed' /\ ApprovedWordsSend'
  BY <1>21 DEF OrSweepTrips
<1>22. ASSUME OrPauseEnds  PROVE ApprovalsAreAgreed' /\ ApprovedWordsSend'
  BY <1>22 DEF OrPauseEnds
<1>23. ASSUME UNCHANGED orVars  PROVE ApprovalsAreAgreed' /\ ApprovedWordsSend'
  BY <1>23 DEF orVars
<1> QED BY <1>1, <1>2, <1>3, <1>4, <1>5, <1>6, <1>7, <1>8, <1>9, <1>10, <1>11, <1>12, <1>13, <1>14,
           <1>15, <1>16, <1>17, <1>18, <1>19, <1>20, <1>21, <1>22, <1>23 DEF OutreachNext

LEMMA BreakerStep ==
  ASSUME OutreachInv, [OutreachNext]_orVars
  PROVE  BreakerHolds'
<1> USE OutreachParts, IdleSenderType
        DEF OutreachInv, BreakerHolds, OneAtWork, orRows, OrLeave, OrAt, Delivered, OrTrip,
        CanSend, SenderType, HistoryType
<1>1. ASSUME NEW s \in Sender, OrTake(s)  PROVE BreakerHolds'
  BY <1>1 DEF OrTake
<1>2. ASSUME NEW s \in Sender, OrNext(s)  PROVE BreakerHolds'
  BY <1>2 DEF OrNext
<1>3. ASSUME NEW s \in Sender, OrSend(s)  PROVE BreakerHolds'
  BY <1>3 DEF OrSend
<1>4. ASSUME NEW s \in Sender, OrUnsure(s)  PROVE BreakerHolds'
  BY <1>4 DEF OrUnsure
<1>5. ASSUME NEW s \in Sender, OrCheckpoint(s)  PROVE BreakerHolds'
  <2>1. /\ orHealth' = orHealth /\ OrAt(s, "sending")
        /\ orHistory'.outran \in {orHistory.outran, orHistory.outran + 1}
        /\ orHealth # "paused" => orHistory'.outran = orHistory.outran
    BY <1>5, CheckpointCounts DEF OrCheckpoint
  <2>2. \A r \in Sender : orSender'[r].pc = IF r = s THEN "tripping" ELSE orSender[r].pc
    BY <1>5, OutreachParts DEF OrCheckpoint, SenderType
  <2>3. \A r \in Sender \ {s} : ~OrAt(r, "sending")
    BY <2>1 DEF OrAt
  <2> QED BY <2>1, <2>2, <2>3, OutreachParts DEF OrAt, HistoryType
<1>6. ASSUME NEW s \in Sender, OrTripAfterSend(s)  PROVE BreakerHolds'
  BY <1>6 DEF OrTripAfterSend
<1>7. ASSUME NEW s \in Sender, OrMarkMessage(s)  PROVE BreakerHolds'
  BY <1>7 DEF OrMarkMessage
<1>8. ASSUME NEW s \in Sender, OrMarkProspect(s)  PROVE BreakerHolds'
  BY <1>8 DEF OrMarkProspect
<1>9. ASSUME NEW s \in Sender, OrCrash(s)  PROVE BreakerHolds'
  BY <1>9 DEF OrCrash
<1>10. ASSUME NEW m \in Message, OrApprove(m)  PROVE BreakerHolds'
  BY <1>10 DEF OrApprove
<1>11. ASSUME NEW m \in Message, OrEdit(m)  PROVE BreakerHolds'
  BY <1>11 DEF OrEdit
<1>12. ASSUME NEW p \in Prospect, OrDiscover(p)  PROVE BreakerHolds'
  BY <1>12 DEF OrDiscover
<1>13. ASSUME NEW p \in Prospect, OrDraft(p)  PROVE BreakerHolds'
  BY <1>13 DEF OrDraft
<1>14. ASSUME NEW p \in Prospect, OrDayPasses(p)  PROVE BreakerHolds'
  BY <1>14 DEF OrDayPasses
<1>15. ASSUME OrToggle  PROVE BreakerHolds'
  BY <1>15 DEF OrToggle
<1>16. ASSUME OrLookAtHealth  PROVE BreakerHolds'
  BY <1>16 DEF OrLookAtHealth
<1>17. ASSUME OrLockExpires  PROVE BreakerHolds'
  BY <1>17 DEF OrLockExpires
<1>18. ASSUME OrSweepStart  PROVE BreakerHolds'
  BY <1>18 DEF OrSweepStart
<1>19. ASSUME OrSweepEnd  PROVE BreakerHolds'
  BY <1>19 DEF OrSweepEnd
<1>20. ASSUME OrSweepCheckpoint  PROVE BreakerHolds'
  BY <1>20 DEF OrSweepCheckpoint
<1>21. ASSUME OrSweepTrips  PROVE BreakerHolds'
  BY <1>21 DEF OrSweepTrips
<1>22. ASSUME OrPauseEnds  PROVE BreakerHolds'
  BY <1>22 DEF OrPauseEnds
<1>23. ASSUME UNCHANGED orVars  PROVE BreakerHolds'
  BY <1>23 DEF orVars
<1> QED BY <1>1, <1>2, <1>3, <1>4, <1>5, <1>6, <1>7, <1>8, <1>9, <1>10, <1>11, <1>12, <1>13, <1>14,
           <1>15, <1>16, <1>17, <1>18, <1>19, <1>20, <1>21, <1>22, <1>23 DEF OutreachNext

\* One more in a set is one more at most.
LEMMA OneMore ==
  ASSUME NEW S, IsFiniteSet(S), NEW x, NEW T, T \subseteq S \cup {x}
  PROVE  IsFiniteSet(T) /\ Cardinality(T) \in Nat /\ Cardinality(T) <= Cardinality(S) + 1
<1>1. /\ IsFiniteSet(S \cup {x}) /\ Cardinality(S) \in Nat
      /\ Cardinality(S \cup {x}) \in {Cardinality(S), Cardinality(S) + 1}
  BY FS_AddElement, FS_CardinalityType
<1>2. /\ IsFiniteSet(T) /\ Cardinality(T) <= Cardinality(S \cup {x})
      /\ Cardinality(T) \in Nat
  BY <1>1, FS_Subset, FS_CardinalityType
<1> QED BY <1>1, <1>2

LEMMA NoMore ==
  ASSUME NEW S, IsFiniteSet(S), NEW T, T \subseteq S
  PROVE  /\ IsFiniteSet(T) /\ Cardinality(T) \in Nat /\ Cardinality(S) \in Nat
         /\ Cardinality(T) <= Cardinality(S)
BY FS_Subset, FS_CardinalityType

\* What the step of a sender at work does to the prospects it clicked for.
LEMMA ClickedByOne ==
  ASSUME OutreachInv, NEW s \in Sender, ~OrAt(s, "idle"), NEW t,
         orSender' = [orSender EXCEPT ![s] = t]
  PROVE  /\ Clicked = IF (OrAt(s, "marking") \/ OrAt(s, "settling")) /\ orSender[s].msg[2] = "invite"
                        THEN {orSender[s].msg[1]} ELSE {}
         /\ Clicked' = IF t.pc \in {"marking", "settling"}
                         THEN {p \in Prospect : t.msg = <<p, "invite">>} ELSE {}
         /\ \A r \in Sender \ {s} : OrAt(r, "idle") /\ OrAt(r, "idle")'
<1>1. \A r \in Sender \ {s} : orSender'[r] = orSender[r] /\ OrAt(r, "idle") /\ OrAt(r, "idle")'
  BY OutreachParts DEF OutreachInv, OneAtWork, OrAt
<1>2. orSender'[s] = t
  BY OutreachParts DEF OutreachInv
<1>3. Clicked = {p \in Prospect : /\ OrAt(s, "marking") \/ OrAt(s, "settling")
                                  /\ orSender[s].msg = <<p, "invite">>}
  BY <1>1 DEF Clicked, OrAt
<1>4. OrAt(s, "marking") \/ OrAt(s, "settling") => orSender[s].msg \in Prospect \X Kind
  BY OutreachParts DEF OutreachInv, AtAMessage, OrAt
<1>5. Clicked' = {p \in Prospect : t.pc \in {"marking", "settling"} /\ t.msg = <<p, "invite">>}
  BY <1>1, <1>2 DEF Clicked, OrAt
<1> QED BY <1>1, <1>3, <1>4, <1>5

\* Steps that no sender takes, and that LinkedIn and the rows do not see.
LEMMA CapUntouched ==
  ASSUME OutreachInv, UNCHANGED <<orSeen, orToday, orSender>>, orHistory'.lost = orHistory.lost
  PROVE  UnderCap'
<1>1. Clicked' = Clicked
  BY DEF Clicked, OrAt
<1> QED BY <1>1 DEF OutreachInv, UnderCap, Unrecorded, PastTheGate, OrAt

\* Steps of a sender that neither click nor record.
LEMMA CapUnclicked ==
  ASSUME OutreachInv, NEW s \in Sender, ~OrAt(s, "idle"), NEW t, UNCHANGED <<orSeen, orToday>>,
         orSender' = [orSender EXCEPT ![s] = t], Clicked' = Clicked,
         orHistory'.lost = orHistory.lost,
         t.pc \in {"idle", "locked"} \/ PastTheGate(s) \/ Cardinality(orToday) < OrCap
  PROVE  UnderCap'
<1>1. \A r \in Sender \ {s} : OrAt(r, "idle")'
  BY ClickedByOne
<1>2. orSender'[s] = t
  BY OutreachParts DEF OutreachInv
<1>3. Unrecorded' = Unrecorded
  BY DEF Unrecorded
<1>4. \A r \in Sender : PastTheGate(r)' => Cardinality(orToday) < OrCap
  BY <1>1, <1>2 DEF OutreachInv, UnderCap, PastTheGate, OrAt
<1> QED BY <1>3, <1>4 DEF OutreachInv, UnderCap

\* A click that is not going to be recorded, or a recording that is lost.
LEMMA CapLosesOne ==
  ASSUME OutreachInv, NEW s \in Sender, PastTheGate(s), NEW t, UNCHANGED orToday,
         orSender' = [orSender EXCEPT ![s] = t], Clicked' = {},
         orSeen' \in {orSeen, orSeen \cup {orSender[s].msg[1]}},
         orHistory' \in HistoryType,
         \/ orHistory'.lost = orHistory.lost + 1
         \/ orHistory'.lost = orHistory.lost /\ orSeen' = orSeen /\ Clicked = {}
  PROVE  UnderCap'
<1>1. ~OrAt(s, "idle")
  BY DEF PastTheGate
<1>2. Clicked \subseteq {orSender[s].msg[1]} /\ (\A r \in Sender \ {s} : OrAt(r, "idle")')
  BY <1>1, ClickedByOne
<1>3. /\ IsFiniteSet(orSeen) /\ orToday \cup Clicked \subseteq orSeen
      /\ Cardinality(orToday) <= OrCap /\ Cardinality(orToday) < OrCap
      /\ Cardinality(Unrecorded) <= orHistory.lost
  BY DEF OutreachInv, UnderCap
<1>4. IsFiniteSet(orSeen')
  BY <1>3, OneMore
<1>5. IsFiniteSet(Unrecorded) /\ Cardinality(Unrecorded) \in Nat
  BY <1>3, NoMore DEF Unrecorded
<1>6. Cardinality(Unrecorded') <= orHistory'.lost
  <2>1. CASE orHistory'.lost = orHistory.lost + 1
    <3>1. Unrecorded' \subseteq Unrecorded \cup {orSender[s].msg[1]}
      BY <1>2 DEF Unrecorded
    <3>2. Cardinality(Unrecorded') \in Nat /\ Cardinality(Unrecorded') <= Cardinality(Unrecorded) + 1
      BY <3>1, <1>5, OneMore
    <3> QED BY <1>3, <1>5, <2>1, <3>2, OutreachParts DEF OutreachInv, HistoryType
  <2>2. CASE orHistory'.lost = orHistory.lost /\ orSeen' = orSeen /\ Clicked = {}
    <3>1. Unrecorded' = Unrecorded
      BY <2>2 DEF Unrecorded
    <3> QED BY <1>3, <2>2, <3>1
  <2> QED BY <2>1, <2>2
<1> QED BY <1>3, <1>4, <1>6 DEF UnderCap

LEMMA UnderCapStep ==
  ASSUME OutreachInv, [OutreachNext]_orVars
  PROVE  UnderCap'
<1> USE DEF OutreachInv
<1>1. ASSUME NEW s \in Sender, OrTake(s)  PROVE UnderCap'
  <2>1. orSender' = orSender \/ orSender' = [orSender EXCEPT ![s].pc = "locked"]
    BY <1>1 DEF OrTake
  <2>2. \A r \in Sender : \/ orSender'[r] = orSender[r]
                          \/ OrAt(r, "idle") /\ OrAt(r, "locked")' /\ orLock = OrNobody
    BY <1>1, <2>1, OutreachParts DEF OrTake, OrAt, SenderType
  <2>3. Clicked' = Clicked /\ (\A r \in Sender : PastTheGate(r)' => PastTheGate(r))
    BY <2>2 DEF Clicked, PastTheGate, OrAt
  <2>4. UNCHANGED <<orSeen, orToday, orHistory>>
    BY <1>1 DEF OrTake, orRows
  <2> QED BY <2>3, <2>4 DEF UnderCap, Unrecorded
<1>2. ASSUME NEW s \in Sender, OrNext(s)  PROVE UnderCap'
  <2>1. OrAt(s, "locked") /\ ~OrAt(s, "idle") /\ UNCHANGED <<orSeen, orToday, orHistory>>
    BY <1>2 DEF OrNext, OrAt, orRows
  <2>2. CASE OrLeave(s)
    <3>1. orSender' = [orSender EXCEPT ![s] = IdleSender]
      BY <2>2 DEF OrLeave
    <3>2. Clicked' = Clicked
      BY <2>1, <3>1, ClickedByOne, IdleSenderType DEF OrAt
    <3> QED BY <2>1, <3>1, <3>2, CapUnclicked, IdleSenderType
  <2>3. ASSUME NEW m \in Message, CanSend,
               orSender' = [orSender EXCEPT ![s] = [pc |-> "sending", msg |-> m,
                                                    version |-> orVersion[m]]]
        PROVE  UnderCap'
    <3> DEFINE t == [pc |-> "sending", msg |-> m, version |-> orVersion[m]]
    <3>1. orSender' = [orSender EXCEPT ![s] = t] /\ t.pc = "sending"
      BY <2>3
    <3> HIDE DEF t
    <3>2. Clicked' = {} /\ Clicked = {}
      BY <2>1, <3>1, ClickedByOne DEF OrAt
    <3> QED BY <2>1, <2>3, <3>1, <3>2, CapUnclicked DEF CanSend
  <2> QED BY <1>2, <2>2, <2>3, GateStep
<1>3. ASSUME NEW s \in Sender, OrSend(s)  PROVE UnderCap'
  <2>1. OrAt(s, "sending") /\ ~OrAt(s, "idle") /\ PastTheGate(s) /\ UNCHANGED orToday
    BY <1>3 DEF OrSend, OrAt, orRows, PastTheGate
  <2>2. CASE OrLeave(s) /\ UNCHANGED <<orSeen, orHistory>>
    <3>1. orSender' = [orSender EXCEPT ![s] = IdleSender]
      BY <2>2 DEF OrLeave
    <3>2. Clicked' = Clicked
      BY <2>1, <3>1, ClickedByOne, IdleSenderType DEF OrAt
    <3> QED BY <2>1, <2>2, <3>1, <3>2, CapUnclicked, IdleSenderType
  <2>3. CASE Delivered(s) /\ orSender' = [orSender EXCEPT ![s].pc = "marking"]
    <3> DEFINE t == [orSender[s] EXCEPT !.pc = "marking"]
               m == orSender[s].msg
    <3>1. orSender' = [orSender EXCEPT ![s] = t] /\ t.pc = "marking" /\ t.msg = m
      BY <2>3, OutreachParts DEF SenderType
    <3>2. m \in Prospect \X Kind
      BY <2>1, OutreachParts DEF AtAMessage, OrAt
    <3>3. /\ orHistory'.lost = orHistory.lost
          /\ orSeen' = IF m[2] = "invite" THEN orSeen \cup {m[1]} ELSE orSeen
      BY <2>3, OutreachParts DEF Delivered, HistoryType
    <3> HIDE DEF t
    <3>4. Clicked = {} /\ Clicked' = {p \in Prospect : m = <<p, "invite">>}
      <4>1. ~(OrAt(s, "marking") \/ OrAt(s, "settling"))
        BY <2>1 DEF OrAt
      <4> HIDE DEF m
      <4> QED BY <2>1, <3>1, <4>1, ClickedByOne
    <3>5. Clicked' = IF m[2] = "invite" THEN {m[1]} ELSE {}
      BY <3>2, <3>4
    <3>6. /\ IsFiniteSet(orSeen) /\ orToday \subseteq orSeen
          /\ Cardinality(orToday) <= OrCap /\ Cardinality(orToday) < OrCap
          /\ Cardinality(Unrecorded) <= orHistory.lost
      BY <2>1 DEF UnderCap
    <3>7. IsFiniteSet(orSeen') /\ orToday' \cup Clicked' \subseteq orSeen'
      BY <2>1, <3>3, <3>5, <3>6, OneMore
    <3>8. Unrecorded' \subseteq Unrecorded
      BY <2>1, <3>3, <3>4, <3>5 DEF Unrecorded
    <3>9. IsFiniteSet(Unrecorded)
      BY <3>6, NoMore DEF Unrecorded
    <3>10. Cardinality(Unrecorded') <= orHistory'.lost
      BY <3>3, <3>6, <3>8, <3>9, NoMore, OutreachParts DEF HistoryType
    <3> QED BY <2>1, <3>6, <3>7, <3>10 DEF UnderCap
  <2> QED BY <1>3, <2>2, <2>3 DEF OrSend
<1>4. ASSUME NEW s \in Sender, OrUnsure(s)  PROVE UnderCap'
  <2>1. /\ PastTheGate(s) /\ ~OrAt(s, "idle") /\ UNCHANGED orToday
        /\ orSender' = [orSender EXCEPT ![s] = IdleSender]
        /\ orSeen' \in {orSeen, orSeen \cup {orSender[s].msg[1]}}
    BY <1>4 DEF OrUnsure, OrAt, orRows, PastTheGate, OrLeave
  <2>2. Clicked' = {}
    BY <2>1, ClickedByOne, IdleSenderType
  <2>3. orHistory' \in HistoryType /\ orHistory'.lost = orHistory.lost + 1
    BY <1>4, UnsureCounts
  <2> QED BY <2>1, <2>2, <2>3, CapLosesOne
<1>5. ASSUME NEW s \in Sender, OrCheckpoint(s)  PROVE UnderCap'
  <2> DEFINE t == [orSender[s] EXCEPT !.pc = "tripping"]
  <2>1. /\ PastTheGate(s) /\ ~OrAt(s, "idle") /\ UNCHANGED orToday
        /\ orSender' = [orSender EXCEPT ![s] = t] /\ t.pc = "tripping" /\ OrAt(s, "sending")
        /\ orSeen' \in {orSeen, orSeen \cup {orSender[s].msg[1]}}
    BY <1>5, OutreachParts DEF OrCheckpoint, OrAt, orRows, PastTheGate, SenderType
  <2> HIDE DEF t
  <2>2. Clicked' = {} /\ Clicked = {}
    BY <2>1, ClickedByOne DEF OrAt
  <2>3. /\ orHistory' \in HistoryType
        /\ \/ orHistory'.lost = orHistory.lost + 1
           \/ orHistory'.lost = orHistory.lost /\ orSeen' = orSeen
    BY <1>5, CheckpointCounts
  <2> QED BY <2>1, <2>2, <2>3, CapLosesOne
<1>6. ASSUME NEW s \in Sender, OrTripAfterSend(s)  PROVE UnderCap'
  <2>1. /\ ~OrAt(s, "idle") /\ OrAt(s, "tripping") /\ UNCHANGED <<orSeen, orToday, orHistory>>
        /\ orSender' = [orSender EXCEPT ![s] = IdleSender]
    BY <1>6 DEF OrTripAfterSend, OrAt, orRows, OrLeave
  <2>2. Clicked' = Clicked
    BY <2>1, ClickedByOne, IdleSenderType DEF OrAt
  <2> QED BY <2>1, <2>2, CapUnclicked, IdleSenderType
<1>7. ASSUME NEW s \in Sender, OrMarkMessage(s)  PROVE UnderCap'
  <2> DEFINE t == [orSender[s] EXCEPT !.pc = "settling"]
  <2>1. /\ PastTheGate(s) /\ ~OrAt(s, "idle") /\ UNCHANGED <<orSeen, orToday, orHistory>>
        /\ orSender' = [orSender EXCEPT ![s] = t] /\ t.pc = "settling" /\ OrAt(s, "marking")
        /\ t.msg = orSender[s].msg
    BY <1>7, OutreachParts DEF OrMarkMessage, OrAt, PastTheGate, SenderType
  <2> HIDE DEF t
  <2>2. orSender[s].msg \in Prospect \X Kind
    BY <2>1, OutreachParts DEF AtAMessage, PastTheGate
  <2>3. Clicked' = Clicked
    <3>1. Clicked = IF orSender[s].msg[2] = "invite" THEN {orSender[s].msg[1]} ELSE {}
      BY <2>1, ClickedByOne
    <3>2. Clicked' = {p \in Prospect : t.msg = <<p, "invite">>}
      BY <2>1, ClickedByOne
    <3> QED BY <2>1, <2>2, <3>1, <3>2
  <2> QED BY <2>1, <2>3, CapUnclicked
<1>8. ASSUME NEW s \in Sender, OrMarkProspect(s)  PROVE UnderCap'
  <2> DEFINE m == orSender[s].msg
  <2>1. /\ PastTheGate(s) /\ ~OrAt(s, "idle") /\ OrAt(s, "settling")
        /\ UNCHANGED <<orSeen, orHistory>> /\ orSender' = [orSender EXCEPT ![s] = IdleSender]
        /\ orToday' = IF m[2] = "invite" THEN orToday \cup {m[1]} ELSE orToday
    BY <1>8 DEF OrMarkProspect, OrAt, PastTheGate, OrLeave
  <2>2. /\ Clicked' = {} /\ Clicked = IF m[2] = "invite" THEN {m[1]} ELSE {}
        /\ \A r \in Sender \ {s} : OrAt(r, "idle")'
    BY <2>1, ClickedByOne, IdleSenderType DEF OrAt
  <2>3. orToday' = orToday \cup Clicked
    BY <2>1, <2>2
  <2>4. /\ IsFiniteSet(orSeen) /\ orToday \cup Clicked \subseteq orSeen
        /\ Cardinality(orToday) < OrCap /\ Cardinality(Unrecorded) <= orHistory.lost
    BY <2>1 DEF UnderCap
  <2>5. Unrecorded' = Unrecorded
    BY <2>1, <2>2, <2>3 DEF Unrecorded
  <2>6. IsFiniteSet(orToday) /\ Cardinality(orToday) \in Nat
    BY <2>4, NoMore
  <2>7. Cardinality(orToday') \in Nat /\ Cardinality(orToday') <= Cardinality(orToday) + 1
    BY <2>1, <2>6, OneMore
  <2>8. Cardinality(orToday') <= OrCap
    BY <2>4, <2>6, <2>7
  <2>9. \A r \in Sender : ~PastTheGate(r)'
    BY <2>1, <2>2, OutreachParts, IdleSenderType DEF PastTheGate, OrAt
  <2> QED BY <2>1, <2>2, <2>3, <2>4, <2>5, <2>8, <2>9 DEF UnderCap
<1>9. ASSUME NEW s \in Sender, OrCrash(s)  PROVE UnderCap'
  <2>1. /\ ~OrAt(s, "idle") /\ UNCHANGED <<orSeen, orToday>>
        /\ orSender' = [orSender EXCEPT ![s] = IdleSender]
    BY <1>9 DEF OrCrash, orRows
  <2>2. Clicked' = {}
    BY <2>1, ClickedByOne, IdleSenderType
  <2>3. /\ orHistory' \in HistoryType
        /\ orHistory'.lost = IF OrAt(s, "marking") \/ OrAt(s, "settling")
                               THEN orHistory.lost + 1 ELSE orHistory.lost
    BY <1>9, CrashCounts
  <2>4. CASE OrAt(s, "marking") \/ OrAt(s, "settling")
    BY <2>1, <2>2, <2>3, <2>4, CapLosesOne DEF PastTheGate, OrAt
  <2>5. CASE ~(OrAt(s, "marking") \/ OrAt(s, "settling"))
    <3>1. Clicked = {}
      BY <2>1, <2>5, ClickedByOne
    <3> QED BY <2>1, <2>2, <2>3, <2>5, <3>1, CapUnclicked, IdleSenderType
  <2> QED BY <2>4, <2>5
<1>10. ASSUME NEW p \in Prospect, OrDayPasses(p)  PROVE UnderCap'
  <2>1. /\ orSeen' = orSeen \ {p} /\ orToday' = orToday \ {p} /\ UNCHANGED <<orSender, orHistory>>
    BY <1>10 DEF OrDayPasses
  <2>2. Clicked' = Clicked /\ p \notin Clicked
    BY <1>10, <2>1 DEF OrDayPasses, Clicked, OrAt
  <2>3. Unrecorded' \subseteq Unrecorded
    BY <2>1, <2>2 DEF Unrecorded
  <2>4. IsFiniteSet(orSeen) /\ IsFiniteSet(orToday) /\ IsFiniteSet(Unrecorded)
    BY NoMore DEF UnderCap, Unrecorded
  <2>5. /\ Cardinality(orToday') \in Nat /\ Cardinality(orToday) \in Nat
        /\ Cardinality(orToday') <= Cardinality(orToday)
        /\ IsFiniteSet(orSeen')
    BY <2>1, <2>4, NoMore
  <2>6. Cardinality(Unrecorded') \in Nat /\ Cardinality(Unrecorded) \in Nat
        /\ Cardinality(Unrecorded') <= Cardinality(Unrecorded)
    BY <2>3, <2>4, NoMore
  <2>7. \A r \in Sender : PastTheGate(r)' => PastTheGate(r)
    BY <2>1 DEF PastTheGate, OrAt
  <2>8. orToday' \cup Clicked' \subseteq orSeen'
    BY <2>1, <2>2 DEF UnderCap
  <2>9. Cardinality(Unrecorded') <= orHistory'.lost
    BY <2>1, <2>6, OutreachParts DEF UnderCap, HistoryType
  <2>10. /\ Cardinality(orToday') <= OrCap
         /\ \A r \in Sender : PastTheGate(r)' => Cardinality(orToday') < OrCap
    BY <2>5, <2>7 DEF UnderCap
  <2> QED BY <2>5, <2>8, <2>9, <2>10 DEF UnderCap
<1>11. ASSUME UNCHANGED <<orSeen, orToday, orSender>>,
              orHistory' = orHistory \/ (\E m \in Message : OrApprove(m) \/ OrEdit(m))
                 \/ OrSweepCheckpoint \/ OrPauseEnds
       PROVE  UnderCap'
  <2>1. orHistory'.lost = orHistory.lost
    BY <1>11, OutreachParts DEF OrApprove, OrEdit, OrSweepCheckpoint, OrPauseEnds, HistoryType
  <2> QED BY <1>11, <2>1, CapUntouched
<1>12. ASSUME NEW m \in Message, OrApprove(m) \/ OrEdit(m)  PROVE UnderCap'
  <2>1. UNCHANGED <<orSeen, orToday, orSender>>
    BY <1>12 DEF OrApprove, OrEdit
  <2> QED BY <1>11, <1>12, <2>1
<1>13. ASSUME NEW p \in Prospect, OrDiscover(p) \/ OrDraft(p)  PROVE UnderCap'
  BY <1>11, <1>13 DEF OrDiscover, OrDraft
<1>14. ASSUME \/ OrToggle \/ OrLookAtHealth \/ OrLockExpires \/ OrSweepStart \/ OrSweepEnd
              \/ OrSweepTrips \/ OrSweepCheckpoint \/ OrPauseEnds \/ UNCHANGED orVars
       PROVE  UnderCap'
  <2>1. UNCHANGED <<orSeen, orToday, orSender>>
    BY <1>14 DEF OrToggle, OrLookAtHealth, OrLockExpires, OrSweepStart, OrSweepEnd,
                 OrSweepTrips, OrSweepCheckpoint, OrPauseEnds, orVars, orRows
  <2>2. orHistory' = orHistory \/ OrSweepCheckpoint \/ OrPauseEnds
    BY <1>14 DEF OrToggle, OrLookAtHealth, OrLockExpires, OrSweepStart, OrSweepEnd,
                 OrSweepTrips, orVars
  <2> QED BY <1>11, <2>1, <2>2
<1> QED BY <1>1, <1>2, <1>3, <1>4, <1>5, <1>6, <1>7, <1>8, <1>9, <1>10, <1>12, <1>13, <1>14
        DEF OutreachNext

LEMMA OutreachKeepsInv == OutreachSpec => []OutreachInv
<1>1. OutreachInv /\ [OutreachNext]_orVars => OutreachInv'
  BY OutreachTypeStep, OneAtWorkStep, AgreedStep, BreakerStep, UnderCapStep DEF OutreachInv
<1> QED BY <1>1, OutreachInitInv, PTL DEF OutreachSpec

\* Prospects, messages, the account's health and the senders keep their types;
\* only what was drafted is approved or sent (sequence.ts, routes.ts).
THEOREM OutreachTypeCorrect == OutreachSpec => []OutreachTypeOK
<1>1. OutreachInv => OutreachTypeOK
  BY DEF OutreachInv
<1> QED BY <1>1, OutreachKeepsInv, PTL

\* LinkedIn never sees more invitations in a day than the cap and one for
\* each click that a crash, an error or a checkpoint kept from being recorded,
\* for any prospects, drafts, senders, cap, edits and faults: one sender is at
\* work at a time, and what LinkedIn saw is recorded, being recorded or lost
\* (canSend, sentCounts, markSent).
THEOREM CapIsKept == OutreachSpec => []InvitesStayUnderCap
<1>1. OutreachInv => InvitesStayUnderCap
  <2> SUFFICES ASSUME OutreachInv  PROVE InvitesStayUnderCap
    OBVIOUS
  <2>1. /\ IsFiniteSet(orSeen) /\ orToday \cup Clicked \subseteq orSeen
        /\ Cardinality(orToday) <= OrCap
        /\ \A s \in Sender : PastTheGate(s) => Cardinality(orToday) < OrCap
        /\ Cardinality(Unrecorded) <= orHistory.lost
    BY DEF OutreachInv, UnderCap
  <2> DEFINE known == orToday \cup Clicked
  <2>2. /\ IsFiniteSet(orToday) /\ Cardinality(orToday) \in Nat /\ IsFiniteSet(known)
        /\ IsFiniteSet(Unrecorded) /\ Cardinality(Unrecorded) \in Nat
    BY <2>1, NoMore DEF Unrecorded
  <2>3. Cardinality(known) \in Nat /\ Cardinality(known) <= OrCap
    <3>1. CASE Clicked = {}
      BY <2>1, <2>2, <3>1
    <3>2. CASE Clicked # {}
      <4>1. PICK s \in Sender : OrAt(s, "marking") \/ OrAt(s, "settling")
        BY <3>2 DEF Clicked
      <4>2. \A r \in Sender \ {s} : OrAt(r, "idle")
        BY <4>1 DEF OutreachInv, OneAtWork, OrAt
      <4>3. Clicked \subseteq {orSender[s].msg[1]}
        BY <4>2 DEF Clicked, OrAt
      <4>4. Cardinality(known) \in Nat /\ Cardinality(known) <= Cardinality(orToday) + 1
        BY <2>2, <4>3, OneMore
      <4>5. Cardinality(orToday) < OrCap
        BY <2>1, <4>1 DEF PastTheGate, OrAt
      <4> QED BY <2>2, <4>4, <4>5
    <3> QED BY <3>1, <3>2
  <2>4. orSeen = known \cup Unrecorded
    BY <2>1 DEF Unrecorded
  <2>5. /\ Cardinality(orSeen) = Cardinality(known) + Cardinality(Unrecorded)
                                 - Cardinality(known \cap Unrecorded)
    BY <2>2, <2>4, FS_Union
  <2>6. known \cap Unrecorded = {}
    BY DEF Unrecorded
  <2>7. Cardinality(known \cap Unrecorded) = 0
    BY <2>6, FS_EmptySet
  <2> HIDE DEF known
  <2> QED BY <2>1, <2>2, <2>3, <2>5, <2>7, OutreachParts
          DEF InvitesStayUnderCap, OutreachInv, HistoryType
<1> QED BY <1>1, OutreachKeepsInv, PTL

\* The words that leave are words the person approved, whatever is edited,
\* approved again or retried meanwhile (routes.ts, the send of runner.ts).
THEOREM ApprovedLeave == OutreachSpec => []ApprovedWordsSend
<1>1. OutreachInv => ApprovedWordsSend
  BY DEF OutreachInv
<1> QED BY <1>1, OutreachKeepsInv, PTL

\* After the breaker tripped no more than the one send past the gate leaves
\* before the pause is over, although two locks are involved (tripBreaker).
THEOREM BreakerStopsSending == OutreachSpec => []OneSendOutrunsTheBreaker
<1>1. OutreachInv => OneSendOutrunsTheBreaker
  BY DEF OutreachInv, BreakerHolds, OneSendOutrunsTheBreaker
<1> QED BY <1>1, OutreachKeepsInv, PTL

(***************************************************************************)
(* The allowance.                                                          *)
(***************************************************************************)

AlCallType ==
    [pc : {"idle", "checked", "begun", "counted"}, kind : {"none", "approve", "retry"},
     jobs : Seq(Job), began : 0..AlMaxDay, day : 0..AlMaxDay, row : AppRow, plan : Seq(Job)]

AlType ==
    /\ alApp \in [Job -> AppRow] /\ alDay \in 0..AlMaxDay
    /\ alLease \in AlRequest \cup {AlNobody} /\ alBudget \in AlRequest \cup {AlNobody}
    /\ alCall \in [AlRequest -> AlCallType]
    /\ \A r \in AlRequest : ToSet(alCall[r].plan) \subseteq ToSet(alCall[r].jobs)
    /\ alSpent \subseteq Job /\ alExcused \subseteq Job
    /\ alFaults \in 0..AlMaxFaults

\* No row and no call is ahead of the day.
NothingAhead ==
    /\ \A c \in Job : alApp[c].day <= alDay
    /\ \A r \in AlRequest :
          /\ alCall[r].began <= alDay /\ alCall[r].day <= alDay /\ alCall[r].row.day <= alDay
          /\ AlAt(r, "counted") => alCall[r].began <= alCall[r].day \/ alCall[r].kind = "retry"

\* What the count of the day sees, but for the jobs it is excused for.
Counted == Used \ alExcused

SpentIsCounted == alSpent \ alExcused \subseteq Used

\* Whoever has counted holds the advisory lock, and no row has changed since
\* that would make its plan too long.
CountHoldsBudget == \A r \in AlRequest : AlAt(r, "counted") => alBudget = r

PlanIsNew ==
    \A r \in AlRequest : AlAt(r, "counted") /\ alCall[r].kind = "approve" =>
        \A c \in ToSet(alCall[r].plan) : alApp[c].status = "none"

CallHasKind == \A r \in AlRequest : ~AlAt(r, "idle") => alCall[r].kind # "none"

RetriesOne ==
    \A r \in AlRequest : ~AlAt(r, "idle") /\ alCall[r].kind = "retry" =>
        \E c \in Job : alCall[r].jobs = <<c>>

\* Under the lease, a row that needed no slot of today when it was read still
\* needs none.
RetryStaysCounted ==
    \A r \in AlRequest :
        /\ AlAt(r, "checked") \/ AlAt(r, "begun")
        /\ Mine(r) /\ alCall[r].kind = "retry"
        /\ alCall[r].row.day = alDay /\ ~GivenBack(alCall[r].row)
        => ToSet(alCall[r].jobs) \subseteq Used \cup alExcused

PlanFits ==
    \A r \in AlRequest :
        AlAt(r, "counted") /\ Mine(r) /\ alCall[r].day = alDay =>
            Cardinality((Used \cup ToSet(alCall[r].plan)) \ alExcused) <= Limit

DayFits == Cardinality(Counted) <= Limit

AllowanceInv ==
    /\ AlType /\ NothingAhead /\ CallHasKind /\ RetriesOne
    /\ SpentIsCounted /\ CountHoldsBudget /\ PlanIsNew
    /\ RetryStaysCounted /\ PlanFits /\ DayFits
USE AllowanceAssumption DEF AllowanceAssumption

LEMMA NoCallType == NoCall \in AlCallType /\ ToSet(NoCall.plan) = {}
BY DEF NoCall, AlCallType, AppRow, ToSet

LEMMA CallShape ==
  /\ NoCall.pc = "idle" /\ NoCall.kind = "none" /\ NoCall.jobs = <<>> /\ NoCall.plan = <<>>
  /\ NoCall.began = 0 /\ NoCall.day = 0 /\ NoCall.row.day = 0
BY DEF NoCall

\* The count of the day reads only the rows and the clock.
LEMMA UsedStays == UNCHANGED <<alApp, alDay>> => Used' = Used
BY DEF Used

\* What a call x of the request r may be where r has the lease and the lock,
\* or has not.
CallFits(x, mine, locked) ==
    /\ ToSet(x.plan) \subseteq ToSet(x.jobs)
    /\ x.began <= alDay /\ x.day <= alDay /\ x.row.day <= alDay
    /\ x.pc # "idle" => x.kind # "none"
    /\ x.pc # "idle" /\ x.kind = "retry" => \E c \in Job : x.jobs = <<c>>
    /\ /\ x.pc \in {"checked", "begun"} /\ mine /\ x.kind = "retry"
       /\ x.row.day = alDay /\ ~GivenBack(x.row)
       => ToSet(x.jobs) \subseteq Used \cup alExcused
    /\ x.pc = "counted" =>
          /\ locked
          /\ x.began <= x.day \/ x.kind = "retry"
          /\ x.kind = "approve" => \A c \in ToSet(x.plan) : alApp[c].status = "none"
          /\ x.day = alDay /\ mine =>
               Cardinality((Used \cup ToSet(x.plan)) \ alExcused) <= Limit

\* A call moves on, takes or leaves the lease and the lock; no row changes.
LEMMA CallMoves ==
  ASSUME AllowanceInv, NEW r \in AlRequest, NEW x \in AlCallType,
         UNCHANGED <<alApp, alDay, alSpent, alExcused>>, alFaults' \in 0..AlMaxFaults,
         alCall' = [alCall EXCEPT ![r] = x],
         alLease' \in AlRequest \cup {AlNobody}, alBudget' \in AlRequest \cup {AlNobody},
         \A q \in AlRequest \ {r} : alLease' = q => alLease = q,
         \A q \in AlRequest \ {r} : alBudget = q => alBudget' = q,
         CallFits(x, alLease' = r, alBudget' = r)
  PROVE  AllowanceInv'
<1>1. /\ alCall'[r] = x
      /\ \A q \in AlRequest \ {r} : alCall'[q] = alCall[q]
  BY DEF AllowanceInv, AlType
<1>2. Used' = Used  BY UsedStays
<1>3. AlType'
  <2>1. alCall' \in [AlRequest -> AlCallType]  BY DEF AllowanceInv, AlType
  <2>2. \A q \in AlRequest : ToSet(alCall'[q].plan) \subseteq ToSet(alCall'[q].jobs)
    BY <1>1 DEF AllowanceInv, AlType, CallFits
  <2> QED BY <2>1, <2>2 DEF AllowanceInv, AlType
<1>4. NothingAhead'
  BY <1>1 DEF AllowanceInv, NothingAhead, AlAt, CallFits
<1>5. CallHasKind' /\ RetriesOne' /\ CountHoldsBudget' /\ PlanIsNew'
  BY <1>1 DEF AllowanceInv, CallHasKind, RetriesOne, CountHoldsBudget, PlanIsNew, AlAt, CallFits
<1>6. SpentIsCounted' /\ DayFits'
  BY <1>2 DEF AllowanceInv, SpentIsCounted, DayFits, Counted
<1>7. RetryStaysCounted'
  BY <1>1, <1>2 DEF AllowanceInv, RetryStaysCounted, AlAt, Mine, CallFits
<1>8. PlanFits'
  BY <1>1, <1>2 DEF AllowanceInv, PlanFits, AlAt, Mine, CallFits
<1> QED BY <1>3, <1>4, <1>5, <1>6, <1>7, <1>8 DEF AllowanceInv

LEMMA AlLeaveInv ==
  ASSUME AllowanceInv, NEW r \in AlRequest, AlLeave(r), 
         UNCHANGED <<alApp, alDay, alSpent, alExcused, alFaults>>
  PROVE  AllowanceInv'
<1>1. alLease \in AlRequest \cup {AlNobody} /\ alBudget \in AlRequest \cup {AlNobody}
      /\ alFaults \in 0..AlMaxFaults /\ alDay \in Nat
  BY DEF AllowanceInv, AlType
<1>2. ToSet(NoCall.plan) \subseteq ToSet(NoCall.jobs) /\ NoCall \in AlCallType
  BY NoCallType
<1>3. CallFits(NoCall, alLease' = r, alBudget' = r)
  BY <1>1, <1>2, CallShape DEF CallFits
<1>4. \A q \in AlRequest \ {r} : (alLease' = q => alLease = q) /\ (alBudget = q => alBudget' = q)
  BY DEF AlLeave
<1>5. alLease' \in AlRequest \cup {AlNobody} /\ alBudget' \in AlRequest \cup {AlNobody}
      /\ alCall' = [alCall EXCEPT ![r] = NoCall]
  BY <1>1 DEF AlLeave
<1> QED BY <1>1, <1>2, <1>3, <1>4, <1>5, CallMoves

LEMMA AlApproveInv ==
  ASSUME AllowanceInv, NEW r \in AlRequest, NEW jobs \in SetToAllKPermutations(Job),
         AlApprove(r, jobs)
  PROVE  AllowanceInv'
<1> DEFINE x == [NoCall EXCEPT !.pc = "checked", !.kind = "approve", !.jobs = jobs]
<1>1. jobs \in Seq(Job)
  <2>1. PICK s \in SUBSET Job : jobs \in SetToSeqs(s)
    BY DEF SetToAllKPermutations
  <2>2. Cardinality(s) \in Nat  BY FS_Subset, FS_CardinalityType
  <2>3. jobs \in [1..Cardinality(s) -> s]  BY <2>1 DEF SetToSeqs
  <2> QED BY <2>2, <2>3
<1>2. x \in AlCallType
  BY <1>1, NoCallType DEF AlCallType
<1>3. /\ x.pc = "checked" /\ x.kind = "approve" /\ x.plan = <<>>
      /\ x.began = 0 /\ x.day = 0 /\ x.row.day = 0
  BY DEF NoCall
<1>4. ToSet(x.plan) = {}  BY NoCallType
<1>5. alCall' = [alCall EXCEPT ![r] = x] /\ alLease' = r /\ alLease = AlNobody
      /\ UNCHANGED <<alApp, alDay, alBudget, alSpent, alExcused, alFaults>>
  BY DEF AlApprove
<1>6. alBudget \in AlRequest \cup {AlNobody} /\ alFaults \in 0..AlMaxFaults /\ alDay \in Nat
  BY DEF AllowanceInv, AlType
<1> HIDE DEF x
<1>7. CallFits(x, alLease' = r, alBudget' = r)
  BY <1>3, <1>4, <1>6 DEF CallFits
<1> QED BY <1>2, <1>5, <1>6, <1>7, CallMoves

LEMMA AlRetryInv ==
  ASSUME AllowanceInv, NEW r \in AlRequest, NEW c \in Job, AlRetry(r, c)
  PROVE  AllowanceInv'
<1> DEFINE x == [NoCall EXCEPT !.pc = "checked", !.kind = "retry", !.jobs = <<c>>, !.row = alApp[c]]
<1>1. alApp[c] \in AppRow /\ alApp[c].day <= alDay
  BY DEF AllowanceInv, AlType, NothingAhead
<1>2. x \in AlCallType
  <2>1. <<c>> \in Seq(Job) /\ NoCall \in AlCallType  BY NoCallType
  <2> QED BY <1>1, <2>1 DEF AlCallType
<1>3. /\ x.pc = "checked" /\ x.kind = "retry" /\ x.plan = <<>> /\ x.jobs = <<c>>
      /\ x.began = 0 /\ x.day = 0 /\ x.row = alApp[c]
  BY DEF NoCall
<1>4. ToSet(x.plan) = {}  BY NoCallType
<1>5. ToSet(x.jobs) = {c}  BY <1>3 DEF ToSet
<1>6. alCall' = [alCall EXCEPT ![r] = x] /\ alLease' = r /\ alLease = AlNobody
      /\ alApp[c].status \in {"ended", "closed"}
      /\ UNCHANGED <<alApp, alDay, alBudget, alSpent, alExcused, alFaults>>
  BY DEF AlRetry
<1>7. alBudget \in AlRequest \cup {AlNobody} /\ alFaults \in 0..AlMaxFaults /\ alDay \in Nat
  BY DEF AllowanceInv, AlType
<1>8. alApp[c].day = alDay /\ ~GivenBack(alApp[c]) => c \in Used
  BY <1>6 DEF Used
<1> HIDE DEF x
<1>9. CallFits(x, alLease' = r, alBudget' = r)
  BY <1>1, <1>3, <1>4, <1>5, <1>7, <1>8 DEF CallFits
<1> QED BY <1>2, <1>6, <1>7, <1>9, CallMoves

LEMMA AlBeginInv ==
  ASSUME AllowanceInv, NEW r \in AlRequest, AlBegin(r)
  PROVE  AllowanceInv'
<1>1. CASE ~Mine(r)  BY <1>1, AlLeaveInv DEF AlBegin
<1>2. CASE Mine(r)
  <2> DEFINE x == [alCall[r] EXCEPT !.pc = "begun", !.began = alDay]
  <2>0. alCall[r] \in AlCallType /\ alDay \in 0..AlMaxDay /\ alCall[r].pc = "checked"
    BY DEF AllowanceInv, AlType, AlBegin, AlAt
  <2>1. x \in AlCallType  BY <2>0 DEF AlCallType
  <2>2. /\ x.pc = "begun" /\ x.began = alDay /\ x.kind = alCall[r].kind /\ x.jobs = alCall[r].jobs
        /\ x.day = alCall[r].day /\ x.row = alCall[r].row /\ x.plan = alCall[r].plan
    BY <2>0 DEF AlCallType
  <2>3. alCall' = [alCall EXCEPT ![r] = x]
        /\ UNCHANGED <<alApp, alDay, alLease, alBudget, alSpent, alExcused, alFaults>>
    BY <1>2 DEF AlBegin
  <2>4. alBudget \in AlRequest \cup {AlNobody} /\ alLease \in AlRequest \cup {AlNobody}
        /\ alFaults \in 0..AlMaxFaults /\ ToSet(alCall[r].plan) \subseteq ToSet(alCall[r].jobs)
    BY DEF AllowanceInv, AlType
  <2>5. alCall[r].day <= alDay /\ alCall[r].row.day <= alDay /\ alDay <= alDay
    BY <2>0 DEF AllowanceInv, NothingAhead
  <2>6. /\ alCall[r].kind # "none"
        /\ alCall[r].kind = "retry" => \E c \in Job : alCall[r].jobs = <<c>>
        /\ alLease = r /\ alCall[r].kind = "retry"
              /\ alCall[r].row.day = alDay /\ ~GivenBack(alCall[r].row)
              => ToSet(alCall[r].jobs) \subseteq Used \cup alExcused
    BY <2>0 DEF AllowanceInv, CallHasKind, RetriesOne, RetryStaysCounted, AlAt, Mine
  <2> HIDE DEF x
  <2>7. CallFits(x, alLease' = r, alBudget' = r)
    BY <2>2, <2>3, <2>4, <2>5, <2>6 DEF CallFits
  <2> QED BY <2>1, <2>3, <2>4, <2>7, CallMoves
<1> QED BY <1>1, <1>2

LEMMA UsedIsFinite ==
  /\ IsFiniteSet(Used) /\ Cardinality(Used) \in Nat
  /\ \A S \in SUBSET Job : IsFiniteSet(S) /\ Cardinality(S) \in Nat
<1>1. \A S \in SUBSET Job : IsFiniteSet(S)  BY FS_Subset
<1>2. \A S \in SUBSET Job : Cardinality(S) \in Nat  BY <1>1, FS_CardinalityType
<1>3. Used \in SUBSET Job  BY DEF Used
<1> QED BY <1>1, <1>2, <1>3

\* dailyBudget.
LEMMA RemainingIs ==
  Remaining \in Nat /\ (Remaining > 0 => Remaining = Limit - Cardinality(Used))
<1> DEFINE n == Limit - Cardinality(Used)
<1>1. n \in Int  BY UsedIsFinite
<1> HIDE DEF n
<1>2. \E x \in {0, n} : \A y \in {0, n} : x >= y  BY <1>1
<1>3. Max({0, n}) \in {0, n} /\ \A y \in {0, n} : Max({0, n}) >= y  BY <1>2 DEF Max
<1>4. Remaining = Max({0, n})  BY DEF Remaining, n
<1>5. Remaining \in Nat /\ (Remaining > 0 => Remaining = n)  BY <1>1, <1>3, <1>4
<1> QED BY <1>5 DEF n

LEMMA RoomIs == Room \in Nat /\ Room <= Remaining
BY RemainingIs DEF Room, Least

\* What is counted under the lock fits the day.
LEMMA PlanFitsDay ==
  ASSUME AllowanceInv, NEW plan \in Seq(Job), plan # <<>>, Len(plan) <= Remaining
  PROVE  Cardinality((Used \cup ToSet(plan)) \ alExcused) <= Limit
<1>1. Len(plan) \in Nat \ {0}  OBVIOUS
<1>2. Remaining = Limit - Cardinality(Used)  BY <1>1, RemainingIs
<1>3. ToSet(plan) \subseteq Job /\ IsFiniteSet(ToSet(plan)) /\ Cardinality(ToSet(plan)) <= Len(plan)
  BY FewAreChosen
<1>4. Cardinality(ToSet(plan)) \in Nat  BY <1>3, UsedIsFinite
<1>5. Used \cup ToSet(plan) \in SUBSET Job  BY <1>3 DEF Used
<1>6. Used \cap ToSet(plan) \in SUBSET Job  BY <1>3
<1>7. Cardinality(Used \cup ToSet(plan))
        = Cardinality(Used) + Cardinality(ToSet(plan)) - Cardinality(Used \cap ToSet(plan))
  BY <1>3, UsedIsFinite, FS_Union
<1>8. Cardinality(Used \cup ToSet(plan)) <= Limit
  BY <1>1, <1>2, <1>3, <1>4, <1>6, <1>7, UsedIsFinite
<1>9. Cardinality((Used \cup ToSet(plan)) \ alExcused) <= Cardinality(Used \cup ToSet(plan))
  BY <1>5, UsedIsFinite, FS_Subset
<1>10. Cardinality((Used \cup ToSet(plan)) \ alExcused) \in Nat
  BY <1>5, UsedIsFinite
<1> QED BY <1>5, <1>8, <1>9, <1>10, UsedIsFinite

\* A batch selects jobs without an application.
LEMMA SelectedIs ==
  ASSUME AllowanceInv, NEW r \in AlRequest
  PROVE  Selected(r) \in Seq({c \in Job : alApp[c].status = "none"})
<1> DEFINE jobs == alCall[r].jobs
           places == {i \in DOMAIN jobs : alApp[jobs[i]].status = "none"}
           V == {jobs[i] : i \in places \cap DOMAIN jobs}
<1>1. jobs \in Seq(Job)  BY DEF AllowanceInv, AlType, AlCallType
<1>2. Keep(jobs, places) \in Seq(V)
  <2> HIDE DEF places, jobs
  <2> QED BY <1>1, KeepIsSome
<1>3. V \subseteq {c \in Job : alApp[c].status = "none"}
  <2> HIDE DEF jobs
  <2> QED BY <1>1
<1>4. Selected(r) = Keep(jobs, places)  BY DEF Selected
<1> HIDE DEF V
<1> QED BY <1>2, <1>3, <1>4

LEMMA AlCountInv ==
  ASSUME AllowanceInv, NEW r \in AlRequest, AlCount(r)
  PROVE  AllowanceInv'
<1> DEFINE jobs == IF alCall[r].kind = "approve" THEN Selected(r) ELSE alCall[r].jobs
           plan == IF alCall[r].kind = "approve" THEN Plan(jobs, Room)
                   ELSE IF MayRetry(r) THEN jobs ELSE <<>>
           x == [alCall[r] EXCEPT !.pc = "counted", !.jobs = jobs, !.plan = plan, !.day = alDay]
<1>0. /\ alCall[r] \in AlCallType /\ alCall[r].pc = "begun" /\ alBudget = AlNobody
      /\ UNCHANGED <<alApp, alDay, alSpent, alExcused, alFaults>>
      /\ alDay \in 0..AlMaxDay /\ alFaults \in 0..AlMaxFaults
      /\ alLease \in AlRequest \cup {AlNobody}
  BY DEF AllowanceInv, AlType, AlCount, AlAt
<1>1. CASE plan = <<>>
  <2>1. AlLeave(r)  BY <1>1 DEF AlCount
  <2> QED BY <2>1, <1>0, AlLeaveInv
<1>2. CASE plan # <<>>
  <2>1. alCall' = [alCall EXCEPT ![r] = x] /\ alBudget' = r /\ UNCHANGED alLease
    BY <1>2 DEF AlCount
  <2>2. jobs \in Seq(Job) /\ alCall[r].kind \in {"approve", "retry"}
    <3>1. alCall[r].jobs \in Seq(Job)  BY <1>0 DEF AlCallType
    <3>2. Selected(r) \in Seq(Job)
      <4> DEFINE New == {c \in Job : alApp[c].status = "none"}
      <4>1. Selected(r) \in Seq(New) /\ New \subseteq Job  BY SelectedIs
      <4> HIDE DEF New
      <4> QED BY <4>1
    <3>3. alCall[r].kind \in {"approve", "retry"}
      BY <1>0 DEF AllowanceInv, CallHasKind, AlCallType, AlAt
    <3> QED BY <3>1, <3>2, <3>3
  <2>3. plan \in Seq(ToSet(jobs)) /\ (alCall[r].kind = "approve" => Len(plan) <= Remaining)
    <3>1. CASE alCall[r].kind = "approve"
      <4>1. Plan(jobs, Room) \in Seq(ToSet(jobs)) /\ Len(Plan(jobs, Room)) <= Room
        <5> HIDE DEF jobs
        <5> QED BY <2>2, PlanSelects, RoomIs, AllowanceAssumption DEF AllowanceAssumption
      <4>2. Len(Plan(jobs, Room)) \in Nat
        <5> HIDE DEF jobs
        <5> QED BY <4>1
      <4>3. plan = Plan(jobs, Room)  BY <3>1
      <4> HIDE DEF jobs, plan
      <4> QED BY <4>1, <4>2, <4>3, RoomIs, RemainingIs
    <3>2. CASE alCall[r].kind = "retry"
      <4>1. plan = jobs  BY <1>2, <3>2
      <4>2. jobs \in Seq(ToSet(jobs))
        <5> HIDE DEF jobs
        <5> QED BY <2>2 DEF ToSet
      <4> HIDE DEF jobs, plan
      <4> QED BY <3>2, <4>1, <4>2
    <3> HIDE DEF jobs, plan
    <3> QED BY <3>1, <3>2, <2>2
  <2>4. ToSet(plan) \subseteq ToSet(jobs) /\ plan \in Seq(Job)
    <3>1. ToSet(plan) \subseteq ToSet(jobs) /\ ToSet(jobs) \subseteq Job
      <4> HIDE DEF jobs, plan
      <4> QED BY <2>2, <2>3, FewAreChosen
    <3> HIDE DEF jobs, plan
    <3> QED BY <3>1, <2>3
  <2>5. x \in AlCallType
    <3> HIDE DEF jobs, plan
    <3> QED BY <1>0, <2>2, <2>4 DEF AlCallType
  <2>6. /\ x.pc = "counted" /\ x.began = alCall[r].began /\ x.kind = alCall[r].kind
        /\ x.jobs = jobs /\ x.day = alDay /\ x.row = alCall[r].row /\ x.plan = plan
    <3> HIDE DEF jobs, plan
    <3> QED BY <1>0 DEF AlCallType
  <2>7. alCall[r].began <= alDay /\ alCall[r].row.day <= alDay /\ alDay <= alDay
    BY <1>0 DEF AllowanceInv, NothingAhead
  <2>8. alCall[r].kind = "retry" => \E c \in Job : jobs = <<c>>
    BY <1>0 DEF AllowanceInv, RetriesOne, AlAt
  <2>9. alCall[r].kind = "approve" => \A c \in ToSet(plan) : alApp[c].status = "none"
    <3>1. HAVE alCall[r].kind = "approve"
    <3>2. jobs \in Seq({c \in Job : alApp[c].status = "none"})
      BY <3>1, SelectedIs
    <3>3. ToSet(jobs) \subseteq {c \in Job : alApp[c].status = "none"}
      <4> DEFINE New == {c \in Job : alApp[c].status = "none"}
      <4>1. jobs \in Seq(New)  BY <3>2
      <4> HIDE DEF New, jobs
      <4>2. ToSet(jobs) \subseteq New  BY <4>1, FewAreChosen
      <4> QED BY <4>2 DEF New
    <3> HIDE DEF jobs, plan
    <3> QED BY <3>3, <2>4
  <2>10. alLease = r => Cardinality((Used \cup ToSet(plan)) \ alExcused) <= Limit
    <3>1. CASE Len(plan) <= Remaining
      <4> HIDE DEF plan
      <4> QED BY <3>1, <1>2, <2>4, PlanFitsDay
    <3>2. CASE ~(Len(plan) <= Remaining)
      <4>1. alCall[r].kind = "retry" /\ plan = jobs /\ MayRetry(r)
        <5>1. alCall[r].kind = "retry"
          <6> HIDE DEF jobs, plan
          <6> QED BY <2>2, <2>3, <3>2
        <5> QED BY <5>1, <1>2
      <4>2. Len(plan) = 1
        <5>1. plan = jobs /\ \E c \in Job : jobs = <<c>>  BY <4>1, <2>8
        <5> HIDE DEF plan, jobs
        <5> QED BY <5>1
      <4>3. alCall[r].row.day = alDay /\ ~GivenBack(alCall[r].row)
        <5>1. ~(Remaining > 0)
          <6> HIDE DEF plan
          <6> QED BY <3>2, <4>2, RemainingIs
        <5>2. MayRetry(r)  BY <4>1
        <5> HIDE DEF plan, jobs
        <5> QED BY <5>1, <5>2 DEF MayRetry
      <4>4. alLease = r => ToSet(alCall[r].jobs) \subseteq Used \cup alExcused
        BY <1>0, <4>1, <4>3 DEF AllowanceInv, RetryStaysCounted, AlAt, Mine
      <4>5. jobs = alCall[r].jobs  BY <4>1
      <4>6. alLease = r => (Used \cup ToSet(plan)) \ alExcused = Counted
        <5> HIDE DEF jobs, plan
        <5> QED BY <4>1, <4>4, <4>5 DEF Counted
      <4> HIDE DEF jobs, plan
      <4> QED BY <4>6 DEF AllowanceInv, DayFits
    <3> QED BY <3>1, <3>2
  <2>11. CallFits(x, alLease' = r, alBudget' = r)
    <3> HIDE DEF x, jobs, plan
    <3> QED BY <2>1, <2>4, <2>6, <2>7, <2>8, <2>9, <2>10, <2>2 DEF CallFits
  <2>12. \A q \in AlRequest \ {r} : (alLease' = q => alLease = q) /\ (alBudget = q => alBudget' = q)
    <3> HIDE DEF x
    <3> QED BY <2>1, <1>0
  <2> HIDE DEF x
  <2> QED BY <1>0, <2>1, <2>5, <2>11, <2>12, CallMoves
<1> QED BY <1>1, <1>2

\* Of a call that has counted there is one, and it has the lock.
LEMMA OneHasCounted ==
  ASSUME AllowanceInv, NEW r \in AlRequest, AlAt(r, "counted")
  PROVE  \A q \in AlRequest : AlAt(q, "counted") => q = r
BY DEF AllowanceInv, CountHoldsBudget

\* The rows, when the batch or the retry of a call is committed.
LEMMA CommittedRows ==
  ASSUME AllowanceInv, NEW jobs \in SUBSET Job, NEW stamp \in 0..AlMaxDay, UNCHANGED alDay,
         alApp' = [c \in Job |-> IF c \in jobs
                     THEN [alApp[c] EXCEPT !.status = "queued", !.day = stamp] ELSE alApp[c]]
  PROVE  /\ alApp' \in [Job -> AppRow]
         /\ \A c \in jobs : alApp'[c].day = stamp /\ alApp'[c].status = "queued"
         /\ \A c \in Job \ jobs : alApp'[c] = alApp[c]
         /\ stamp = alDay => Used' = Used \cup jobs
         /\ stamp # alDay => Used' = Used \ jobs
<1>1. \A c \in Job : alApp[c] \in AppRow  BY DEF AllowanceInv, AlType
<1>2. \A c \in Job : [alApp[c] EXCEPT !.status = "queued", !.day = stamp] \in AppRow
  BY <1>1 DEF AppRow
<1>3. \A c \in jobs : alApp'[c] = [alApp[c] EXCEPT !.status = "queued", !.day = stamp]
  OBVIOUS
<1>4. \A c \in jobs : alApp'[c].day = stamp /\ alApp'[c].status = "queued"
  BY <1>1, <1>3 DEF AppRow
<1>5. \A c \in Job \ jobs : alApp'[c] = alApp[c]
  OBVIOUS
<1>6. alApp' \in [Job -> AppRow]  BY <1>1, <1>2
<1>7. \A c \in Job : c \in Used' <=>
         alApp'[c].status # "none" /\ alApp'[c].day = alDay /\ ~GivenBack(alApp'[c])
  BY DEF Used, GivenBack
<1>8. \A c \in Job : c \in Used <=>
         alApp[c].status # "none" /\ alApp[c].day = alDay /\ ~GivenBack(alApp[c])
  BY DEF Used
<1>9. \A c \in jobs : c \in Used' <=> stamp = alDay
  BY <1>4, <1>7 DEF GivenBack
<1>10. \A c \in Job \ jobs : c \in Used' <=> c \in Used
  BY <1>5, <1>7, <1>8
<1>11. Used \subseteq Job /\ Used' \subseteq Job  BY DEF Used
<1> QED BY <1>4, <1>5, <1>6, <1>9, <1>10, <1>11

LEMMA AlCommitInv ==
  ASSUME AllowanceInv, NEW r \in AlRequest, AlCommit(r)
  PROVE  AllowanceInv'
<1> DEFINE call == alCall[r]
           jobs == ToSet(call.plan)
           stamp == IF call.kind = "approve" THEN call.began ELSE alDay
<1>0. /\ call \in AlCallType /\ call.pc = "counted" /\ AlLeave(r)
      /\ UNCHANGED <<alDay, alFaults>>
      /\ alDay \in 0..AlMaxDay /\ alFaults \in 0..AlMaxFaults
      /\ alSpent \subseteq Job /\ alExcused \subseteq Job
  BY DEF AllowanceInv, AlType, AlCommit, AlAt
<1>1. CASE ~Mine(r)
  <2>1. UNCHANGED <<alApp, alSpent, alExcused>>  BY <1>1 DEF AlCommit
  <2> QED BY <2>1, <1>0, AlLeaveInv
<1>2. CASE Mine(r)
  <2>1. /\ alApp' = [c \in Job |-> IF c \in jobs
                        THEN [alApp[c] EXCEPT !.status = "queued", !.day = stamp] ELSE alApp[c]]
        /\ alSpent' = IF call.day = alDay \/ stamp = alDay THEN alSpent \cup jobs ELSE alSpent
        /\ alExcused' = IF stamp # call.day THEN alExcused \cup jobs ELSE alExcused
    BY <1>2 DEF AlCommit
  <2>2. jobs \subseteq Job
    <3>1. call.plan \in Seq(Job)  BY <1>0 DEF AlCallType
    <3> HIDE DEF call
    <3> QED BY <3>1, FewAreChosen
  <2>3. /\ call.kind \in {"approve", "retry"} /\ call.began <= alDay /\ call.day <= alDay
        /\ call.kind = "approve" => call.began <= call.day
        /\ call.began \in 0..AlMaxDay /\ call.day \in 0..AlMaxDay
    BY <1>0 DEF AllowanceInv, NothingAhead, CallHasKind, AlCallType, AlAt
  <2>4. /\ call.kind = "approve" => \A c \in jobs : alApp[c].status = "none"
        /\ call.day = alDay => Cardinality((Used \cup jobs) \ alExcused) <= Limit
    BY <1>0, <1>2 DEF AllowanceInv, PlanIsNew, PlanFits, AlAt
  <2>5. stamp \in 0..AlMaxDay /\ stamp <= alDay /\ (stamp = alDay \/ call.kind = "approve")
        /\ (stamp = alDay /\ call.kind = "approve" => call.day = alDay)
    BY <1>0, <2>3
  <2>6. /\ alCall' = [alCall EXCEPT ![r] = NoCall] /\ alLease' = AlNobody /\ alBudget' = AlNobody
    BY <1>0, <1>2 DEF AlLeave, Mine, AllowanceInv, CountHoldsBudget, AlAt
  <2> HIDE DEF call, jobs, stamp
  <2>7. /\ alApp' \in [Job -> AppRow]
        /\ \A c \in jobs : alApp'[c].day = stamp /\ alApp'[c].status = "queued"
        /\ \A c \in Job \ jobs : alApp'[c] = alApp[c]
        /\ stamp = alDay => Used' = Used \cup jobs
        /\ stamp # alDay => Used' = Used \ jobs
    BY <1>0, <2>1, <2>2, <2>5, CommittedRows
  <2>8. stamp # alDay => Used' = Used
    BY <2>4, <2>5, <2>7 DEF Used
  <2>9. /\ alCall'[r] = NoCall
        /\ \A q \in AlRequest \ {r} : alCall'[q] = alCall[q]
    BY <2>6 DEF AllowanceInv, AlType
  <2>10. \A q \in AlRequest : alCall'[q].pc # "counted"
    <3>1. \A q \in AlRequest \ {r} : alCall[q].pc # "counted"
      BY <1>0, OneHasCounted DEF AlAt, call
    <3> QED BY <3>1, <2>9, CallShape
  <2>11. AlType'
    <3>1. alCall' \in [AlRequest -> AlCallType]
      BY <2>6, NoCallType DEF AllowanceInv, AlType
    <3>2. \A q \in AlRequest : ToSet(alCall'[q].plan) \subseteq ToSet(alCall'[q].jobs)
      BY <2>9, NoCallType DEF AllowanceInv, AlType
    <3>3. alSpent' \subseteq Job /\ alExcused' \subseteq Job
      BY <1>0, <2>1, <2>2
    <3> QED BY <1>0, <2>6, <2>7, <3>1, <3>2, <3>3 DEF AlType
  <2>12. NothingAhead'
    <3>1. \A c \in Job : alApp'[c].day <= alDay
      BY <2>5, <2>7 DEF AllowanceInv, NothingAhead
    <3>2. \A q \in AlRequest : /\ alCall'[q].began <= alDay /\ alCall'[q].day <= alDay
                               /\ alCall'[q].row.day <= alDay
      BY <1>0, <2>9, CallShape DEF AllowanceInv, NothingAhead
    <3> QED BY <1>0, <3>1, <3>2, <2>10 DEF NothingAhead, AlAt
  <2>13. CallHasKind' /\ RetriesOne'
    BY <2>9, CallShape DEF AllowanceInv, CallHasKind, RetriesOne, AlAt
  <2>14. CountHoldsBudget' /\ PlanIsNew' /\ PlanFits'
    BY <2>10 DEF CountHoldsBudget, PlanIsNew, PlanFits, AlAt
  <2>15. RetryStaysCounted'
    BY <2>6 DEF RetryStaysCounted, Mine
  <2>16. SpentIsCounted'
    BY <2>1, <2>5, <2>7, <2>8 DEF AllowanceInv, SpentIsCounted
  <2>17. DayFits'
    <3>1. Counted' \in SUBSET Counted \/ (call.day = alDay /\ Counted' = (Used \cup jobs) \ alExcused)
      BY <2>1, <2>5, <2>7, <2>8 DEF Counted
    <3>2. Counted \in SUBSET Job  BY DEF Counted, Used
    <3>3. ASSUME NEW C, C = Counted', C \in SUBSET Counted  PROVE Cardinality(C) <= Limit
      <4>1. Cardinality(C) <= Cardinality(Counted)  BY <3>2, <3>3, UsedIsFinite, FS_Subset
      <4>2. Cardinality(C) \in Nat /\ Cardinality(Counted) \in Nat
        BY <3>2, <3>3, UsedIsFinite
      <4> QED BY <4>1, <4>2 DEF AllowanceInv, DayFits
    <3> QED BY <3>1, <3>3, <2>4 DEF DayFits
  <2> QED BY <2>11, <2>12, <2>13, <2>14, <2>15, <2>16, <2>17 DEF AllowanceInv
<1> QED BY <1>1, <1>2

\* The row of a job that was queued before changes, not its day: the day's
\* count may lose it, and the job is excused then, or nobody has the lease.
LEMMA RowChanges ==
  ASSUME AllowanceInv, NEW c \in Job, NEW x \in AppRow,
         alApp' = [alApp EXCEPT ![c] = x],
         x.day = alApp[c].day, x.status # "none", alApp[c].status # "none",
         UNCHANGED <<alDay, alLease, alBudget, alCall, alFaults>>,
         GivenBack(alApp[c]) => GivenBack(x),
         alExcused \subseteq alExcused', alExcused' \subseteq Job, alSpent' \subseteq alSpent,
         c \in Used' \/ c \notin Used \/ c \in alExcused'
           \/ (alLease = AlNobody /\ c \notin alSpent')
  PROVE  AllowanceInv'
<1>1. alApp' \in [Job -> AppRow] /\ alApp'[c] = x /\ \A d \in Job \ {c} : alApp'[d] = alApp[d]
  BY DEF AllowanceInv, AlType
<1>2. \A d \in Job : d \in Used' <=>
         alApp'[d].status # "none" /\ alApp'[d].day = alDay /\ ~GivenBack(alApp'[d])
  BY DEF Used, GivenBack
<1>3. Used' \subseteq Used /\ Used \subseteq Used' \cup {c}
  BY <1>1, <1>2 DEF Used
<1>4. AlType'
  BY <1>1 DEF AllowanceInv, AlType
<1>5. NothingAhead' /\ CallHasKind' /\ RetriesOne' /\ CountHoldsBudget'
  BY <1>1 DEF AllowanceInv, NothingAhead, CallHasKind, RetriesOne, CountHoldsBudget, AlAt
<1>6. SpentIsCounted'
  BY <1>3 DEF AllowanceInv, SpentIsCounted
<1>7. PlanIsNew'
  BY <1>1 DEF AllowanceInv, PlanIsNew, AlAt
<1>8. RetryStaysCounted'
  <2>1. \A r \in AlRequest : Mine(r) => Used \cup alExcused \subseteq Used' \cup alExcused'
    BY <1>3 DEF Mine
  <2>2. \A r \in AlRequest : Mine(r)' = Mine(r) /\ alCall'[r] = alCall[r]  BY DEF Mine
  <2> QED BY <2>1, <2>2 DEF AllowanceInv, RetryStaysCounted, AlAt, GivenBack
<1>9. PlanFits'
  <2> SUFFICES ASSUME NEW r \in AlRequest, AlAt(r, "counted"), Mine(r), alCall[r].day = alDay,
                      NEW C, C = ((Used \cup ToSet(alCall[r].plan)) \ alExcused)'
               PROVE  Cardinality(C) <= Limit
    BY DEF PlanFits, AlAt, Mine
  <2> DEFINE B == (Used \cup ToSet(alCall[r].plan)) \ alExcused
  <2>1. ToSet(alCall[r].plan) \subseteq Job
    <3>1. alCall[r].plan \in Seq(Job)  BY DEF AllowanceInv, AlType, AlCallType
    <3> QED BY <3>1, FewAreChosen
  <2>2. B \in SUBSET Job  BY <2>1 DEF Used
  <2>3. C \in SUBSET B  BY <1>3
  <2>4. Cardinality(B) <= Limit  BY DEF AllowanceInv, PlanFits
  <2> HIDE DEF B
  <2>5. IsFiniteSet(B) /\ Cardinality(B) \in Nat /\ Cardinality(C) \in Nat
    BY <2>2, <2>3, UsedIsFinite
  <2>6. Cardinality(C) <= Cardinality(B)  BY <2>3, <2>5, FS_Subset
  <2> QED BY <2>4, <2>5, <2>6
<1>10. DayFits'
  <2> SUFFICES ASSUME NEW C, C = Counted'  PROVE Cardinality(C) <= Limit
    BY DEF DayFits
  <2>1. C \in SUBSET Counted /\ Counted \in SUBSET Job  BY <1>3 DEF Counted, Used
  <2>2. IsFiniteSet(Counted) /\ Cardinality(Counted) \in Nat /\ Cardinality(C) \in Nat
    BY <2>1, UsedIsFinite
  <2>3. Cardinality(C) <= Cardinality(Counted)  BY <2>1, <2>2, FS_Subset
  <2> QED BY <2>2, <2>3 DEF AllowanceInv, DayFits
<1> QED BY <1>4, <1>5, <1>6, <1>7, <1>8, <1>9, <1>10 DEF AllowanceInv

LEMMA AlCancelInv ==
  ASSUME AllowanceInv, NEW c \in Job, AlCancel(c)
  PROVE  AllowanceInv'
<1> DEFINE x == [alApp[c] EXCEPT !.status = "closed", !.note = TRUE]
<1>1. alApp[c] \in AppRow  BY DEF AllowanceInv, AlType
<1>2. x \in AppRow /\ x.day = alApp[c].day /\ x.status = "closed" /\ x.note
  BY <1>1 DEF AppRow
<1>3. alApp' = [alApp EXCEPT ![c] = x]  BY DEF AlCancel
<1>4. /\ alApp[c].status = "queued" /\ alLease = AlNobody /\ alSpent' = alSpent \ {c}
      /\ UNCHANGED <<alDay, alLease, alBudget, alCall, alExcused, alFaults>>
  BY DEF AlCancel
<1>5. alExcused \subseteq Job  BY DEF AllowanceInv, AlType
<1> HIDE DEF x
<1> QED BY <1>2, <1>3, <1>4, <1>5, RowChanges DEF GivenBack

LEMMA AlAttemptInv ==
  ASSUME AllowanceInv, NEW c \in Job, AlAttempt(c)
  PROVE  AllowanceInv'
<1> DEFINE x == [alApp[c] EXCEPT !.status = "ended"]
<1>1. alApp[c] \in AppRow  BY DEF AllowanceInv, AlType
<1>2. x \in AppRow /\ x.day = alApp[c].day /\ x.status = "ended"
  BY <1>1 DEF AppRow
<1>3. alApp' = [alApp EXCEPT ![c] = x]  BY DEF AlAttempt
<1>4. /\ alApp[c].status = "queued"
      /\ UNCHANGED <<alDay, alLease, alBudget, alCall, alSpent, alExcused, alFaults>>
  BY DEF AlAttempt
<1>5. alExcused \subseteq Job  BY DEF AllowanceInv, AlType
<1>6. alApp'[c] = x  BY <1>3 DEF AllowanceInv, AlType
<1>7. c \in Used' \/ c \notin Used
  BY <1>2, <1>4, <1>6 DEF Used, GivenBack
<1>8. ~GivenBack(alApp[c])  BY <1>4 DEF GivenBack
<1> HIDE DEF x
<1> QED BY <1>2, <1>3, <1>4, <1>5, <1>7, <1>8, RowChanges

LEMMA AlCloseInv ==
  ASSUME AllowanceInv, NEW c \in Job, AlClose(c)
  PROVE  AllowanceInv'
<1> DEFINE x == [alApp[c] EXCEPT !.status = "closed"]
<1>1. alApp[c] \in AppRow  BY DEF AllowanceInv, AlType
<1>2. x \in AppRow /\ x.day = alApp[c].day /\ x.status = "closed" /\ x.note = alApp[c].note
  BY <1>1 DEF AppRow
<1>3. alApp' = [alApp EXCEPT ![c] = x]  BY DEF AlClose
<1>4. /\ alApp[c].status = "ended"
      /\ alExcused' = IF alApp[c].note THEN alExcused \cup {c} ELSE alExcused
      /\ UNCHANGED <<alDay, alLease, alBudget, alCall, alSpent, alFaults>>
  BY DEF AlClose
<1>5. alExcused \subseteq Job /\ alExcused \subseteq alExcused' /\ alExcused' \subseteq Job
  BY <1>4 DEF AllowanceInv, AlType
<1>6. alApp'[c] = x  BY <1>3 DEF AllowanceInv, AlType
<1>7. c \in Used' \/ c \notin Used \/ c \in alExcused'
  BY <1>2, <1>4, <1>6 DEF Used, GivenBack
<1>8. ~GivenBack(alApp[c])  BY <1>4 DEF GivenBack
<1> HIDE DEF x
<1> QED BY <1>2, <1>3, <1>4, <1>5, <1>7, <1>8, RowChanges

LEMMA AlMidnightInv ==
  ASSUME AllowanceInv, AlMidnight
  PROVE  AllowanceInv'
<1>1. /\ alDay' = alDay + 1 /\ alDay' \in 0..AlMaxDay /\ alDay \in 0..AlMaxDay
      /\ alSpent' = {} /\ alExcused' = {}
      /\ UNCHANGED <<alApp, alLease, alBudget, alCall, alFaults>>
  BY DEF AllowanceInv, AlType, AlMidnight
<1>2. \A c \in Job : alApp[c] \in AppRow /\ alApp[c].day <= alDay /\ alApp[c].day \in 0..AlMaxDay
  BY DEF AllowanceInv, AlType, NothingAhead, AppRow
<1>3. Used' = {}
  BY <1>1, <1>2 DEF Used
<1>4. \A r \in AlRequest : /\ alCall[r].began \in 0..AlMaxDay /\ alCall[r].began <= alDay
                           /\ alCall[r].day \in 0..AlMaxDay /\ alCall[r].day <= alDay
                           /\ alCall[r].row.day \in 0..AlMaxDay /\ alCall[r].row.day <= alDay
  BY DEF AllowanceInv, AlType, NothingAhead, AlCallType, AppRow
<1>5. AlType'  BY <1>1 DEF AllowanceInv, AlType
<1>6. NothingAhead'
  <2>1. \A c \in Job : alApp'[c].day <= alDay'  BY <1>1, <1>2
  <2>2. \A r \in AlRequest : /\ alCall'[r].began <= alDay' /\ alCall'[r].day <= alDay'
                             /\ alCall'[r].row.day <= alDay'
    BY <1>1, <1>4
  <2> QED BY <1>1, <2>1, <2>2 DEF AllowanceInv, NothingAhead, AlAt
<1>7. CallHasKind' /\ RetriesOne' /\ CountHoldsBudget' /\ PlanIsNew'
  BY <1>1 DEF AllowanceInv, CallHasKind, RetriesOne, CountHoldsBudget, PlanIsNew, AlAt
<1>8. SpentIsCounted'  BY <1>1 DEF SpentIsCounted
<1>9. RetryStaysCounted' /\ PlanFits'
  <2>1. \A r \in AlRequest : alCall'[r].row.day # alDay' /\ alCall'[r].day # alDay'
    BY <1>1, <1>4
  <2> QED BY <2>1 DEF RetryStaysCounted, PlanFits
<1>10. DayFits'
  BY <1>3, FS_EmptySet DEF DayFits, Counted
<1> QED BY <1>5, <1>6, <1>7, <1>8, <1>9, <1>10 DEF AllowanceInv

LEMMA AlLapseInv ==
  ASSUME AllowanceInv, AlLapse
  PROVE  AllowanceInv'
<1>1. /\ alLease' = AlNobody /\ alFaults' \in 0..AlMaxFaults
      /\ UNCHANGED <<alApp, alDay, alBudget, alCall, alSpent, alExcused>>
  BY DEF AllowanceInv, AlType, AlLapse
<1>2. Used' = Used /\ \A r \in AlRequest : ~Mine(r)'
  BY <1>1, UsedStays DEF Mine
<1> QED
  BY <1>1, <1>2
  DEF AllowanceInv, AlType, NothingAhead, CallHasKind, RetriesOne, SpentIsCounted, CountHoldsBudget,
      PlanIsNew, RetryStaysCounted, PlanFits, DayFits, Counted, AlAt

LEMMA AlDiesInv ==
  ASSUME AllowanceInv, NEW r \in AlRequest, AlDies(r)
  PROVE  AllowanceInv'
<1>1. /\ alCall' = [alCall EXCEPT ![r] = NoCall] /\ alLease' = alLease
      /\ alBudget' = IF alBudget = r THEN AlNobody ELSE alBudget
      /\ UNCHANGED <<alApp, alDay, alSpent, alExcused>>
  BY DEF AlDies
<1>2. /\ alFaults' \in 0..AlMaxFaults /\ alDay \in Nat
      /\ alLease' \in AlRequest \cup {AlNobody} /\ alBudget' \in AlRequest \cup {AlNobody}
  BY <1>1 DEF AllowanceInv, AlType, AlDies
<1>3. ToSet(NoCall.plan) \subseteq ToSet(NoCall.jobs) /\ NoCall \in AlCallType
  BY NoCallType
<1>4. CallFits(NoCall, alLease' = r, alBudget' = r)
  BY <1>2, <1>3, CallShape DEF CallFits
<1>5. \A q \in AlRequest \ {r} : (alLease' = q => alLease = q) /\ (alBudget = q => alBudget' = q)
  BY <1>1
<1> QED BY <1>1, <1>2, <1>3, <1>4, <1>5, CallMoves

LEMMA AllowanceInitInv == AllowanceInit => AllowanceInv
<1> SUFFICES ASSUME AllowanceInit  PROVE AllowanceInv
  OBVIOUS
<1>1. Used = {} /\ Counted = {}
  BY DEF AllowanceInit, Used, Counted
<1>2. [status |-> "none", day |-> 0, note |-> FALSE] \in AppRow
  BY DEF AppRow
<1>3. \A r \in AlRequest : alCall[r] = NoCall  BY DEF AllowanceInit
<1>4. AlType
  BY <1>2, <1>3, NoCallType DEF AllowanceInit, AlType
<1> QED
  BY <1>1, <1>3, <1>4, CallShape, FS_EmptySet
  DEF AllowanceInit, AllowanceInv, NothingAhead, CallHasKind, RetriesOne, SpentIsCounted,
      CountHoldsBudget, PlanIsNew, RetryStaysCounted, PlanFits, DayFits, AlAt

LEMMA AllowanceStep == AllowanceInv /\ [AllowanceNext]_alVars => AllowanceInv'
<1> SUFFICES ASSUME AllowanceInv, [AllowanceNext]_alVars  PROVE AllowanceInv'
  OBVIOUS
<1>1. CASE UNCHANGED alVars
  <2>1. Used' = Used /\ \A r \in AlRequest : Mine(r)' = Mine(r)
    BY <1>1, UsedStays DEF alVars, Mine
  <2> QED
    BY <1>1, <2>1
    DEF alVars, AllowanceInv, AlType, NothingAhead, CallHasKind, RetriesOne, SpentIsCounted,
        CountHoldsBudget, PlanIsNew, RetryStaysCounted, PlanFits, DayFits, Counted, AlAt
<1>2. CASE AllowanceNext
  BY <1>2, AlApproveInv, AlRetryInv, AlBeginInv, AlCountInv, AlCommitInv, AlDiesInv,
     AlCancelInv, AlAttemptInv, AlCloseInv, AlMidnightInv, AlLapseInv
  DEF AllowanceNext
<1> QED BY <1>1, <1>2

LEMMA AllowanceInvariant == AllowanceSpec => []AllowanceInv
BY AllowanceInitInv, AllowanceStep, PTL DEF AllowanceSpec

(***************************************************************************)
(* Theorems.                                                               *)
(***************************************************************************)

\* Batches, retries and cancels in any order, over several hunts, with the
\* approval lease lost or requests dying on the way, do not exceed the day's
\* allowance (application-queue.ts:165-187, applications/actions.ts:55-60):
\* the advisory lock makes counting and inserting one step for everybody who
\* counts, and the lease, looked at again before the commit, vouches for the
\* row a retry has read before.
THEOREM AllowanceIsKept == AllowanceSpec => []AllowanceHolds
<1>1. AllowanceInv => AllowanceHolds
  <2> SUFFICES ASSUME AllowanceInv  PROVE Cardinality(alSpent \ alExcused) <= Limit
    BY DEF AllowanceHolds
  <2>1. alSpent \ alExcused \in SUBSET Counted /\ Counted \in SUBSET Job
    BY DEF AllowanceInv, SpentIsCounted, Counted, Used
  <2>2. IsFiniteSet(Counted) /\ Cardinality(Counted) \in Nat /\ Cardinality(alSpent \ alExcused) \in Nat
    BY <2>1, UsedIsFinite
  <2>3. Cardinality(alSpent \ alExcused) <= Cardinality(Counted)
    BY <2>1, <2>2, FS_Subset
  <2> QED BY <2>2, <2>3 DEF AllowanceInv, DayFits
<1> QED BY <1>1, AllowanceInvariant, PTL

\* Rows, calls, lease and lock keep their types.
THEOREM AllowanceTypeIsKept == AllowanceSpec => []AllowanceTypeOK
<1>1. AllowanceInv => AllowanceTypeOK
  <2> SUFFICES ASSUME AllowanceInv  PROVE AllowanceTypeOK
    OBVIOUS
  <2>1. \A r \in AlRequest : ToSet(alCall[r].jobs) \subseteq Job
    <3> SUFFICES ASSUME NEW r \in AlRequest  PROVE ToSet(alCall[r].jobs) \subseteq Job
      OBVIOUS
    <3>1. alCall[r].jobs \in Seq(Job)  BY DEF AllowanceInv, AlType, AlCallType
    <3> QED BY <3>1, FewAreChosen
  <2> QED BY <2>1 DEF AllowanceInv, AlType, AllowanceTypeOK, AlCallType
<1> QED BY <1>1, AllowanceInvariant, PTL
=============================================================================
