---------------------------- MODULE Congestion ----------------------------
(***************************************************************************)
(* The congestion window of a Sender: the policies Reno, NewReno and Tahoe *)
(* (congestion_control/), the guards around them that decide what counts   *)
(* as a loss (loss_detection.go, congestion_adapter.go), classic ECN       *)
(* (ecn_sender.go), and the handlers that consult them.                    *)
(*                                                                         *)
(* The state is one record, snd; an operator takes a sender to a sender.   *)
(* What arrives is a choice: any acknowledgement of something sent, with   *)
(* or without ECE.  Durations are left out, so an armed event may fire at  *)
(* any time, except that no new data is sent while an ECN hold lasts.  The *)
(* receive window is as large as the stream, fast retransmit is on, SACK   *)
(* is off and the peer does not close first.                               *)
(***************************************************************************)
EXTENDS Integers, FiniteSets

CONSTANTS
  Modes,               \* of {"reno", "newReno", "tahoe"}, one per connection
  Payload,             \* bytes of the stream, at sequence numbers 1 .. Payload
  Mss,                 \* largest payload of a segment
  InitialWindow,       \* bytes, at least one segment
  InitialThreshold,    \* bytes, at least two segments
  MaximumWindow,       \* bytes, at least one segment
  MaxRetransmissions   \* MAX_RETRANSMISIONS, for SYN and for data

ASSUME CongestionAssumption ==
  /\ Modes \subseteq {"reno", "newReno", "tahoe"}
  /\ Payload \in Nat \ {0} /\ Mss \in Nat \ {0}
  /\ MaximumWindow \in Nat /\ MaximumWindow >= Mss
  /\ InitialWindow \in Mss .. MaximumWindow
  /\ InitialThreshold \in Nat /\ InitialThreshold >= 2 * Mss
  /\ MaxRetransmissions \in Nat \ {0}

VARIABLES
  mode, ecn,  \* chosen before the connection starts; ecn: the peer accepted it
  snd         \* the Sender, its policy in snd.policy

vars == <<mode, ecn, snd>>

Smaller(a, b) == IF a < b THEN a ELSE b
Larger(a, b) == IF a > b THEN a ELSE b

NewPolicy ==
  [cwnd |-> InitialWindow, ssthresh |-> InitialThreshold, startup |-> InitialWindow,
   avoidance |-> 0, active |-> FALSE, inflations |-> 0, recoveryWindow |-> 0,
   recoveryEnd |-> 1, partialACKSeen |-> FALSE]

Init ==
  /\ mode \in Modes /\ ecn \in BOOLEAN
  /\ snd = [policy |-> NewPolicy, established |-> FALSE, finSent |-> FALSE,
            terminated |-> FALSE, nextSend |-> 1, oldest |-> 0, retrySyn |-> 0,
            unsent |-> Payload, ends |-> {}, retries |-> 0, retried |-> {},
            duplicateACKs |-> 0, untilSeq |-> 0, timedOutEnd |-> 0,
            reductionEnd |-> 0, cwr |-> FALSE, beyondRun |-> FALSE,
            probing |-> TRUE, probeEnd |-> 1, recovering |-> FALSE, recoveryUntil |-> 0,
            armed |-> {"syn"},
            \* history: up to where the last reduction has been paid for,
            \* and the reductions acknowledgements have caused
            paidUntil |-> 0, reductions |-> 0]

-----------------------------------------------------------------------------
(* classicWindow.                                                          *)

SetWindow(w, bytes) == [w EXCEPT !.cwnd = Smaller(bytes, MaximumWindow)]

ClassicACK(w, newBytes, ece) ==
  LET avoidance == w.avoidance + newBytes
  IN  IF ece THEN w
      ELSE IF w.cwnd < w.ssthresh THEN SetWindow(w, w.cwnd + Smaller(newBytes, Mss))
      ELSE IF avoidance < w.cwnd THEN [w EXCEPT !.avoidance = avoidance]
      ELSE SetWindow([w EXCEPT !.avoidance = avoidance - w.cwnd], w.cwnd + Mss)

Halved(flight) == Larger(flight \div 2, 2 * Mss)

OnECN(w, flight) ==
  LET window == Smaller(Larger(w.cwnd \div 2, Mss), MaximumWindow)
  IN  [w EXCEPT !.ssthresh = Halved(flight), !.cwnd = window, !.avoidance = 0,
                !.recoveryWindow = IF w.active THEN window ELSE @]

RestartAfterLoss(w, flight, alreadyCounted) ==
  SetWindow([w EXCEPT !.ssthresh = IF alreadyCounted THEN @ ELSE Halved(flight),
                      !.avoidance = 0], Mss)

OnIdle(w) == SetWindow([w EXCEPT !.avoidance = 0], Smaller(w.cwnd, w.startup))

StopRecovery(w) ==
  [w EXCEPT !.active = FALSE, !.inflations = 0, !.partialACKSeen = FALSE]

OnHandshakeLoss(w) ==
  SetWindow([w EXCEPT !.startup = Mss, !.avoidance = 0], Mss)

-----------------------------------------------------------------------------
(* Reno and NewReno.                                                       *)

OnDuplicateACK(w) ==
  IF w.active /\ w.inflations > 0
  THEN SetWindow([w EXCEPT !.inflations = @ - 1], w.cwnd + Mss) ELSE w

(* A full acknowledgement of NewReno: remainingFlight limits the burst.    *)
Deflated(w, window) == SetWindow([StopRecovery(w) EXCEPT !.avoidance = 0], window)

PartialACK(w, newBytes) ==
  LET deflated == w.cwnd - Smaller(w.cwnd, newBytes)
      restored == Smaller(deflated + (IF newBytes >= Mss THEN Mss ELSE 0), MaximumWindow)
  IN  SetWindow([w EXCEPT !.partialACKSeen = TRUE], Larger(restored, Mss))

(* OnACK: the policy after an acknowledgement of new bytes, and whether it *)
(* asks for the next hole.                                                 *)
IsPartial(w, ack) == mode = "newReno" /\ w.active /\ ack < w.recoveryEnd

OnACK(w, ack, newBytes, flight, ece) ==
  IF ~w.active THEN ClassicACK(w, newBytes, ece)
  ELSE IF IsPartial(w, ack) THEN PartialACK(w, newBytes)
  ELSE IF mode = "newReno"
  THEN Deflated(w, Smaller(w.recoveryWindow, Larger(flight, Mss) + Mss))
  ELSE Deflated(w, w.recoveryWindow)

(* OnLoss for three duplicates, per policy.  NewReno refuses a loss of the *)
(* flight it has dealt with.                                               *)
Suppressed(w, ack, alreadyReduced) ==
  mode = "newReno" /\ (w.active \/ (~alreadyReduced /\ ack <= w.recoveryEnd))

EnterRecovery(w, flight, end, pending, alreadyReduced) ==
  LET window == IF alreadyReduced THEN w.cwnd ELSE Halved(flight)
  IN  SetWindow([w EXCEPT
        !.ssthresh = IF alreadyReduced THEN @ ELSE window,
        !.recoveryWindow = window, !.avoidance = 0, !.active = TRUE,
        !.inflations = Larger(pending - 3, 0), !.partialACKSeen = FALSE,
        !.recoveryEnd = IF mode = "newReno" THEN end ELSE @], window + 3 * Mss)

OnFastLoss(w, flight, end, pending, alreadyReduced) ==
  IF mode # "tahoe" THEN EnterRecovery(w, flight, end, pending, alreadyReduced)
  ELSE IF alreadyReduced THEN w
  ELSE RestartAfterLoss(w, flight, FALSE)

OnTimeoutLoss(w, flight, end, alreadyCounted) ==
  RestartAfterLoss([StopRecovery(w) EXCEPT
                     !.recoveryEnd = IF mode = "newReno" THEN end ELSE @],
                   flight, alreadyCounted)

-----------------------------------------------------------------------------
(* The sender around the policy.                                           *)

Arm(s, event) == [s EXCEPT !.armed = @ \cup {event}]
Cancel(s, event) == [s EXCEPT !.armed = @ \ {event}]

(* The segments that wait for confirmation are known by their ends.        *)
HasPending(s) == s.ends # {}
Flight(s) == IF ~s.established \/ s.finSent \/ s.terminated THEN 0 ELSE s.nextSend - s.oldest
OldestEnd(s) == CHOOSE e \in s.ends : \A f \in s.ends : e <= f

NextPayloadSize(s) ==
  Smaller(Smaller(s.unsent, Mss), Larger(s.policy.cwnd - Flight(s), 0))

ShutDown(s) ==
  [s EXCEPT !.terminated = TRUE, !.armed = {}, !.ends = {}, !.retried = {},
            !.retries = 0, !.probing = FALSE, !.recovering = FALSE, !.policy = StopRecovery(@), !.duplicateACKs = 0, !.untilSeq = 0]

(* finishStream ends in startFINWhenDrained, with clearLossTracking.       *)
StartFIN(s) ==
  [s EXCEPT !.finSent = TRUE, !.nextSend = @ + 1, !.armed = {},
            !.policy = StopRecovery(@), !.duplicateACKs = 0, !.untilSeq = 0]

QueueSegment(s) ==
  IF s.terminated \/ s.finSent \/ ~s.established THEN s
  ELSE IF s.oldest = Payload + 1 THEN StartFIN(s)
  ELSE IF s.beyondRun \/ NextPayloadSize(s) = 0 THEN s
  ELSE Arm(s, "send")

(* recordReduction and, as history, what it has paid for.                  *)
Reduced(s) ==
  [s EXCEPT !.reductionEnd = IF ecn THEN s.nextSend ELSE @, !.cwr = @ \/ ecn,
            !.paidUntil = s.nextSend]

InvalidateRTTProbe(s) ==
  [s EXCEPT !.probing = FALSE, !.recovering = TRUE, !.recoveryUntil = s.nextSend]

AnyACKEndsRecovery(s, ack) ==
  IF s.recovering THEN [s EXCEPT !.recovering = FALSE]
  ELSE [s EXCEPT !.probing = @ /\ ack < s.probeEnd]

(* Nothing is measured before everything up to the last retry is confirmed.*)
ObserveRTTACK(s, ack) ==
  IF s.recovering THEN [s EXCEPT !.recovering = ack < s.recoveryUntil]
  ELSE [s EXCEPT !.probing = @ /\ ack < s.probeEnd]

(* prepareDataRetry and the emission.                                      *)
RetransmitOldest(s) ==
  IF s.terminated \/ s.finSent \/ ~HasPending(s) THEN s
  ELSE IF s.retries >= MaxRetransmissions THEN ShutDown(s)
  ELSE InvalidateRTTProbe([s EXCEPT
         !.retries = @ + 1, !.retried = @ \cup (s.oldest .. OldestEnd(s) - 1)])

-----------------------------------------------------------------------------
(* What arrives.                                                           *)

(* holdNewDataForECN: at one segment the window cannot shrink, so new data *)
(* waits for a retransmission timeout, which may lie beyond the run.       *)
HoldNewData(s, beyond) ==
  [s EXCEPT !.beyondRun = beyond,
            !.armed = (@ \ {"send"}) \cup {"hold"} \cup (IF HasPending(s) THEN {"data"} ELSE {})]

ObserveECN(s, ack, ece, beyond) ==
  LET minimumWindow == s.policy.cwnd <= Mss
      concerned == HasPending(s) \/ (minimumWindow /\ s.unsent > 0)
      alreadyReduced == s.reductionEnd # 0 /\ ack <= s.reductionEnd
      held == IF minimumWindow THEN HoldNewData(s, beyond) ELSE s
  IN  IF ~ecn \/ ~ece \/ ~concerned THEN s
      ELSE IF alreadyReduced THEN held
      ELSE Reduced([held EXCEPT !.policy = OnECN(@, Flight(s)), !.reductions = @ + 1])

LossIgnoredByPolicy(s, alreadyReduced) ==
  s.duplicateACKs # 2 \/ Suppressed(s.policy, s.oldest, alreadyReduced)

(* Only the third duplicate signals a loss, and none before the flight of  *)
(* the last loss is confirmed.                                             *)
LossIgnored(s, alreadyReduced) ==
  \/ s.untilSeq # 0 \/ s.duplicateACKs # 2
  \/ Suppressed(s.policy, s.oldest, alreadyReduced)

(* duplicateACK and, for a loss, fastRetransmitOldest(TRUE).  A flight     *)
(* that was reduced for ECN is repaired, not reduced again.                *)
Repaired(s) ==
  LET r == RetransmitOldest(s) IN IF r.terminated THEN r ELSE Arm(r, "data")

DuplicateACK(s, ece) ==
  LET counted == [s EXCEPT !.duplicateACKs = Smaller(@ + 1, 3),
                           !.policy = IF ece /\ ecn THEN @ ELSE OnDuplicateACK(@)]
      alreadyReduced == ecn /\ s.oldest < s.reductionEnd
      entered == [counted EXCEPT
        !.untilSeq = s.nextSend,
        !.policy = OnFastLoss(@, Flight(s), s.nextSend, Cardinality(s.ends), alreadyReduced)]
  IN  IF LossIgnored(s, alreadyReduced) THEN counted
      ELSE IF alreadyReduced THEN Repaired(entered)
      ELSE Repaired(Reduced([entered EXCEPT !.reductions = @ + 1]))

Confirm(s, ack, ece) ==
  LET newBytes == ack - s.oldest
      heard == ObserveRTTACK(s, ack)
      confirmed == [heard EXCEPT
        !.oldest = ack, !.ends = {e \in @ : e > ack}, !.retried = {p \in @ : p >= ack},
        !.retries = 0, !.duplicateACKs = 0,
        !.timedOutEnd = IF ack >= @ THEN 0 ELSE @,
        !.untilSeq = IF ack >= @ THEN 0 ELSE @,
        !.policy = OnACK(@, ack, newBytes, s.nextSend - ack, ece /\ ecn)]
      timed == IF HasPending(confirmed) THEN Arm(confirmed, "data")
               ELSE Cancel(confirmed, "data")
  IN  QueueSegment(IF IsPartial(s.policy, ack) THEN RetransmitOldest(timed) ELSE timed)

(* HandlePacket for an acknowledgement of something sent.                  *)
HandlePacket(s, ack, ece, beyond) ==
  LET t == ObserveECN(s, ack, ece, beyond)
  IN  IF ack > s.oldest THEN Confirm(t, ack, ece)
      ELSE QueueSegment(IF HasPending(t) THEN DuplicateACK(t, ece) ELSE t)

Acknowledge ==
  /\ snd.established /\ ~snd.finSent /\ ~snd.terminated
  /\ \E ack \in snd.oldest .. snd.nextSend, ece, beyond \in BOOLEAN :
       snd' = HandlePacket(snd, ack, ece, beyond)
  /\ UNCHANGED <<mode, ecn>>

HandleSynAck ==
  /\ ~snd.finSent /\ ~snd.terminated
  /\ snd' = QueueSegment(
       IF snd.established THEN snd
       ELSE [ObserveRTTACK(snd, 1) EXCEPT !.established = TRUE, !.oldest = 1,
                                          !.retrySyn = 0, !.armed = {}])
  /\ UNCHANGED <<mode, ecn>>

-----------------------------------------------------------------------------
(* The engine's callbacks.                                                 *)

RetransmitSyn ==
  /\ "syn" \in snd.armed
  /\ snd' = IF snd.retrySyn >= MaxRetransmissions THEN ShutDown(snd)
            ELSE [InvalidateRTTProbe(snd) EXCEPT !.retrySyn = @ + 1,
                                                 !.policy = OnHandshakeLoss(@)]
  /\ UNCHANGED <<mode, ecn>>

(* The callback of sendEvent, which is never due before a hold ends.  An   *)
(* idle sender starts again from a small window.                           *)
Restarted(s) ==
  LET w == OnIdle(s.policy)
  IN  [s EXCEPT !.policy = w, !.cwr = @ \/ (ecn /\ w.cwnd < s.policy.cwnd)]

SendNew(s) ==
  LET size == NextPayloadSize(s)
      end == s.nextSend + size
      sent == [s EXCEPT !.nextSend = end, !.unsent = @ - size, !.ends = @ \cup {end},
                        !.cwr = FALSE, !.armed = @ \cup {"data"},
                        !.probing = @ \/ ~s.recovering,
                        !.probeEnd = IF s.probing \/ s.recovering THEN @ ELSE end]
  IN  IF size = 0 THEN s ELSE QueueSegment(sent)

SendSegment ==
  /\ "send" \in snd.armed /\ "hold" \notin snd.armed
  /\ LET s == Cancel(snd, "send")
     IN  \/ snd' = SendNew(s)
         \/ /\ snd.nextSend > 1
            /\ snd' = SendNew(Restarted(s))
  /\ UNCHANGED <<mode, ecn>>

(* retransmitData with onDataTimeout.  A repeated timeout of one segment   *)
(* halves the threshold once; a reduction for ECN counts as its first.     *)
DataTimeout(s) ==
  LET r == RetransmitOldest(s)
      retrying == s.retries # 0 \/ (ecn /\ s.oldest \in s.retried)
      alreadyCounted == \/ s.timedOutEnd # 0
                        \/ ~retrying /\ ecn /\ s.oldest < s.reductionEnd
  IN  IF r.terminated THEN r
      ELSE Reduced([r EXCEPT
             !.duplicateACKs = 0, !.untilSeq = s.nextSend,
             !.timedOutEnd = IF @ = 0 THEN OldestEnd(s) ELSE @,
             !.policy = OnTimeoutLoss(@, Flight(s), s.nextSend, alreadyCounted)])

RetransmitData ==
  /\ "data" \in snd.armed
  /\ snd' = DataTimeout(snd)
  /\ UNCHANGED <<mode, ecn>>

HoldEnds ==
  /\ "hold" \in snd.armed /\ ~snd.beyondRun
  /\ snd' = QueueSegment(Cancel(snd, "hold"))
  /\ UNCHANGED <<mode, ecn>>

Next ==
  \/ RetransmitSyn \/ HandleSynAck \/ Acknowledge
  \/ SendSegment \/ RetransmitData \/ HoldEnds

Spec == Init /\ [][Next]_vars

-----------------------------------------------------------------------------
Positions == 0 .. Payload + 1
Retries == 0 .. MaxRetransmissions
Duplicates == 0 .. 3
Events == {"syn", "send", "data", "hold"}

(* The window is never below one segment, or a sender with nothing in      *)
(* flight would be silent for ever, and never above the ceiling.           *)
Policy ==
  [cwnd : Mss .. MaximumWindow, ssthresh : Nat, startup : Mss .. MaximumWindow,
   avoidance : Nat, active : BOOLEAN, inflations : Nat, recoveryWindow : Nat,
   recoveryEnd : Positions, partialACKSeen : BOOLEAN]

Sender ==
  [policy : Policy, established : BOOLEAN, finSent : BOOLEAN, terminated : BOOLEAN,
   nextSend : 1 .. Payload + 2, oldest : Positions, retrySyn : Retries,
   unsent : 0 .. Payload, ends : SUBSET Positions, retries : Retries,
   retried : SUBSET Positions, duplicateACKs : Duplicates, untilSeq : Positions,
   timedOutEnd : Positions, reductionEnd : Positions, cwr : BOOLEAN,
   beyondRun : BOOLEAN, probing : BOOLEAN, probeEnd : Positions,
   recovering : BOOLEAN, recoveryUntil : Positions, armed : SUBSET Events,
   paidUntil : Positions, reductions : Nat]

TypeOK == mode \in Modes /\ ecn \in BOOLEAN /\ snd \in Sender

IsOpen(s) == s.established /\ ~s.finSent /\ ~s.terminated

(* A threshold below two segments or a recovery into a window below one    *)
(* would stall the sender (onLoss, OnECN).                                 *)
WindowIsUsable(s) ==
  /\ s.policy.ssthresh >= 2 * Mss
  /\ s.policy.active => s.policy.recoveryWindow >= Mss

(* Nothing has happened to the stream before the handshake.                *)
HandshakeComesFirst(s) ==
  ~s.established =>
    /\ s.oldest = 0 /\ s.nextSend = 1 /\ s.unsent = Payload
    /\ s.ends = {} /\ s.retried = {}
    /\ s.untilSeq = 0 /\ s.paidUntil = 0 /\ ~s.beyondRun

(* The stream is confirmed, in flight in segments, or unsent.              *)
StreamIsComplete(s) ==
  IsOpen(s) =>
    /\ s.oldest \in 1 .. s.nextSend /\ s.nextSend + s.unsent = Payload + 1
    /\ s.ends \subseteq s.oldest + 1 .. s.nextSend
    /\ s.oldest < s.nextSend => s.nextSend \in s.ends

(* Fast recovery (reno.go, newreno.go) and the guard against a second loss *)
(* of the same flight (lossDetection.untilSeq) are kept by two parties and *)
(* agree: a recovery lies within its guarded flight.                       *)
RecoveryIsGuarded(s) ==
  s.policy.active =>
    /\ IsOpen(s) /\ mode # "tahoe"
    /\ s.oldest < s.untilSeq
    /\ mode = "newReno" => s.policy.recoveryEnd = s.untilSeq

(* What the last reduction has paid for is known to whoever may ask for    *)
(* the next one: to the loss detection, and with ECN to both.              *)
ReductionsAreKnown(s) ==
  /\ ecn => s.reductionEnd = s.paidUntil
  /\ IsOpen(s) =>
       /\ s.untilSeq <= s.nextSend /\ s.paidUntil <= s.nextSend
       /\ ~ecn => s.paidUntil <= (IF s.untilSeq = 0 THEN s.oldest ELSE s.untilSeq)

(* Karn's rule: while a round trip is measured, nothing unconfirmed has    *)
(* been retransmitted (startRTTProbe, invalidateRTTProbe, observeRTTACK).  *)
MeasuresOnlyFresh(s) ==
  /\ s.probing => ~s.recovering
  /\ s.recoveryUntil <= s.nextSend
  /\ \A p \in s.retried : s.recovering /\ p < s.recoveryUntil

(* Unconfirmed data has a deadline, a hold that lasts has an event, and no *)
(* event is left behind by what it was for (cancelEvent).                  *)
DataIsTimed(s) ==
  /\ IsOpen(s) /\ HasPending(s) => "data" \in s.armed
  /\ IsOpen(s) /\ s.beyondRun => "hold" \in s.armed
  /\ "data" \in s.armed => HasPending(s)
  /\ "syn" \in s.armed => ~s.established
  /\ {"send", "hold"} \cap s.armed # {} => s.established
  /\ s.terminated \/ s.finSent => s.armed = {}

(* A confirmed stream is being closed.  Otherwise, with nothing in flight, *)
(* the next segment has an event that sends it or ends the hold before it  *)
(* (queueSegment, holdNewDataForECN).                                      *)
NobodyWaits(s) ==
  IsOpen(s) =>
    /\ s.oldest # Payload + 1
    /\ ~HasPending(s) => {"send", "hold"} \cap s.armed # {}

Sound(s) ==
  /\ WindowIsUsable(s) /\ HandshakeComesFirst(s) /\ StreamIsComplete(s)
  /\ RecoveryIsGuarded(s) /\ ReductionsAreKnown(s) /\ MeasuresOnlyFresh(s)
  /\ DataIsTimed(s)

(* Policy and sender, each with its own part of the state, stay consistent.*)
IInv == TypeOK /\ Sound(snd) /\ NobodyWaits(snd)

(* An acknowledgement, be it a duplicate or an ECE, reduces the window     *)
(* only if everything sent before the last reduction has been confirmed    *)
(* (duplicateACK, observeECNFeedback, recordReduction).                    *)
OneReductionPerFlight ==
  [][snd'.reductions # snd.reductions =>
       /\ snd'.reductions = snd.reductions + 1
       /\ snd'.oldest >= snd.paidUntil]_vars
=============================================================================
