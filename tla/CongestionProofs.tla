------------------------- MODULE CongestionProofs -------------------------
(***************************************************************************)
(* The congestion window stays usable, a window of data is reduced once,   *)
(* and no sender is left without an event, for every stream, segment size  *)
(* and window.                                                             *)
(*                                                                         *)
(* An operator of the model takes a sender to a sender.  Each has a lemma: *)
(* a well-formed, sound sender stays so.  A handler composes operators,    *)
(* and its proof composes their lemmas.                                    *)
(*                                                                         *)
(* The second part is about Sack: what the sender knows of the receiver    *)
(* and of the network is true, it repairs nothing in vain, and a recovery  *)
(* without further losses goes on by itself.                               *)
(***************************************************************************)
EXTENDS Congestion, Sack, FiniteSetTheorems, SequenceTheorems, WellFoundedInduction, TLAPS

USE CongestionAssumption

-----------------------------------------------------------------------------
(* The policies.                                                           *)

Usable(w) == w.ssthresh >= 2 * Mss /\ (w.active => w.recoveryWindow >= Mss)

(* setWindowBytes keeps any window of at least a segment.                  *)
LEMMA Ceiling ==
  ASSUME NEW bytes \in Nat, bytes >= Mss
  PROVE  Smaller(bytes, MaximumWindow) \in Mss .. MaximumWindow
BY DEF Smaller

(* The threshold after a reduction is at least two segments.               *)
LEMMA HalvedIsUsable ==
  ASSUME NEW flight \in Nat
  PROVE  Halved(flight) \in Nat /\ Halved(flight) >= 2 * Mss
BY DEF Halved, Larger

(* Recovery stops and nothing else changes.                                *)
LEMMA RecoveryStops ==
  ASSUME NEW w \in Policy, Usable(w)
  PROVE  LET v == StopRecovery(w)
         IN  /\ v \in Policy /\ Usable(v) /\ ~v.active /\ v.recoveryEnd = w.recoveryEnd
             /\ v.cwnd = w.cwnd
BY DEF StopRecovery, Policy, Usable

(* A halving for ECN, inside a recovery or outside.                        *)
LEMMA ECNIsUsable ==
  ASSUME NEW w \in Policy, Usable(w), NEW flight \in Nat
  PROVE  LET v == OnECN(w, flight)
         IN  v \in Policy /\ Usable(v) /\ v.active = w.active /\ v.recoveryEnd = w.recoveryEnd
<1> DEFINE window == Smaller(Larger(w.cwnd \div 2, Mss), MaximumWindow)
           kept == IF w.active THEN window ELSE w.recoveryWindow
<1>1. window \in Mss .. MaximumWindow
  BY DEF Smaller, Larger, Policy
<1>2. Halved(flight) \in Nat /\ Halved(flight) >= 2 * Mss
  BY HalvedIsUsable
<1>3. kept \in Nat /\ (w.active => kept >= Mss)
  BY <1>1 DEF Policy
<1>4. OnECN(w, flight) =
        [w EXCEPT !.ssthresh = Halved(flight), !.cwnd = window, !.avoidance = 0,
                  !.recoveryWindow = kept]
  BY DEF OnECN
<1> DEFINE threshold == Halved(flight)
           v == [w EXCEPT !.ssthresh = threshold, !.cwnd = window, !.avoidance = 0,
                          !.recoveryWindow = kept]
<1> HIDE DEF window, kept, threshold
<1>5. v \in Policy
  BY <1>1, <1>2, <1>3 DEF Policy, threshold
<1>6. Usable(v) /\ v.active = w.active /\ v.recoveryEnd = w.recoveryEnd
  BY <1>1, <1>2, <1>3 DEF Policy, Usable, threshold
<1> QED BY <1>4, <1>5, <1>6 DEF threshold

(* A restart with one segment, for a loss or after the handshake.          *)
LEMMA RestartIsUsable ==
  ASSUME NEW w \in Policy, Usable(w), NEW flight \in Nat, NEW counted \in BOOLEAN
  PROVE  LET v == RestartAfterLoss(w, flight, counted)
         IN  v \in Policy /\ Usable(v) /\ v.active = w.active /\ v.recoveryEnd = w.recoveryEnd
<1> DEFINE window == Smaller(Mss, MaximumWindow)
           threshold == IF counted THEN w.ssthresh ELSE Halved(flight)
<1>1. window \in Mss .. MaximumWindow
  BY Ceiling
<1>2. threshold \in Nat /\ threshold >= 2 * Mss
  BY HalvedIsUsable DEF Policy, Usable
<1>3. RestartAfterLoss(w, flight, counted) =
        [w EXCEPT !.ssthresh = threshold, !.avoidance = 0, !.cwnd = window]
  BY DEF RestartAfterLoss, SetWindow, Policy
<1> DEFINE v == [w EXCEPT !.ssthresh = threshold, !.avoidance = 0, !.cwnd = window]
<1> HIDE DEF window, threshold
<1>4. v \in Policy
  BY <1>1, <1>2 DEF Policy
<1>5. Usable(v) /\ v.active = w.active /\ v.recoveryEnd = w.recoveryEnd
  BY <1>2 DEF Policy, Usable
<1> QED BY <1>3, <1>4, <1>5

(* The window after the loss of a SYN.                                     *)
LEMMA HandshakeLossIsUsable ==
  ASSUME NEW w \in Policy, Usable(w)
  PROVE  LET v == OnHandshakeLoss(w) IN v \in Policy /\ Usable(v) /\ v.active = w.active
<1> DEFINE window == Smaller(Mss, MaximumWindow)
<1>1. window \in Mss .. MaximumWindow /\ Mss \in Mss .. MaximumWindow
  BY Ceiling
<1> DEFINE v == [w EXCEPT !.startup = Mss, !.avoidance = 0, !.cwnd = window]
<1>2. OnHandshakeLoss(w) = v
  BY DEF OnHandshakeLoss, SetWindow, Policy
<1> HIDE DEF window
<1>3. v \in Policy
  BY <1>1 DEF Policy
<1>4. Usable(v) /\ v.active = w.active
  BY DEF Policy, Usable
<1> QED BY <1>2, <1>3, <1>4

(* After an idle time.                                                     *)
LEMMA IdleIsUsable ==
  ASSUME NEW w \in Policy, Usable(w)
  PROVE  LET v == OnIdle(w)
         IN  v \in Policy /\ Usable(v) /\ v.active = w.active /\ v.recoveryEnd = w.recoveryEnd
<1> DEFINE window == Smaller(Smaller(w.cwnd, w.startup), MaximumWindow)
<1>1. window \in Mss .. MaximumWindow
  BY DEF Smaller, Policy
<1> DEFINE v == [w EXCEPT !.avoidance = 0, !.cwnd = window]
<1>2. OnIdle(w) = v
  BY DEF OnIdle, SetWindow, Policy
<1> HIDE DEF window
<1>3. v \in Policy
  BY <1>1 DEF Policy
<1>4. Usable(v) /\ v.active = w.active /\ v.recoveryEnd = w.recoveryEnd
  BY DEF Policy, Usable
<1> QED BY <1>2, <1>3, <1>4

(* Inflation by a duplicate.                                               *)
LEMMA DuplicateIsUsable ==
  ASSUME NEW w \in Policy, Usable(w)
  PROVE  LET v == OnDuplicateACK(w)
         IN  v \in Policy /\ Usable(v) /\ v.active = w.active /\ v.recoveryEnd = w.recoveryEnd
<1> DEFINE window == Smaller(w.cwnd + Mss, MaximumWindow)
<1>1. CASE w.active /\ w.inflations > 0
  <2>1. window \in Mss .. MaximumWindow /\ w.inflations - 1 \in Nat
    BY <1>1 DEF Smaller, Policy
  <2>2. OnDuplicateACK(w) = [w EXCEPT !.inflations = w.inflations - 1, !.cwnd = window]
    BY <1>1 DEF OnDuplicateACK, SetWindow, Policy
  <2> HIDE DEF window
  <2> QED BY <2>1, <2>2 DEF Policy, Usable
<1>2. CASE ~(w.active /\ w.inflations > 0)
  BY <1>2 DEF OnDuplicateACK
<1> QED BY <1>1, <1>2

(* The growth of slow start and of congestion avoidance.                   *)
LEMMA GrowthIsUsable ==
  ASSUME NEW w \in Policy, Usable(w), NEW newBytes \in Nat, NEW ece \in BOOLEAN
  PROVE  LET v == ClassicACK(w, newBytes, ece)
         IN  v \in Policy /\ Usable(v) /\ v.active = w.active /\ v.recoveryEnd = w.recoveryEnd
<1> DEFINE slow == Smaller(w.cwnd + Smaller(newBytes, Mss), MaximumWindow)
           fast == Smaller(w.cwnd + Mss, MaximumWindow)
           avoidance == w.avoidance + newBytes
<1>1. slow \in Mss .. MaximumWindow /\ fast \in Mss .. MaximumWindow
  BY DEF Smaller, Policy
<1>2. avoidance \in Nat /\ (~(avoidance < w.cwnd) => avoidance - w.cwnd \in Nat)
  BY DEF Policy
<1>3. ClassicACK(w, newBytes, ece) =
        IF ece THEN w
        ELSE IF w.cwnd < w.ssthresh THEN [w EXCEPT !.cwnd = slow]
        ELSE IF avoidance < w.cwnd THEN [w EXCEPT !.avoidance = avoidance]
        ELSE [w EXCEPT !.avoidance = avoidance - w.cwnd, !.cwnd = fast]
  BY DEF ClassicACK, SetWindow, Policy
<1> HIDE DEF slow, fast, avoidance
<1> QED BY <1>1, <1>2, <1>3 DEF Policy, Usable

(* The end of a recovery, and NewReno's deflation within one.              *)
LEMMA DeflationIsUsable ==
  ASSUME NEW w \in Policy, Usable(w), NEW bytes \in Nat, bytes >= Mss
  PROVE  LET v == Deflated(w, bytes)
         IN  v \in Policy /\ Usable(v) /\ ~v.active /\ v.recoveryEnd = w.recoveryEnd
<1> DEFINE window == Smaller(bytes, MaximumWindow)
<1>1. window \in Mss .. MaximumWindow
  BY Ceiling
<1> DEFINE v == [w EXCEPT !.active = FALSE, !.inflations = 0, !.partialACKSeen = FALSE,
                          !.avoidance = 0, !.cwnd = window]
<1>2. Deflated(w, bytes) = v
  BY DEF Deflated, SetWindow, StopRecovery, Policy
<1> HIDE DEF window
<1>3. v \in Policy
  BY <1>1 DEF Policy
<1>4. Usable(v) /\ ~v.active /\ v.recoveryEnd = w.recoveryEnd
  BY DEF Policy, Usable
<1> QED BY <1>2, <1>3, <1>4

(* A partial acknowledgement deflates a window and keeps it usable.        *)
LEMMA PartialIsUsable ==
  ASSUME NEW w \in Policy, Usable(w), NEW newBytes \in Nat
  PROVE  LET v == PartialACK(w, newBytes)
         IN  v \in Policy /\ Usable(v) /\ v.active = w.active /\ v.recoveryEnd = w.recoveryEnd
<1> DEFINE deflated == w.cwnd - Smaller(w.cwnd, newBytes)
           restored == Smaller(deflated + (IF newBytes >= Mss THEN Mss ELSE 0), MaximumWindow)
           window == Smaller(Larger(restored, Mss), MaximumWindow)
<1>1. deflated \in Nat
  BY DEF Smaller, Policy
<1>2. restored \in Nat
  BY <1>1 DEF Smaller
<1>3. window \in Mss .. MaximumWindow
  BY <1>2 DEF Smaller, Larger
<1>4. PartialACK(w, newBytes) = [w EXCEPT !.partialACKSeen = TRUE, !.cwnd = window]
  BY DEF PartialACK, SetWindow, Policy
<1> HIDE DEF deflated, restored, window
<1> QED BY <1>3, <1>4 DEF Policy, Usable

(* An advancing acknowledgement keeps a recovery only as a partial one.    *)
LEMMA ACKIsUsable ==
  ASSUME NEW w \in Policy, Usable(w), NEW ack \in Nat,
         NEW newBytes \in Nat, NEW flight \in Nat, NEW ece \in BOOLEAN
  PROVE  LET v == OnACK(w, ack, newBytes, flight, ece)
         IN  /\ v \in Policy /\ Usable(v) /\ v.recoveryEnd = w.recoveryEnd
             /\ v.active => w.active /\ IsPartial(w, ack)
<1> DEFINE burst == Smaller(w.recoveryWindow, Larger(flight, Mss) + Mss)
<1>1. CASE ~w.active
  BY <1>1, GrowthIsUsable DEF OnACK
<1>2. CASE w.active /\ IsPartial(w, ack)
  BY <1>2, PartialIsUsable DEF OnACK
<1>3. CASE w.active /\ ~IsPartial(w, ack)
  <2>1. /\ w.recoveryWindow \in Nat /\ w.recoveryWindow >= Mss
        /\ burst \in Nat /\ burst >= Mss
    BY <1>3 DEF Smaller, Larger, Policy, Usable
  <2>2. OnACK(w, ack, newBytes, flight, ece) =
          IF mode = "newReno" THEN Deflated(w, burst) ELSE Deflated(w, w.recoveryWindow)
    BY <1>3 DEF OnACK
  <2> HIDE DEF burst
  <2> QED BY <2>1, <2>2, DeflationIsUsable
<1> QED BY <1>1, <1>2, <1>3

(* A fast loss enters recovery, but for Tahoe.                             *)
LEMMA FastLossIsUsable ==
  ASSUME NEW w \in Policy, Usable(w), NEW flight \in Nat,
         NEW end \in Positions, NEW pending \in Nat, NEW reduced \in BOOLEAN,
         mode = "tahoe" => ~w.active
  PROVE  LET v == OnFastLoss(w, flight, end, pending, reduced)
         IN  /\ v \in Policy /\ Usable(v) /\ v.active = (mode # "tahoe")
             /\ mode = "newReno" => v.recoveryEnd = end
<1> DEFINE window == IF reduced THEN w.cwnd ELSE Halved(flight)
           threshold == IF reduced THEN w.ssthresh ELSE window
           inflations == Larger(pending - 3, 0)
           newEnd == IF mode = "newReno" THEN end ELSE w.recoveryEnd
           inflated == Smaller(window + 3 * Mss, MaximumWindow)
<1>0. Halved(flight) \in Nat /\ Halved(flight) >= 2 * Mss
  BY HalvedIsUsable
<1>1. CASE mode # "tahoe"
  <2>1. window \in Nat /\ window >= Mss
    BY <1>0 DEF Policy
  <2>2. threshold \in Nat /\ threshold >= 2 * Mss
    BY <1>0 DEF Policy, Usable
  <2>3. inflations \in Nat /\ newEnd \in Positions
    BY DEF Larger, Policy
  <2>4. inflated \in Mss .. MaximumWindow
    BY <2>1, Ceiling
  <2>5. OnFastLoss(w, flight, end, pending, reduced) =
          [w EXCEPT !.ssthresh = threshold, !.recoveryWindow = window, !.avoidance = 0,
                    !.active = TRUE, !.inflations = inflations, !.partialACKSeen = FALSE,
                    !.recoveryEnd = newEnd, !.cwnd = inflated]
    BY <1>1 DEF OnFastLoss, EnterRecovery, SetWindow, Policy
  <2>6. mode = "newReno" => newEnd = end
    OBVIOUS
  <2> DEFINE v == [w EXCEPT
          !.ssthresh = threshold, !.recoveryWindow = window, !.avoidance = 0,
          !.active = TRUE, !.inflations = inflations, !.partialACKSeen = FALSE,
          !.recoveryEnd = newEnd, !.cwnd = inflated]
  <2> HIDE DEF window, threshold, inflations, newEnd, inflated
  <2>7. v \in Policy
    BY <2>1, <2>2, <2>3, <2>4 DEF Policy
  <2>8. Usable(v) /\ v.active = TRUE /\ v.recoveryEnd = newEnd
    BY <2>1, <2>2 DEF Policy, Usable
  <2> QED BY <1>1, <2>5, <2>6, <2>7, <2>8
<1>2. CASE mode = "tahoe"
  <2>1. OnFastLoss(w, flight, end, pending, reduced) =
          IF reduced THEN w ELSE RestartAfterLoss(w, flight, FALSE)
    BY <1>2 DEF OnFastLoss
  <2>2. LET v == RestartAfterLoss(w, flight, FALSE)
        IN  v \in Policy /\ Usable(v) /\ v.active = w.active
    BY RestartIsUsable
  <2>3. w.active = FALSE
    BY <1>2 DEF Policy
  <2> HIDE DEF window, threshold, inflations, newEnd, inflated
  <2> QED BY <1>2, <2>1, <2>2, <2>3
<1> QED BY <1>1, <1>2

(* A retransmission timeout ends every recovery.                           *)
LEMMA TimeoutIsUsable ==
  ASSUME NEW w \in Policy, Usable(w), NEW flight \in Nat, NEW end \in Positions,
         NEW counted \in BOOLEAN
  PROVE  LET v == OnTimeoutLoss(w, flight, end, counted)
         IN  v \in Policy /\ Usable(v) /\ ~v.active
<1> DEFINE newEnd == IF mode = "newReno" THEN end ELSE StopRecovery(w).recoveryEnd
           u == [StopRecovery(w) EXCEPT !.recoveryEnd = newEnd]
<1>1. StopRecovery(w) \in Policy /\ Usable(StopRecovery(w)) /\ ~StopRecovery(w).active
  BY RecoveryStops
<1>2. newEnd \in Positions
  BY <1>1 DEF Policy
<1> HIDE DEF newEnd
<1>3. u \in Policy /\ Usable(u) /\ ~u.active
  BY <1>1, <1>2 DEF Policy, Usable
<1>4. OnTimeoutLoss(w, flight, end, counted) = RestartAfterLoss(u, flight, counted)
  BY DEF OnTimeoutLoss, newEnd
<1> HIDE DEF u
<1> QED BY <1>3, <1>4, RestartIsUsable

-----------------------------------------------------------------------------
(* The sender.                                                             *)

(* Among the pending segments one is the oldest.                           *)
LEMMA OldestIsPending ==
  ASSUME NEW s \in Sender, HasPending(s)
  PROVE  OldestEnd(s) \in s.ends
<1>1. s.ends \in SUBSET Nat /\ s.ends # {}
  BY DEF Sender, HasPending, Positions
<1>2. PICK e \in s.ends : \A f \in s.ends : ~ (<<f, e>> \in OpToRel(<, Nat))
  BY <1>1, NatLessThanWellFounded, WFMin
<1>3. \A f \in s.ends : ~(f < e)
  BY <1>1, <1>2 DEF OpToRel
<1>4. \A f \in s.ends : e <= f
  BY <1>1, <1>3
<1> QED BY <1>4 DEF OldestEnd

(* The fields the parts of Sound speak of.                                 *)
SameStream(t, s) ==
  /\ t.established = s.established /\ t.finSent = s.finSent /\ t.terminated = s.terminated
  /\ t.nextSend = s.nextSend /\ t.oldest = s.oldest /\ t.unsent = s.unsent
  /\ t.ends = s.ends

SameGuards(t, s) ==
  /\ t.untilSeq = s.untilSeq /\ t.reductionEnd = s.reductionEnd /\ t.paidUntil = s.paidUntil

SameProbe(t, s) ==
  /\ t.retried = s.retried /\ t.probing = s.probing
  /\ t.recovering = s.recovering /\ t.recoveryUntil = s.recoveryUntil

SameEvents(t, s) == t.armed = s.armed /\ t.beyondRun = s.beyondRun

(* The values a stream starts with.                                        *)
LEMMA SmallTypes ==
  /\ 0 \in Positions /\ 0 \in Retries /\ 0 \in Duplicates
  /\ {} \in SUBSET Positions /\ {} \in SUBSET Events
BY DEF Positions, Retries, Duplicates

(* The policy of a sound sender.                                           *)
LEMMA PolicyIsUsable ==
  ASSUME NEW s \in Sender, Sound(s)
  PROVE  s.policy \in Policy /\ Usable(s.policy)
BY DEF Sender, Sound, WindowIsUsable, Usable

(* Giving up.                                                              *)
LEMMA ShutDownIsSound ==
  ASSUME NEW s \in Sender, Sound(s)
  PROVE  /\ ShutDown(s) \in Sender /\ Sound(ShutDown(s)) /\ ShutDown(s).terminated
         /\ ShutDown(s).reductions = s.reductions /\ ShutDown(s).oldest = s.oldest
<1> DEFINE w == StopRecovery(s.policy)
           t == [s EXCEPT
             !.terminated = TRUE, !.armed = {}, !.ends = {}, !.retried = {}, !.retries = 0,
             !.probing = FALSE, !.recovering = FALSE, !.policy = w, !.duplicateACKs = 0,
             !.untilSeq = 0]
<1>1. w \in Policy /\ Usable(w) /\ ~w.active
  BY PolicyIsUsable, RecoveryStops
<1>2. ShutDown(s) = t
  BY DEF ShutDown, Sender
<1> HIDE DEF w
<1>3. t \in Sender
  BY <1>1, SmallTypes DEF Sender
<1>4. /\ t.established = s.established /\ t.oldest = s.oldest
      /\ t.nextSend = s.nextSend /\ t.unsent = s.unsent /\ t.beyondRun = s.beyondRun
      /\ t.reductionEnd = s.reductionEnd /\ t.paidUntil = s.paidUntil
      /\ t.recoveryUntil = s.recoveryUntil /\ t.reductions = s.reductions
      /\ t.terminated /\ t.armed = {} /\ t.ends = {} /\ t.retried = {}
      /\ ~t.probing /\ ~t.recovering /\ t.policy = w /\ t.untilSeq = 0
  BY DEF Sender
<1> HIDE DEF t
<1>5. Sound(t)
  BY <1>1, <1>4 DEF Sound, WindowIsUsable, Usable, HandshakeComesFirst, StreamIsComplete,
     RecoveryIsGuarded, ReductionsAreKnown, MeasuresOnlyFresh, DataIsTimed, IsOpen
<1> QED BY <1>2, <1>3, <1>4, <1>5

(* The end of the stream.                                                  *)
LEMMA StartFINIsSound ==
  ASSUME NEW s \in Sender, Sound(s), IsOpen(s)
  PROVE  /\ StartFIN(s) \in Sender /\ Sound(StartFIN(s)) /\ ~IsOpen(StartFIN(s))
         /\ StartFIN(s).reductions = s.reductions /\ StartFIN(s).oldest = s.oldest
<1> DEFINE w == StopRecovery(s.policy)
           next == s.nextSend + 1
           t == [s EXCEPT
             !.finSent = TRUE, !.nextSend = next, !.armed = {}, !.policy = w,
             !.duplicateACKs = 0, !.untilSeq = 0]
<1>1. w \in Policy /\ Usable(w) /\ ~w.active
  BY PolicyIsUsable, RecoveryStops
<1>2. StartFIN(s) = t
  BY DEF StartFIN, Sender
<1>3. next \in 1 .. Payload + 2 /\ s.nextSend <= next
  BY DEF Sound, StreamIsComplete, Sender
<1> HIDE DEF w, next
<1>4. t \in Sender
  BY <1>1, <1>3, SmallTypes DEF Sender
<1>5. /\ t.established = s.established /\ t.oldest = s.oldest
      /\ t.reductionEnd = s.reductionEnd /\ t.paidUntil = s.paidUntil
      /\ SameProbe(t, s) /\ t.reductions = s.reductions
      /\ t.finSent /\ t.nextSend = next /\ t.armed = {} /\ t.policy = w
  BY DEF Sender, SameProbe
<1> HIDE DEF t
<1>6. MeasuresOnlyFresh(t)
  BY <1>3, <1>5 DEF Sound, MeasuresOnlyFresh, SameProbe, Sender, Positions
<1>7. Sound(t)
  BY <1>1, <1>5, <1>6 DEF Sound, WindowIsUsable, Usable, HandshakeComesFirst,
     StreamIsComplete, RecoveryIsGuarded, ReductionsAreKnown, DataIsTimed, IsOpen
<1> QED BY <1>2, <1>4, <1>5, <1>7 DEF IsOpen

(* An event that may be armed.                                             *)
LEMMA ArmIsSound ==
  ASSUME NEW s \in Sender, Sound(s), IsOpen(s), NEW e \in {"send", "data"},
         e = "data" => HasPending(s)
  PROVE  /\ Arm(s, e) \in Sender /\ Sound(Arm(s, e)) /\ IsOpen(Arm(s, e))
         /\ e \in Arm(s, e).armed
         /\ SameStream(Arm(s, e), s) /\ SameGuards(Arm(s, e), s)
         /\ Arm(s, e).reductions = s.reductions
<1> DEFINE t == [s EXCEPT !.armed = @ \cup {e}]
<1>1. t \in Sender
  BY DEF Sender, Events
<1>2. /\ SameStream(t, s) /\ SameGuards(t, s) /\ SameProbe(t, s)
      /\ t.beyondRun = s.beyondRun /\ t.policy = s.policy /\ t.reductions = s.reductions
      /\ t.armed = s.armed \cup {e}
  BY DEF Sender, SameStream, SameGuards, SameProbe
<1> HIDE DEF t
<1>3. /\ WindowIsUsable(t) /\ HandshakeComesFirst(t) /\ StreamIsComplete(t)
      /\ RecoveryIsGuarded(t) /\ ReductionsAreKnown(t) /\ MeasuresOnlyFresh(t)
      /\ IsOpen(t)
  BY <1>2 DEF Sound, WindowIsUsable, HandshakeComesFirst, StreamIsComplete,
     RecoveryIsGuarded, ReductionsAreKnown, MeasuresOnlyFresh, IsOpen, SameStream,
     SameGuards, SameProbe
<1>4. DataIsTimed(t)
  BY <1>2 DEF Sound, DataIsTimed, IsOpen, SameStream, HasPending
<1> QED BY <1>1, <1>2, <1>3, <1>4 DEF Arm, t, Sound

(* Only data in flight can close the window: a usable window has room for  *)
(* what is unsent when nothing is unconfirmed.                             *)
LEMMA SilenceIsForData ==
  ASSUME NEW s \in Sender, Sound(s), IsOpen(s), s.oldest # Payload + 1,
         NextPayloadSize(s) = 0
  PROVE  HasPending(s)
<1> SUFFICES ASSUME ~HasPending(s) PROVE FALSE
  OBVIOUS
<1>1. s.oldest = s.nextSend /\ s.unsent > 0 /\ s.unsent \in Nat
  BY DEF Sound, StreamIsComplete, HasPending, Sender, Positions
<1>2. Flight(s) = 0
  BY <1>1 DEF Flight, IsOpen, Sender
<1>3. s.policy.cwnd \in Nat /\ s.policy.cwnd >= Mss
  BY DEF Sender, Policy
<1> QED BY <1>1, <1>2, <1>3 DEF NextPayloadSize, Smaller, Larger

(* What may be sent is scheduled, what is confirmed is closed.             *)
LEMMA QueueSegmentIsSound ==
  ASSUME NEW s \in Sender, Sound(s)
  PROVE  LET t == QueueSegment(s)
         IN  /\ t \in Sender /\ Sound(t) /\ NobodyWaits(t)
             /\ t.reductions = s.reductions /\ t.oldest = s.oldest
<1>1. CASE ~IsOpen(s)
  BY <1>1 DEF QueueSegment, IsOpen, NobodyWaits
<1>2. CASE IsOpen(s) /\ s.oldest = Payload + 1
  BY <1>2, StartFINIsSound DEF QueueSegment, IsOpen, NobodyWaits
<1>3. CASE IsOpen(s) /\ s.oldest # Payload + 1
  <2>1. CASE s.beyondRun \/ NextPayloadSize(s) = 0
    <3>1. QueueSegment(s) = s
      BY <1>3, <2>1 DEF QueueSegment, IsOpen
    <3>2. NextPayloadSize(s) = 0 => HasPending(s)
      BY <1>3, SilenceIsForData
    <3>3. NobodyWaits(s)
      BY <1>3, <2>1, <3>2 DEF NobodyWaits, Sound, DataIsTimed
    <3> QED BY <3>1, <3>3
  <2>2. CASE ~(s.beyondRun \/ NextPayloadSize(s) = 0)
    <3>1. QueueSegment(s) = Arm(s, "send")
      BY <1>3, <2>2 DEF QueueSegment, IsOpen
    <3> QED BY <1>3, <3>1, ArmIsSound DEF NobodyWaits, SameStream
  <2> QED BY <2>1, <2>2
<1> QED BY <1>1, <1>2, <1>3

(* A retry, or the end after too many.                                     *)
LEMMA RetransmitOldestIsSound ==
  ASSUME NEW s \in Sender, Sound(s), IsOpen(s)
  PROVE  LET r == RetransmitOldest(s)
         IN  /\ r \in Sender /\ Sound(r) /\ r.reductions = s.reductions /\ r.oldest = s.oldest
             /\ ~r.terminated =>
                  SameStream(r, s) /\ SameGuards(r, s) /\ SameEvents(r, s)
                  /\ r.policy = s.policy
<1>1. CASE ~HasPending(s)
  BY <1>1 DEF RetransmitOldest, SameStream, SameGuards, SameEvents
<1>2. CASE HasPending(s) /\ s.retries >= MaxRetransmissions
  BY <1>2, ShutDownIsSound DEF RetransmitOldest, IsOpen
<1>3. CASE HasPending(s) /\ ~(s.retries >= MaxRetransmissions)
  <2> DEFINE retries == s.retries + 1
             retried == s.retried \cup (s.oldest .. OldestEnd(s) - 1)
             t == [s EXCEPT !.retries = retries, !.retried = retried, !.probing = FALSE,
                            !.recovering = TRUE, !.recoveryUntil = s.nextSend]
  <2>1. /\ s.nextSend \in Positions /\ s.recoveryUntil <= s.nextSend
        /\ \A p \in s.retried : p < s.recoveryUntil
        /\ s.recoveryUntil \in Positions /\ s.retried \subseteq Positions
    BY DEF Sound, StreamIsComplete, MeasuresOnlyFresh, Sender, Positions
  <2>2. OldestEnd(s) \in s.ends /\ OldestEnd(s) \in Positions /\ OldestEnd(s) <= s.nextSend
    BY <1>3, OldestIsPending DEF Sound, StreamIsComplete, Sender, Positions
  <2>3. retries \in Retries
    BY <1>3 DEF Sender, Retries
  <2>4. \A p \in retried : p \in Positions /\ p < s.nextSend
    BY <2>1, <2>2 DEF Sender, Positions
  <2>5. RetransmitOldest(s) = t
    BY <1>3 DEF RetransmitOldest, IsOpen, InvalidateRTTProbe, Sender
  <2> HIDE DEF retries, retried
  <2>6. t \in Sender
    BY <2>1, <2>3, <2>4 DEF Sender
  <2>7. /\ SameStream(t, s) /\ SameGuards(t, s) /\ SameEvents(t, s) /\ t.policy = s.policy
        /\ t.reductions = s.reductions
        /\ t.retried = retried /\ ~t.probing /\ t.recovering /\ t.recoveryUntil = s.nextSend
    BY DEF Sender, SameStream, SameGuards, SameEvents
  <2> HIDE DEF t
  <2>8. MeasuresOnlyFresh(t)
    BY <2>4, <2>7 DEF MeasuresOnlyFresh, SameStream, Sender
  <2>9. Sound(t)
    BY <2>7, <2>8 DEF Sound, WindowIsUsable, HandshakeComesFirst, StreamIsComplete,
       RecoveryIsGuarded, ReductionsAreKnown, DataIsTimed, IsOpen, HasPending, SameStream,
       SameGuards, SameEvents
  <2> QED BY <2>5, <2>6, <2>7, <2>9 DEF SameStream
<1> QED BY <1>1, <1>2, <1>3

(* What is under way is a number.                                          *)
LEMMA FlightIsNatural ==
  ASSUME NEW s \in Sender, Sound(s), IsOpen(s)
  PROVE  Flight(s) \in Nat /\ s.nextSend \in Positions /\ s.oldest \in Positions
BY DEF Flight, Sound, StreamIsComplete, IsOpen, Sender, Positions

(* The segments under way can be counted.                                  *)
LEMMA PendingIsCounted ==
  ASSUME NEW s \in Sender
  PROVE  Cardinality(s.ends) \in Nat
<1>1. s.ends \subseteq 0 .. Payload + 1
  BY DEF Sender, Positions
<1>2. IsFiniteSet(0 .. Payload + 1)
  BY FS_Interval
<1>3. IsFiniteSet(s.ends)
  BY <1>1, <1>2, FS_Subset
<1> QED BY <1>3, FS_CardinalityType

(* A hold for ECN takes the place of the send event.                       *)
LEMMA HoldIsSound ==
  ASSUME NEW s \in Sender, Sound(s), IsOpen(s), NEW beyond \in BOOLEAN
  PROVE  LET t == HoldNewData(s, beyond)
         IN  /\ t \in Sender /\ Sound(t) /\ IsOpen(t)
             /\ SameStream(t, s) /\ SameGuards(t, s)
             /\ t.policy = s.policy /\ t.reductions = s.reductions
<1> DEFINE armed == (s.armed \ {"send"}) \cup {"hold"} \cup (IF HasPending(s) THEN {"data"} ELSE {})
           t == [s EXCEPT !.beyondRun = beyond, !.armed = armed]
<1>1. armed \in SUBSET Events
  BY DEF Sender, Events
<1>2. HoldNewData(s, beyond) = t
  BY DEF HoldNewData, Sender
<1>3. /\ "hold" \in armed /\ (HasPending(s) <=> "data" \in armed)
      /\ "syn" \in armed => "syn" \in s.armed
  BY DEF Sound, DataIsTimed
<1> HIDE DEF armed
<1>4. t \in Sender
  BY <1>1 DEF Sender
<1>5. /\ SameStream(t, s) /\ SameGuards(t, s) /\ SameProbe(t, s) /\ t.policy = s.policy
      /\ t.reductions = s.reductions /\ t.armed = armed
  BY DEF Sender, SameStream, SameGuards, SameProbe
<1> HIDE DEF t
<1>6. /\ WindowIsUsable(t) /\ HandshakeComesFirst(t) /\ StreamIsComplete(t)
      /\ RecoveryIsGuarded(t) /\ ReductionsAreKnown(t) /\ MeasuresOnlyFresh(t) /\ IsOpen(t)
  BY <1>5 DEF Sound, WindowIsUsable, HandshakeComesFirst, StreamIsComplete,
     RecoveryIsGuarded, ReductionsAreKnown, MeasuresOnlyFresh, IsOpen, SameStream,
     SameGuards, SameProbe
<1>7. DataIsTimed(t)
  BY <1>3, <1>5 DEF Sound, DataIsTimed, IsOpen, SameStream, HasPending
<1> QED BY <1>2, <1>4, <1>5, <1>6, <1>7 DEF Sound

(* A reduction for ECN is the first since what the last one has paid for   *)
(* has been acknowledged.                                                  *)
LEMMA ObserveECNIsSound ==
  ASSUME NEW s \in Sender, Sound(s), IsOpen(s), ecn \in BOOLEAN,
         NEW ack \in s.oldest .. s.nextSend, NEW ece \in BOOLEAN, NEW beyond \in BOOLEAN
  PROVE  LET t == ObserveECN(s, ack, ece, beyond)
         IN  /\ t \in Sender /\ Sound(t) /\ IsOpen(t) /\ SameStream(t, s)
             /\ \/ t.reductions = s.reductions /\ SameGuards(t, s)
                \/ /\ ecn /\ t.reductions = s.reductions + 1 /\ t.paidUntil = s.nextSend
                   /\ ack >= s.paidUntil
<1> DEFINE minimumWindow == s.policy.cwnd <= Mss
           concerned == HasPending(s) \/ (minimumWindow /\ s.unsent > 0)
           alreadyReduced == s.reductionEnd # 0 /\ ack <= s.reductionEnd
           held == IF minimumWindow THEN HoldNewData(s, beyond) ELSE s
           w == OnECN(s.policy, Flight(s))
           reductions == s.reductions + 1
           t == [held EXCEPT !.policy = w, !.reductions = reductions,
                             !.reductionEnd = s.nextSend, !.cwr = TRUE,
                             !.paidUntil = s.nextSend]
<1>1. /\ held \in Sender /\ Sound(held) /\ IsOpen(held) /\ SameStream(held, s)
      /\ SameGuards(held, s) /\ held.policy = s.policy /\ held.reductions = s.reductions
  BY HoldIsSound DEF SameStream, SameGuards
<1>2. /\ w \in Policy /\ Usable(w) /\ w.active = s.policy.active
      /\ w.recoveryEnd = s.policy.recoveryEnd
  BY PolicyIsUsable, FlightIsNatural, ECNIsUsable
<1>3. reductions \in Nat /\ s.nextSend \in Positions
  BY FlightIsNatural DEF Sender
<1>4. CASE ~ecn \/ ~ece \/ ~concerned
  <2>1. ObserveECN(s, ack, ece, beyond) = s
    BY <1>4 DEF ObserveECN
  <2> QED BY <2>1 DEF SameStream, SameGuards
<1>5. CASE ~(~ecn \/ ~ece \/ ~concerned) /\ alreadyReduced
  <2>1. ObserveECN(s, ack, ece, beyond) = held
    BY <1>5 DEF ObserveECN
  <2> HIDE DEF held
  <2> QED BY <1>1, <2>1
<1>6. CASE ~(~ecn \/ ~ece \/ ~concerned) /\ ~alreadyReduced
  <2>1. ObserveECN(s, ack, ece, beyond) =
          Reduced([held EXCEPT !.policy = OnECN(@, Flight(s)), !.reductions = @ + 1])
    BY <1>6 DEF ObserveECN
  <2>2. ecn /\ ack >= s.paidUntil
    BY <1>6 DEF Sound, ReductionsAreKnown, Sender, Positions
  <2> HIDE DEF held
  <2>3. Reduced([held EXCEPT !.policy = OnECN(@, Flight(s)), !.reductions = @ + 1]) = t
    BY <1>1, <2>2 DEF Reduced, SameStream, Sender
  <2> HIDE DEF w, reductions
  <2>4. t \in Sender
    BY <1>1, <1>2, <1>3 DEF Sender
  <2>5. /\ SameStream(t, held) /\ SameProbe(t, held) /\ SameEvents(t, held)
        /\ t.policy = w /\ t.reductions = reductions /\ t.untilSeq = held.untilSeq
        /\ t.reductionEnd = s.nextSend /\ t.paidUntil = s.nextSend
    BY <1>1 DEF Sender, SameStream, SameProbe, SameEvents
  <2> HIDE DEF t
  <2>6. /\ WindowIsUsable(t) /\ HandshakeComesFirst(t) /\ StreamIsComplete(t)
        /\ MeasuresOnlyFresh(t) /\ DataIsTimed(t) /\ IsOpen(t) /\ SameStream(t, s)
    BY <1>1, <1>2, <2>5 DEF Sound, WindowIsUsable, Usable, HandshakeComesFirst,
       StreamIsComplete, MeasuresOnlyFresh, DataIsTimed, IsOpen, HasPending, SameStream,
       SameProbe, SameEvents
  <2>7. RecoveryIsGuarded(t)
    BY <1>1, <1>2, <2>5 DEF Sound, RecoveryIsGuarded, IsOpen, SameStream, SameGuards
  <2>8. ReductionsAreKnown(t)
    BY <1>1, <2>2, <2>5, <1>3 DEF Sound, ReductionsAreKnown, IsOpen, SameStream, Positions
  <2> QED BY <2>1, <2>2, <2>3, <2>4, <2>5, <2>6, <2>7, <2>8 DEF Sound, reductions
<1> QED BY <1>4, <1>5, <1>6

(* The repair of a signalled loss.                                         *)
LEMMA RepairedIsSound ==
  ASSUME NEW s \in Sender, Sound(s), IsOpen(s), HasPending(s)
  PROVE  LET t == Repaired(s)
         IN  t \in Sender /\ Sound(t) /\ t.reductions = s.reductions /\ t.oldest = s.oldest
<1> DEFINE r == RetransmitOldest(s)
<1>1. /\ r \in Sender /\ Sound(r) /\ r.reductions = s.reductions /\ r.oldest = s.oldest
      /\ ~r.terminated => SameStream(r, s)
  BY RetransmitOldestIsSound
<1>2. Repaired(s) = IF r.terminated THEN r ELSE Arm(r, "data")
  BY DEF Repaired
<1> HIDE DEF r
<1>3. CASE r.terminated
  BY <1>1, <1>2, <1>3
<1>4. CASE ~r.terminated
  <2>1. IsOpen(r) /\ HasPending(r)
    BY <1>1, <1>4 DEF SameStream, IsOpen, HasPending
  <2> QED BY <1>1, <1>2, <1>4, <2>1, ArmIsSound DEF SameStream
<1> QED BY <1>3, <1>4

(* A third duplicate enters recovery and guards the flight.                *)
LEMMA EnteredIsSound ==
  ASSUME NEW s \in Sender, Sound(s), IsOpen(s), HasPending(s), NEW t \in Sender,
         SameStream(t, s), SameProbe(t, s), SameEvents(t, s),
         Usable(t.policy), t.policy.active => mode # "tahoe",
         mode = "newReno" => t.policy.recoveryEnd = s.nextSend,
         t.untilSeq = s.nextSend, t.paidUntil <= s.nextSend,
         ecn => t.reductionEnd = t.paidUntil
  PROVE  Sound(t) /\ IsOpen(t) /\ HasPending(t)
<1>1. s.oldest < s.nextSend
  BY DEF Sound, StreamIsComplete, HasPending, Sender, Positions
<1>2. /\ WindowIsUsable(t) /\ HandshakeComesFirst(t) /\ StreamIsComplete(t)
      /\ MeasuresOnlyFresh(t) /\ DataIsTimed(t) /\ IsOpen(t) /\ HasPending(t)
  BY DEF Sound, WindowIsUsable, Usable, HandshakeComesFirst, StreamIsComplete,
     MeasuresOnlyFresh, DataIsTimed, IsOpen, HasPending, SameStream, SameProbe, SameEvents
<1>3. RecoveryIsGuarded(t)
  BY <1>1, <1>2 DEF RecoveryIsGuarded, SameStream
<1>4. ReductionsAreKnown(t)
  BY <1>1 DEF ReductionsAreKnown, SameStream, Sender, Positions
<1> QED BY <1>2, <1>3, <1>4 DEF Sound

(* A duplicate reduces the window only if the last reduction has been      *)
(* acknowledged: with ECN reductionEnd says so, without it untilSeq.       *)
LEMMA DuplicateACKIsSound ==
  ASSUME NEW s \in Sender, Sound(s), IsOpen(s), HasPending(s), ecn \in BOOLEAN,
         NEW ece \in BOOLEAN
  PROVE  LET t == DuplicateACK(s, ece)
         IN  /\ t \in Sender /\ Sound(t) /\ t.oldest = s.oldest
             /\ \/ t.reductions = s.reductions
                \/ t.reductions = s.reductions + 1 /\ s.oldest >= s.paidUntil
<1> DEFINE duplicates == Smaller(s.duplicateACKs + 1, 3)
           w == IF ece /\ ecn THEN s.policy ELSE OnDuplicateACK(s.policy)
           counted == [s EXCEPT !.duplicateACKs = duplicates, !.policy = w]
           alreadyReduced == ecn /\ s.oldest < s.reductionEnd
           v == OnFastLoss(w, Flight(s), s.nextSend, Cardinality(s.ends), alreadyReduced)
           entered == [counted EXCEPT !.untilSeq = s.nextSend, !.policy = v]
<1>1. duplicates \in Duplicates
  BY DEF Smaller, Sender, Duplicates
<1>2. /\ w \in Policy /\ Usable(w) /\ w.active = s.policy.active
      /\ w.recoveryEnd = s.policy.recoveryEnd
  BY PolicyIsUsable, DuplicateIsUsable
<1>3. s.nextSend \in Positions /\ alreadyReduced \in BOOLEAN
  BY FlightIsNatural
<1>4. mode = "tahoe" => ~w.active
  BY <1>2 DEF Sound, RecoveryIsGuarded
<1>5. /\ v \in Policy /\ Usable(v) /\ v.active = (mode # "tahoe")
      /\ mode = "newReno" => v.recoveryEnd = s.nextSend
  <2> HIDE DEF w, alreadyReduced
  <2> QED BY <1>2, <1>3, <1>4, FlightIsNatural, PendingIsCounted, FastLossIsUsable
<1>6. DuplicateACK(s, ece) =
        IF LossIgnored(s, alreadyReduced) THEN counted
        ELSE IF alreadyReduced THEN Repaired(entered)
        ELSE Repaired(Reduced([entered EXCEPT !.reductions = @ + 1]))
  BY DEF DuplicateACK, Sender
<1>7. CASE LossIgnored(s, alreadyReduced)
  <2> HIDE DEF w, duplicates, v, alreadyReduced
  <2>1. counted \in Sender
    BY <1>1, <1>2 DEF Sender
  <2>2. /\ SameStream(counted, s) /\ SameGuards(counted, s) /\ SameProbe(counted, s)
        /\ SameEvents(counted, s) /\ counted.policy = w
        /\ counted.reductions = s.reductions
    BY DEF Sender, SameStream, SameGuards, SameProbe, SameEvents
  <2> HIDE DEF counted
  <2>3. Sound(counted)
    BY <1>2, <2>2 DEF Sound, WindowIsUsable, Usable, HandshakeComesFirst, StreamIsComplete,
       RecoveryIsGuarded, ReductionsAreKnown, MeasuresOnlyFresh, DataIsTimed, IsOpen,
       HasPending, SameStream, SameGuards, SameProbe, SameEvents
  <2> QED BY <1>6, <1>7, <2>1, <2>2, <2>3 DEF SameStream
<1>8. CASE ~LossIgnored(s, alreadyReduced) /\ alreadyReduced
  <2>1. DuplicateACK(s, ece) = Repaired(entered)
    BY <1>6, <1>8
  <2>2. s.paidUntil <= s.nextSend /\ (ecn => s.reductionEnd = s.paidUntil)
    BY DEF Sound, ReductionsAreKnown
  <2> DEFINE t == [s EXCEPT !.duplicateACKs = duplicates, !.policy = v,
                            !.untilSeq = s.nextSend]
  <2> HIDE DEF w, duplicates, v, alreadyReduced
  <2>3. entered = t
    BY DEF Sender
  <2>4. t \in Sender
    BY <1>1, <1>3, <1>5 DEF Sender
  <2>5. /\ SameStream(t, s) /\ SameProbe(t, s) /\ SameEvents(t, s) /\ t.policy = v
        /\ t.untilSeq = s.nextSend /\ t.reductions = s.reductions
        /\ t.reductionEnd = s.reductionEnd /\ t.paidUntil = s.paidUntil
    BY DEF Sender, SameStream, SameProbe, SameEvents
  <2> HIDE DEF t, entered
  <2>6. Sound(t) /\ IsOpen(t) /\ HasPending(t)
    BY <1>5, <2>2, <2>4, <2>5, EnteredIsSound
  <2> QED BY <2>1, <2>3, <2>4, <2>5, <2>6, RepairedIsSound DEF SameStream
<1>9. CASE ~LossIgnored(s, alreadyReduced) /\ ~alreadyReduced
  <2>1. DuplicateACK(s, ece) = Repaired(Reduced([entered EXCEPT !.reductions = @ + 1]))
    BY <1>6, <1>9
  <2>2. s.oldest >= s.paidUntil
    BY <1>9 DEF LossIgnored, Sound, ReductionsAreKnown, Sender, Positions
  <2> DEFINE reductions == s.reductions + 1
             reductionEnd == IF ecn THEN s.nextSend ELSE s.reductionEnd
             cwr == s.cwr \/ ecn
             t == [s EXCEPT !.duplicateACKs = duplicates, !.policy = v,
                            !.untilSeq = s.nextSend, !.reductions = reductions,
                            !.reductionEnd = reductionEnd, !.cwr = cwr,
                            !.paidUntil = s.nextSend]
  <2>3. /\ reductions \in Nat /\ cwr \in BOOLEAN /\ reductionEnd \in Positions
        /\ ecn => reductionEnd = s.nextSend
        /\ s.nextSend <= s.nextSend
    BY <1>3 DEF Sender
  <2> HIDE DEF w, duplicates, v, alreadyReduced
  <2>4. Reduced([entered EXCEPT !.reductions = @ + 1]) = t
    BY ZenonT(60) DEF Reduced, Sender
  <2> HIDE DEF reductions, reductionEnd, cwr
  <2>5. t \in Sender
    BY <1>1, <1>3, <1>5, <2>3 DEF Sender
  <2>6. /\ SameStream(t, s) /\ SameProbe(t, s) /\ SameEvents(t, s) /\ t.policy = v
        /\ t.untilSeq = s.nextSend /\ t.reductions = reductions
        /\ t.reductionEnd = reductionEnd /\ t.paidUntil = s.nextSend
    BY DEF Sender, SameStream, SameProbe, SameEvents
  <2> HIDE DEF t, entered
  <2>7. Sound(t) /\ IsOpen(t) /\ HasPending(t)
    BY <1>5, <2>3, <2>5, <2>6, EnteredIsSound
  <2> QED BY <2>1, <2>2, <2>4, <2>5, <2>6, <2>7, RepairedIsSound DEF SameStream, reductions
<1> QED BY <1>7, <1>8, <1>9

(* An acknowledgement of new bytes: a recovery survives only within its    *)
(* guarded flight, and nothing retransmitted is left where a measurement   *)
(* may start.                                                              *)
LEMMA ConfirmIsSound ==
  ASSUME NEW s \in Sender, Sound(s), IsOpen(s), ecn \in BOOLEAN,
         NEW ack \in s.oldest + 1 .. s.nextSend, NEW ece \in BOOLEAN
  PROVE  LET t == Confirm(s, ack, ece)
         IN  /\ t \in Sender /\ Sound(t) /\ NobodyWaits(t)
             /\ t.reductions = s.reductions /\ t.oldest = ack
<1> DEFINE recovering == IF s.recovering THEN ack < s.recoveryUntil ELSE FALSE
           probing == IF s.recovering THEN s.probing ELSE s.probing /\ ack < s.probeEnd
           ends == {e \in s.ends : e > ack}
           retried == {p \in s.retried : p >= ack}
           timedOutEnd == IF ack >= s.timedOutEnd THEN 0 ELSE s.timedOutEnd
           untilSeq == IF ack >= s.untilSeq THEN 0 ELSE s.untilSeq
           w == OnACK(s.policy, ack, ack - s.oldest, s.nextSend - ack, ece /\ ecn)
           armed == IF ends # {} THEN s.armed \cup {"data"} ELSE s.armed \ {"data"}
           t == [s EXCEPT
             !.recovering = recovering, !.probing = probing, !.oldest = ack, !.ends = ends,
             !.retried = retried, !.retries = 0, !.duplicateACKs = 0,
             !.timedOutEnd = timedOutEnd, !.untilSeq = untilSeq, !.policy = w,
             !.armed = armed]
           r == IF IsPartial(s.policy, ack) THEN RetransmitOldest(t) ELSE t
<1>1. /\ ack \in Positions /\ ack \in Nat /\ ack - s.oldest \in Nat
      /\ s.nextSend - ack \in Nat /\ s.oldest < ack /\ ack <= s.nextSend
      /\ s.nextSend \in Positions /\ s.oldest \in Nat
  BY FlightIsNatural DEF Positions
<1>2. /\ w \in Policy /\ Usable(w) /\ w.recoveryEnd = s.policy.recoveryEnd
      /\ w.active => s.policy.active /\ IsPartial(s.policy, ack)
  <2> DEFINE newBytes == ack - s.oldest
             flight == s.nextSend - ack
             echo == ece /\ ecn
             p == s.policy
  <2>1. p \in Policy /\ Usable(p) /\ newBytes \in Nat /\ flight \in Nat
    BY <1>1, PolicyIsUsable
  <2>2. echo \in BOOLEAN /\ ack \in Nat
    BY <1>1
  <2>3. w = OnACK(p, ack, newBytes, flight, echo)
    OBVIOUS
  <2> HIDE DEF w, newBytes, flight, echo
  <2>4. \A a, n, f \in Nat, e \in BOOLEAN :
          LET v == OnACK(p, a, n, f, e)
          IN  /\ v \in Policy /\ Usable(v) /\ v.recoveryEnd = p.recoveryEnd
              /\ v.active => p.active /\ IsPartial(p, a)
    <3> HIDE DEF p
    <3> QED BY <2>1, ACKIsUsable
  <2> QED BY <2>1, <2>2, <2>3, <2>4, ZenonT(30)
<1>3. Confirm(s, ack, ece) = QueueSegment(r)
  <2> DEFINE observed == ObserveRTTACK(s, ack)
             confirmed == [observed EXCEPT
               !.oldest = ack, !.ends = {e \in @ : e > ack}, !.retried = {p \in @ : p >= ack},
               !.retries = 0, !.duplicateACKs = 0,
               !.timedOutEnd = IF ack >= @ THEN 0 ELSE @,
               !.untilSeq = IF ack >= @ THEN 0 ELSE @,
               !.policy = OnACK(@, ack, ack - s.oldest, s.nextSend - ack, ece /\ ecn)]
             timed == IF HasPending(confirmed) THEN Arm(confirmed, "data")
                      ELSE Cancel(confirmed, "data")
  <2>1. observed = [s EXCEPT !.recovering = recovering, !.probing = probing]
    BY DEF ObserveRTTACK, Sender
  <2>2. confirmed = [s EXCEPT
             !.recovering = recovering, !.probing = probing, !.oldest = ack, !.ends = ends,
             !.retried = retried, !.retries = 0, !.duplicateACKs = 0,
             !.timedOutEnd = timedOutEnd, !.untilSeq = untilSeq, !.policy = w]
    <3> HIDE DEF observed, recovering, probing
    <3> QED BY <2>1 DEF Sender
  <2> HIDE DEF observed, confirmed, recovering, probing, ends, retried, timedOutEnd, untilSeq, w
  <2>3. timed = t
    BY <2>2 DEF HasPending, Arm, Cancel, Sender
  <2> HIDE DEF t, timed
  <2>4. Confirm(s, ack, ece) =
          QueueSegment(IF IsPartial(s.policy, ack) THEN RetransmitOldest(timed) ELSE timed)
    BY DEF Confirm, timed, confirmed, observed
  <2> QED BY <2>3, <2>4
<1>4. ends \in SUBSET Positions /\ retried \in SUBSET Positions
  BY DEF Sender
<1>4a. s.recovering \in BOOLEAN /\ s.probing \in BOOLEAN
  BY DEF Sender
<1>4b. recovering \in BOOLEAN /\ probing \in BOOLEAN
  <2>1. CASE s.recovering
    <3>1. recovering = (ack < s.recoveryUntil) /\ probing = s.probing
      BY <2>1
    <3>2. (ack < s.recoveryUntil) \in BOOLEAN
      OBVIOUS
    <3> QED BY <1>4a, <3>1, <3>2, Zenon
  <2>2. CASE ~s.recovering
    BY <1>4a, <2>2, ZenonT(30)
  <2> QED BY <2>1, <2>2
<1>5. timedOutEnd \in Positions /\ untilSeq \in Positions
  BY SmallTypes DEF Sender
<1>6. armed \in SUBSET Events
  BY DEF Sender, Events
<1>7. /\ probing => ~recovering
      /\ \A p \in retried : recovering /\ p < s.recoveryUntil
  BY <1>1 DEF Sound, MeasuresOnlyFresh, Sender, Positions
<1>8. /\ ends \subseteq ack + 1 .. s.nextSend
      /\ ack < s.nextSend => s.nextSend \in ends
  BY <1>1 DEF Sound, StreamIsComplete, Sender, Positions
<1>9. /\ s.untilSeq \in Nat /\ s.paidUntil \in Nat
      /\ untilSeq <= s.nextSend
      /\ ~ecn => s.paidUntil <= (IF untilSeq = 0 THEN ack ELSE untilSeq)
  BY <1>1 DEF Sound, ReductionsAreKnown, Sender, Positions
<1>10. w.active =>
         /\ mode # "tahoe" /\ ack < untilSeq
         /\ mode = "newReno" => w.recoveryEnd = untilSeq
  BY <1>1, <1>2, <1>9 DEF Sound, RecoveryIsGuarded, IsPartial
<1>11. /\ ends # {} <=> "data" \in armed
       /\ \A e \in {"syn", "send", "hold"} : e \in armed <=> e \in s.armed
  BY DEF Sound, DataIsTimed
<1> HIDE DEF recovering, probing, ends, retried, timedOutEnd, untilSeq, w, armed
<1>12. t \in Sender
  BY <1>1, <1>2, <1>4, <1>4b, <1>5, <1>6, SmallTypes DEF Sender
<1>13. /\ t.established = s.established /\ t.finSent = s.finSent
       /\ t.terminated = s.terminated /\ t.nextSend = s.nextSend /\ t.unsent = s.unsent
       /\ t.oldest = ack /\ t.ends = ends /\ t.retried = retried /\ t.policy = w
       /\ t.untilSeq = untilSeq /\ t.reductionEnd = s.reductionEnd
       /\ t.paidUntil = s.paidUntil /\ t.recovering = recovering /\ t.probing = probing
       /\ t.recoveryUntil = s.recoveryUntil /\ t.armed = armed
       /\ t.beyondRun = s.beyondRun /\ t.reductions = s.reductions
  BY DEF Sender
<1> HIDE DEF t
<1>14. IsOpen(t) /\ WindowIsUsable(t) /\ HandshakeComesFirst(t)
  BY <1>2, <1>13 DEF IsOpen, WindowIsUsable, Usable, HandshakeComesFirst
<1>15. StreamIsComplete(t)
  BY <1>1, <1>8, <1>13 DEF Sound, StreamIsComplete
<1>16. RecoveryIsGuarded(t)
  BY <1>10, <1>13, <1>14 DEF RecoveryIsGuarded
<1>17. ReductionsAreKnown(t)
  BY <1>9, <1>13 DEF Sound, ReductionsAreKnown
<1>18. MeasuresOnlyFresh(t)
  BY <1>7, <1>13 DEF Sound, MeasuresOnlyFresh
<1>19. DataIsTimed(t)
  BY <1>11, <1>13 DEF Sound, DataIsTimed, IsOpen, HasPending
<1>20. Sound(t)
  BY <1>14, <1>15, <1>16, <1>17, <1>18, <1>19 DEF Sound
<1>21. r \in Sender /\ Sound(r) /\ r.reductions = s.reductions /\ r.oldest = ack
  BY <1>12, <1>13, <1>14, <1>20, RetransmitOldestIsSound
<1> HIDE DEF r
<1> QED BY <1>3, <1>21, QueueSegmentIsSound

(* An acknowledgement, whole.                                              *)
LEMMA HandlePacketIsSound ==
  ASSUME NEW s \in Sender, Sound(s), IsOpen(s), ecn \in BOOLEAN,
         NEW ack \in s.oldest .. s.nextSend, NEW ece \in BOOLEAN, NEW beyond \in BOOLEAN
  PROVE  LET t == HandlePacket(s, ack, ece, beyond)
         IN  /\ t \in Sender /\ Sound(t) /\ NobodyWaits(t)
             /\ \/ t.reductions = s.reductions
                \/ t.reductions = s.reductions + 1 /\ t.oldest >= s.paidUntil
<1> DEFINE u == ObserveECN(s, ack, ece, beyond)
<1>1. /\ u \in Sender /\ Sound(u) /\ IsOpen(u) /\ SameStream(u, s)
      /\ \/ u.reductions = s.reductions /\ SameGuards(u, s)
         \/ /\ ecn /\ u.reductions = s.reductions + 1 /\ u.paidUntil = s.nextSend
            /\ ack >= s.paidUntil
  BY ObserveECNIsSound
<1>2. HandlePacket(s, ack, ece, beyond) =
        IF ack > s.oldest THEN Confirm(u, ack, ece)
        ELSE QueueSegment(IF HasPending(u) THEN DuplicateACK(u, ece) ELSE u)
  BY DEF HandlePacket
<1>3. /\ s.oldest \in Nat /\ s.nextSend \in Nat /\ ack \in Nat /\ s.paidUntil \in Nat
      /\ u.oldest = s.oldest /\ u.nextSend = s.nextSend
  BY <1>1 DEF Sender, Positions, SameStream
<1> HIDE DEF u
<1>4. CASE ack > s.oldest
  <2>1. ack \in u.oldest + 1 .. u.nextSend
    BY <1>3, <1>4
  <2>2. LET t == Confirm(u, ack, ece)
        IN  /\ t \in Sender /\ Sound(t) /\ NobodyWaits(t)
            /\ t.reductions = u.reductions /\ t.oldest = ack
    BY <1>1, <2>1, ConfirmIsSound
  <2> QED BY <1>1, <1>2, <1>4, <2>2
<1>5. CASE ~(ack > s.oldest) /\ ~HasPending(u)
  <2>1. ack = u.oldest
    BY <1>3, <1>5
  <2> QED BY <1>1, <1>2, <1>5, <2>1, QueueSegmentIsSound
<1>6. CASE ~(ack > s.oldest) /\ HasPending(u)
  <2> DEFINE d == DuplicateACK(u, ece)
  <2>1. /\ d \in Sender /\ Sound(d) /\ d.oldest = u.oldest
        /\ \/ d.reductions = u.reductions
           \/ d.reductions = u.reductions + 1 /\ u.oldest >= u.paidUntil
    BY <1>1, <1>6, DuplicateACKIsSound
  <2>2. HandlePacket(s, ack, ece, beyond) = QueueSegment(d)
    BY <1>2, <1>6
  <2>3. u.oldest < u.nextSend
    BY <1>1, <1>6 DEF Sound, StreamIsComplete, HasPending, Sender, Positions
  <2>4. ack = u.oldest
    BY <1>3, <1>6
  <2>5. \/ d.reductions = s.reductions
        \/ d.reductions = s.reductions + 1 /\ d.oldest >= s.paidUntil
    BY <1>1, <1>3, <2>1, <2>3, <2>4 DEF SameGuards
  <2> HIDE DEF d
  <2> QED BY <2>1, <2>2, <2>5, QueueSegmentIsSound
<1> QED BY <1>4, <1>5, <1>6

(* An event that is due, or a hold that is over.                           *)
LEMMA CancelIsSound ==
  ASSUME NEW s \in Sender, Sound(s), NEW e \in {"send", "hold"},
         e = "hold" => ~s.beyondRun
  PROVE  LET t == Cancel(s, e)
         IN  /\ t \in Sender /\ Sound(t) /\ SameStream(t, s) /\ t.policy = s.policy
             /\ t.reductions = s.reductions
<1> DEFINE t == [s EXCEPT !.armed = @ \ {e}]
<1>1. t \in Sender
  BY DEF Sender
<1>2. /\ SameStream(t, s) /\ SameGuards(t, s) /\ SameProbe(t, s)
      /\ t.beyondRun = s.beyondRun /\ t.policy = s.policy /\ t.reductions = s.reductions
      /\ t.armed = s.armed \ {e}
  BY DEF Sender, SameStream, SameGuards, SameProbe
<1>3. Cancel(s, e) = t
  BY DEF Cancel
<1> HIDE DEF t
<1>4. /\ WindowIsUsable(t) /\ HandshakeComesFirst(t) /\ StreamIsComplete(t)
      /\ RecoveryIsGuarded(t) /\ ReductionsAreKnown(t) /\ MeasuresOnlyFresh(t)
  BY <1>2 DEF Sound, WindowIsUsable, HandshakeComesFirst, StreamIsComplete,
     RecoveryIsGuarded, ReductionsAreKnown, MeasuresOnlyFresh, IsOpen, SameStream,
     SameGuards, SameProbe
<1>5. DataIsTimed(t)
  BY <1>2 DEF Sound, DataIsTimed, IsOpen, SameStream, HasPending
<1> QED BY <1>1, <1>2, <1>3, <1>4, <1>5 DEF Sound

(* After an idle time.                                                     *)
LEMMA RestartedIsSound ==
  ASSUME NEW s \in Sender, Sound(s), IsOpen(s), ecn \in BOOLEAN
  PROVE  LET t == Restarted(s)
         IN  /\ t \in Sender /\ Sound(t) /\ SameStream(t, s)
             /\ t.reductions = s.reductions
<1> DEFINE w == OnIdle(s.policy)
           cwr == s.cwr \/ (ecn /\ w.cwnd < s.policy.cwnd)
           t == [s EXCEPT !.policy = w, !.cwr = cwr]
<1>1. /\ w \in Policy /\ Usable(w) /\ w.active = s.policy.active
      /\ w.recoveryEnd = s.policy.recoveryEnd
  BY PolicyIsUsable, IdleIsUsable
<1>2. cwr \in BOOLEAN
  BY DEF Sender
<1>3. Restarted(s) = t
  BY DEF Restarted
<1> HIDE DEF w, cwr
<1>4. t \in Sender
  BY <1>1, <1>2 DEF Sender
<1>5. /\ SameStream(t, s) /\ SameGuards(t, s) /\ SameProbe(t, s) /\ SameEvents(t, s)
      /\ t.policy = w /\ t.reductions = s.reductions
  BY DEF Sender, SameStream, SameGuards, SameProbe, SameEvents
<1> HIDE DEF t
<1>6. Sound(t)
  BY <1>1, <1>5 DEF Sound, WindowIsUsable, Usable, HandshakeComesFirst, StreamIsComplete,
     RecoveryIsGuarded, ReductionsAreKnown, MeasuresOnlyFresh, DataIsTimed, IsOpen,
     HasPending, SameStream, SameGuards, SameProbe, SameEvents
<1> QED BY <1>3, <1>4, <1>5, <1>6

(* A new segment, unless the window is full.                               *)
LEMMA SendNewIsSound ==
  ASSUME NEW s \in Sender, Sound(s), IsOpen(s), s.oldest # Payload + 1
  PROVE  LET t == SendNew(s)
         IN  t \in Sender /\ Sound(t) /\ NobodyWaits(t) /\ t.reductions = s.reductions
<1> DEFINE size == NextPayloadSize(s)
           end == s.nextSend + size
           unsent == s.unsent - size
           ends == s.ends \cup {end}
           armed == s.armed \cup {"data"}
           probing == s.probing \/ ~s.recovering
           probeEnd == IF s.probing \/ s.recovering THEN s.probeEnd ELSE end
           t == [s EXCEPT !.nextSend = end, !.unsent = unsent, !.ends = ends,
                          !.cwr = FALSE, !.armed = armed, !.probing = probing,
                          !.probeEnd = probeEnd]
<1>1. CASE size = 0
  <2>1. SendNew(s) = s
    BY <1>1 DEF SendNew
  <2> QED BY <1>1, <2>1, SilenceIsForData DEF NobodyWaits
<1>2. CASE size # 0
  <2>1. /\ s.nextSend \in Nat /\ s.oldest \in Nat /\ s.unsent \in Nat
        /\ s.oldest >= 1 /\ s.oldest <= s.nextSend /\ s.nextSend + s.unsent = Payload + 1
        /\ s.ends \subseteq s.oldest + 1 .. s.nextSend
    BY DEF Sound, StreamIsComplete, Sender, Positions
  <2>2. size \in Nat /\ size <= s.unsent
    <3>1. s.policy.cwnd \in Nat /\ Flight(s) \in Nat
      BY FlightIsNatural DEF Sender, Policy
    <3> QED BY <2>1, <3>1 DEF NextPayloadSize, Smaller, Larger
  <2> HIDE DEF size
  <2>3. /\ end \in Nat /\ end > s.nextSend /\ end \in 1 .. Payload + 2 /\ end \in Positions
        /\ unsent \in 0 .. Payload /\ end + unsent = Payload + 1
    BY <1>2, <2>1, <2>2 DEF Positions
  <2>4. ends \subseteq s.oldest + 1 .. end /\ end \in ends
    BY <2>1, <2>3
  <2>5. ends \in SUBSET Positions /\ armed \in SUBSET Events /\ probeEnd \in Positions
    BY <2>3 DEF Sender, Events
  <2>6. probing \in BOOLEAN
    BY DEF Sender
  <2>7. probing => ~s.recovering
    BY DEF Sound, MeasuresOnlyFresh
  <2>8. SendNew(s) = QueueSegment(t)
    <3>1. SendNew(s) =
            QueueSegment([s EXCEPT
              !.nextSend = end, !.unsent = @ - size, !.ends = @ \cup {end}, !.cwr = FALSE,
              !.armed = @ \cup {"data"}, !.probing = @ \/ ~s.recovering,
              !.probeEnd = IF s.probing \/ s.recovering THEN @ ELSE end])
      BY <1>2 DEF SendNew, size
    <3>2. [s EXCEPT
              !.nextSend = end, !.unsent = @ - size, !.ends = @ \cup {end}, !.cwr = FALSE,
              !.armed = @ \cup {"data"}, !.probing = @ \/ ~s.recovering,
              !.probeEnd = IF s.probing \/ s.recovering THEN @ ELSE end] = t
      OBVIOUS
    <3> QED BY <3>1, <3>2
  <2>9. /\ "data" \in armed
        /\ \A e \in {"syn", "send", "hold"} : e \in armed <=> e \in s.armed
    OBVIOUS
  <2> HIDE DEF end, unsent, ends, armed, probing, probeEnd
  <2>10. t \in Sender
    BY <2>3, <2>5, <2>6 DEF Sender
  <2>11. /\ t.established = s.established /\ t.finSent = s.finSent
         /\ t.terminated = s.terminated /\ t.nextSend = end /\ t.oldest = s.oldest
         /\ t.unsent = unsent /\ t.ends = ends /\ SameGuards(t, s)
         /\ t.retried = s.retried /\ t.probing = probing /\ t.recovering = s.recovering
         /\ t.recoveryUntil = s.recoveryUntil /\ t.armed = armed
         /\ t.beyondRun = s.beyondRun /\ t.policy = s.policy
         /\ t.reductions = s.reductions
    BY DEF Sender, SameGuards
  <2> HIDE DEF t
  <2>12. /\ IsOpen(t) /\ WindowIsUsable(t) /\ HandshakeComesFirst(t)
         /\ RecoveryIsGuarded(t)
    BY <2>11 DEF Sound, IsOpen, WindowIsUsable, HandshakeComesFirst, RecoveryIsGuarded,
       SameGuards
  <2>13. StreamIsComplete(t)
    BY <2>1, <2>3, <2>4, <2>11 DEF StreamIsComplete
  <2>14. ReductionsAreKnown(t)
    BY <2>1, <2>3, <2>11 DEF Sound, ReductionsAreKnown, IsOpen, SameGuards, Sender, Positions
  <2>15. MeasuresOnlyFresh(t)
    BY <2>1, <2>3, <2>7, <2>11 DEF Sound, MeasuresOnlyFresh, Sender, Positions
  <2>16. DataIsTimed(t)
    BY <2>4, <2>9, <2>11 DEF Sound, DataIsTimed, IsOpen, HasPending
  <2> QED BY <2>8, <2>10, <2>11, <2>12, <2>13, <2>14, <2>15, <2>16, QueueSegmentIsSound
          DEF Sound
<1> QED BY <1>1, <1>2

(* A retransmission timeout ends the recovery and guards its flight anew.  *)
LEMMA DataTimeoutIsSound ==
  ASSUME NEW s \in Sender, Sound(s), NobodyWaits(s), IsOpen(s), HasPending(s),
         ecn \in BOOLEAN
  PROVE  LET t == DataTimeout(s)
         IN  t \in Sender /\ Sound(t) /\ NobodyWaits(t) /\ t.reductions = s.reductions
<1> DEFINE r == RetransmitOldest(s)
           retrying == s.retries # 0 \/ (ecn /\ s.oldest \in s.retried)
           counted == s.timedOutEnd # 0 \/ (~retrying /\ ecn /\ s.oldest < s.reductionEnd)
           flight == Flight(s)
           w == OnTimeoutLoss(r.policy, flight, s.nextSend, counted)
           timedOutEnd == IF r.timedOutEnd = 0 THEN OldestEnd(s) ELSE r.timedOutEnd
           reductionEnd == IF ecn THEN s.nextSend ELSE r.reductionEnd
           cwr == r.cwr \/ ecn
           t == [r EXCEPT !.duplicateACKs = 0, !.untilSeq = s.nextSend,
                          !.timedOutEnd = timedOutEnd, !.policy = w,
                          !.reductionEnd = reductionEnd, !.cwr = cwr,
                          !.paidUntil = s.nextSend]
<1>1. /\ r \in Sender /\ Sound(r) /\ r.reductions = s.reductions
      /\ ~r.terminated => SameStream(r, s) /\ SameGuards(r, s) /\ SameEvents(r, s)
  BY RetransmitOldestIsSound
<1>2. CASE r.terminated
  <2>1. DataTimeout(s) = r
    BY <1>2 DEF DataTimeout
  <2> HIDE DEF r
  <2> QED BY <1>1, <1>2, <2>1 DEF NobodyWaits, IsOpen
<1>3. CASE ~r.terminated
  <2>1. SameStream(r, s)
    BY <1>1, <1>3
  <2>2. flight \in Nat /\ s.nextSend \in Positions
    BY FlightIsNatural
  <2>3. DataTimeout(s) =
          Reduced([r EXCEPT
             !.duplicateACKs = 0, !.untilSeq = s.nextSend,
             !.timedOutEnd = IF @ = 0 THEN OldestEnd(s) ELSE @,
             !.policy = OnTimeoutLoss(@, flight, s.nextSend, counted)])
    BY <1>3 DEF DataTimeout
  <2>4. counted \in BOOLEAN
    OBVIOUS
  <2> HIDE DEF r, counted, flight
  <2>5. r.policy \in Policy /\ Usable(r.policy)
    BY <1>1, PolicyIsUsable
  <2>6. w \in Policy /\ Usable(w) /\ ~w.active
    BY <2>2, <2>4, <2>5, TimeoutIsUsable
  <2>7. timedOutEnd \in Positions
    BY <1>1, OldestIsPending DEF Sender
  <2>8. reductionEnd \in Positions /\ (ecn => reductionEnd = s.nextSend)
    BY <1>1, <2>2 DEF Sender
  <2>9. cwr \in BOOLEAN
    BY <1>1 DEF Sender
  <2>10. DataTimeout(s) = t
    BY <1>1, <2>1, <2>3, ZenonT(60) DEF Reduced, SameStream, Sender
  <2> HIDE DEF w, timedOutEnd, reductionEnd, cwr
  <2>11. t \in Sender
    BY <1>1, <2>2, <2>6, <2>7, <2>8, <2>9, SmallTypes DEF Sender
  <2>12. /\ SameStream(t, s) /\ SameProbe(t, r) /\ SameEvents(t, r)
         /\ t.untilSeq = s.nextSend /\ t.policy = w /\ t.paidUntil = s.nextSend
         /\ t.reductionEnd = reductionEnd /\ t.reductions = s.reductions
    BY <1>1, <2>1 DEF Sender, SameStream, SameProbe, SameEvents
  <2> HIDE DEF t
  <2>13. /\ IsOpen(t) /\ WindowIsUsable(t) /\ HandshakeComesFirst(t)
         /\ StreamIsComplete(t) /\ RecoveryIsGuarded(t)
    BY <2>6, <2>12 DEF Sound, IsOpen, WindowIsUsable, Usable, HandshakeComesFirst,
       StreamIsComplete, RecoveryIsGuarded, SameStream
  <2>14. ReductionsAreKnown(t)
    <3>1. s.nextSend \in Nat /\ s.nextSend # 0
      BY DEF Sender
    <3> QED BY <2>8, <2>12, <3>1 DEF ReductionsAreKnown, SameStream
  <2>15. MeasuresOnlyFresh(t)
    BY <1>1, <2>1, <2>12 DEF Sound, MeasuresOnlyFresh, SameStream, SameProbe
  <2>16. DataIsTimed(t)
    BY <1>1, <2>1, <2>12 DEF Sound, DataIsTimed, IsOpen, HasPending, SameStream, SameEvents
  <2>17. NobodyWaits(t)
    BY <2>12 DEF NobodyWaits, HasPending, SameStream
  <2> QED BY <2>10, <2>11, <2>12, <2>13, <2>14, <2>15, <2>16, <2>17 DEF Sound
<1> QED BY <1>2, <1>3

(* The handshake opens a stream of which nothing has been sent.            *)
LEMMA EstablishedIsSound ==
  ASSUME NEW s \in Sender, Sound(s), ~s.established, ~s.finSent, ~s.terminated
  PROVE  LET t == [ObserveRTTACK(s, 1) EXCEPT !.established = TRUE, !.oldest = 1,
                                              !.retrySyn = 0, !.armed = {}]
         IN  t \in Sender /\ Sound(t) /\ t.reductions = s.reductions
<1> DEFINE recovering == IF s.recovering THEN 1 < s.recoveryUntil ELSE FALSE
           probing == IF s.recovering THEN s.probing ELSE s.probing /\ 1 < s.probeEnd
           u == [s EXCEPT !.recovering = recovering, !.probing = probing]
           t == [s EXCEPT !.recovering = recovering, !.probing = probing,
                          !.established = TRUE, !.oldest = 1, !.retrySyn = 0, !.armed = {}]
<1>1. s.recovering \in BOOLEAN /\ s.probing \in BOOLEAN
  BY DEF Sender
<1>2. ObserveRTTACK(s, 1) = u
  BY <1>1 DEF ObserveRTTACK, Sender
<1>3. recovering \in BOOLEAN /\ probing \in BOOLEAN /\ (probing => ~recovering)
  <2>1. s.probing => ~s.recovering
    BY DEF Sound, MeasuresOnlyFresh
  <2>2. (1 < s.recoveryUntil) \in BOOLEAN /\ (1 < s.probeEnd) \in BOOLEAN
    OBVIOUS
  <2> QED BY <1>1, <2>1, <2>2, Zenon
<1>4. 1 \in Positions
  BY DEF Positions
<1>5. /\ s.nextSend = 1 /\ s.unsent = Payload /\ s.ends = {} /\ s.retried = {}
      /\ s.untilSeq = 0 /\ s.paidUntil = 0 /\ ~s.beyondRun
  BY DEF Sound, HandshakeComesFirst
<1> HIDE DEF recovering, probing
<1>6. [ObserveRTTACK(s, 1) EXCEPT !.established = TRUE, !.oldest = 1,
                                  !.retrySyn = 0, !.armed = {}] = t
  BY <1>2 DEF Sender
<1>7. t \in Sender
  BY <1>3, <1>4, SmallTypes DEF Sender
<1>8. /\ t.established /\ t.finSent = s.finSent /\ t.terminated = s.terminated
      /\ t.oldest = 1 /\ t.nextSend = s.nextSend /\ t.unsent = s.unsent /\ t.ends = s.ends
      /\ SameGuards(t, s) /\ t.retried = s.retried /\ t.recovering = recovering
      /\ t.probing = probing /\ t.recoveryUntil = s.recoveryUntil /\ t.armed = {}
      /\ t.beyondRun = s.beyondRun /\ t.policy = s.policy /\ t.reductions = s.reductions
  BY DEF Sender, SameGuards
<1> HIDE DEF t
<1>9. WindowIsUsable(t) /\ HandshakeComesFirst(t) /\ StreamIsComplete(t)
  BY <1>5, <1>8 DEF Sound, WindowIsUsable, HandshakeComesFirst, StreamIsComplete
<1>10. RecoveryIsGuarded(t)
  BY <1>8 DEF Sound, RecoveryIsGuarded, IsOpen
<1>11. ReductionsAreKnown(t)
  BY <1>5, <1>8 DEF Sound, ReductionsAreKnown, SameGuards
<1>12. MeasuresOnlyFresh(t)
  BY <1>3, <1>5, <1>8 DEF Sound, MeasuresOnlyFresh
<1>13. DataIsTimed(t)
  BY <1>5, <1>8 DEF DataIsTimed, HasPending
<1> QED BY <1>6, <1>7, <1>8, <1>9, <1>10, <1>11, <1>12, <1>13 DEF Sound

(* A lost handshake packet.                                                *)
LEMMA RetriedSynIsSound ==
  ASSUME NEW s \in Sender, Sound(s), "syn" \in s.armed,
         ~(s.retrySyn >= MaxRetransmissions)
  PROVE  LET t == [InvalidateRTTProbe(s) EXCEPT !.retrySyn = @ + 1,
                                                !.policy = OnHandshakeLoss(@)]
         IN  t \in Sender /\ Sound(t) /\ NobodyWaits(t) /\ t.reductions = s.reductions
<1> DEFINE w == OnHandshakeLoss(s.policy)
           retrySyn == s.retrySyn + 1
           t == [s EXCEPT !.probing = FALSE, !.recovering = TRUE,
                          !.recoveryUntil = s.nextSend, !.retrySyn = retrySyn, !.policy = w]
<1>1. w \in Policy /\ Usable(w) /\ w.active = s.policy.active
  BY PolicyIsUsable, HandshakeLossIsUsable
<1>2. retrySyn \in Retries
  BY DEF Sender, Retries
<1>3. /\ ~s.established /\ s.nextSend = 1 /\ s.retried = {}
      /\ s.nextSend \in Positions
  BY DEF Sound, HandshakeComesFirst, DataIsTimed, Positions
<1>4. [InvalidateRTTProbe(s) EXCEPT !.retrySyn = @ + 1, !.policy = OnHandshakeLoss(@)] = t
  BY DEF InvalidateRTTProbe, Sender
<1> HIDE DEF w, retrySyn
<1>5. t \in Sender
  BY <1>1, <1>2, <1>3 DEF Sender
<1>6. /\ SameStream(t, s) /\ SameGuards(t, s) /\ SameEvents(t, s) /\ t.retried = s.retried
      /\ ~t.probing /\ t.recoveryUntil = s.nextSend /\ t.policy = w
      /\ t.reductions = s.reductions
  BY DEF Sender, SameStream, SameGuards, SameEvents
<1> HIDE DEF t
<1>7. MeasuresOnlyFresh(t)
  BY <1>3, <1>6 DEF MeasuresOnlyFresh, SameStream
<1>8. Sound(t) /\ NobodyWaits(t)
  BY <1>1, <1>3, <1>6, <1>7 DEF Sound, WindowIsUsable, Usable, HandshakeComesFirst,
     StreamIsComplete, RecoveryIsGuarded, ReductionsAreKnown, DataIsTimed, NobodyWaits,
     IsOpen, HasPending, SameStream, SameGuards, SameEvents
<1> QED BY <1>4, <1>5, <1>6, <1>8

-----------------------------------------------------------------------------
(* The specification.                                                      *)

(* The parts of a state whose policy and ECN were chosen at the start.     *)
LEMMA Kept ==
  ASSUME TypeOK, UNCHANGED <<mode, ecn>>,
         snd' \in Sender, Sound(snd'), NobodyWaits(snd')
  PROVE  IInv'
<1>1. TypeOK'
  BY DEF TypeOK
<1>2. Sound(snd)'
  BY DEF Sound, WindowIsUsable, HandshakeComesFirst, StreamIsComplete, RecoveryIsGuarded,
     ReductionsAreKnown, MeasuresOnlyFresh, DataIsTimed, IsOpen, HasPending
<1>3. NobodyWaits(snd)'
  BY DEF NobodyWaits, IsOpen, HasPending
<1> QED BY <1>1, <1>2, <1>3 DEF IInv

(* A stream starts sound.                                                  *)
LEMMA InitIsSound == Init => IInv
<1> SUFFICES ASSUME Init PROVE IInv
  OBVIOUS
<1>1. /\ InitialWindow \in Mss .. MaximumWindow /\ InitialThreshold \in Nat
      /\ 1 \in Positions /\ {"syn"} \in SUBSET Events
  BY DEF Positions, Events
<1>2. NewPolicy \in Policy
  BY <1>1 DEF NewPolicy, Policy
<1>3. /\ 1 \in 1 .. Payload + 2 /\ Payload \in 0 .. Payload
  OBVIOUS
<1>4. snd \in Sender
  BY <1>1, <1>2, <1>3, SmallTypes DEF Init, Sender
<1>5. /\ snd.policy = NewPolicy /\ ~NewPolicy.active
      /\ NewPolicy.ssthresh = InitialThreshold
      /\ ~snd.established /\ ~snd.finSent /\ ~snd.terminated /\ snd.oldest = 0
      /\ snd.nextSend = 1 /\ snd.unsent = Payload /\ snd.ends = {} /\ snd.retried = {}
      /\ snd.untilSeq = 0 /\ snd.paidUntil = 0 /\ snd.reductionEnd = 0 /\ ~snd.beyondRun
      /\ ~snd.recovering /\ snd.recoveryUntil = 0 /\ snd.armed = {"syn"}
  BY DEF Init, NewPolicy
<1>6. Sound(snd) /\ NobodyWaits(snd)
  BY <1>5 DEF Sound, WindowIsUsable, HandshakeComesFirst, StreamIsComplete,
     RecoveryIsGuarded, ReductionsAreKnown, MeasuresOnlyFresh, DataIsTimed, NobodyWaits,
     IsOpen, HasPending
<1> QED BY <1>4, <1>6 DEF IInv, TypeOK, Init

(* Every step keeps the invariant, and a step that reduces the window does *)
(* so with what the last reduction has paid for confirmed.                 *)
LEMMA StepIsSound ==
  ASSUME IInv, [Next]_vars
  PROVE  /\ IInv'
         /\ \/ snd'.reductions = snd.reductions
            \/ snd'.reductions = snd.reductions + 1 /\ snd'.oldest >= snd.paidUntil
<1>1. /\ snd \in Sender /\ Sound(snd) /\ NobodyWaits(snd) /\ TypeOK /\ ecn \in BOOLEAN
  BY DEF IInv, TypeOK
<1>2. \A e \in snd.armed : ~snd.terminated /\ ~snd.finSent
  BY <1>1 DEF Sound, DataIsTimed
<1>3. CASE UNCHANGED vars
  <2>1. UNCHANGED <<mode, ecn>> /\ snd' = snd
    BY <1>3 DEF vars
  <2> QED BY <1>1, <2>1, Kept
<1>4. CASE RetransmitSyn
  <2>1. CASE snd.retrySyn >= MaxRetransmissions
    <3>1. snd' = ShutDown(snd) /\ UNCHANGED <<mode, ecn>>
      BY <1>4, <2>1 DEF RetransmitSyn
    <3>2. /\ snd' \in Sender /\ Sound(snd') /\ NobodyWaits(snd')
          /\ snd'.reductions = snd.reductions
      BY <1>1, <3>1, ShutDownIsSound DEF NobodyWaits, IsOpen
    <3> QED BY <1>1, <3>1, <3>2, Kept
  <2>2. CASE ~(snd.retrySyn >= MaxRetransmissions)
    <3>1. /\ snd' = [InvalidateRTTProbe(snd) EXCEPT !.retrySyn = @ + 1,
                                                    !.policy = OnHandshakeLoss(@)]
          /\ UNCHANGED <<mode, ecn>> /\ "syn" \in snd.armed
      BY <1>4, <2>2 DEF RetransmitSyn
    <3>2. /\ snd' \in Sender /\ Sound(snd') /\ NobodyWaits(snd')
          /\ snd'.reductions = snd.reductions
      BY <1>1, <2>2, <3>1, RetriedSynIsSound
    <3> QED BY <1>1, <3>1, <3>2, Kept
  <2> QED BY <2>1, <2>2
<1>5. CASE HandleSynAck
  <2> DEFINE t == [ObserveRTTACK(snd, 1) EXCEPT !.established = TRUE, !.oldest = 1,
                                                !.retrySyn = 0, !.armed = {}]
             s == IF snd.established THEN snd ELSE t
  <2>1. snd' = QueueSegment(s) /\ UNCHANGED <<mode, ecn>>
    BY <1>5 DEF HandleSynAck
  <2>2. s \in Sender /\ Sound(s) /\ s.reductions = snd.reductions
    BY <1>1, <1>5, EstablishedIsSound DEF HandleSynAck
  <2> HIDE DEF s
  <2>3. /\ snd' \in Sender /\ Sound(snd') /\ NobodyWaits(snd')
        /\ snd'.reductions = snd.reductions
    BY <2>1, <2>2, QueueSegmentIsSound
  <2> QED BY <1>1, <2>1, <2>3, Kept
<1>6. CASE Acknowledge
  <2>1. PICK ack \in snd.oldest .. snd.nextSend, ece \in BOOLEAN, beyond \in BOOLEAN :
          snd' = HandlePacket(snd, ack, ece, beyond)
    BY <1>6 DEF Acknowledge
  <2>2. IsOpen(snd) /\ UNCHANGED <<mode, ecn>>
    BY <1>6 DEF Acknowledge, IsOpen
  <2>3. /\ snd' \in Sender /\ Sound(snd') /\ NobodyWaits(snd')
        /\ \/ snd'.reductions = snd.reductions
           \/ snd'.reductions = snd.reductions + 1 /\ snd'.oldest >= snd.paidUntil
    BY <1>1, <2>1, <2>2, HandlePacketIsSound
  <2> QED BY <1>1, <2>2, <2>3, Kept
<1>7. CASE SendSegment
  <2> DEFINE s == Cancel(snd, "send")
  <2>1. IsOpen(snd) /\ snd.oldest # Payload + 1 /\ UNCHANGED <<mode, ecn>>
    BY <1>1, <1>2, <1>7 DEF SendSegment, Sound, DataIsTimed, NobodyWaits, IsOpen
  <2>2. /\ s \in Sender /\ Sound(s) /\ SameStream(s, snd)
        /\ s.reductions = snd.reductions
    BY <1>1, CancelIsSound
  <2>3. snd' = SendNew(s) \/ snd' = SendNew(Restarted(s))
    BY <1>7 DEF SendSegment
  <2> HIDE DEF s
  <2>4. IsOpen(s) /\ s.oldest # Payload + 1
    BY <2>1, <2>2 DEF IsOpen, SameStream
  <2>5. /\ Restarted(s) \in Sender /\ Sound(Restarted(s)) /\ SameStream(Restarted(s), s)
        /\ Restarted(s).reductions = s.reductions
    BY <1>1, <2>2, <2>4, RestartedIsSound
  <2>6. IsOpen(Restarted(s)) /\ Restarted(s).oldest # Payload + 1
    BY <2>4, <2>5 DEF IsOpen, SameStream
  <2>7. /\ snd' \in Sender /\ Sound(snd') /\ NobodyWaits(snd')
        /\ snd'.reductions = snd.reductions
    BY <2>2, <2>3, <2>4, <2>5, <2>6, SendNewIsSound
  <2> QED BY <1>1, <2>1, <2>7, Kept
<1>8. CASE RetransmitData
  <2>1. snd' = DataTimeout(snd) /\ UNCHANGED <<mode, ecn>> /\ "data" \in snd.armed
    BY <1>8 DEF RetransmitData
  <2>2. HasPending(snd)
    BY <1>1, <2>1 DEF Sound, DataIsTimed
  <2>3. IsOpen(snd)
    BY <1>1, <1>2, <2>1, <2>2 DEF Sound, HandshakeComesFirst, HasPending, IsOpen
  <2>4. /\ snd' \in Sender /\ Sound(snd') /\ NobodyWaits(snd')
        /\ snd'.reductions = snd.reductions
    BY <1>1, <2>1, <2>2, <2>3, DataTimeoutIsSound
  <2> QED BY <1>1, <2>1, <2>4, Kept
<1>9. CASE HoldEnds
  <2>1. /\ snd' = QueueSegment(Cancel(snd, "hold")) /\ UNCHANGED <<mode, ecn>>
        /\ ~snd.beyondRun
    BY <1>9 DEF HoldEnds
  <2>2. /\ Cancel(snd, "hold") \in Sender /\ Sound(Cancel(snd, "hold"))
        /\ Cancel(snd, "hold").reductions = snd.reductions
    BY <1>1, <2>1, CancelIsSound
  <2>3. /\ snd' \in Sender /\ Sound(snd') /\ NobodyWaits(snd')
        /\ snd'.reductions = snd.reductions
    BY <2>1, <2>2, QueueSegmentIsSound
  <2> QED BY <1>1, <2>1, <2>3, Kept
<1> QED BY <1>3, <1>4, <1>5, <1>6, <1>7, <1>8, <1>9 DEF Next

(* The policies and the sender around them agree in every reachable state  *)
(* (congestion_control/, loss_detection.go, congestion_adapter.go,         *)
(* ecn_sender.go), and no open stream waits for an event nobody armed.     *)
THEOREM CongestionInvariant == Spec => []IInv
<1>1. Init => IInv
  BY InitIsSound
<1>2. IInv /\ [Next]_vars => IInv'
  BY StepIsSound
<1> QED BY <1>1, <1>2, PTL DEF Spec

(* An acknowledgement reduces the window once per flight, whether the loss *)
(* shows as duplicates or as an ECE (duplicateACK, observeECNFeedback).    *)
THEOREM OneReduction == Spec => OneReductionPerFlight
<1>1. IInv /\ [Next]_vars =>
        [snd'.reductions # snd.reductions =>
           /\ snd'.reductions = snd.reductions + 1
           /\ snd'.oldest >= snd.paidUntil]_vars
  BY StepIsSound
<1> QED BY <1>1, CongestionInvariant, PTL DEF Spec, OneReductionPerFlight

HIDE CongestionAssumption

(* The places of the positions are numbers up to how many there are, and a *)
(* later position has a later place.                                       *)
LEMMA PlacesAreOrdered ==
  ASSUME NEW I, IsFiniteSet(I), I \subseteq Nat, NEW i \in I
  PROVE  /\ PlaceIn(I, i) \in 1 .. Cardinality(I)
         /\ \A j \in I : i < j => PlaceIn(I, i) < PlaceIn(I, j)
<1> DEFINE U(k) == {n \in I : n <= k}
<1>1. \A k \in I : U(k) \in SUBSET I /\ k \in U(k) /\ PlaceIn(I, k) = Cardinality(U(k))
  BY DEF PlaceIn
<1>2. \A k \in I : IsFiniteSet(U(k)) /\ Cardinality(U(k)) <= Cardinality(I)
  BY <1>1, FS_Subset
<1>3. \A k \in I : Cardinality(U(k)) \in Nat /\ Cardinality(I) \in Nat
  BY <1>2, FS_CardinalityType
<1>4. \A k \in I : Cardinality(U(k)) # 0
  BY <1>1, <1>2, FS_EmptySet
<1>5. ASSUME NEW j \in I, i < j
      PROVE  Cardinality(U(i)) < Cardinality(U(j))
  <2>0. \A m \in Nat : m <= i => m <= j /\ m # j
    BY <1>5
  <2>1. U(i) \in SUBSET (U(j) \ {j})
    BY <2>0
  <2>2. IsFiniteSet(U(j) \ {j}) /\ Cardinality(U(j) \ {j}) = Cardinality(U(j)) - 1
    BY <1>1, <1>2, FS_RemoveElement
  <2>3. Cardinality(U(i)) <= Cardinality(U(j) \ {j})
    BY <2>1, <2>2, FS_Subset
  <2> HIDE DEF U
  <2> QED BY <1>3, <2>2, <2>3
<1>6. Cardinality(U(i)) \in 1 .. Cardinality(I)
  <2> HIDE DEF U
  <2> QED BY <1>2, <1>3, <1>4
<1> HIDE DEF U
<1> QED BY <1>1, <1>5, <1>6

(* Every place up to the number of positions is taken, by exactly one.     *)
LEMMA EveryPlaceIsTaken ==
  ASSUME NEW I, IsFiniteSet(I), I \subseteq Nat
  PROVE  /\ Cardinality(I) \in Nat
         /\ \A i, j \in I : PlaceIn(I, i) = PlaceIn(I, j) => i = j
         /\ \A k \in 1 .. Cardinality(I) : \E i \in I : PlaceIn(I, i) = k
<1> DEFINE n == Cardinality(I)
           f == [i \in I |-> PlaceIn(I, i)]
           T == {f[i] : i \in I}
<1>1. n \in Nat
  BY FS_CardinalityType
<1>2. \A i \in I : PlaceIn(I, i) \in 1 .. n
  BY PlacesAreOrdered
<1>3. ASSUME NEW i \in I, NEW j \in I, PlaceIn(I, i) = PlaceIn(I, j)
      PROVE  i = j
  <2>1. ~(i < j)
    <3>1. i < j => PlaceIn(I, i) < PlaceIn(I, j)
      BY PlacesAreOrdered
    <3>2. PlaceIn(I, i) \in Nat
      BY <1>1, <1>2
    <3> QED BY <1>3, <3>1, <3>2
  <2>2. ~(j < i)
    <3>1. j < i => PlaceIn(I, j) < PlaceIn(I, i)
      BY PlacesAreOrdered
    <3>2. PlaceIn(I, i) \in Nat
      BY <1>1, <1>2
    <3> QED BY <1>3, <3>1, <3>2
  <2>3. i \in Nat /\ j \in Nat
    OBVIOUS
  <2> QED BY <2>1, <2>2, <2>3
<1>4. f \in Bijection(I, T)
  <2>1. f \in [I -> T] /\ \A t \in T : \E i \in I : f[i] = t
    OBVIOUS
  <2>2. \A i, j \in I : f[i] = f[j] => i = j
    BY <1>3
  <2>3. DOMAIN f = I
    OBVIOUS
  <2> HIDE DEF T, f
  <2> QED BY <2>1, <2>2, <2>3 DEF Bijection, Injection, Surjection, IsInjective
<1>5. IsFiniteSet(T) /\ Cardinality(T) = n
  BY <1>4, FS_Bijection DEF ExistsBijection
<1>6. T \in SUBSET (1 .. n)
  BY <1>2
<1>7. IsFiniteSet(1 .. n) /\ Cardinality(1 .. n) = n
  BY <1>1, FS_Interval
<1>8. T = 1 .. n
  BY <1>5, <1>6, <1>7, FS_Subset
<1>9. \A k \in 1 .. n : \E i \in I : PlaceIn(I, i) = k
  BY <1>8
<1> HIDE DEF n, f, T
<1> QED BY <1>1, <1>3, <1>9 DEF n

(* e holds the elements of s at the positions I, once each.                *)
Selected(s, I, e) ==
  /\ Len(e) = Cardinality(I) /\ Cardinality(I) \in Nat /\ Cardinality(I) <= Len(s)
  /\ \A i \in I : PlaceIn(I, i) \in 1 .. Len(e) /\ e[PlaceIn(I, i)] = s[i]
  /\ \A k \in 1 .. Len(e) : \E i \in I : PlaceIn(I, i) = k /\ e[k] = s[i]

(* ElementsAt selects.                                                     *)
LEMMA Selects ==
  ASSUME NEW S, NEW s \in Seq(S), NEW I \in SUBSET DOMAIN s
  PROVE  ElementsAt(s, I) \in Seq(S) /\ Selected(s, I, ElementsAt(s, I))
<1> DEFINE n == Cardinality(I)
           e == ElementsAt(s, I)
<1>1. DOMAIN s = 1 .. Len(s) /\ Len(s) \in Nat
  OBVIOUS
<1>2. IsFiniteSet(1 .. Len(s)) /\ Cardinality(1 .. Len(s)) = Len(s)
  <2>1. PICK m \in Nat : m = Len(s)
    BY <1>1
  <2>2. IsFiniteSet(1 .. m) /\ Cardinality(1 .. m) = m
    BY FS_Interval
  <2> QED BY <2>1, <2>2
<1>3. IsFiniteSet(I) /\ n <= Len(s) /\ I \subseteq Nat
  BY <1>1, <1>2, FS_Subset
<1>4. /\ n \in Nat
      /\ \A i, j \in I : PlaceIn(I, i) = PlaceIn(I, j) => i = j
      /\ \A k \in 1 .. n : \E i \in I : PlaceIn(I, i) = k
  BY <1>3, EveryPlaceIsTaken
<1>5. ASSUME NEW i \in I
      PROVE  PlaceIn(I, i) \in 1 .. n /\ e[PlaceIn(I, i)] = s[i]
  <2>1. PlaceIn(I, i) \in 1 .. n
    BY <1>3, PlacesAreOrdered
  <2>2. AtPlace(I, PlaceIn(I, i)) = {i}
    BY <1>4 DEF AtPlace
  <2>3. (CHOOSE j \in AtPlace(I, PlaceIn(I, i)) : TRUE) = i
    BY <2>2
  <2> QED BY <2>1, <2>3 DEF ElementsAt
<1>6. e = [k \in 1 .. n |-> e[k]]
  BY DEF ElementsAt
<1>7. \A k \in 1 .. n : \E i \in I : PlaceIn(I, i) = k /\ e[k] = s[i]
  BY <1>4, <1>5
<1>8. \A k \in 1 .. n : e[k] \in S
  <2>1. \A i \in I : s[i] \in S
    BY <1>1
  <2> HIDE DEF e, n
  <2> QED BY <1>7, <2>1
<1>9. e \in Seq(S) /\ Len(e) = n
  <2> HIDE DEF e, n
  <2>1. e \in [1 .. n -> S]
    BY <1>6, <1>8
  <2>2. e \in Seq(S)
    BY <1>4, <2>1
  <2>3. DOMAIN e = 1 .. n
    BY <2>1
  <2> QED BY <1>4, <2>2, <2>3, LenProperties
<1> HIDE DEF e, n
<1> QED BY <1>3, <1>4, <1>5, <1>7, <1>9 DEF Selected, e, n

-----------------------------------------------------------------------------

(* A nonempty set of numbers has a least element, and if it is bounded a   *)
(* greatest one.                                                           *)
LEMMA LeastOf ==
  ASSUME NEW T \in SUBSET Nat, T # {}
  PROVE  \E x \in T : \A y \in T : x <= y
<1>1. PICK x \in T : \A y \in T : ~(<<y, x>> \in OpToRel(<, Nat))
  BY NatLessThanWellFounded, WFMin
<1>2. \A y \in T : ~(y < x)
  BY <1>1 DEF OpToRel
<1> QED BY <1>2

(* A finite set of numbers has a greatest one.                             *)
LEMMA GreatestOf ==
  ASSUME NEW T \in SUBSET Nat, T # {}, NEW n \in Nat, \A x \in T : x <= n
  PROVE  \E x \in T : \A y \in T : y <= x
<1> DEFINE U == {n - x : x \in T}
<1>1. U \in SUBSET Nat /\ U # {}
  <2>1. \A x \in T : n - x \in Nat
    OBVIOUS
  <2> QED BY <2>1
<1>2. PICK u \in U : \A v \in U : u <= v
  BY <1>1, LeastOf
<1>3. PICK x \in T : u = n - x
  BY <1>2
<1>4. ASSUME NEW y \in T PROVE y <= x
  <2>1. n - y \in U
    OBVIOUS
  <2>2. u <= n - y
    BY <1>2, <2>1
  <2>3. x \in Nat /\ y \in Nat
    OBVIOUS
  <2> HIDE DEF U
  <2> QED BY <1>3, <2>2, <2>3
<1> QED BY <1>4

(* A set of positions that with each holds those before it, down to a + 1, *)
(* is an interval.                                                         *)
LEMMA IntervalFrom ==
  ASSUME NEW a \in Nat, NEW n \in Nat, NEW I \in SUBSET (a + 1 .. n),
         \A i \in I : \A j \in a + 1 .. i : j \in I
  PROVE  /\ Cardinality(I) \in Nat
         /\ I = a + 1 .. a + Cardinality(I)
         /\ I # {} => a + Cardinality(I) <= n
<1> DEFINE T == {m \in Nat : m > a /\ m \notin I}
<1>1. T \in SUBSET Nat /\ T # {}
  <2>1. CASE n >= a
    BY <2>1
  <2>2. CASE n < a
    BY <2>2
  <2> QED BY <2>1, <2>2
<1>2. PICK m \in T : \A k \in T : m <= k
  BY <1>1, LeastOf
<1>3. I = a + 1 .. m - 1
  <2>1. ASSUME NEW i \in a + 1 .. m - 1 PROVE i \in I
    <3>1. i \in Nat /\ i > a /\ i < m
      BY <1>2
    <3> QED BY <1>2, <3>1
  <2>2. ASSUME NEW i \in I PROVE i \in a + 1 .. m - 1
    <3>1. i \in Nat /\ i >= a + 1
      OBVIOUS
    <3>2. m \in a + 1 .. i => m \in I
      OBVIOUS
    <3> QED BY <1>2, <3>1, <3>2
  <2> QED BY <2>1, <2>2
<1>4. m \in Nat /\ m >= a + 1
  BY <1>2
<1> HIDE DEF T
<1>5. PICK b, c \in Int : b = a + 1 /\ c = m - 1
  BY <1>4
<1>6. Cardinality(b .. c) = IF b > c THEN 0 ELSE c - b + 1
  BY FS_Interval
<1>7. Cardinality(I) = m - 1 - a
  BY <1>3, <1>4, <1>5, <1>6
<1>8. I # {} => m - 1 \in I
  BY <1>3, <1>4
<1> QED BY <1>3, <1>4, <1>7, <1>8

-----------------------------------------------------------------------------
(* The scoreboard.                                                         *)

Blocks == [start : Nat, end : Nat]

(* Sorted and merged: between two blocks there is something unreported.    *)
Separate(board) ==
  /\ board \in Seq(Blocks)
  /\ \A i \in 1 .. Len(board) : board[i].start < board[i].end
  /\ \A i, j \in 1 .. Len(board) : i < j => board[i].end < board[j].start

Covers(board, p) == \E i \in 1 .. Len(board) : board[i].start <= p /\ p < board[i].end

(* The bytes of a board, block by block.                                   *)
LEMMA BytesOfBoard ==
  ASSUME NEW board \in Seq(Blocks)
  PROVE  /\ BytesOf(board) \subseteq Nat
         /\ \A p \in Int : p \in BytesOf(board) <=> Covers(board, p)
<1>1. DOMAIN board = 1 .. Len(board)
  OBVIOUS
<1>2. \A i \in 1 .. Len(board) : board[i].start \in Nat /\ board[i].end \in Nat
  <2>1. \A i \in 1 .. Len(board) : board[i] \in Blocks
    OBVIOUS
  <2> QED BY <2>1 DEF Blocks
<1>3. \A p : p \in BytesOf(board) <=> \E i \in 1 .. Len(board) : p \in board[i].start .. board[i].end - 1
  BY <1>1 DEF BytesOf, BytesIn, Bytes
<1>4. ASSUME NEW p \in BytesOf(board) PROVE p \in Nat
  <2>1. PICK i \in 1 .. Len(board) : p \in board[i].start .. board[i].end - 1
    BY <1>3
  <2> QED BY <1>2, <2>1
<1>5. ASSUME NEW p \in Int PROVE p \in BytesOf(board) <=> Covers(board, p)
  <2>1. \A i \in 1 .. Len(board) :
          p \in board[i].start .. board[i].end - 1 <=> board[i].start <= p /\ p < board[i].end
    BY <1>2
  <2> QED BY <1>3, <2>1 DEF Covers
<1> QED BY <1>4, <1>5

IsSpliced(r, board, g, first, last) ==
  r = SubSeq(board, 1, first) \o <<g>> \o SubSeq(board, last + 1, Len(board))

Replaces(r, board, g, first, last) ==
  /\ r \in Seq(Blocks)
  /\ Len(r) = Len(board) - (last - first) + 1
  /\ \A i \in 1 .. Len(r) :
       r[i] = IF i <= first THEN board[i] ELSE IF i = first + 1 THEN g
              ELSE board[i - 1 - first + last]

(* A block in the place of those after first, up to last.                  *)
LEMMA Spliced ==
  ASSUME NEW board \in Seq(Blocks), NEW g \in Blocks,
         NEW first \in 0 .. Len(board), NEW last \in first .. Len(board),
         NEW r, IsSpliced(r, board, g, first, last)
  PROVE  Replaces(r, board, g, first, last)
<1> DEFINE n == Len(board)
           a == SubSeq(board, 1, first)
           c == SubSeq(board, last + 1, n)
<1>1. n \in Nat /\ first \in Nat /\ last \in Nat /\ first <= last /\ last <= n
  OBVIOUS
<1>2. a \in Seq(Blocks) /\ Len(a) = first /\ \A i \in 1 .. first : a[i] = board[i]
  BY <1>1
<1>3. c \in Seq(Blocks) /\ Len(c) = n - last /\ \A i \in 1 .. n - last : c[i] = board[last + i]
  BY <1>1
<1> HIDE DEF a, c, n
<1>4. PICK b : b = a \o <<g>>
  OBVIOUS
<1>5. /\ b \in Seq(Blocks) /\ Len(b) = first + 1
      /\ \A i \in 1 .. first + 1 : b[i] = IF i <= first THEN board[i] ELSE g
  BY <1>1, <1>2, <1>4
<1>6. r = b \o c
  BY <1>4 DEF a, c, n, IsSpliced
<1>7. /\ r \in Seq(Blocks) /\ Len(r) = n - (last - first) + 1
      /\ \A i \in 1 .. Len(r) : r[i] = IF i <= first + 1 THEN b[i] ELSE c[i - first - 1]
  <2>1. /\ r \in Seq(Blocks) /\ Len(r) = Len(b) + Len(c)
        /\ \A i \in 1 .. Len(b) + Len(c) : r[i] = IF i <= Len(b) THEN b[i] ELSE c[i - Len(b)]
    BY <1>3, <1>5, <1>6, ConcatProperties
  <2>2. Len(b) + Len(c) = n - (last - first) + 1
    BY <1>1, <1>3, <1>5
  <2>3. \A i \in Int : i - (first + 1) = i - first - 1
    BY <1>1
  <2> QED BY <1>1, <1>5, <2>1, <2>2, <2>3
<1>8. ASSUME NEW i \in 1 .. Len(r)
      PROVE  r[i] = IF i <= first THEN board[i] ELSE IF i = first + 1 THEN g
                    ELSE board[i - 1 - first + last]
  <2>1. CASE i <= first + 1
    BY <1>1, <1>5, <1>7, <2>1
  <2>2. CASE i > first + 1
    <3>1. i - first - 1 \in 1 .. n - last /\ last + (i - first - 1) = i - 1 - first + last
      BY <1>1, <1>7, <2>2
    <3>2. r[i] = c[i - first - 1]
      BY <1>1, <1>7, <2>2
    <3> QED BY <1>1, <1>3, <2>2, <3>1, <3>2
  <2>3. i \in Nat /\ first \in Nat
    BY <1>1
  <2> QED BY <2>1, <2>2, <2>3
<1> QED BY <1>7, <1>8 DEF n, Replaces

(* The board stays separate when the block is apart from what remains, and *)
(* then covers the block and what remains.                                 *)
LEMMA SplicedIsSeparate ==
  ASSUME NEW board, Separate(board), NEW g \in Blocks, g.start < g.end,
         NEW first \in 0 .. Len(board), NEW last \in first .. Len(board),
         \A i \in 1 .. first : board[i].end < g.start,
         \A i \in last + 1 .. Len(board) : g.end < board[i].start,
         NEW r, IsSpliced(r, board, g, first, last)
  PROVE  /\ Separate(r)
         /\ \A p \in Int :
              Covers(r, p) <=> \/ g.start <= p /\ p < g.end
                               \/ \E i \in 1 .. Len(board) :
                                    /\ i <= first \/ i > last
                                    /\ board[i].start <= p /\ p < board[i].end
<1> DEFINE n == Len(board)
           back(i) == IF i <= first THEN i ELSE i - 1 - first + last
           forth(i) == IF i <= first THEN i ELSE i + 1 + first - last
<1>0. board \in Seq(Blocks) /\ n \in Nat /\ first \in Nat /\ last \in Nat /\ first <= last /\ last <= n
  BY DEF Separate
<1>2. /\ r \in Seq(Blocks)
      /\ Len(r) = n - (last - first) + 1
      /\ \A i \in 1 .. Len(r) :
           r[i] = IF i <= first THEN board[i] ELSE IF i = first + 1 THEN g
                  ELSE board[i - 1 - first + last]
  BY <1>0, Spliced DEF Replaces
<1>3. \A i \in 1 .. Len(r) : i # first + 1 =>
        /\ back(i) \in 1 .. n /\ r[i] = board[back(i)]
        /\ (i <= first => back(i) <= first) /\ (i > first + 1 => back(i) > last)
  <2>1. ASSUME NEW i \in 1 .. Len(r), i <= first
        PROVE  back(i) = i /\ i \in 1 .. n /\ r[i] = board[i] /\ ~(i > first + 1)
    BY <1>0, <1>2, <2>1
  <2>2. ASSUME NEW i \in 1 .. Len(r), i > first + 1
        PROVE  back(i) \in 1 .. n /\ r[i] = board[back(i)] /\ back(i) > last /\ ~(i <= first)
    BY <1>0, <1>2, <2>2
  <2>3. \A i \in 1 .. Len(r) : i # first + 1 => i <= first \/ i > first + 1
    BY <1>0, <1>2
  <2> HIDE DEF back
  <2> QED BY <2>1, <2>2, <2>3
<1>4. \A i, j \in 1 .. Len(r) : i # first + 1 /\ j # first + 1 /\ i < j => back(i) < back(j)
  BY <1>0, <1>2
<1>5. \A i \in 1 .. n : i <= first \/ i > last =>
        forth(i) \in 1 .. Len(r) /\ forth(i) # first + 1 /\ r[forth(i)] = board[i]
  BY <1>0, <1>2
<1>6. first + 1 \in 1 .. Len(r) /\ r[first + 1] = g
  BY <1>0, <1>2
<1>7. Len(r) \in Nat
  BY <1>2
<1> HIDE DEF n, back, forth
<1>8. \A i \in 1 .. Len(r) : r[i].start < r[i].end
  BY <1>3, <1>6 DEF Separate, n
<1>9. ASSUME NEW i \in 1 .. Len(r), NEW j \in 1 .. Len(r), i < j
      PROVE  r[i].end < r[j].start
  <2>1. CASE i = first + 1
    <3>1. back(j) \in last + 1 .. n /\ r[j] = board[back(j)]
      BY <1>0, <1>3, <1>9, <2>1
    <3> QED BY <1>6, <2>1, <3>1 DEF n
  <2>2. CASE j = first + 1
    <3>1. back(i) \in 1 .. first /\ r[i] = board[back(i)]
      BY <1>0, <1>3, <1>9, <2>2
    <3> QED BY <1>6, <2>2, <3>1
  <2>3. CASE i # first + 1 /\ j # first + 1
    BY <1>3, <1>4, <1>9, <2>3 DEF Separate, n
  <2> QED BY <2>1, <2>2, <2>3
<1>10. ASSUME NEW p \in Int
       PROVE  Covers(r, p) <=> \/ g.start <= p /\ p < g.end
                               \/ \E i \in 1 .. Len(board) :
                                    /\ i <= first \/ i > last
                                    /\ board[i].start <= p /\ p < board[i].end
  <2>1. ASSUME Covers(r, p)
        PROVE  \/ g.start <= p /\ p < g.end
               \/ \E i \in 1 .. Len(board) : /\ i <= first \/ i > last
                                             /\ board[i].start <= p /\ p < board[i].end
    <3>1. PICK k \in 1 .. Len(r) : r[k].start <= p /\ p < r[k].end
      BY <2>1 DEF Covers
    <3>2. CASE k = first + 1
      BY <1>6, <3>1, <3>2
    <3>3. CASE k # first + 1
      <4>1. k <= first \/ k > first + 1
        BY <1>0, <1>7, <3>3
      <4>2. back(k) \in 1 .. n /\ r[k] = board[back(k)] /\ (back(k) <= first \/ back(k) > last)
        BY <1>3, <3>3, <4>1
      <4> QED BY <3>1, <4>2 DEF n
    <3> QED BY <3>2, <3>3
  <2>2. ASSUME g.start <= p /\ p < g.end PROVE Covers(r, p)
    BY <1>6, <2>2 DEF Covers
  <2>3. ASSUME NEW i \in 1 .. Len(board), i <= first \/ i > last,
               board[i].start <= p /\ p < board[i].end
        PROVE  Covers(r, p)
    <3>1. forth(i) \in 1 .. Len(r) /\ r[forth(i)] = board[i]
      BY <1>5, <2>3 DEF n
    <3> QED BY <2>3, <3>1 DEF Covers
  <2> QED BY <2>1, <2>2, <2>3
<1> QED BY <1>2, <1>8, <1>9, <1>10 DEF Separate

(* The blocks that end before a position come first.                       *)
LEMMA FirstBlocks ==
  ASSUME NEW board, Separate(board), NEW x \in Nat
  PROVE  LET n == Cardinality({i \in DOMAIN board : board[i].end < x})
         IN  /\ n \in 0 .. Len(board)
             /\ \A i \in 1 .. Len(board) : i <= n <=> board[i].end < x
<1> DEFINE I == {i \in DOMAIN board : board[i].end < x}
           n == Cardinality(I)
<1>1. board \in Seq(Blocks) /\ Len(board) \in Nat /\ DOMAIN board = 1 .. Len(board)
  BY DEF Separate
<1>2. \A i \in 1 .. Len(board) : board[i].start \in Nat /\ board[i].end \in Nat
  <2>1. \A i \in 1 .. Len(board) : board[i] \in Blocks
    BY <1>1
  <2> QED BY <2>1 DEF Blocks
<1>3. I \in SUBSET (0 + 1 .. Len(board))
  BY <1>1
<1>4. \A i \in I : \A j \in 0 + 1 .. i : j \in I
  <2>1. SUFFICES ASSUME NEW i \in I, NEW j \in 0 + 1 .. i PROVE j \in I
    OBVIOUS
  <2>2. i \in 1 .. Len(board) /\ j \in 1 .. Len(board) /\ j <= i /\ board[i].end < x
    BY <1>1
  <2>3. CASE j = i
    BY <2>3
  <2>4. CASE j < i
    <3>1. board[j].end < board[i].start /\ board[i].start < board[i].end
      BY <2>2, <2>4 DEF Separate
    <3>2. board[j].end < x
      BY <1>2, <2>2, <3>1
    <3> QED BY <1>1, <2>2, <3>2
  <2> QED BY <2>2, <2>3, <2>4
<1> HIDE DEF I
<1>5. n \in Nat /\ I = 0 + 1 .. 0 + n /\ (I # {} => 0 + n <= Len(board))
  BY <1>1, <1>3, <1>4, IntervalFrom
<1>6. n \in 0 .. Len(board)
  <2>1. I = {} => n = 0
    BY FS_EmptySet
  <2> QED BY <1>1, <1>5, <2>1
<1>7. \A i \in 1 .. Len(board) : i <= n <=> i \in I
  BY <1>5
<1> QED BY <1>1, <1>6, <1>7 DEF I

(* What insert does: it puts g in the place of the blocks that touch the   *)
(* incoming one.                                                           *)
Joins(board, incoming, g, first, last) ==
  /\ first \in 0 .. Len(board) /\ last \in first .. Len(board) /\ g \in Blocks
  /\ \A i \in 1 .. first : board[i].end < incoming.start
  /\ \A i \in first + 1 .. last : board[i].end >= incoming.start /\ board[i].start <= incoming.end
  /\ \A i \in last + 1 .. Len(board) : board[i].start > incoming.end
  /\ first = last => g = incoming
  /\ first < last => /\ g.start = Lower(incoming.start, board[first + 1].start)
                     /\ g.end = Higher(incoming.end, board[last].end)

(* What Insert joins: a block before, blocks that touch one another, and   *)
(* those after.                                                            *)
LEMMA InsertJoins ==
  ASSUME NEW board, Separate(board), NEW incoming \in Blocks
  PROVE  \E g, first, last : /\ Joins(board, incoming, g, first, last)
                             /\ IsSpliced(Insert(board, incoming), board, g, first, last)
<1> DEFINE n == Len(board)
           first == Cardinality({i \in DOMAIN board : board[i].end < incoming.start})
           ends(k) == {incoming.end} \cup {board[j].end : j \in first + 1 .. k}
           GrownTo(k) == CHOOSE e \in ends(k) : \A f \in ends(k) : f <= e
           joined == {i \in first + 1 .. n : \A j \in first + 1 .. i : board[j].start <= GrownTo(j - 1)}
           last == first + Cardinality(joined)
           start == IF joined = {} THEN incoming.start
                    ELSE Lower(incoming.start, board[first + 1].start)
           M(k) == IF k = first THEN incoming.end ELSE Higher(incoming.end, board[k].end)
           g == Block(start, GrownTo(last))
<1>1. board \in Seq(Blocks) /\ n \in Nat
  BY DEF Separate
<1>2. \A i \in 1 .. n : board[i].start \in Nat /\ board[i].end \in Nat
  <2>1. \A i \in 1 .. n : board[i] \in Blocks
    BY <1>1
  <2> QED BY <2>1 DEF Blocks
<1>3. incoming.start \in Nat /\ incoming.end \in Nat
  BY DEF Blocks
<1>4. first \in 0 .. n /\ \A i \in 1 .. n : i <= first <=> board[i].end < incoming.start
  BY <1>3, FirstBlocks
<1>5. \A i, j \in 1 .. n : i < j => board[i].end < board[j].start
  BY DEF Separate
<1>6. \A i, j \in 1 .. n : i <= j => board[i].start <= board[j].start /\ board[i].end <= board[j].end
  <2>1. \A i \in 1 .. n : board[i].start < board[i].end
    BY DEF Separate
  <2>2. \A i, j \in 1 .. n : i <= j => i < j \/ i = j
    BY <1>1
  <2> QED BY <1>2, <1>5, <2>1, <2>2
<1>a. Insert(board, incoming) = SubSeq(board, 1, first) \o <<g>> \o SubSeq(board, last + 1, n)
  BY DEF Insert
<1> HIDE DEF first, n
<1>7. ASSUME NEW k \in first .. n PROVE GrownTo(k) = M(k)
  <2>1. M(k) \in ends(k)
    BY <1>1, <1>4, <1>7 DEF Higher
  <2>2. ASSUME NEW f \in ends(k) PROVE f <= M(k)
    <3>1. CASE f = incoming.end
      <4>1. k # first => k \in 1 .. n
        BY <1>1, <1>4, <1>7
      <4> QED BY <1>2, <1>3, <3>1, <4>1 DEF Higher
    <3>2. CASE f # incoming.end
      <4>1. PICK j \in first + 1 .. k : f = board[j].end
        BY <2>2, <3>2
      <4>2. j \in 1 .. n /\ k \in 1 .. n /\ j <= k /\ k # first
        BY <1>1, <1>4, <1>7
      <4>3. board[j].end <= board[k].end
        BY <1>6, <4>2
      <4> QED BY <1>2, <1>3, <4>1, <4>2, <4>3 DEF Higher
    <3> QED BY <3>1, <3>2
  <2>3. \A f \in ends(k) : f \in Nat
    BY <1>1, <1>2, <1>3, <1>4, <1>7
  <2> HIDE DEF ends, M
  <2>4. ASSUME NEW e \in ends(k), \A f \in ends(k) : f <= e PROVE e = M(k)
    BY <2>1, <2>2, <2>3, <2>4
  <2> QED BY <2>1, <2>2, <2>4
<1>8. joined = {i \in first + 1 .. n : board[i].start <= incoming.end}
  <2>1. ASSUME NEW i \in joined PROVE board[i].start <= incoming.end
    <3>1. i \in first + 1 .. n /\ i \in 1 .. n /\ i \in first + 1 .. i /\ i - 1 \in first .. n
      BY <1>1, <1>4
    <3>2. board[i].start <= M(i - 1)
      BY <1>7, <3>1
    <3>3. CASE i - 1 = first
      BY <3>2, <3>3
    <3>4. CASE i - 1 # first
      <4>1. i - 1 \in 1 .. n /\ i - 1 < i
        BY <1>4, <3>1, <3>4
      <4>2. board[i - 1].end < board[i].start
        BY <1>5, <3>1, <4>1
      <4> QED BY <1>2, <1>3, <3>1, <3>2, <3>4, <4>1, <4>2 DEF Higher
    <3> QED BY <3>3, <3>4
  <2>2. ASSUME NEW i \in first + 1 .. n, board[i].start <= incoming.end PROVE i \in joined
    <3>1. SUFFICES ASSUME NEW j \in first + 1 .. i PROVE board[j].start <= GrownTo(j - 1)
      OBVIOUS
    <3>2. j \in 1 .. n /\ i \in 1 .. n /\ j <= i /\ j - 1 \in first .. n
      BY <1>1, <1>4
    <3>3. board[j].start <= incoming.end
      BY <1>2, <1>3, <1>6, <2>2, <3>2
    <3>4. incoming.end <= M(j - 1)
      <4>1. j - 1 # first => j - 1 \in 1 .. n
        BY <1>4, <3>2
      <4> QED BY <1>2, <1>3, <4>1 DEF Higher
    <3>5. M(j - 1) \in Nat
      <4>1. j - 1 # first => j - 1 \in 1 .. n
        BY <1>4, <3>2
      <4> QED BY <1>2, <1>3, <4>1 DEF Higher
    <3>6. GrownTo(j - 1) = M(j - 1)
      BY <1>7, <3>2
    <3>7. board[j].start \in Nat
      BY <1>2, <3>2
    <3> HIDE DEF GrownTo, M
    <3> QED BY <1>3, <3>3, <3>4, <3>5, <3>6, <3>7
  <2> QED BY <2>1, <2>2
<1> HIDE DEF GrownTo, joined
<1>9. Cardinality(joined) \in Nat /\ joined = first + 1 .. last /\ (joined # {} => last <= n)
  <2>1. joined \in SUBSET (first + 1 .. n) /\ first \in Nat
    BY <1>1, <1>4, <1>8
  <2>2. \A i \in joined : \A j \in first + 1 .. i : j \in joined
    <3>1. SUFFICES ASSUME NEW i \in joined, NEW j \in first + 1 .. i PROVE j \in joined
      OBVIOUS
    <3>2. j \in 1 .. n /\ i \in 1 .. n /\ j <= i /\ j \in first + 1 .. n
      BY <1>1, <1>4, <2>1
    <3> QED BY <1>2, <1>3, <1>6, <1>8, <3>2
  <2> QED BY <1>1, <2>1, <2>2, IntervalFrom
<1>10. last \in first .. n
  <2>1. joined = {} => Cardinality(joined) = 0
    BY FS_EmptySet
  <2> QED BY <1>1, <1>4, <1>9, <2>1
<1>11. GrownTo(last) = M(last)
  BY <1>7, <1>10
<1>b. joined = {} <=> first = last
  <2>1. joined = {} => Cardinality(joined) = 0
    BY FS_EmptySet
  <2>2. first = last => joined = {}
    <3>1. first = last => joined = first + 1 .. first
      BY <1>9
    <3>2. first \in Nat
      BY <1>1, <1>4
    <3> QED BY <3>1, <3>2
  <2>3. first \in Nat
    BY <1>1, <1>4
  <2> QED BY <2>1, <2>2, <2>3
<1> HIDE DEF last
<1>12. g \in Blocks /\ (first = last => g = incoming)
       /\ (first < last => /\ g.start = Lower(incoming.start, board[first + 1].start)
                           /\ g.end = Higher(incoming.end, board[last].end))
  <2>1. CASE first = last
    <3>1. g = Block(incoming.start, incoming.end)
      BY <1>11, <1>b, <2>1
    <3>2. incoming = [start |-> incoming.start, end |-> incoming.end]
      BY DEF Blocks
    <3>3. g = incoming
      BY <3>1, <3>2 DEF Block
    <3> QED BY <1>1, <1>4, <2>1, <3>3
  <2>2. CASE first # last
    <3>1. g = Block(Lower(incoming.start, board[first + 1].start), Higher(incoming.end, board[last].end))
      BY <1>11, <1>b, <2>2
    <3>2. first + 1 \in 1 .. n /\ last \in 1 .. n
      BY <1>1, <1>4, <1>10, <2>2
    <3>3. /\ Lower(incoming.start, board[first + 1].start) \in Nat
          /\ Higher(incoming.end, board[last].end) \in Nat
      BY <1>2, <1>3, <3>2 DEF Lower, Higher
    <3> HIDE DEF g
    <3> QED BY <2>2, <3>1, <3>3 DEF Block, Blocks
  <2> QED BY <2>1, <2>2
<1> HIDE DEF g
<1>13. \A i \in 1 .. first : board[i].end < incoming.start
  BY <1>1, <1>4
<1>14. \A i \in first + 1 .. last : board[i].end >= incoming.start /\ board[i].start <= incoming.end
  <2>1. SUFFICES ASSUME NEW i \in first + 1 .. last
                 PROVE  board[i].end >= incoming.start /\ board[i].start <= incoming.end
    OBVIOUS
  <2>2. i \in 1 .. n /\ ~(i <= first) /\ i \in joined
    BY <1>1, <1>4, <1>9, <1>10
  <2>3. ~(board[i].end < incoming.start)
    BY <1>4, <2>2
  <2> QED BY <1>2, <1>3, <1>8, <2>2, <2>3
<1>15. \A i \in last + 1 .. n : board[i].start > incoming.end
  <2>1. SUFFICES ASSUME NEW i \in last + 1 .. n PROVE board[i].start > incoming.end
    OBVIOUS
  <2>2. i \in 1 .. n /\ i \in first + 1 .. n /\ i \notin joined
    BY <1>1, <1>4, <1>9, <1>10
  <2> QED BY <1>2, <1>3, <1>8, <2>2
<1>16. Joins(board, incoming, g, first, last)
  BY <1>4, <1>10, <1>12, <1>13, <1>14, <1>15 DEF Joins, n
<1>17. IsSpliced(Insert(board, incoming), board, g, first, last)
  BY <1>a DEF IsSpliced, g, n, last, joined, GrownTo
<1> QED BY <1>16, <1>17

(* insert keeps the board separate and adds the block to what it covers.   *)
LEMMA InsertIsSound ==
  ASSUME NEW board, Separate(board), NEW incoming \in Blocks, incoming.start < incoming.end
  PROVE  /\ Separate(Insert(board, incoming))
         /\ \A p \in Int : Covers(Insert(board, incoming), p) <=>
                             Covers(board, p) \/ (incoming.start <= p /\ p < incoming.end)
<1> DEFINE n == Len(board)
<1>1. PICK g, first, last : /\ Joins(board, incoming, g, first, last)
                            /\ IsSpliced(Insert(board, incoming), board, g, first, last)
  BY InsertJoins
<1>2. PICK r : r = Insert(board, incoming)
  OBVIOUS
<1>3. /\ first \in 0 .. n /\ last \in first .. n /\ n \in Nat
      /\ g \in Blocks /\ g.start \in Nat /\ g.end \in Nat
      /\ incoming.start \in Nat /\ incoming.end \in Nat
  BY <1>1 DEF Joins, Blocks, Separate
<1>4. \A i \in 1 .. n : board[i].start \in Nat /\ board[i].end \in Nat /\ board[i].start < board[i].end
  <2>1. \A i \in 1 .. n : board[i] \in Blocks /\ board[i].start < board[i].end
    BY DEF Separate
  <2> QED BY <2>1 DEF Blocks
<1>5. \A i, j \in 1 .. n : i < j => board[i].end < board[j].start
  BY DEF Separate
<1>6. \A i \in 1 .. first : board[i].end < incoming.start
  BY <1>1 DEF Joins
<1>7. \A i \in first + 1 .. last : board[i].end >= incoming.start /\ board[i].start <= incoming.end
  BY <1>1 DEF Joins
<1>8. \A i \in last + 1 .. n : board[i].start > incoming.end
  BY <1>1 DEF Joins
<1>9. first = last => g = incoming
  BY <1>1 DEF Joins
<1>10. first < last => /\ g.start = Lower(incoming.start, board[first + 1].start)
                       /\ g.end = Higher(incoming.end, board[last].end)
                       /\ first + 1 \in 1 .. n /\ last \in 1 .. n
                       /\ first + 1 \in first + 1 .. last /\ last \in first + 1 .. last
  BY <1>1, <1>3 DEF Joins
<1>a. first = last \/ first < last
  BY <1>3
<1> HIDE DEF n
<1>11. g.start <= incoming.start /\ incoming.end <= g.end /\ g.start < g.end
  <2>1. CASE first = last
    BY <1>3, <1>9, <2>1
  <2>2. CASE first < last
    BY <1>3, <1>4, <1>10, <2>2 DEF Lower, Higher
  <2> QED BY <1>a, <2>1, <2>2
<1>12. ASSUME NEW i \in 1 .. first PROVE board[i].end < g.start
  <2>1. i \in 1 .. n
    BY <1>3
  <2>2. CASE first = last
    BY <1>6, <1>9, <2>2
  <2>3. CASE first < last
    <3>1. i < first + 1
      BY <1>3
    <3>2. board[i].end < board[first + 1].start
      BY <1>5, <1>10, <2>1, <2>3, <3>1
    <3> QED BY <1>6, <1>10, <2>3, <3>2 DEF Lower
  <2> QED BY <1>a, <2>2, <2>3
<1>13. ASSUME NEW i \in last + 1 .. n PROVE g.end < board[i].start
  <2>1. i \in 1 .. n /\ last < i
    BY <1>3
  <2>2. CASE first = last
    BY <1>3, <1>4, <1>8, <1>9, <2>1, <2>2
  <2>3. CASE first < last
    <3>2. board[last].end < board[i].start
      BY <1>5, <1>10, <2>1, <2>3
    <3> QED BY <1>3, <1>4, <1>8, <1>10, <2>1, <2>3, <3>2 DEF Higher
  <2> QED BY <1>a, <2>2, <2>3
<1>14. /\ Separate(r)
       /\ \A p \in Int :
            Covers(r, p) <=> \/ g.start <= p /\ p < g.end
                             \/ \E i \in 1 .. Len(board) :
                                  /\ i <= first \/ i > last
                                  /\ board[i].start <= p /\ p < board[i].end
  <2>1. IsSpliced(r, board, g, first, last)
    BY <1>1, <1>2
  <2> QED BY <1>3, <1>11, <1>12, <1>13, <2>1, SplicedIsSeparate DEF n
<1>15. ASSUME NEW p \in Int, g.start <= p, p < g.end
       PROVE  (incoming.start <= p /\ p < incoming.end) \/ Covers(board, p)
  <2>1. CASE first = last
    BY <1>9, <1>15, <2>1
  <2>2. CASE first < last
    <3>1. CASE p < incoming.start
      <4>1. g.start = board[first + 1].start /\ board[first + 1].end >= incoming.start
        BY <1>3, <1>4, <1>7, <1>10, <1>15, <2>2, <3>1 DEF Lower
      <4>2. board[first + 1].start <= p /\ p < board[first + 1].end
        BY <1>3, <1>4, <1>10, <1>15, <2>2, <3>1, <4>1
      <4> QED BY <1>10, <2>2, <4>2 DEF Covers, n
    <3>2. CASE p >= incoming.end
      <4>1. g.end = board[last].end /\ board[last].start <= incoming.end
        BY <1>3, <1>4, <1>7, <1>10, <1>15, <2>2, <3>2 DEF Higher
      <4>2. board[last].start <= p /\ p < board[last].end
        BY <1>3, <1>4, <1>10, <1>15, <2>2, <3>2, <4>1
      <4> QED BY <1>10, <2>2, <4>2 DEF Covers, n
    <3> QED BY <1>3, <3>1, <3>2
  <2> QED BY <1>a, <2>1, <2>2
<1>16. ASSUME NEW p \in Int, NEW i \in 1 .. n, board[i].start <= p, p < board[i].end,
              ~(i <= first \/ i > last)
       PROVE  g.start <= p /\ p < g.end
  <2>1. first < last /\ first + 1 <= i /\ i <= last
    BY <1>3, <1>16
  <2>2. board[first + 1].start <= board[i].start
    <3>1. first + 1 = i \/ first + 1 < i
      BY <1>3, <2>1
    <3> QED BY <1>4, <1>5, <1>10, <2>1, <3>1
  <2>3. board[i].end <= board[last].end
    <3>1. i = last \/ i < last
      BY <1>3, <2>1
    <3> QED BY <1>4, <1>5, <1>10, <2>1, <3>1
  <2> QED BY <1>3, <1>4, <1>10, <1>16, <2>1, <2>2, <2>3 DEF Lower, Higher
<1>17. ASSUME NEW p \in Int
       PROVE  Covers(r, p) <=> Covers(board, p) \/ (incoming.start <= p /\ p < incoming.end)
  <2>1. (incoming.start <= p /\ p < incoming.end) => g.start <= p /\ p < g.end
    BY <1>3, <1>11
  <2>2. Covers(board, p) => Covers(r, p)
    <3>1. SUFFICES ASSUME Covers(board, p) PROVE Covers(r, p)
      OBVIOUS
    <3>2. PICK i \in 1 .. n : board[i].start <= p /\ p < board[i].end
      BY <3>1 DEF Covers, n
    <3> QED BY <1>14, <1>16, <3>2 DEF n
  <2>3. Covers(r, p) => Covers(board, p) \/ (incoming.start <= p /\ p < incoming.end)
    BY <1>14, <1>15 DEF Covers
  <2> QED BY <1>14, <2>1, <2>2, <2>3
<1> QED BY <1>2, <1>14, <1>17

(* Elements at increasing positions keep their order.                      *)
LEMMA SelectedInOrder ==
  ASSUME NEW S, NEW s \in Seq(S), NEW I \in SUBSET DOMAIN s, NEW e, Selected(s, I, e),
         NEW k \in 1 .. Len(e), NEW l \in 1 .. Len(e), k < l
  PROVE  \E i, j \in I : i < j /\ e[k] = s[i] /\ e[l] = s[j]
<1>1. PICK i \in I : PlaceIn(I, i) = k /\ e[k] = s[i]
  BY DEF Selected
<1>2. PICK j \in I : PlaceIn(I, j) = l /\ e[l] = s[j]
  BY DEF Selected
<1>3. IsFiniteSet(I) /\ I \subseteq Nat
  <2>1. DOMAIN s = 1 .. Len(s) /\ Len(s) \in Nat
    OBVIOUS
  <2>2. PICK m \in Nat : m = Len(s)
    BY <2>1
  <2>3. IsFiniteSet(1 .. m)
    BY FS_Interval
  <2> QED BY <2>1, <2>2, <2>3, FS_Subset
<1>4. k \in Nat /\ l \in Nat
  BY DEF Selected
<1>5. j < i => l < k
  BY <1>1, <1>2, <1>3, PlacesAreOrdered
<1>6. i # j
  BY <1>1, <1>2, <1>4
<1>7. i \in Nat /\ j \in Nat
  BY <1>3
<1> QED BY <1>1, <1>2, <1>4, <1>5, <1>6, <1>7

(* discardBefore keeps what is not acknowledged.                           *)
LEMMA DiscardIsSound ==
  ASSUME NEW board, Separate(board), NEW ack \in Nat
  PROVE  /\ Separate(DiscardBefore(board, ack))
         /\ \A p \in Int : Covers(DiscardBefore(board, ack), p) <=> p >= ack /\ Covers(board, p)
<1> DEFINE I == {i \in DOMAIN board : board[i].end > ack}
           e == ElementsAt(board, I)
           r == DiscardBefore(board, ack)
<1>1. board \in Seq(Blocks) /\ Len(board) \in Nat /\ DOMAIN board = 1 .. Len(board)
  BY DEF Separate
<1>2. \A i \in 1 .. Len(board) : /\ board[i].start \in Nat /\ board[i].end \in Nat
                                 /\ board[i].start < board[i].end
  <2>1. \A i \in 1 .. Len(board) : board[i] \in Blocks /\ board[i].start < board[i].end
    BY DEF Separate
  <2> QED BY <2>1 DEF Blocks
<1>3. \A i, j \in 1 .. Len(board) : i < j => board[i].end < board[j].start
  BY DEF Separate
<1>4. e \in Seq(Blocks) /\ Selected(board, I, e)
  BY <1>1, Selects
<1>5. \A i \in I : i \in 1 .. Len(board) /\ board[i].end > ack
  BY <1>1
<1>6. \A i \in 1 .. Len(board) : board[i].end > ack => i \in I
  BY <1>1
<1>7. r = [k \in DOMAIN e |-> Block(Higher(e[k].start, ack), e[k].end)]
  BY DEF DiscardBefore
<1> HIDE DEF I, e, r
<1>8. DOMAIN e = 1 .. Len(e) /\ Len(e) \in Nat
  BY <1>4
<1>9. ASSUME NEW k \in 1 .. Len(e)
      PROVE  \E i \in I : /\ r[k] \in Blocks
                          /\ r[k].start = Higher(board[i].start, ack) /\ r[k].end = board[i].end
  <2>1. PICK i \in I : e[k] = board[i]
    BY <1>4 DEF Selected
  <2>2. r[k] = Block(Higher(board[i].start, ack), board[i].end)
    BY <1>7, <1>8, <2>1
  <2>3. Higher(board[i].start, ack) \in Nat /\ board[i].end \in Nat
    BY <1>2, <1>5 DEF Higher
  <2>4. r[k] \in Blocks /\ r[k].start = Higher(board[i].start, ack) /\ r[k].end = board[i].end
    BY <2>2, <2>3 DEF Block, Blocks
  <2> QED BY <2>4
<1>10. r \in Seq(Blocks) /\ Len(r) = Len(e)
  <2>1. DOMAIN r = 1 .. Len(e)
    BY <1>7, <1>8
  <2>2. \A k \in 1 .. Len(e) : r[k] \in Blocks
    BY <1>9
  <2>3. r = [k \in 1 .. Len(e) |-> r[k]]
    BY <1>7, <1>8
  <2>4. r \in [1 .. Len(e) -> Blocks]
    BY <2>2, <2>3
  <2>5. r \in Seq(Blocks)
    BY <1>8, <2>4, SeqDef
  <2> QED BY <1>8, <2>1, <2>5, LenProperties
<1>11. \A k \in 1 .. Len(r) : r[k].start < r[k].end
  <2>1. SUFFICES ASSUME NEW k \in 1 .. Len(e) PROVE r[k].start < r[k].end
    BY <1>10
  <2>2. PICK i \in I : r[k].start = Higher(board[i].start, ack) /\ r[k].end = board[i].end
    BY <1>9
  <2> QED BY <1>2, <1>5, <2>2 DEF Higher
<1>12. \A k, l \in 1 .. Len(r) : k < l => r[k].end < r[l].start
  <2>1. SUFFICES ASSUME NEW k \in 1 .. Len(e), NEW l \in 1 .. Len(e), k < l
                 PROVE  r[k].end < r[l].start
    BY <1>10
  <2>a. I \in SUBSET DOMAIN board
    BY <1>1, <1>5
  <2>2. PICK i \in I, j \in I : i < j /\ e[k] = board[i] /\ e[l] = board[j]
    BY <1>1, <1>4, <2>1, <2>a, SelectedInOrder
  <2>3. r[k] = Block(Higher(board[i].start, ack), board[i].end)
        /\ r[l] = Block(Higher(board[j].start, ack), board[j].end)
    BY <1>7, <1>8, <2>2
  <2>4. r[k].end = board[i].end /\ r[l].start = Higher(board[j].start, ack)
    BY <2>3 DEF Block
  <2>5. board[i].end < board[j].start
    BY <1>3, <1>5, <2>2
  <2> QED BY <1>2, <1>5, <2>4, <2>5 DEF Higher
<1>13. ASSUME NEW p \in Int, Covers(r, p) PROVE p >= ack /\ Covers(board, p)
  <2>1. PICK k \in 1 .. Len(e) : r[k].start <= p /\ p < r[k].end
    BY <1>10, <1>13 DEF Covers
  <2>2. PICK i \in I : r[k].start = Higher(board[i].start, ack) /\ r[k].end = board[i].end
    BY <1>9
  <2>3. i \in 1 .. Len(board)
    BY <1>5
  <2>4. p >= ack /\ board[i].start <= p /\ p < board[i].end
    BY <1>2, <2>1, <2>2, <2>3 DEF Higher
  <2> QED BY <2>3, <2>4 DEF Covers
<1>14. ASSUME NEW p \in Int, p >= ack, Covers(board, p) PROVE Covers(r, p)
  <2>1. PICK i \in 1 .. Len(board) : board[i].start <= p /\ p < board[i].end
    BY <1>14 DEF Covers
  <2>2. i \in I
    BY <1>2, <1>6, <1>14, <2>1
  <2>3. PICK k \in 1 .. Len(e) : e[k] = board[i]
    BY <1>4, <2>2 DEF Selected
  <2>4. r[k] = Block(Higher(board[i].start, ack), board[i].end)
    BY <1>7, <1>8, <2>3
  <2>5. r[k].start <= p /\ p < r[k].end
    BY <1>2, <1>14, <2>1, <2>4 DEF Block, Higher
  <2> QED BY <1>10, <2>5 DEF Covers
<1> QED BY <1>10, <1>11, <1>12, <1>13, <1>14 DEF Separate, r

(* A loop over steps that lead from one of the sets to the next exists and *)
(* stays in them.                                                          *)
Loops(f, n, S, x, g) ==
  /\ f = [i \in 0 .. n |-> f[i]]
  /\ f[0] = x
  /\ \A i \in 1 .. n : f[i] = g[i][f[i - 1]]
  /\ \A i \in 0 .. n : f[i] \in S[i]

(* The turns of a loop are a function.                                     *)
LEMMA LoopExists ==
  ASSUME NEW n \in Nat, NEW S, NEW x \in S[0], NEW g,
         \A i \in 1 .. n : \A y \in S[i - 1] : g[i][y] \in S[i]
  PROVE  \E f : Loops(f, n, S, x, g)
<1> DEFINE T == {k \in 0 .. n : ~\E f : Loops(f, k, S, x, g)}
<1>1. SUFFICES ASSUME T # {} PROVE FALSE
  <2>1. n \in 0 .. n
    OBVIOUS
  <2> QED BY <2>1
<1>2. T \in SUBSET Nat
  OBVIOUS
<1>3. PICK k \in T : \A j \in T : k <= j
  BY <1>1, <1>2, LeastOf
<1>4. k # 0
  <2>1. PICK f : f = [i \in 0 .. 0 |-> x]
    OBVIOUS
  <2>2. \A i \in 0 .. 0 : i = 0
    OBVIOUS
  <2>3. Loops(f, 0, S, x, g)
    BY <2>1, <2>2 DEF Loops
  <2> QED BY <1>3, <2>3
<1>5. k \in 1 .. n /\ k - 1 \in 0 .. n /\ k - 1 < k
  BY <1>3, <1>4
<1>6. PICK f : Loops(f, k - 1, S, x, g)
  BY <1>3, <1>5
<1>7. PICK h : h = [i \in 0 .. k |-> IF i = k THEN g[k][f[k - 1]] ELSE f[i]]
  OBVIOUS
<1>8. k \in Nat /\ k # 0 /\ k <= n
  BY <1>5
<1> HIDE DEF T
<1>9. /\ h[k] = g[k][f[k - 1]]
      /\ \A i \in 0 .. k - 1 : h[i] = f[i]
      /\ h = [i \in 0 .. k |-> h[i]]
  <2>1. k \in 0 .. k
    BY <1>8
  <2>2. \A i \in 0 .. k - 1 : i \in 0 .. k /\ i # k
    BY <1>8
  <2> QED BY <1>7, <2>1, <2>2
<1>10. f[k - 1] \in S[k - 1] /\ f[0] = x /\ k - 1 \in 0 .. k - 1 /\ 0 \in 0 .. k - 1
  BY <1>6, <1>8 DEF Loops
<1>11. ASSUME NEW i \in 1 .. k PROVE h[i] = g[i][h[i - 1]]
  <2>1. CASE i = k
    BY <1>9, <1>10, <2>1
  <2>2. CASE i # k
    <3>1. i \in 1 .. k - 1 /\ i \in 0 .. k - 1 /\ i - 1 \in 0 .. k - 1
      BY <1>8, <2>2
    <3> QED BY <1>6, <1>9, <3>1 DEF Loops
  <2> QED BY <2>1, <2>2
<1>12. ASSUME NEW i \in 0 .. k PROVE h[i] \in S[i]
  <2>1. CASE i = k
    BY <1>5, <1>9, <1>10, <2>1
  <2>2. CASE i # k
    <3>1. i \in 0 .. k - 1
      BY <1>8, <2>2
    <3> QED BY <1>6, <1>9, <3>1 DEF Loops
  <2> QED BY <2>1, <2>2
<1>13. Loops(h, k, S, x, g)
  BY <1>9, <1>10, <1>11, <1>12 DEF Loops
<1> QED BY <1>3, <1>13 DEF T

(* b covers what board does from ack on, and the first i useful blocks.    *)
Includes(b, board, ack, useful, i) ==
  /\ Separate(b)
  /\ \A p \in Int :
       Covers(b, p) <=> \/ p >= ack /\ Covers(board, p)
                        \/ \E j \in 1 .. i : useful[j].start <= p /\ p < useful[j].end

(* A turn of Update adds the bytes of one block.                           *)
LEMMA IncludesNext ==
  ASSUME NEW board, NEW ack, NEW b, NEW S, NEW useful \in Seq(Blocks), NEW i \in 1 .. Len(useful),
         Includes(b, board, ack, useful, i - 1), useful[i].start < useful[i].end
  PROVE  Includes(Insert(b, useful[i]), board, ack, useful, i)
<1>1. useful[i] \in Blocks
  OBVIOUS
<1>2. /\ Separate(Insert(b, useful[i]))
      /\ \A p \in Int : Covers(Insert(b, useful[i]), p) <=>
                          Covers(b, p) \/ (useful[i].start <= p /\ p < useful[i].end)
  BY <1>1, InsertIsSound DEF Includes
<1>3. ASSUME NEW p \in Int
      PROVE  Covers(Insert(b, useful[i]), p)
               <=> \/ p >= ack /\ Covers(board, p)
                   \/ \E j \in 1 .. i : useful[j].start <= p /\ p < useful[j].end
  <2>1. Covers(b, p) <=> \/ p >= ack /\ Covers(board, p)
                         \/ \E j \in 1 .. i - 1 : useful[j].start <= p /\ p < useful[j].end
    BY DEF Includes
  <2>2. i \in 1 .. i /\ \A j \in 1 .. i - 1 : j \in 1 .. i
    OBVIOUS
  <2>3. \A j \in 1 .. i : j = i \/ j \in 1 .. i - 1
    OBVIOUS
  <2> QED BY <1>2, <2>1, <2>2, <2>3
<1> QED BY <1>2, <1>3 DEF Includes

(* The loop of Update.                                                     *)
LEMMA InsertsAll ==
  ASSUME NEW board, NEW ack \in Nat, Separate(board),
         NEW useful \in Seq(Blocks), \A i \in 1 .. Len(useful) : useful[i].start < useful[i].end,
         NEW After,
         After = CHOOSE f : f = [i \in 0 .. Len(useful) |->
                   IF i = 0 THEN DiscardBefore(board, ack) ELSE Insert(f[i - 1], useful[i])]
  PROVE  Includes(After[Len(useful)], board, ack, useful, Len(useful))
<1> DEFINE n == Len(useful)
           x == DiscardBefore(board, ack)
           S == [i \in 0 .. n |-> {b \in Seq(Blocks) : Includes(b, board, ack, useful, i)}]
           g == [i \in 1 .. n |-> [b \in Seq(Blocks) |-> Insert(b, useful[i])]]
<1>1. n \in Nat /\ 0 \in 0 .. n /\ n \in 0 .. n
  OBVIOUS
<1>2. x \in S[0]
  <2>1. /\ Separate(x)
        /\ \A p \in Int : Covers(x, p) <=> p >= ack /\ Covers(board, p)
    BY DiscardIsSound
  <2>2. Includes(x, board, ack, useful, 0)
    BY <2>1 DEF Includes
  <2>3. x \in Seq(Blocks)
    BY <2>1 DEF Separate
  <2> HIDE DEF x
  <2> QED BY <1>1, <2>2, <2>3
<1>3. ASSUME NEW i \in 1 .. n, NEW y \in S[i - 1] PROVE g[i][y] \in S[i]
  <2>1. i \in 0 .. n /\ i - 1 \in 0 .. n
    BY <1>1
  <2>2. y \in Seq(Blocks) /\ Includes(y, board, ack, useful, i - 1)
    BY <2>1
  <2>3. Includes(Insert(y, useful[i]), board, ack, useful, i)
    BY <2>2, IncludesNext
  <2>4. Insert(y, useful[i]) \in Seq(Blocks)
    BY <2>3 DEF Includes, Separate
  <2>5. g[i][y] = Insert(y, useful[i])
    BY <2>2
  <2> HIDE DEF g
  <2> QED BY <2>1, <2>3, <2>4, <2>5
<1>4. \A i \in 0 .. n : \A b \in S[i] : b \in Seq(Blocks) /\ Includes(b, board, ack, useful, i)
  OBVIOUS
<1>5. \A i \in 1 .. n : \A b \in Seq(Blocks) : g[i][b] = Insert(b, useful[i])
  OBVIOUS
<1>a. After = CHOOSE f : f = [i \in 0 .. n |-> IF i = 0 THEN x ELSE Insert(f[i - 1], useful[i])]
  OBVIOUS
<1> HIDE DEF n, x, S, g
<1>6. PICK f : Loops(f, n, S, x, g)
  BY <1>1, <1>2, <1>3, LoopExists
<1>7. f = [i \in 0 .. n |-> IF i = 0 THEN x ELSE Insert(f[i - 1], useful[i])]
  <2>1. \A i \in 0 .. n : f[i] = IF i = 0 THEN x ELSE Insert(f[i - 1], useful[i])
    <3>1. SUFFICES ASSUME NEW i \in 0 .. n
                   PROVE  f[i] = IF i = 0 THEN x ELSE Insert(f[i - 1], useful[i])
      OBVIOUS
    <3>2. CASE i = 0
      BY <1>6, <3>2 DEF Loops
    <3>3. CASE i # 0
      <4>1. i \in 1 .. n /\ i - 1 \in 0 .. n
        BY <1>1, <3>3
      <4>2. f[i] = g[i][f[i - 1]] /\ f[i - 1] \in Seq(Blocks)
        BY <1>4, <1>6, <4>1 DEF Loops
      <4> QED BY <1>5, <3>3, <4>1, <4>2
    <3> QED BY <3>2, <3>3
  <2>2. f = [i \in 0 .. n |-> f[i]]
    BY <1>6 DEF Loops
  <2> QED BY <2>1, <2>2
<1>8. After = [i \in 0 .. n |-> IF i = 0 THEN x ELSE Insert(After[i - 1], useful[i])]
  BY <1>7, <1>a
<1>9. \A i \in 0 .. n : After[i] = f[i]
  <2> DEFINE T == {i \in 0 .. n : After[i] # f[i]}
  <2>1. SUFFICES ASSUME T # {} PROVE FALSE
    OBVIOUS
  <2>2. T \in SUBSET Nat
    OBVIOUS
  <2>3. PICK k \in T : \A j \in T : k <= j
    BY <2>1, <2>2, LeastOf
  <2>4. k \in 0 .. n /\ After[k] # f[k]
    BY <2>3
  <2>5. k # 0
    BY <1>1, <1>7, <1>8, <2>4
  <2>6. k - 1 \in 0 .. n /\ ~(k <= k - 1)
    BY <1>1, <2>4, <2>5
  <2>7. After[k - 1] = f[k - 1]
    BY <2>3, <2>6
  <2> HIDE DEF T
  <2>8. After[k] = Insert(After[k - 1], useful[k])
    BY <1>8, <2>4, <2>5
  <2>9. f[k] = Insert(f[k - 1], useful[k])
    BY <1>7, <2>4, <2>5
  <2> QED BY <2>4, <2>7, <2>8, <2>9
<1>10. After[n] \in S[n]
  BY <1>1, <1>6, <1>9 DEF Loops
<1> QED BY <1>1, <1>4, <1>10 DEF n

(* Update keeps the board separate; it covers what it did from the         *)
(* acknowledgement on and every useful block.                              *)
LEMMA UpdateIsSound ==
  ASSUME NEW board, Separate(board), NEW ack \in Nat, NEW sentEnd, NEW blocks \in Seq(Blocks)
  PROVE  /\ Separate(Update(board, ack, sentEnd, blocks))
         /\ \A p \in Int :
              Covers(Update(board, ack, sentEnd, blocks), p)
                <=> \/ p >= ack /\ Covers(board, p)
                    \/ \E i \in DOMAIN blocks : /\ Reported(ack, sentEnd, blocks[i])
                                                /\ blocks[i].start <= p /\ p < blocks[i].end
<1> DEFINE I == {i \in DOMAIN blocks : Reported(ack, sentEnd, blocks[i])}
           useful == ElementsAt(blocks, I)
           After == CHOOSE f : f = [i \in 0 .. Len(useful) |->
                      IF i = 0 THEN DiscardBefore(board, ack) ELSE Insert(f[i - 1], useful[i])]
<1>1. useful \in Seq(Blocks) /\ Selected(blocks, I, useful)
  BY Selects
<1>2. Update(board, ack, sentEnd, blocks) = After[Len(useful)]
  BY DEF Update
<1>3. \A i \in I : i \in DOMAIN blocks /\ Reported(ack, sentEnd, blocks[i])
  OBVIOUS
<1>4. \A i \in DOMAIN blocks : Reported(ack, sentEnd, blocks[i]) => i \in I
  OBVIOUS
<1> HIDE DEF I, useful
<1>5. \A k \in 1 .. Len(useful) : useful[k].start < useful[k].end
  <2>1. SUFFICES ASSUME NEW k \in 1 .. Len(useful) PROVE useful[k].start < useful[k].end
    OBVIOUS
  <2>2. PICK i \in I : useful[k] = blocks[i]
    BY <1>1 DEF Selected
  <2> QED BY <1>3, <2>2 DEF Reported
<1>6. PICK f : f = After
  OBVIOUS
<1>7. Includes(f[Len(useful)], board, ack, useful, Len(useful))
  BY <1>1, <1>5, <1>6, InsertsAll
<1>8. PICK r : r = Update(board, ack, sentEnd, blocks)
  OBVIOUS
<1>9. Includes(r, board, ack, useful, Len(useful))
  BY <1>2, <1>6, <1>7, <1>8
<1> HIDE DEF After
<1>10. ASSUME NEW p \in Int
       PROVE  (\E j \in 1 .. Len(useful) : useful[j].start <= p /\ p < useful[j].end)
                <=> \E i \in DOMAIN blocks : /\ Reported(ack, sentEnd, blocks[i])
                                             /\ blocks[i].start <= p /\ p < blocks[i].end
  <2>1. \A k \in 1 .. Len(useful) : \E i \in I : useful[k] = blocks[i]
    BY <1>1 DEF Selected
  <2>2. \A i \in I : \E k \in 1 .. Len(useful) : useful[k] = blocks[i]
    BY <1>1 DEF Selected
  <2> QED BY <1>3, <1>4, <2>1, <2>2
<1> QED BY <1>8, <1>9, <1>10 DEF Includes

(* A range of a set of positions is a longest run of it.                   *)
IsRun(r, positions) ==
  /\ r \in Blocks /\ r.start < r.end
  /\ r.start - 1 \notin positions /\ r.end \notin positions
  /\ \A q \in Int : r.start <= q /\ q < r.end => q \in positions

(* Ranges finds exactly the longest runs.                                  *)
LEMMA RangesAreRuns ==
  ASSUME NEW P \in SUBSET Nat
  PROVE  \A r : r \in Ranges(P) <=> IsRun(r, P)
<1> DEFINE starts == {p \in P : p - 1 \notin P}
           ends == {p + 1 : p \in {q \in P : q + 1 \notin P}}
<1>1. \A s : s \in starts <=> s \in P /\ s - 1 \notin P
  OBVIOUS
<1>2. \A e \in Nat : e \in ends <=> e - 1 \in P /\ e \notin P
  <2>1. ASSUME NEW e \in Nat, e - 1 \in P, e \notin P PROVE e \in ends
    <3>1. e - 1 \in Nat /\ (e - 1) + 1 = e
      BY <2>1
    <3> QED BY <2>1, <3>1
  <2>2. ASSUME NEW e \in ends PROVE e - 1 \in P /\ e \notin P
    <3>1. PICK q \in P : e = q + 1 /\ q + 1 \notin P
      BY <2>2
    <3>2. e - 1 = q
      BY <3>1
    <3> QED BY <3>1, <3>2
  <2> QED BY <2>1, <2>2
<1>3. \A e \in ends : e \in Nat
  OBVIOUS
<1>4. Ranges(P) = {b \in {Block(s, e) : s \in starts, e \in ends} :
                     b.start < b.end /\ Bytes(b) \subseteq P}
  BY DEF Ranges
<1> HIDE DEF starts, ends
<1>5. ASSUME NEW r \in Ranges(P) PROVE IsRun(r, P)
  <2>1. PICK s \in starts, e \in ends : r = Block(s, e)
    BY <1>4
  <2>2. s \in Nat /\ e \in Nat /\ r.start = s /\ r.end = e
    BY <1>1, <1>3, <2>1 DEF Block
  <2>3. r.start < r.end /\ Bytes(r) \subseteq P
    BY <1>4
  <2>4. r \in Blocks
    BY <2>1, <2>2 DEF Block, Blocks
  <2>5. \A q \in Int : r.start <= q /\ q < r.end => q \in P
    BY <2>2, <2>3 DEF Bytes
  <2> QED BY <1>1, <1>2, <2>2, <2>3, <2>4, <2>5 DEF IsRun
<1>6. ASSUME NEW r, IsRun(r, P) PROVE r \in Ranges(P)
  <2>1. r.start \in Nat /\ r.end \in Nat /\ r.start < r.end /\ r = Block(r.start, r.end)
    BY <1>6 DEF IsRun, Block, Blocks
  <2>2. r.start \in P /\ r.end - 1 \in P
    BY <1>6, <2>1 DEF IsRun
  <2>3. r.start \in starts /\ r.end \in ends
    BY <1>1, <1>2, <1>6, <2>1, <2>2 DEF IsRun
  <2>4. \A q \in Bytes(r) : q \in P
    BY <1>6, <2>1 DEF IsRun, Bytes
  <2>5. r \in {Block(s, e) : s \in starts, e \in ends}
    BY <2>1, <2>3
  <2> QED BY <1>4, <2>1, <2>4, <2>5
<1> QED BY <1>5, <1>6

(* What a board covers above an unreported position, in its blocks and as  *)
(* a set.                                                                  *)
Above(board, p) == {i \in DOMAIN board : board[i].start > p}
BytesAbove(board, p) == {q \in BytesOf(board) : q > p}

(* The blocks above a position are the ranges of the bytes above it.       *)
LEMMA BlocksAbove ==
  ASSUME NEW board, Separate(board), NEW p \in Nat, ~Covers(board, p)
  PROVE  /\ \A i \in 1 .. Len(board) : ~(board[i].start > p) => board[i].end <= p
         /\ {board[i] : i \in Above(board, p)} = Ranges(BytesAbove(board, p))
         /\ BytesIn({board[i] : i \in Above(board, p)}) = BytesAbove(board, p)
<1>1. board \in Seq(Blocks) /\ Len(board) \in Nat /\ DOMAIN board = 1 .. Len(board)
  BY DEF Separate
<1>2. \A i \in 1 .. Len(board) : /\ board[i] \in Blocks
                                 /\ board[i].start \in Nat /\ board[i].end \in Nat
                                 /\ board[i].start < board[i].end
  <2>1. \A i \in 1 .. Len(board) : board[i] \in Blocks /\ board[i].start < board[i].end
    BY DEF Separate
  <2> QED BY <2>1 DEF Blocks
<1>3. \A i, j \in 1 .. Len(board) : i < j => board[i].end < board[j].start
  BY DEF Separate
<1>4. BytesOf(board) \subseteq Nat /\ \A q \in Int : q \in BytesOf(board) <=> Covers(board, q)
  BY <1>1, BytesOfBoard
<1>5. \A i \in 1 .. Len(board) : ~(board[i].start > p) => board[i].end <= p
  BY <1>2 DEF Covers
<1>6. \A i \in 1 .. Len(board) : i \in Above(board, p) <=> board[i].start > p
  BY <1>1 DEF Above
<1>7. Above(board, p) \subseteq 1 .. Len(board)
  BY <1>1 DEF Above
<1> DEFINE P == BytesAbove(board, p)
<1>8. P \subseteq Nat /\ \A q \in Int : q \in P <=> Covers(board, q) /\ q > p
  BY <1>4 DEF BytesAbove
<1>9. \A r : r \in Ranges(P) <=> IsRun(r, P)
  BY <1>8, RangesAreRuns
<1> HIDE DEF P
<1>10. ASSUME NEW i \in 1 .. Len(board), board[i].start > p PROVE IsRun(board[i], P)
  <2>1. \A q \in Int : board[i].start <= q /\ q < board[i].end => q \in P
    BY <1>2, <1>8, <1>10, SMTT(30) DEF Covers
  <2>2. ASSUME NEW j \in 1 .. Len(board)
        PROVE  /\ ~(board[j].start <= board[i].end /\ board[i].end < board[j].end)
               /\ ~(board[j].start <= board[i].start - 1 /\ board[i].start - 1 < board[j].end)
    <3>1. CASE j = i
      BY <1>2, <3>1
    <3>2. CASE i < j
      BY <1>2, <1>3, <3>2
    <3>3. CASE j < i
      BY <1>2, <1>3, <3>3
    <3> QED BY <3>1, <3>2, <3>3
  <2>3. board[i].end \in Int /\ board[i].start - 1 \in Int
    BY <1>2
  <2>4. ~Covers(board, board[i].end) /\ ~Covers(board, board[i].start - 1)
    BY <2>2 DEF Covers
  <2>5. board[i].end \notin P /\ board[i].start - 1 \notin P
    BY <1>8, <2>3, <2>4
  <2> QED BY <1>2, <2>1, <2>5 DEF IsRun
<1>11. ASSUME NEW r, IsRun(r, P) PROVE \E i \in 1 .. Len(board) : board[i].start > p /\ r = board[i]
  <2>1. r \in Blocks /\ r.start \in Nat /\ r.end \in Nat /\ r.start < r.end
    BY <1>11 DEF IsRun, Blocks
  <2>2. r.start \in P
    BY <1>11, <2>1 DEF IsRun
  <2>3. PICK i \in 1 .. Len(board) : board[i].start <= r.start /\ r.start < board[i].end
    BY <1>8, <2>1, <2>2 DEF Covers
  <2>4. r.start > p
    BY <1>8, <2>1, <2>2
  <2>5. board[i].start > p
    BY <1>2, <1>5, <2>1, <2>3, <2>4
  <2>6. \A q \in Int : board[i].start <= q /\ q < board[i].end => q \in P
    BY <1>2, <1>8, <2>5 DEF Covers
  <2>7. board[i].start = r.start
    <3>1. r.start - 1 \notin P
      BY <1>11 DEF IsRun
    <3> QED BY <1>2, <2>1, <2>3, <2>6, <3>1, SMTT(30)
  <2>8. ~(r.end < board[i].end)
    <3>1. r.end \notin P
      BY <1>11 DEF IsRun
    <3> QED BY <1>2, <2>1, <2>3, <2>6, <3>1
  <2>9. ~(r.end > board[i].end)
    <3>1. board[i].end \notin P
      BY <1>10, <2>5 DEF IsRun
    <3> QED BY <1>2, <1>11, <2>1, <2>3, <3>1 DEF IsRun
  <2>10. r = board[i]
    BY <1>2, <2>1, <2>7, <2>8, <2>9 DEF Blocks
  <2> QED BY <2>5, <2>10
<1>12. {board[i] : i \in Above(board, p)} = Ranges(P)
  BY <1>6, <1>7, <1>9, <1>10, <1>11
<1>13. BytesIn({board[i] : i \in Above(board, p)}) = P
  <2>1. \A q : q \in BytesIn({board[i] : i \in Above(board, p)})
                 <=> \E i \in 1 .. Len(board) : board[i].start > p /\ q \in board[i].start .. board[i].end - 1
    BY <1>6, <1>7 DEF BytesIn, Bytes
  <2>2. \A q \in Int : q \in P <=> \E i \in 1 .. Len(board) :
                                     board[i].start > p /\ board[i].start <= q /\ q < board[i].end
    <3>1. SUFFICES ASSUME NEW q \in Int
                   PROVE  q \in P <=> \E i \in 1 .. Len(board) :
                                        board[i].start > p /\ board[i].start <= q /\ q < board[i].end
      OBVIOUS
    <3>2. \A i \in 1 .. Len(board) : board[i].start <= q /\ q < board[i].end /\ q > p => board[i].start > p
      BY <1>2, <1>5
    <3>3. \A i \in 1 .. Len(board) : board[i].start <= q /\ board[i].start > p => q > p
      BY <1>2
    <3> QED BY <1>8, <3>2, <3>3 DEF Covers
  <2>3. \A i \in 1 .. Len(board) : \A q : q \in board[i].start .. board[i].end - 1
                                     <=> q \in Int /\ board[i].start <= q /\ q < board[i].end
    BY <1>2
  <2>4. \A q : q \in P => q \in Int
    BY <1>8
  <2> QED BY <2>1, <2>2, <2>3, <2>4
<1> QED BY <1>5, <1>12, <1>13 DEF P

(* What is known to be lost, from the set of the reported positions: the   *)
(* definition of KnownLost for any such set.                               *)
LostIn(h, p) ==
  LET above == {q \in h : q > p}
  IN  Cardinality(Ranges(above)) >= 3 \/ Cardinality(above) > 2 * SackMss

(* IsLost, which counts blocks, decides it.                                *)
LEMMA LossIsKnown ==
  ASSUME NEW board, Separate(board), NEW p \in Nat, ~Covers(board, p)
  PROVE  IsLost(board, p, SackMss) <=> LostIn(BytesOf(board), p)
<1> DEFINE I == Above(board, p)
           R == {board[i] : i \in I}
           f == [i \in I |-> board[i]]
<1>1. board \in Seq(Blocks) /\ Len(board) \in Nat /\ DOMAIN board = 1 .. Len(board)
  BY DEF Separate
<1>2. I \in SUBSET (1 .. Len(board))
  BY <1>1 DEF Above
<1>3. IsFiniteSet(I)
  <2>1. PICK m \in Nat : m = Len(board)
    BY <1>1
  <2>2. IsFiniteSet(1 .. m)
    BY FS_Interval
  <2> QED BY <1>2, <2>1, <2>2, FS_Subset
<1>4. f \in Bijection(I, R)
  <2>1. \A i, j \in I : f[i] = f[j] => i = j
    <3>1. SUFFICES ASSUME NEW i \in I, NEW j \in I, board[i] = board[j], i # j PROVE FALSE
      OBVIOUS
    <3>2. i \in 1 .. Len(board) /\ j \in 1 .. Len(board)
      BY <1>2
    <3>3. \A k \in 1 .. Len(board) : /\ board[k].start \in Nat /\ board[k].end \in Nat
                                     /\ board[k].start < board[k].end
      <4>1. \A k \in 1 .. Len(board) : board[k] \in Blocks /\ board[k].start < board[k].end
        BY DEF Separate
      <4> QED BY <4>1 DEF Blocks
    <3>4. \A k, l \in 1 .. Len(board) : k < l => board[k].end < board[l].start
      BY DEF Separate
    <3>5. i < j \/ j < i
      BY <1>1, <3>1, <3>2
    <3> HIDE DEF I
    <3> QED BY <3>1, <3>2, <3>3, <3>4, <3>5
  <2>2. f \in [I -> R] /\ (\A r \in R : \E i \in I : f[i] = r) /\ DOMAIN f = I
    OBVIOUS
  <2> HIDE DEF f, R, I
  <2> QED BY <2>1, <2>2 DEF Bijection, Injection, Surjection, IsInjective
<1>5. Cardinality(R) = Cardinality(I)
  BY <1>3, <1>4, FS_Bijection DEF ExistsBijection
<1>6. R = Ranges(BytesAbove(board, p)) /\ BytesIn(R) = BytesAbove(board, p)
  BY BlocksAbove
<1>7. p \notin BytesOf(board)
  BY <1>1, BytesOfBoard
<1>8. IsLost(board, p, SackMss) <=> Cardinality(I) >= 3 \/ Cardinality(BytesIn(R)) > 2 * SackMss
  BY <1>7 DEF IsLost, Above
<1> HIDE DEF I, R
<1> QED BY <1>5, <1>6, <1>8 DEF LostIn, BytesAbove

(* The numbers of a board, for the arithmetic.                             *)
Ordered(board) ==
  /\ Len(board) \in Nat
  /\ \A i \in 1 .. Len(board) : /\ board[i].start \in Nat /\ board[i].end \in Nat
                                /\ board[i].start < board[i].end
  /\ \A i, j \in 1 .. Len(board) : i < j => board[i].end < board[j].start
  /\ \A i, j \in 1 .. Len(board) : i <= j => /\ board[i].start <= board[j].start
                                             /\ board[i].end <= board[j].end

(* Blocks that are separate are in order.                                  *)
LEMMA SeparateIsOrdered ==
  ASSUME NEW board, Separate(board)
  PROVE  Ordered(board) /\ board \in Seq(Blocks) /\ DOMAIN board = 1 .. Len(board)
<1>1. board \in Seq(Blocks)
  BY DEF Separate
<1>2. \A i \in 1 .. Len(board) : /\ board[i].start \in Nat /\ board[i].end \in Nat
                                 /\ board[i].start < board[i].end
  <2>1. \A i \in 1 .. Len(board) : board[i] \in Blocks /\ board[i].start < board[i].end
    BY DEF Separate
  <2> QED BY <2>1 DEF Blocks
<1>3. \A i, j \in 1 .. Len(board) : i < j => board[i].end < board[j].start
  BY DEF Separate
<1>4. Len(board) \in Nat /\ DOMAIN board = 1 .. Len(board)
  BY <1>1
<1>5. \A i, j \in 1 .. Len(board) : i <= j => i < j \/ i = j
  BY <1>4
<1>6. \A i, j \in 1 .. Len(board) : i <= j => /\ board[i].start <= board[j].start
                                              /\ board[i].end <= board[j].end
  BY <1>2, <1>3, <1>5, SMTT(30)
<1> QED BY <1>1, <1>2, <1>3, <1>4, <1>6 DEF Ordered

(* The end of the last block is above all that is covered.                 *)
LEMMA HighestIsAbove ==
  ASSUME NEW board, Separate(board)
  PROVE  /\ HighestReportedEnd(board) \in Nat
         /\ \A p \in Int : Covers(board, p) => p < HighestReportedEnd(board)
         /\ board # << >> => Covers(board, HighestReportedEnd(board) - 1)
<1>1. Ordered(board) /\ board \in Seq(Blocks)
  BY SeparateIsOrdered
<1>2. CASE board = << >>
  <2>1. Len(board) = 0
    BY <1>2
  <2> QED BY <1>2, <2>1 DEF HighestReportedEnd, Covers
<1>3. CASE board # << >>
  <2>1. Len(board) \in 1 .. Len(board)
    BY <1>1, <1>3 DEF Ordered
  <2>2. HighestReportedEnd(board) = board[Len(board)].end
    BY <1>3 DEF HighestReportedEnd
  <2>3. \A i \in 1 .. Len(board) : board[i].end <= board[Len(board)].end
    BY <1>1, <2>1 DEF Ordered
  <2> QED BY <1>1, <2>1, <2>2, <2>3 DEF Covers, Ordered
<1> QED BY <1>2, <1>3

(* A board has a finite number of bytes.                                   *)
LEMMA BytesAreFinite ==
  ASSUME NEW board, Separate(board)
  PROVE  IsFiniteSet(BytesOf(board))
<1>1. board \in Seq(Blocks)
  BY DEF Separate
<1>2. BytesOf(board) \subseteq Nat /\ \A q \in Int : q \in BytesOf(board) <=> Covers(board, q)
  BY <1>1, BytesOfBoard
<1>3. \A q \in BytesOf(board) : q <= HighestReportedEnd(board)
  BY <1>2, HighestIsAbove
<1>4. HighestReportedEnd(board) \in Nat
  BY HighestIsAbove
<1> QED BY <1>2, <1>3, <1>4, FS_BoundedSetOfNaturals

(* What lies below something lost is lost, if it is not reported.          *)
LEMMA LossSpreadsDown ==
  ASSUME NEW board, Separate(board), NEW p \in Nat, NEW q \in Nat, p <= q,
         ~Covers(board, p), ~Covers(board, q), IsLost(board, q, SackMss)
  PROVE  IsLost(board, p, SackMss)
<1>1. Ordered(board) /\ board \in Seq(Blocks) /\ DOMAIN board = 1 .. Len(board)
  BY SeparateIsOrdered
<1>2. p \notin BytesOf(board) /\ BytesOf(board) \subseteq Nat
  BY <1>1, BytesOfBoard
<1>3. Above(board, q) \in SUBSET Above(board, p)
  BY <1>1 DEF Above, Ordered
<1>4. BytesAbove(board, q) \in SUBSET BytesAbove(board, p)
  BY <1>2 DEF BytesAbove
<1>5. IsFiniteSet(Above(board, p))
  <2>1. PICK m \in Nat : m = Len(board)
    BY <1>1 DEF Ordered
  <2>2. IsFiniteSet(1 .. m) /\ Above(board, p) \in SUBSET (1 .. m)
    BY <1>1, <2>1, FS_Interval DEF Above
  <2> QED BY <2>2, FS_Subset
<1>6. IsFiniteSet(BytesAbove(board, p))
  <2>1. BytesAbove(board, p) \in SUBSET BytesOf(board)
    BY DEF BytesAbove
  <2> QED BY <2>1, BytesAreFinite, FS_Subset
<1>7. /\ Cardinality(Above(board, q)) <= Cardinality(Above(board, p))
      /\ Cardinality(Above(board, q)) \in Nat /\ Cardinality(Above(board, p)) \in Nat
  BY <1>3, <1>5, FS_Subset, FS_CardinalityType
<1>8. /\ Cardinality(BytesAbove(board, q)) <= Cardinality(BytesAbove(board, p))
      /\ Cardinality(BytesAbove(board, q)) \in Nat /\ Cardinality(BytesAbove(board, p)) \in Nat
  BY <1>4, <1>6, FS_Subset, FS_CardinalityType
<1>9. /\ BytesIn({board[i] : i \in Above(board, q)}) = BytesAbove(board, q)
      /\ BytesIn({board[i] : i \in Above(board, p)}) = BytesAbove(board, p)
  BY BlocksAbove
<1>10. Cardinality(Above(board, q)) >= 3 \/ Cardinality(BytesAbove(board, q)) > 2 * SackMss
  BY <1>9 DEF IsLost, Above
<1>11. Cardinality(Above(board, p)) >= 3 \/ Cardinality(BytesAbove(board, p)) > 2 * SackMss
  BY <1>7, <1>8, <1>10, SackAssumption
<1> QED BY <1>2, <1>9, <1>11 DEF IsLost, Above

(* A hole is uncovered from its start to its end.                          *)
IsHole(h, board, from, to) ==
  /\ h \in Blocks /\ h.start < h.end /\ from <= h.start /\ h.end <= to
  /\ \A q \in Int : h.start <= q /\ q < h.end => ~Covers(board, q)

(* The holes of a board are the gaps in what it covers.                    *)
LEMMA HolesAreHoles ==
  ASSUME NEW board, Separate(board), NEW from \in Nat, NEW to \in Nat
  PROVE  /\ \A h \in Holes(board, from, to) : IsHole(h, board, from, to)
         /\ \A p \in Nat : from <= p /\ p < to /\ ~Covers(board, p) =>
              \E h \in Holes(board, from, to) : h.start <= p /\ p < h.end
<1>1. Ordered(board) /\ board \in Seq(Blocks) /\ DOMAIN board = 1 .. Len(board)
  BY SeparateIsOrdered
<1>2. ASSUME NEW i \in 1 .. Len(board) + 1
      PROVE  /\ Gap(board, from, to, i) \in Blocks
             /\ Gap(board, from, to, i).start = IF i = 1 THEN from ELSE Higher(from, board[i - 1].end)
             /\ Gap(board, from, to, i).end = IF i = Len(board) + 1 THEN to ELSE Lower(to, board[i].start)
  <2>1. (i # 1 => i - 1 \in 1 .. Len(board)) /\ (i # Len(board) + 1 => i \in 1 .. Len(board))
    BY <1>1 DEF Ordered
  <2>2. /\ (IF i = 1 THEN from ELSE Higher(from, board[i - 1].end)) \in Nat
        /\ (IF i = Len(board) + 1 THEN to ELSE Lower(to, board[i].start)) \in Nat
    BY <1>1, <2>1 DEF Ordered, Higher, Lower
  <2> QED BY <2>2 DEF Gap, Block, Blocks
<1>3. ASSUME NEW h \in Holes(board, from, to) PROVE IsHole(h, board, from, to)
  <2>1. PICK i \in 1 .. Len(board) + 1 : h = Gap(board, from, to, i) /\ h.start < h.end
    BY DEF Holes
  <2>2. /\ h \in Blocks
        /\ h.start = IF i = 1 THEN from ELSE Higher(from, board[i - 1].end)
        /\ h.end = IF i = Len(board) + 1 THEN to ELSE Lower(to, board[i].start)
    BY <1>2, <2>1
  <2>3. (i # 1 => i - 1 \in 1 .. Len(board)) /\ (i # Len(board) + 1 => i \in 1 .. Len(board))
    BY <1>1 DEF Ordered
  <2>4. from <= h.start /\ h.end <= to /\ h.start \in Nat /\ h.end \in Nat
    BY <1>1, <2>2, <2>3, SMTT(30) DEF Higher, Lower, Ordered, Blocks
  <2>5. ASSUME NEW q \in Int, h.start <= q, q < h.end, NEW j \in 1 .. Len(board),
               board[j].start <= q, q < board[j].end
        PROVE  FALSE
    <3>1. CASE j <= i - 1
      <4>1. i # 1 /\ i - 1 \in 1 .. Len(board)
        BY <1>1, <2>3, <3>1 DEF Ordered
      <4>2. board[j].end <= board[i - 1].end
        BY <1>1, <3>1, <4>1 DEF Ordered
      <4>3. board[i - 1].end <= h.start
        BY <1>1, <2>2, <4>1 DEF Higher, Ordered
      <4> QED BY <1>1, <2>4, <2>5, <4>1, <4>2, <4>3, SMTT(30) DEF Ordered
    <3>2. CASE j >= i
      <4>1. i # Len(board) + 1 /\ i \in 1 .. Len(board)
        BY <1>1, <2>3, <3>2 DEF Ordered
      <4>2. board[i].start <= board[j].start
        BY <1>1, <3>2, <4>1 DEF Ordered
      <4>3. h.end <= board[i].start
        BY <1>1, <2>2, <4>1 DEF Lower, Ordered
      <4> QED BY <1>1, <2>4, <2>5, <4>1, <4>2, <4>3 DEF Ordered
    <3>3. j <= i - 1 \/ j >= i
      BY <1>1 DEF Ordered
    <3> QED BY <3>1, <3>2, <3>3
  <2> QED BY <2>1, <2>2, <2>4, <2>5 DEF IsHole, Covers
<1>4. ASSUME NEW p \in Nat, from <= p, p < to, ~Covers(board, p)
      PROVE  \E h \in Holes(board, from, to) : h.start <= p /\ p < h.end
  <2> DEFINE n == Cardinality({i \in DOMAIN board : board[i].end < p + 1})
  <2>1. n \in 0 .. Len(board) /\ \A i \in 1 .. Len(board) : i <= n <=> board[i].end < p + 1
    BY FirstBlocks
  <2> HIDE DEF n
  <2>2. n + 1 \in 1 .. Len(board) + 1 /\ n \in Nat
    BY <1>1, <2>1 DEF Ordered
  <2>3. PICK h : h = Gap(board, from, to, n + 1)
    OBVIOUS
  <2>4. /\ h.start = IF n + 1 = 1 THEN from ELSE Higher(from, board[n].end)
        /\ h.end = IF n + 1 = Len(board) + 1 THEN to ELSE Lower(to, board[n + 1].start)
    <3>1. (n + 1) - 1 = n
      BY <2>2
    <3> QED BY <1>2, <2>2, <2>3, <3>1
  <2>5. h.start <= p
    <3>1. CASE n = 0
      BY <1>4, <2>4, <3>1
    <3>2. CASE n # 0
      <4>1. n \in 1 .. Len(board) /\ n <= n
        BY <1>1, <2>1, <3>2 DEF Ordered
      <4>2. board[n].end < p + 1
        BY <2>1, <4>1
      <4> QED BY <1>1, <1>4, <2>2, <2>4, <3>2, <4>1, <4>2 DEF Higher, Ordered
    <3> QED BY <3>1, <3>2
  <2>6. p < h.end
    <3>1. CASE n = Len(board)
      BY <1>4, <2>4, <3>1
    <3>2. CASE n # Len(board)
      <4>1. n + 1 \in 1 .. Len(board) /\ ~(n + 1 <= n)
        BY <1>1, <2>1, <3>2 DEF Ordered
      <4>2. ~(board[n + 1].end < p + 1)
        BY <2>1, <4>1
      <4>3. ~(board[n + 1].start <= p)
        BY <1>1, <1>4, <4>1, <4>2 DEF Covers, Ordered
      <4>4. n + 1 # Len(board) + 1
        BY <1>1, <2>2, <3>2 DEF Ordered
      <4> QED BY <1>1, <1>4, <2>4, <4>1, <4>3, <4>4 DEF Lower, Ordered
    <3> QED BY <3>1, <3>2
  <2>7. h.start < h.end
    <3>1. h.start \in Nat /\ h.end \in Nat
      <4>1. h \in Blocks
        BY <1>2, <2>2, <2>3
      <4> QED BY <4>1 DEF Blocks
    <3> QED BY <1>4, <2>5, <2>6, <3>1
  <2>8. h \in Holes(board, from, to)
    BY <2>2, <2>3, <2>7 DEF Holes
  <2> QED BY <2>5, <2>6, <2>8
<1> QED BY <1>3, <1>4

(* A hole of at most a segment with nothing unreported before it, or after *)
(* it.                                                                     *)
FirstGap(n, board, from, to) ==
  /\ IsHole(n, board, from, to) /\ Size(n) <= SackMss
  /\ \A p \in Int : from <= p /\ p < n.start => Covers(board, p)

LastGap(n, board, from, to) ==
  /\ IsHole(n, board, from, to) /\ Size(n) <= SackMss
  /\ \A p \in Int : n.end <= p /\ p < to => Covers(board, p)

(* NextHole returns the start of the first hole, and nothing when there is *)
(* none.                                                                   *)
LEMMA NextHoleIsFirst ==
  ASSUME NEW board, Separate(board), NEW from \in Nat \ {0}, NEW to \in Nat,
         NEW requireLoss \in BOOLEAN, NEW n, n = NextHole(board, from, to, requireLoss, SackMss)
  PROVE  /\ n # NoBlock => FirstGap(n, board, from, to)
         /\ n = NoBlock /\ ~requireLoss =>
              \A p \in Int : from <= p /\ p < to => Covers(board, p)
<1> DEFINE eligible == {h \in Holes(board, from, to) : requireLoss => IsLost(board, h.start, SackMss)}
           T == {h.start : h \in eligible}
           IsNext(h) == \A g \in eligible : h.start <= g.start
           next == CHOOSE h \in eligible : IsNext(h)
<1>1. /\ \A h \in Holes(board, from, to) : IsHole(h, board, from, to)
      /\ \A p \in Nat : from <= p /\ p < to /\ ~Covers(board, p) =>
           \E h \in Holes(board, from, to) : h.start <= p /\ p < h.end
  BY HolesAreHoles
<1>2. \A h \in eligible : /\ h \in Holes(board, from, to) /\ IsHole(h, board, from, to)
                          /\ h.start \in Nat /\ h.end \in Nat
                          /\ requireLoss => IsLost(board, h.start, SackMss)
  BY <1>1 DEF IsHole, Blocks
<1>3. n = IF eligible = {} THEN NoBlock
          ELSE Block(next.start, next.start + Lower(Size(next), SackMss))
  BY DEF NextHole
<1>4. ASSUME eligible # {} PROVE n # NoBlock /\ FirstGap(n, board, from, to)
  <2>1. T \in SUBSET Nat /\ T # {}
    BY <1>2, <1>4
  <2>2. PICK x \in T : \A y \in T : x <= y
    BY <2>1, LeastOf
  <2>3. PICK k \in eligible : k.start = x
    BY <2>2
  <2>4. \A g \in eligible : g.start \in T
    OBVIOUS
  <2>5. IsNext(k)
    BY <2>2, <2>3, <2>4
  <2>6. next \in eligible /\ IsNext(next)
    BY <2>3, <2>5
  <2>7. PICK h : h = next
    OBVIOUS
  <2>8. /\ h \in Blocks /\ h.start \in Nat /\ h.end \in Nat /\ h.start < h.end
        /\ from <= h.start /\ h.end <= to
        /\ \A q \in Int : h.start <= q /\ q < h.end => ~Covers(board, q)
        /\ requireLoss => IsLost(board, h.start, SackMss)
    BY <1>2, <2>6, <2>7 DEF IsHole
  <2>9. \A g \in eligible : h.start <= g.start
    BY <2>6, <2>7
  <2>10. n = Block(h.start, h.start + Lower(Size(h), SackMss))
    BY <1>3, <1>4, <2>7
  <2>11. Lower(Size(h), SackMss) \in Nat \ {0} /\ Lower(Size(h), SackMss) <= Size(h)
         /\ Lower(Size(h), SackMss) <= SackMss
    BY <2>8, SackAssumption DEF Size, Lower
  <2> HIDE DEF eligible, next, T
  <2>12. PICK size \in Nat \ {0} : size = Lower(Size(h), SackMss) /\ size <= SackMss
                                   /\ h.start + size <= h.end
    BY <2>8, <2>11 DEF Size
  <2>13. /\ n \in Blocks /\ n.start = h.start /\ n.end = h.start + size
    BY <2>8, <2>10, <2>12 DEF Block, Blocks
  <2>14. Size(n) <= SackMss /\ n.start < n.end /\ n.end <= to /\ from <= n.start
    BY <2>8, <2>12, <2>13 DEF Size
  <2>15. \A q \in Int : n.start <= q /\ q < n.end => ~Covers(board, q)
    BY <2>8, <2>12, <2>13
  <2>16. ASSUME NEW p \in Int, from <= p, p < n.start, ~Covers(board, p) PROVE FALSE
    <3>1. p \in Nat /\ p < to
      BY <2>8, <2>13, <2>16
    <3>2. PICK g \in Holes(board, from, to) : g.start <= p /\ p < g.end
      BY <1>1, <2>16, <3>1
    <3>3. IsHole(g, board, from, to) /\ g.start \in Nat /\ g.end \in Nat
      BY <1>1, <3>2 DEF IsHole, Blocks
    <3>4. ~Covers(board, g.start) /\ ~Covers(board, h.start)
      BY <2>8, <3>1, <3>2, <3>3 DEF IsHole
    <3>5. g.start <= h.start /\ g.start < h.start
      BY <2>8, <2>13, <2>16, <3>1, <3>2, <3>3
    <3>6. requireLoss => IsLost(board, g.start, SackMss)
      BY <2>8, <3>3, <3>4, <3>5, LossSpreadsDown
    <3>7. g \in eligible
      BY <3>2, <3>6 DEF eligible
    <3> QED BY <2>8, <2>9, <3>3, <3>5, <3>7
  <2>17. n # NoBlock
    BY <2>8, <2>13 DEF NoBlock, Block
  <2> QED BY <2>13, <2>14, <2>15, <2>16, <2>17 DEF FirstGap, IsHole
<1>5. ASSUME eligible = {}, ~requireLoss, NEW p \in Int, from <= p, p < to PROVE Covers(board, p)
  <2>1. Holes(board, from, to) = {}
    BY <1>5
  <2> QED BY <1>1, <1>5, <2>1
<1> HIDE DEF eligible, next
<1> QED BY <1>3, <1>4, <1>5

(* LastHole returns the end of the last hole.                              *)
LEMMA LastHoleIsLast ==
  ASSUME NEW board, Separate(board), NEW from \in Nat \ {0}, NEW to \in Nat,
         NEW n, n = LastHole(board, from, to, SackMss)
  PROVE  /\ n # NoBlock => LastGap(n, board, from, to)
         /\ n = NoBlock => \A p \in Int : from <= p /\ p < to => Covers(board, p)
<1> DEFINE holes == Holes(board, from, to)
           T == {h.start : h \in holes}
           IsLast(h) == \A g \in holes : g.start <= h.start
           last == CHOOSE h \in holes : IsLast(h)
<1>1. /\ \A h \in holes : IsHole(h, board, from, to)
      /\ \A p \in Nat : from <= p /\ p < to /\ ~Covers(board, p) =>
           \E h \in holes : h.start <= p /\ p < h.end
  BY HolesAreHoles
<1>2. \A h \in holes : h.start \in Nat /\ h.end \in Nat /\ h.start <= to
  BY <1>1 DEF IsHole, Blocks
<1>3. n = IF holes = {} THEN NoBlock
          ELSE Block(last.end - Lower(Size(last), SackMss), last.end)
  BY DEF LastHole
<1> HIDE DEF holes
<1>4. ASSUME holes # {} PROVE n # NoBlock /\ LastGap(n, board, from, to)
  <2>1. T \in SUBSET Nat /\ T # {} /\ \A x \in T : x <= to
    BY <1>2, <1>4
  <2>2. PICK x \in T : \A y \in T : y <= x
    BY <2>1, GreatestOf
  <2>3. PICK k \in holes : k.start = x
    BY <2>2
  <2>4. \A g \in holes : g.start \in T
    OBVIOUS
  <2>5. IsLast(k)
    BY <2>2, <2>3, <2>4
  <2>6. last \in holes /\ IsLast(last)
    BY <2>3, <2>5
  <2>7. PICK h : h = last
    OBVIOUS
  <2>8. /\ h \in Blocks /\ h.start \in Nat /\ h.end \in Nat /\ h.start < h.end
        /\ from <= h.start /\ h.end <= to
        /\ \A q \in Int : h.start <= q /\ q < h.end => ~Covers(board, q)
    BY <1>1, <1>2, <2>6, <2>7 DEF IsHole
  <2>9. \A g \in holes : g.start <= h.start
    BY <2>6, <2>7
  <2>10. n = Block(h.end - Lower(Size(h), SackMss), h.end)
    BY <1>3, <1>4, <2>7
  <2>11. Lower(Size(h), SackMss) \in Nat \ {0} /\ Lower(Size(h), SackMss) <= Size(h)
         /\ Lower(Size(h), SackMss) <= SackMss
    BY <2>8, SackAssumption DEF Size, Lower
  <2> HIDE DEF last, T
  <2>12. PICK start \in Nat : start = h.end - Lower(Size(h), SackMss) /\ h.start <= start
                              /\ start < h.end /\ h.end - start <= SackMss
    BY <2>8, <2>11 DEF Size
  <2>13. n \in Blocks /\ n.start = start /\ n.end = h.end
    BY <2>8, <2>10, <2>12 DEF Block, Blocks
  <2>14. Size(n) <= SackMss /\ n.start < n.end /\ n.end <= to /\ from <= n.start
    BY <2>8, <2>12, <2>13 DEF Size
  <2>15. \A q \in Int : n.start <= q /\ q < n.end => ~Covers(board, q)
    BY <2>8, <2>12, <2>13
  <2>16. ASSUME NEW p \in Int, n.end <= p, p < to, ~Covers(board, p) PROVE FALSE
    <3>1. p \in Nat /\ from <= p
      BY <2>8, <2>13, <2>16
    <3>2. PICK g \in holes : g.start <= p /\ p < g.end
      BY <1>1, <2>16, <3>1
    <3>3. IsHole(g, board, from, to) /\ g.start \in Nat /\ g.end \in Nat /\ g.start <= h.start
      BY <1>1, <1>2, <2>9, <3>2
    <3>4. \A q \in Int : g.start <= q /\ q < g.end => ~Covers(board, q)
      BY <3>3 DEF IsHole
    <3>6. Ordered(board) /\ board \in Seq(Blocks) /\ DOMAIN board = 1 .. Len(board)
      BY SeparateIsOrdered
    <3>8. PICK j \in 1 .. Len(board) + 1 : h = Gap(board, from, to, j)
      BY <2>6, <2>7 DEF holes, Holes
    <3>10. /\ h.start = IF j = 1 THEN from ELSE Higher(from, board[j - 1].end)
           /\ h.end = IF j = Len(board) + 1 THEN to ELSE Lower(to, board[j].start)
      BY <3>8 DEF Gap, Block
    <3>11. j # Len(board) + 1 /\ h.end = board[j].start /\ j \in 1 .. Len(board)
      BY <2>8, <2>13, <2>16, <3>6, <3>10 DEF Lower, Ordered
    <3>12. board[j].start \in Nat /\ board[j].end \in Nat /\ board[j].start < board[j].end
      BY <3>6, <3>11 DEF Ordered
    <3>13. Covers(board, h.end)
      BY <2>8, <3>11, <3>12 DEF Covers
    <3> QED BY <2>8, <2>13, <2>16, <3>2, <3>3, <3>4, <3>13, SMTT(30)
  <2>17. n # NoBlock
    BY <2>8, <2>13 DEF NoBlock, Block
  <2> QED BY <2>13, <2>14, <2>15, <2>16, <2>17 DEF LastGap, IsHole
<1>5. ASSUME holes = {}, NEW p \in Int, from <= p, p < to PROVE Covers(board, p)
  BY <1>1, <1>5
<1> HIDE DEF last
<1> QED BY <1>3, <1>4, <1>5

(* Nothing is reported between two positions of a hole, so that they are   *)
(* lost together.                                                          *)
LEMMA HolesAreLostTogether ==
  ASSUME NEW board, Separate(board), NEW from, NEW to, NEW h, IsHole(h, board, from, to),
         NEW p \in Nat, h.start <= p, p < h.end
  PROVE  IsLost(board, p, SackMss) <=> IsLost(board, h.start, SackMss)
<1>1. Ordered(board) /\ board \in Seq(Blocks) /\ DOMAIN board = 1 .. Len(board)
  BY SeparateIsOrdered
<1>2. /\ h.start \in Nat /\ h.end \in Nat
      /\ \A q \in Int : h.start <= q /\ q < h.end => ~Covers(board, q)
  BY DEF IsHole, Blocks
<1>3. ~Covers(board, p) /\ ~Covers(board, h.start)
  BY <1>2
<1>4. p \notin BytesOf(board) /\ h.start \notin BytesOf(board)
  BY <1>1, <1>2, <1>3, BytesOfBoard
<1>5. \A i \in 1 .. Len(board) : board[i].start > p <=> board[i].start > h.start
  <2>1. SUFFICES ASSUME NEW i \in 1 .. Len(board), board[i].start > h.start, ~(board[i].start > p)
                 PROVE  FALSE
    BY <1>1, <1>2 DEF Ordered
  <2>2. /\ board[i].start \in Nat /\ board[i].end \in Nat /\ board[i].start < board[i].end
    BY <1>1 DEF Ordered
  <2>3. Covers(board, board[i].start)
    BY <2>2 DEF Covers
  <2>4. ~Covers(board, board[i].start)
    BY <1>2, <2>1, <2>2
  <2> QED BY <2>3, <2>4
<1>6. {i \in DOMAIN board : board[i].start > p} = {i \in DOMAIN board : board[i].start > h.start}
  BY <1>1, <1>5
<1> QED BY <1>4, <1>6 DEF IsLost

(* The estimate position by position: pipeBytes is the count of RFC 6675.  *)
Travelling(h, from, to) == {p \in (from .. to - 1) \ h : ~LostIn(h, p)}
Resent(h, from, to, retransmittedEnd) == {p \in (from .. to - 1) \ h : p < retransmittedEnd}

(* What pipeBytes adds up hole by hole is the count position by position.  *)
LEMMA PipeCounts ==
  ASSUME NEW board, Separate(board), NEW from \in Nat, NEW to \in Nat, NEW end \in Int
  PROVE  Pipe(board, from, to, end, SackMss)
           = Cardinality(Travelling(BytesOf(board), from, to))
               + Cardinality(Resent(BytesOf(board), from, to, end))
<1> DEFINE holes == Holes(board, from, to)
           B == BytesOf(board)
           travelling == {h \in holes : ~IsLost(board, h.start, SackMss)}
           sent == {p \in BytesIn(holes) : p < end}
<1>1. /\ \A h \in holes : IsHole(h, board, from, to)
      /\ \A p \in Nat : from <= p /\ p < to /\ ~Covers(board, p) =>
           \E h \in holes : h.start <= p /\ p < h.end
  BY HolesAreHoles
<1>2. B \subseteq Nat /\ \A q \in Int : q \in B <=> Covers(board, q)
  BY BytesOfBoard DEF Separate
<1>3. Pipe(board, from, to, end, SackMss) = Cardinality(BytesIn(travelling)) + Cardinality(sent)
  BY DEF Pipe
<1>4. \A p : p \in from .. to - 1 <=> p \in Nat /\ from <= p /\ p < to
  OBVIOUS
<1>5. \A h \in holes : h.start \in Nat /\ h.end \in Nat
  BY <1>1 DEF IsHole, Blocks
<1>6. \A h \in holes : \A p : p \in Bytes(h) <=> p \in Nat /\ h.start <= p /\ p < h.end
  BY <1>5 DEF Bytes
<1>7. \A h \in holes : \A p \in Bytes(h) : p \in (from .. to - 1) \ B
  <2>1. SUFFICES ASSUME NEW h \in holes, NEW p \in Bytes(h) PROVE p \in (from .. to - 1) \ B
    OBVIOUS
  <2>2. p \in Nat /\ h.start <= p /\ p < h.end
    BY <1>6
  <2>3. from <= p /\ p < to /\ ~Covers(board, p)
    BY <1>1, <1>5, <2>2 DEF IsHole
  <2> QED BY <1>2, <1>4, <2>2, <2>3
<1>8. \A p \in (from .. to - 1) \ B : \E h \in holes : p \in Bytes(h)
  BY <1>1, <1>2, <1>4, <1>6
<1>9. \A h \in holes : \A p \in Bytes(h) : IsLost(board, h.start, SackMss) <=> LostIn(B, p)
  <2>1. SUFFICES ASSUME NEW h \in holes, NEW p \in Bytes(h)
                 PROVE  IsLost(board, h.start, SackMss) <=> LostIn(B, p)
    OBVIOUS
  <2>2. p \in Nat /\ h.start <= p /\ p < h.end
    BY <1>6
  <2>3. IsLost(board, p, SackMss) <=> IsLost(board, h.start, SackMss)
    BY <1>1, <2>2, HolesAreLostTogether
  <2>4. ~Covers(board, p)
    BY <1>2, <1>7, <2>2
  <2> QED BY <2>2, <2>3, <2>4, LossIsKnown
<1> HIDE DEF holes, B
<1>10. BytesIn(travelling) = Travelling(B, from, to)
  BY <1>7, <1>8, <1>9 DEF BytesIn, Travelling
<1>11. sent = Resent(B, from, to, end)
  BY <1>7, <1>8 DEF BytesIn, Resent
<1> QED BY <1>3, <1>10, <1>11 DEF B

-----------------------------------------------------------------------------
(* The receiver.                                                           *)

(* The next expected position is the first that is not held.               *)
LEMMA NextExpectedIsFirst ==
  ASSUME NEW held \in SUBSET (1 .. SackPayload)
  PROVE  /\ NextExpected(held) \in 1 .. End /\ NextExpected(held) \notin held
         /\ \A p \in Int : 1 <= p /\ p < NextExpected(held) => p \in held
<1> DEFINE T == {p \in Nat : 1 <= p /\ p \notin held}
           IsNext(p) == p \notin held /\ 1 .. p - 1 \subseteq held
<1>1. SackPayload \in Nat /\ End \in Nat /\ End = SackPayload + 1
  BY SackAssumption DEF End
<1>2. T \in SUBSET Nat /\ End \in T
  BY <1>1
<1>3. PICK m \in T : \A k \in T : m <= k
  BY <1>2, LeastOf
<1>4. m \in 1 .. End /\ m \notin held
  BY <1>1, <1>2, <1>3
<1>5. ASSUME NEW q \in 1 .. m - 1 PROVE q \in held
  <2>1. q \in Nat /\ 1 <= q /\ ~(m <= q)
    BY <1>4
  <2> QED BY <1>3, <2>1
<1>6. m \in 1 .. End /\ IsNext(m)
  BY <1>4, <1>5
<1>7. NextExpected(held) = CHOOSE p \in 1 .. End : IsNext(p)
  BY DEF NextExpected
<1>8. NextExpected(held) \in 1 .. End /\ IsNext(NextExpected(held))
  BY <1>6, <1>7
<1>9. PICK e \in 1 .. End : e = NextExpected(held)
  BY <1>8
<1>10. \A p \in Int : 1 <= p /\ p < e => p \in 1 .. e - 1
  BY <1>1
<1> QED BY <1>8, <1>9, <1>10

(* Every position of a finite set is in one of its runs.                   *)
LEMMA RunExists ==
  ASSUME NEW n \in Nat, NEW P \in SUBSET (1 .. n), NEW p \in P
  PROVE  \E r : IsRun(r, P) /\ r.start <= p /\ p < r.end
<1> DEFINE S == {s \in Nat : s <= p /\ \A q \in s .. p : q \in P}
           E == {e \in Nat : p < e /\ e \notin P}
<1>1. p \in Nat /\ 1 <= p /\ p <= n
  OBVIOUS
<1>2. S \in SUBSET Nat /\ p \in S
  <2>1. \A q \in p .. p : q = p
    BY <1>1
  <2> QED BY <1>1, <2>1
<1>3. PICK s \in S : \A t \in S : s <= t
  BY <1>2, LeastOf
<1>4. E \in SUBSET Nat /\ n + 1 \in E
  BY <1>1
<1>5. PICK e \in E : \A f \in E : e <= f
  BY <1>4, LeastOf
<1>6. s \in Nat /\ s <= p /\ \A q \in Int : s <= q /\ q <= p => q \in P
  BY <1>1, <1>3
<1>7. e \in Nat /\ p < e /\ e \notin P
  BY <1>5
<1>8. s - 1 \notin P
  <2>1. SUFFICES ASSUME s - 1 \in P PROVE FALSE
    OBVIOUS
  <2>2. s - 1 \in Nat
    BY <2>1
  <2>3. \A q \in s - 1 .. p : q = s - 1 \/ (q \in Int /\ s <= q /\ q <= p)
    BY <1>1, <1>6
  <2>4. s - 1 \in S
    BY <1>1, <1>6, <2>1, <2>2, <2>3
  <2> QED BY <1>3, <1>6, <2>4
<1>9. ASSUME NEW q \in Int, s <= q, q < e PROVE q \in P
  <2>1. CASE q <= p
    BY <1>6, <1>9, <2>1
  <2>2. CASE q > p
    <3>1. q \in Nat /\ ~(e <= q)
      BY <1>1, <1>7, <1>9, <2>2
    <3>2. q \notin E
      BY <1>5, <3>1
    <3> QED BY <2>2, <3>1, <3>2
  <2> QED BY <1>1, <2>1, <2>2
<1> HIDE DEF S, E
<1>10. PICK r : r = Block(s, e)
  OBVIOUS
<1>11. r \in Blocks /\ r.start = s /\ r.end = e
  BY <1>6, <1>7, <1>10 DEF Block, Blocks
<1> QED BY <1>1, <1>6, <1>7, <1>8, <1>9, <1>11 DEF IsRun

(* The first of some ranges is one of them.                                *)
LEMMA FirstIsOne ==
  ASSUME NEW B \in SUBSET Blocks
  PROVE  IF B = {} THEN FirstOf(B) = NoBlock ELSE FirstOf(B) \in B
<1>1. CASE B = {}
  BY <1>1 DEF FirstOf
<1>2. CASE B # {}
  <2> DEFINE T == {b.start : b \in B}
             IsFirst(b) == \A c \in B : b.start <= c.start
  <2>1. \A b \in B : b.start \in Nat
    BY DEF Blocks
  <2>2. T \in SUBSET Nat /\ T # {}
    BY <1>2, <2>1
  <2>3. PICK x \in T : \A y \in T : x <= y
    BY <2>2, LeastOf
  <2>4. PICK b \in B : b.start = x
    BY <2>3
  <2>5. \A c \in B : c.start \in T
    OBVIOUS
  <2>6. b \in B /\ IsFirst(b)
    BY <2>3, <2>4, <2>5
  <2>7. (CHOOSE c \in B : IsFirst(c)) \in B
    BY <2>6
  <2> QED BY <1>2, <2>7 DEF FirstOf
<1> QED BY <1>1, <1>2

NoneOr(r, P) == r \in Blocks /\ (r # NoBlock => IsRun(r, P))

(* The first of some runs is a run, or there is none.                      *)
LEMMA FirstOfRuns ==
  ASSUME NEW P \in SUBSET Nat, NEW B \in SUBSET Ranges(P)
  PROVE  NoneOr(FirstOf(B), P) /\ (B # {} => FirstOf(B) \in B)
<1>1. \A r \in Ranges(P) : IsRun(r, P) /\ r \in Blocks
  BY RangesAreRuns DEF IsRun
<1>2. B \in SUBSET Blocks
  BY <1>1
<1>3. IF B = {} THEN FirstOf(B) = NoBlock ELSE FirstOf(B) \in B
  BY <1>2, FirstIsOne
<1>4. NoBlock \in Blocks
  BY DEF NoBlock, Block, Blocks
<1> QED BY <1>1, <1>2, <1>3, <1>4 DEF NoneOr

(* What include keeps: candidates that are ranges, not too many, and the   *)
(* first of them.                                                          *)
LEMMA IncludeIsSound ==
  ASSUME NEW P, NEW c \in Seq(Blocks), \A i \in 1 .. Len(c) : NoneOr(c[i], P),
         NEW r, r = Include(c)
  PROVE  /\ r \in Seq(Blocks) /\ Len(r) <= MaxSACKBlocks
         /\ \A k \in 1 .. Len(r) : IsRun(r[k], P)
         /\ Len(c) > 0 /\ c[1] # NoBlock => \E k \in 1 .. Len(r) : r[k] = c[1]
<1> DEFINE fresh == {i \in DOMAIN c : c[i] # NoBlock /\ \A j \in 1 .. i - 1 : c[j] # c[i]}
           I == {i \in fresh : PlaceIn(fresh, i) <= MaxSACKBlocks}
<1>1. DOMAIN c = 1 .. Len(c) /\ Len(c) \in Nat /\ MaxSACKBlocks \in Nat \ {0}
  BY SackAssumption
<1>2. fresh \in SUBSET (1 .. Len(c)) /\ I \in SUBSET fresh /\ I \in SUBSET DOMAIN c
  BY <1>1
<1>3. \A i \in fresh : c[i] # NoBlock
  OBVIOUS
<1>4. Len(c) > 0 /\ c[1] # NoBlock => 1 \in fresh
  <2>1. \A j \in 1 .. 1 - 1 : FALSE
    OBVIOUS
  <2> QED BY <1>1, <2>1
<1>5. \A i \in fresh : PlaceIn(fresh, i) <= MaxSACKBlocks => i \in I
  OBVIOUS
<1>6. \A i \in I : PlaceIn(fresh, i) <= MaxSACKBlocks
  OBVIOUS
<1>7. r = ElementsAt(c, I)
  BY DEF Include
<1> HIDE DEF fresh, I
<1>8. IsFiniteSet(fresh) /\ fresh \subseteq Nat
  <2>1. PICK m \in Nat : m = Len(c)
    BY <1>1
  <2>2. IsFiniteSet(1 .. m)
    BY FS_Interval
  <2> QED BY <1>2, <2>1, <2>2, FS_Subset
<1>9. Cardinality(fresh) \in Nat /\ \A i, j \in fresh : PlaceIn(fresh, i) = PlaceIn(fresh, j) => i = j
  BY <1>8, EveryPlaceIsTaken
<1>10. \A i \in fresh : PlaceIn(fresh, i) \in 1 .. Cardinality(fresh)
  BY <1>8, PlacesAreOrdered
<1>11. r \in Seq(Blocks) /\ Selected(c, I, r)
  BY <1>2, <1>7, Selects
<1>12. Cardinality(I) <= MaxSACKBlocks
  <2> DEFINE f == [i \in I |-> PlaceIn(fresh, i)]
  <2>1. \A i \in I : f[i] \in 1 .. MaxSACKBlocks
    BY <1>1, <1>2, <1>6, <1>9, <1>10
  <2>2. \A i, j \in I : f[i] = f[j] => i = j
    BY <1>2, <1>9
  <2>3. DOMAIN f = I /\ f = [i \in I |-> f[i]]
    OBVIOUS
  <2> HIDE DEF f
  <2>4. f \in Injection(I, 1 .. MaxSACKBlocks)
    BY <2>1, <2>2, <2>3 DEF Injection, IsInjective
  <2>5. PICK m \in Nat : m = MaxSACKBlocks
    BY <1>1
  <2>6. IsFiniteSet(1 .. m) /\ Cardinality(1 .. m) = m
    BY FS_Interval
  <2>7. Cardinality(I) <= Cardinality(1 .. m)
    BY <2>4, <2>5, <2>6, FS_Injection
  <2> QED BY <2>5, <2>6, <2>7
<1>13. ASSUME NEW k \in 1 .. Len(r) PROVE IsRun(r[k], P)
  <2>1. PICK i \in I : r[k] = c[i]
    BY <1>11 DEF Selected
  <2> QED BY <1>2, <1>3, <2>1 DEF NoneOr
<1>14. ASSUME Len(c) > 0, c[1] # NoBlock PROVE \E k \in 1 .. Len(r) : r[k] = c[1]
  <2>1. 1 \in fresh
    BY <1>4, <1>14
  <2>2. {j \in fresh : j <= 1} = {1}
    BY <1>2, <2>1
  <2>3. PlaceIn(fresh, 1) = 1
    BY <2>2, FS_Singleton DEF PlaceIn
  <2>4. 1 \in I
    BY <1>1, <1>5, <2>1, <2>3
  <2> QED BY <1>11, <2>4 DEF Selected
<1> QED BY <1>11, <1>12, <1>13, <1>14 DEF Selected

(* What is buffered is what is held beyond the next position expected.     *)
LEMMA BufferedIsAbove ==
  ASSUME NEW held \in SUBSET (1 .. SackPayload)
  PROVE  /\ Buffered(held) \in SUBSET held /\ Buffered(held) \in SUBSET Nat
         /\ \A p \in Nat : p \in Buffered(held) <=> p \in held /\ p > NextExpected(held)
         /\ \A p \in held : p < NextExpected(held) \/ p \in Buffered(held)
<1>1. NextExpected(held) \in 1 .. End /\ NextExpected(held) \notin held
  BY NextExpectedIsFirst
<1>2. \A p \in held : p \in Nat
  BY SackAssumption
<1>3. NextExpected(held) \in Nat
  BY <1>1
<1>4. PICK e \in Nat : e = NextExpected(held)
  BY <1>3
<1>5. Buffered(held) = {p \in held : p > e}
  BY <1>4 DEF Buffered
<1>6. \A p \in held : p # e
  BY <1>1, <1>4
<1>7. Buffered(held) \in SUBSET held
  BY <1>5
<1>8. Buffered(held) \in SUBSET Nat
  BY <1>2, <1>5
<1>9. \A p \in Nat : p \in Buffered(held) <=> p \in held /\ p > NextExpected(held)
  BY <1>4, <1>5
<1>10. \A p \in held : p < NextExpected(held) \/ p \in Buffered(held)
  BY <1>2, <1>4, <1>5, <1>6
<1> QED BY <1>7, <1>8, <1>9, <1>10

(* Lists of runs with gaps, put together.                                  *)
LEMMA ConcatKeeps ==
  ASSUME NEW P, NEW a \in Seq(Blocks), NEW b \in Seq(Blocks), Len(a) > 0,
         \A i \in 1 .. Len(a) : NoneOr(a[i], P), \A i \in 1 .. Len(b) : NoneOr(b[i], P)
  PROVE  /\ a \o b \in Seq(Blocks) /\ Len(a \o b) > 0 /\ (a \o b)[1] = a[1]
         /\ \A i \in 1 .. Len(a \o b) : NoneOr((a \o b)[i], P)
<1>1. Len(a) \in Nat /\ Len(b) \in Nat /\ Len(a) >= 1
  OBVIOUS
<1>2. /\ a \o b \in Seq(Blocks) /\ Len(a \o b) = Len(a) + Len(b)
      /\ \A i \in 1 .. Len(a) + Len(b) :
           (a \o b)[i] = IF i <= Len(a) THEN a[i] ELSE b[i - Len(a)]
  BY ConcatProperties
<1>3. PICK e : e = a \o b
  OBVIOUS
<1>4. PICK m \in Nat, n \in Nat : m = Len(a) /\ n = Len(b) /\ m >= 1
  BY <1>1
<1>5. /\ e \in Seq(Blocks) /\ Len(e) = m + n
      /\ \A i \in 1 .. m + n : e[i] = IF i <= m THEN a[i] ELSE b[i - m]
  BY <1>2, <1>3, <1>4
<1>6. ASSUME NEW i \in 1 .. m + n PROVE NoneOr(e[i], P)
  <2>1. CASE i <= m
    BY <1>4, <1>5, <2>1
  <2>2. CASE ~(i <= m)
    <3>1. i - m \in 1 .. n
      BY <1>4, <2>2
    <3> QED BY <1>4, <1>5, <2>2, <3>1
  <2> QED BY <2>1, <2>2
<1>7. 1 \in 1 .. m + n /\ 1 <= m /\ m + n > 0
  BY <1>4
<1> QED BY <1>3, <1>5, <1>6, <1>7

(* A report consists of ranges the receiver holds out of order.            *)
LEMMA ReportIsSound ==
  ASSUME NEW held \in SUBSET (1 .. SackPayload), recent \in Seq(Blocks),
         NEW segment \in Blocks, NEW r, r = Report(segment, held)
  PROVE  /\ r \in Seq(Blocks) /\ Len(r) <= MaxSACKBlocks
         /\ \A k \in 1 .. Len(r) : IsRun(r[k], Buffered(held))
         /\ RangeOf(segment, held) # NoBlock => \E k \in 1 .. Len(r) : r[k] = RangeOf(segment, held)
<1> DEFINE P == Buffered(held)
           a == <<RangeOf(segment, held)>>
           b == [i \in DOMAIN recent |-> RangeOf(recent[i], held)]
           d == [p \in 1 .. SackPayload |-> RangeFrom(p, held)]
<1>1. P \in SUBSET Nat
  BY BufferedIsAbove
<1>2. \A block : NoneOr(RangeOf(block, held), P)
  BY <1>1, FirstOfRuns DEF RangeOf
<1>3. \A p : NoneOr(RangeFrom(p, held), P)
  BY <1>1, FirstOfRuns DEF RangeFrom
<1>4. SackPayload \in Nat
  BY SackAssumption
<1>5. Report(segment, held) = Include(a \o b \o d)
  BY DEF Report
<1>6. a \in Seq(Blocks) /\ Len(a) > 0 /\ \A i \in 1 .. Len(a) : NoneOr(a[i], P)
  <2>1. a \in Seq(Blocks) /\ Len(a) = 1 /\ \A i \in 1 .. 1 : NoneOr(a[i], P)
    BY <1>2 DEF NoneOr
  <2> QED BY <2>1
<1>7. a[1] = RangeOf(segment, held)
  OBVIOUS
<1>8. b \in Seq(Blocks) /\ \A i \in 1 .. Len(b) : NoneOr(b[i], P)
  <2>1. DOMAIN recent = 1 .. Len(recent) /\ Len(recent) \in Nat
    OBVIOUS
  <2>2. \A i \in 1 .. Len(recent) : NoneOr(b[i], P) /\ b[i] \in Blocks
    BY <1>2, <2>1 DEF NoneOr
  <2>3. b = [i \in 1 .. Len(recent) |-> b[i]] /\ DOMAIN b = 1 .. Len(recent)
    BY <2>1
  <2> HIDE DEF b
  <2>4. b \in [1 .. Len(recent) -> Blocks]
    BY <2>2, <2>3
  <2>5. b \in Seq(Blocks)
    BY <2>1, <2>4, SeqDef
  <2>6. Len(b) = Len(recent)
    BY <2>1, <2>3, <2>5, LenProperties
  <2> QED BY <2>2, <2>5, <2>6
<1>9. d \in Seq(Blocks) /\ \A i \in 1 .. Len(d) : NoneOr(d[i], P)
  <2>2. \A i \in 1 .. SackPayload : NoneOr(d[i], P) /\ d[i] \in Blocks
    BY <1>3 DEF NoneOr
  <2>3. d = [i \in 1 .. SackPayload |-> d[i]] /\ DOMAIN d = 1 .. SackPayload
    OBVIOUS
  <2> HIDE DEF d
  <2>4. d \in [1 .. SackPayload -> Blocks]
    BY <2>2, <2>3
  <2>5. d \in Seq(Blocks)
    BY <1>4, <2>4, SeqDef
  <2>6. Len(d) = SackPayload
    BY <1>4, <2>3, <2>5, LenProperties
  <2> QED BY <2>2, <2>5, <2>6
<1> HIDE DEF a, b, d, P
<1>10. PICK e : e = a \o b
  OBVIOUS
<1>11. e \in Seq(Blocks) /\ Len(e) > 0 /\ e[1] = a[1] /\ \A i \in 1 .. Len(e) : NoneOr(e[i], P)
  BY <1>6, <1>8, <1>10, ConcatKeeps
<1>12. PICK c : c = e \o d
  OBVIOUS
<1>13. c \in Seq(Blocks) /\ Len(c) > 0 /\ c[1] = e[1] /\ \A i \in 1 .. Len(c) : NoneOr(c[i], P)
  BY <1>9, <1>11, <1>12, ConcatKeeps
<1>16. r = Include(c)
  BY <1>5, <1>10, <1>12
<1>17. /\ r \in Seq(Blocks) /\ Len(r) <= MaxSACKBlocks
       /\ \A k \in 1 .. Len(r) : IsRun(r[k], P)
       /\ Len(c) > 0 /\ c[1] # NoBlock => \E k \in 1 .. Len(r) : r[k] = c[1]
  BY <1>13, <1>16, IncludeIsSound
<1> QED BY <1>7, <1>11, <1>13, <1>17 DEF P

(* A segment that has arrived is acknowledged or in the first range.       *)
LEMMA ArrivalIsReported ==
  ASSUME NEW held \in SUBSET (1 .. SackPayload), recent \in Seq(Blocks),
         NEW segment \in Blocks, segment.start < segment.end, Bytes(segment) \subseteq held,
         NEW r, r = Report(segment, held), NEW p \in Bytes(segment)
  PROVE  p < NextExpected(held) \/ \E k \in 1 .. Len(r) : p \in Bytes(r[k])
<1> DEFINE P == Buffered(held)
           touching == {x \in Ranges(P) : x.start < segment.end /\ x.end > segment.start}
<1>1. /\ P \in SUBSET held /\ P \in SUBSET Nat
      /\ \A q \in Nat : q \in P <=> q \in held /\ q > NextExpected(held)
      /\ \A q \in held : q < NextExpected(held) \/ q \in P
  BY BufferedIsAbove
<1>2. segment.start \in Nat /\ segment.end \in Nat
  BY DEF Blocks
<1>3. \A q : q \in Bytes(segment) <=> q \in Nat /\ segment.start <= q /\ q < segment.end
  BY <1>2 DEF Bytes
<1>4. NextExpected(held) \in 1 .. End /\ NextExpected(held) \notin held
  BY NextExpectedIsFirst
<1>5. NextExpected(held) \in Nat
  BY <1>4
<1>6. SUFFICES ASSUME ~(p < NextExpected(held)) PROVE \E k \in 1 .. Len(r) : p \in Bytes(r[k])
  OBVIOUS
<1> HIDE DEF P
<1>7. \A q \in Bytes(segment) : q \in P
  <2>1. SUFFICES ASSUME NEW q \in Bytes(segment), q < NextExpected(held) PROVE FALSE
    BY <1>1
  <2>2. PICK e \in Nat : e = NextExpected(held)
    BY <1>5
  <2>3. q \in Nat /\ segment.start <= q /\ q < e /\ e <= p /\ p < segment.end /\ p \in Nat
    BY <1>3, <1>6, <2>1, <2>2
  <2>4. e \in Bytes(segment)
    BY <1>2, <1>3, <2>2, <2>3
  <2> QED BY <1>4, <2>2, <2>4
<1>8. SackPayload \in Nat /\ P \in SUBSET (1 .. SackPayload)
  BY <1>1, SackAssumption
<1>9. p \in P
  BY <1>7
<1>10. PICK x : IsRun(x, P) /\ x.start <= p /\ p < x.end
  BY <1>8, <1>9, RunExists
<1>11. \A y : y \in Ranges(P) <=> IsRun(y, P)
  BY <1>1, RangesAreRuns
<1>12. x \in touching
  <2>1. x.start \in Nat /\ x.end \in Nat
    BY <1>10 DEF IsRun, Blocks
  <2>2. p \in Nat /\ segment.start <= p /\ p < segment.end
    BY <1>3
  <2> QED BY <1>2, <1>10, <1>11, <2>1, <2>2
<1>13. PICK y : y = RangeOf(segment, held)
  OBVIOUS
<1>14. y \in touching
  <2>1. touching \in SUBSET Ranges(P) /\ touching # {}
    BY <1>12
  <2>2. y = FirstOf(touching)
    BY <1>13 DEF RangeOf, P
  <2> HIDE DEF touching
  <2> QED BY <1>1, <2>1, <2>2, FirstOfRuns
<1>15. /\ IsRun(y, P) /\ y.start < segment.end /\ y.end > segment.start
       /\ y \in Blocks /\ y.start \in Nat /\ y.end \in Nat /\ y.start < y.end
  BY <1>11, <1>14 DEF IsRun, Blocks
<1>16. y.end \notin P /\ y.start - 1 \notin P
  BY <1>15 DEF IsRun
<1>17. p < y.end
  <2>1. SUFFICES ASSUME y.end <= p PROVE FALSE
    BY <1>3, <1>15
  <2>2. y.end \in Bytes(segment)
    BY <1>2, <1>3, <1>15, <2>1
  <2> QED BY <1>7, <1>16, <2>2
<1>18. y.start <= p
  <2>1. SUFFICES ASSUME p < y.start PROVE FALSE
    BY <1>3, <1>15
  <2>2. y.start - 1 \in Bytes(segment)
    BY <1>2, <1>3, <1>15, <2>1
  <2> QED BY <1>7, <1>16, <2>2
<1>19. y # NoBlock
  BY <1>15 DEF NoBlock, Block
<1>20. PICK k \in 1 .. Len(r) : r[k] = y
  BY <1>13, <1>19, ReportIsSound
<1>21. p \in Bytes(y)
  BY <1>3, <1>15, <1>17, <1>18 DEF Bytes
<1> QED BY <1>20, <1>21

-----------------------------------------------------------------------------
(* The inductive invariant of the recovery.                                *)

Policies ==
  [cwnd : Nat, ssthresh : Nat, startup : Nat, avoidance : Nat, active : BOOLEAN,
   inflations : Nat, recoveryWindow : Nat, recoveryEnd : Nat, partialACKSeen : BOOLEAN]

Senders ==
  [policy : Policies, oldest : Nat, next : Nat, ends : SUBSET Nat, retries : Nat,
   timer : BOOLEAN, sending : BOOLEAN, closed : BOOLEAN, timedOutEnd : Nat,
   board : Seq(Blocks), active : BOOLEAN, recoveryEnd : Nat, retransmittedEnd : Nat,
   rescueAfter : Nat, duplicateACKs : Nat, pipe : Nat, out : Seq(Blocks),
   repaired : SUBSET Nat, needless : BOOLEAN, rescued : Nat, lossesBefore : Nat]

(* The window a recovery ends with is as good as any.                      *)
PolicyFits(w) ==
  /\ w \in Policies /\ w.cwnd \in SackMss .. SackMaximum
  /\ w.active => w.recoveryWindow >= SackMss

IsSegment(block, next) ==
  1 <= block.start /\ block.start < block.end /\ block.end <= next /\ Size(block) <= SackMss

(* The ends of the segments under way divide what is unconfirmed, and no   *)
(* segment is too long.                                                    *)
FlightIsDivided(s) ==
  /\ s.ends \subseteq s.oldest + 1 .. s.next
  /\ s.next = s.oldest \/ s.next \in s.ends
  /\ \A e \in s.ends : \E d \in s.ends \cup {s.oldest} : d < e /\ e - d <= SackMss

(* What holds of a sender whether or not it is closed.                     *)
SenderIsTyped(s) ==
  /\ s \in Senders /\ PolicyFits(s.policy)
  /\ 1 <= s.oldest /\ s.oldest <= s.next /\ s.next <= End
  /\ s.retries <= SackRetransmissions /\ ~s.needless
  /\ \A i \in 1 .. Len(s.out) : IsSegment(s.out[i], s.next)

IsShut(s) == s.ends = {} /\ s.board = << >> /\ ~s.active /\ ~s.timer /\ ~s.sending

(* The board is the set h of positions reported.                           *)
BoardIs(s, h) ==
  /\ Separate(s.board) /\ BytesOf(s.board) = h /\ h \subseteq s.oldest + 1 .. s.next - 1

PipeIs(s, h) ==
  s.pipe = Cardinality(Travelling(h, s.oldest, s.next))
             + Cardinality(Resent(h, s.oldest, s.next, s.retransmittedEnd)) + s.rescued

(* A recovery: how far it has come, what it has repaired, and what made it *)
(* hold back or use its rescue.                                            *)
RecoveryIsSound(s, h) ==
  /\ s.oldest < s.recoveryEnd /\ s.recoveryEnd <= s.next /\ s.retransmittedEnd <= s.next
  /\ PipeIs(s, h)
  /\ \A p \in s.repaired : p < s.retransmittedEnd
  /\ \A p \in (s.oldest .. s.next - 1) \ h : p < s.retransmittedEnd => p \in s.repaired
  /\ s.rescueAfter <= s.recoveryEnd
  /\ s.oldest <= s.rescueAfter /\ s.rescueAfter < s.recoveryEnd => \E q \in h : q >= s.rescueAfter
  /\ s.rescueAfter = s.recoveryEnd => s.next = End

OpenIsSound(s, h) ==
  /\ FlightIsDivided(s) /\ BoardIs(s, h)
  /\ s.timer <=> s.ends # {}
  /\ s.sending => s.next < End
  /\ s.active = s.policy.active
  /\ s.active => RecoveryIsSound(s, h)

SenderIsSound(s, h) ==
  SenderIsTyped(s) /\ IF s.closed THEN IsShut(s) ELSE OpenIsSound(s, h)

(* Between two events something is due, and a recovery that has room for a *)
(* segment has nothing left to do.                                         *)
NothingLeft(s) ==
  /\ s.next = End /\ s.oldest <= s.rescueAfter
  /\ \A p \in Int :
       /\ Higher(s.oldest, s.retransmittedEnd) <= p
       /\ p < Higher(s.oldest, HighestReportedEnd(s.board))
       => Covers(s.board, p)

IsAtRest(s) ==
  ~s.closed => /\ s.oldest < End /\ (s.ends = {} => s.sending)
               /\ s.active => Space(s) < SackMss \/ s.sending \/ NothingLeft(s)

(* The network.                                                            *)
DataIsSound(queue, next) ==
  queue \in Seq(Blocks) /\ \A i \in 1 .. Len(queue) : IsSegment(queue[i], next)

Reports == [ack : Nat, blocks : Seq(Blocks)]

ReportIsTrue(p, h, held, oldest) ==
  /\ p.ack \in 1 .. End /\ 1 .. p.ack - 1 \subseteq held /\ p.ack \notin h
  /\ \A i \in 1 .. Len(p.blocks) :
       /\ p.ack < p.blocks[i].start /\ p.blocks[i].start < p.blocks[i].end
       /\ Bytes(p.blocks[i]) \subseteq held /\ oldest \notin Bytes(p.blocks[i])

AcksAreSound(queue, h, held, oldest) ==
  /\ queue \in Seq(Reports)
  /\ \A i \in 1 .. Len(queue) : ReportIsTrue(queue[i], h, held, oldest)
  /\ \A i, j \in 1 .. Len(queue) : \A k \in 1 .. Len(queue[j].blocks) :
       queue[i].ack \notin Bytes(queue[j].blocks[k])

NetworkIsSound ==
  /\ got \subseteq 1 .. sender.next - 1 /\ recent \in Seq(Blocks) /\ Len(recent) <= MaxSACKBlocks
  /\ 1 .. sender.oldest - 1 \subseteq got /\ heard \subseteq got
  /\ DataIsSound(data, sender.next)
  /\ AcksAreSound(acks, heard, got, sender.oldest)

(* A position is confirmed, reported, or under way one way or the other.   *)
Carries(p, position) ==
  position < p.ack \/ \E i \in 1 .. Len(p.blocks) : position \in Bytes(p.blocks[i])

OnItsWay(position, s, h, queue, reports) ==
  \/ position < s.oldest \/ position \in h
  \/ \E i \in 1 .. Len(queue) : position \in Bytes(queue[i])
  \/ \E i \in 1 .. Len(s.out) : position \in Bytes(s.out[i])
  \/ \E i \in 1 .. Len(reports) : Carries(reports[i], position)

RepairsAreOnTheirWay(s, h, queue, reports) ==
  /\ \A p \in s.repaired : OnItsWay(p, s, h, queue, reports)
  /\ s.rescueAfter = s.recoveryEnd => OnItsWay(s.next - 1, s, h, queue, reports)

Undisturbed(s) == ~s.closed /\ s.active /\ losses = s.lossesBefore

SackInv ==
  /\ SenderIsSound(sender, heard) /\ IsAtRest(sender) /\ sender.out = << >>
  /\ NetworkIsSound
  /\ losses \in 0 .. MaxTroubles /\ troubles \in 0 .. MaxTroubles /\ losses <= troubles
  /\ sender.active => sender.lossesBefore <= losses
  /\ Undisturbed(sender) => RepairsAreOnTheirWay(sender, heard, data, acks)

(* Two sets that share nothing.                                            *)
LEMMA CountsTogether ==
  ASSUME NEW A, NEW B, IsFiniteSet(A), IsFiniteSet(B), A \cap B = {}
  PROVE  IsFiniteSet(A \cup B) /\ Cardinality(A \cup B) = Cardinality(A) + Cardinality(B)
<1>1. /\ IsFiniteSet(A \cup B)
      /\ Cardinality(A \cup B) = Cardinality(A) + Cardinality(B) - Cardinality(A \cap B)
  BY FS_Union
<1>2. Cardinality(A \cap B) = 0
  BY FS_EmptySet
<1>3. Cardinality(A) \in Nat /\ Cardinality(B) \in Nat
  BY FS_CardinalityType
<1> QED BY <1>1, <1>2, <1>3

(* The counts of the estimate are numbers.                                 *)
LEMMA CountsAreNatural ==
  ASSUME NEW h, NEW from \in Nat, NEW to \in Nat, NEW end
  PROVE  /\ IsFiniteSet(Travelling(h, from, to)) /\ Cardinality(Travelling(h, from, to)) \in Nat
         /\ IsFiniteSet(Resent(h, from, to, end)) /\ Cardinality(Resent(h, from, to, end)) \in Nat
<1>1. PICK a, b \in Int : a = from /\ b = to - 1
  OBVIOUS
<1>2. IsFiniteSet(a .. b)
  BY FS_Interval
<1>3. Travelling(h, from, to) \in SUBSET (a .. b) /\ Resent(h, from, to, end) \in SUBSET (a .. b)
  BY <1>1 DEF Travelling, Resent
<1> QED BY <1>2, <1>3, FS_Subset, FS_CardinalityType

(* A repair of the first gap raises the count by its size.                 *)
LEMMA ResentGrows ==
  ASSUME NEW h, NEW from \in Nat, NEW to \in Nat, NEW end \in Nat,
         NEW start \in Nat, NEW stop \in Nat, from <= start, start <= stop, stop <= to, end <= start,
         \A p \in Int : start <= p /\ p < stop => p \notin h,
         \A p \in Int : from <= p /\ end <= p /\ p < start => p \in h
  PROVE  Cardinality(Resent(h, from, to, stop)) = Cardinality(Resent(h, from, to, end)) + (stop - start)
<1> DEFINE A == Resent(h, from, to, end)
           B == start .. stop - 1
<1>1. \A p : p \in A <=> p \in Int /\ from <= p /\ p < to /\ p \notin h /\ p < end
  BY DEF Resent
<1>2. \A p : p \in Resent(h, from, to, stop) <=>
               p \in Int /\ from <= p /\ p < to /\ p \notin h /\ p < stop
  BY DEF Resent
<1>3. \A p : p \in B <=> p \in Int /\ start <= p /\ p < stop
  OBVIOUS
<1>4. IsFiniteSet(A) /\ Cardinality(A) \in Nat
  BY CountsAreNatural
<1>5. IsFiniteSet(B) /\ Cardinality(B) = stop - start
  <2>1. PICK a, b \in Int : a = start /\ b = stop - 1
    OBVIOUS
  <2>2. IsFiniteSet(a .. b) /\ Cardinality(a .. b) = IF a > b THEN 0 ELSE b - a + 1
    BY FS_Interval
  <2> QED BY <2>1, <2>2
<1> HIDE DEF A, B
<1>6. A \cap B = {}
  BY <1>1, <1>3
<1>7. Resent(h, from, to, stop) = A \cup B
  <2>1. ASSUME NEW p, p \in Resent(h, from, to, stop) PROVE p \in A \/ p \in B
    BY <1>1, <1>2, <1>3, <2>1
  <2>2. ASSUME NEW p, p \in A \/ p \in B PROVE p \in Resent(h, from, to, stop)
    BY <1>1, <1>2, <1>3, <2>2
  <2> QED BY <2>1, <2>2
<1>8. Cardinality(A \cup B) = Cardinality(A) + Cardinality(B)
  BY <1>4, <1>5, <1>6, CountsTogether
<1> QED BY <1>5, <1>7, <1>8 DEF A

(* Nothing above the last report is known to be lost.                      *)
LEMMA NothingLostAbove ==
  ASSUME NEW h \in SUBSET Nat, NEW p \in Nat, \A q \in h : q <= p
  PROVE  ~LostIn(h, p)
<1>1. {q \in h : q > p} = {}
  <2>1. \A q \in h : q \in Nat /\ ~(q > p)
    OBVIOUS
  <2> QED BY <2>1
<1>2. Ranges({}) = {}
  <2>1. \A r : r \in Ranges({}) <=> IsRun(r, {})
    BY RangesAreRuns
  <2>2. \A r : ~IsRun(r, {})
    <3>1. SUFFICES ASSUME NEW r, IsRun(r, {}) PROVE FALSE
      OBVIOUS
    <3>2. r.start \in Nat /\ r.end \in Nat /\ r.start < r.end
      BY <3>1 DEF IsRun, Blocks
    <3> QED BY <3>1, <3>2 DEF IsRun
  <2> QED BY <2>1, <2>2
<1>3. Cardinality({}) = 0
  BY FS_EmptySet
<1>4. ~(0 >= 3) /\ ~(0 > 2 * SackMss)
  BY SackAssumption
<1> QED BY <1>1, <1>2, <1>3, <1>4 DEF LostIn

(* New data is under way, and not retransmitted.                           *)
GrowsBy(h, from, to, stop, end, size) ==
  /\ Cardinality(Travelling(h, from, stop)) = Cardinality(Travelling(h, from, to)) + size
  /\ Resent(h, from, stop, end) = Resent(h, from, to, end)

(* New data raises the count by its size.                                  *)
LEMMA TravellingGrows ==
  ASSUME NEW h \in SUBSET Nat, NEW from \in Nat, NEW to \in Nat, NEW size \in Nat, NEW end \in Nat,
         from <= to, end <= to, \A q \in h : q < to, NEW stop, stop = to + size
  PROVE  GrowsBy(h, from, to, stop, end, size)
<1> DEFINE A == Travelling(h, from, to)
           B == to .. stop - 1
<1>1. \A p : p \in A <=> p \in Int /\ from <= p /\ p < to /\ p \notin h /\ ~LostIn(h, p)
  BY DEF Travelling
<1>2. \A p : p \in Travelling(h, from, stop)
               <=> p \in Int /\ from <= p /\ p < stop /\ p \notin h /\ ~LostIn(h, p)
  BY DEF Travelling
<1>3. \A p : p \in B <=> p \in Int /\ to <= p /\ p < stop
  OBVIOUS
<1>4. IsFiniteSet(A) /\ Cardinality(A) \in Nat
  BY CountsAreNatural
<1>5. IsFiniteSet(B) /\ Cardinality(B) = size
  <2>1. PICK a, b \in Int : a = to /\ b = stop - 1
    OBVIOUS
  <2>2. IsFiniteSet(a .. b) /\ Cardinality(a .. b) = IF a > b THEN 0 ELSE b - a + 1
    BY FS_Interval
  <2> QED BY <2>1, <2>2
<1> HIDE DEF A, B
<1>6. A \cap B = {}
  BY <1>1, <1>3
<1>7. \A p \in B : p \in Nat /\ p \notin h /\ ~LostIn(h, p)
  <2>1. SUFFICES ASSUME NEW p \in B PROVE p \in Nat /\ p \notin h /\ ~LostIn(h, p)
    OBVIOUS
  <2>2. p \in Nat /\ to <= p
    BY <1>3
  <2>3. \A q \in h : q \in Nat /\ q < to
    OBVIOUS
  <2>4. p \notin h /\ \A q \in h : q <= p
    BY <2>2, <2>3
  <2> QED BY <2>2, <2>4, NothingLostAbove
<1>8. Travelling(h, from, stop) = A \cup B
  <2>1. ASSUME NEW p, p \in Travelling(h, from, stop) PROVE p \in A \/ p \in B
    BY <1>1, <1>2, <1>3, <2>1
  <2>2. ASSUME NEW p, p \in A \/ p \in B PROVE p \in Travelling(h, from, stop)
    BY <1>1, <1>2, <1>3, <1>7, <2>2
  <2> QED BY <2>1, <2>2
<1>9. Cardinality(A \cup B) = Cardinality(A) + Cardinality(B)
  BY <1>4, <1>5, <1>6, CountsTogether
<1>10. Resent(h, from, stop, end) = Resent(h, from, to, end)
  BY DEF Resent
<1> QED BY <1>5, <1>8, <1>9, <1>10 DEF A, GrowsBy

-----------------------------------------------------------------------------
(* The window of a recovery.                                               *)

(* setWindowBytes keeps any window of at least a segment.                  *)
LEMMA WindowFits ==
  ASSUME NEW bytes \in Nat, bytes >= SackMss
  PROVE  Window!Smaller(bytes, SackMaximum) \in SackMss .. SackMaximum
BY SackAssumption DEF Window!Smaller

(* Setting such a window keeps a policy usable.                            *)
LEMMA WindowIsSet ==
  ASSUME NEW v \in Policies, NEW c \in SackMss .. SackMaximum,
         v.active => v.recoveryWindow >= SackMss
  PROVE  PolicyFits([v EXCEPT !.cwnd = c]) /\ [v EXCEPT !.cwnd = c].active = v.active
<1>1. c \in Nat
  BY SackAssumption
<1> QED BY <1>1 DEF PolicyFits, Policies

(* The window a transfer starts with.                                      *)
LEMMA NewPolicyIsUsable == PolicyFits(Window!NewPolicy) /\ ~Window!NewPolicy.active
BY SackAssumption DEF Window!NewPolicy, PolicyFits, Policies

(* The window after the loss that begins a recovery.                       *)
LEMMA LossIsUsable ==
  ASSUME NEW w, PolicyFits(w), NEW flight \in Nat
  PROVE  PolicyFits(OnLoss(w, flight)) /\ OnLoss(w, flight).active
<1>1. PICK window : window = Window!Halved(flight)
  OBVIOUS
<1>2. window \in Nat /\ window >= SackMss
  BY <1>1, SackAssumption DEF Window!Halved, Window!Larger
<1>3. PICK c : c = Window!Smaller(window, SackMaximum)
  OBVIOUS
<1>4. c \in SackMss .. SackMaximum /\ c \in Nat
  BY <1>2, <1>3, WindowFits, SackAssumption
<1>5. PICK v : v = [w EXCEPT !.ssthresh = window, !.recoveryWindow = window,
                             !.avoidance = 0, !.active = TRUE]
  OBVIOUS
<1>6. v \in Policies /\ v.active = TRUE /\ v.recoveryWindow = window
  BY <1>2, <1>5 DEF PolicyFits, Policies
<1>7. OnLoss(w, flight) = [v EXCEPT !.cwnd = c]
  BY <1>1, <1>3, <1>5 DEF OnLoss, Window!SetWindow
<1> QED BY <1>2, <1>4, <1>6, <1>7, WindowIsSet

(* The window after a timeout.                                             *)
LEMMA TimeoutLossIsUsable ==
  ASSUME NEW w, PolicyFits(w), NEW flight \in Nat, NEW end, NEW counted \in BOOLEAN
  PROVE  /\ PolicyFits(Window!OnTimeoutLoss(w, flight, end, counted))
         /\ ~Window!OnTimeoutLoss(w, flight, end, counted).active
<1>1. PICK window : window = Window!Halved(flight)
  OBVIOUS
<1>2. window \in Nat
  BY <1>1, SackAssumption DEF Window!Halved, Window!Larger
<1>3. PICK c : c = Window!Smaller(SackMss, SackMaximum)
  OBVIOUS
<1>4. c \in SackMss .. SackMaximum /\ c \in Nat
  BY <1>3, WindowFits, SackAssumption
<1>5. PICK v : v = [w EXCEPT !.active = FALSE, !.inflations = 0, !.partialACKSeen = FALSE]
  OBVIOUS
<1>6. v \in Policies /\ v.active = FALSE
  BY <1>5 DEF PolicyFits, Policies
<1>7. PICK u : u = [v EXCEPT !.recoveryEnd = v.recoveryEnd]
  OBVIOUS
<1>8. u \in Policies /\ u.active = FALSE
  BY <1>6, <1>7 DEF Policies
<1>9. PICK x : x = [u EXCEPT !.ssthresh = IF counted THEN @ ELSE window, !.avoidance = 0]
  OBVIOUS
<1>10. x \in Policies /\ x.active = FALSE
  BY <1>2, <1>8, <1>9 DEF Policies
<1>11. Window!OnTimeoutLoss(w, flight, end, counted) = [x EXCEPT !.cwnd = c]
  BY <1>1, <1>3, <1>5, <1>7, <1>9 DEF Window!OnTimeoutLoss, Window!StopRecovery,
     Window!RestartAfterLoss, Window!SetWindow
<1> QED BY <1>4, <1>10, <1>11, WindowIsSet

(* The window after an acknowledgement, inside and outside a recovery.     *)
LEMMA AfterACKIsUsable ==
  ASSUME NEW w, PolicyFits(w), NEW newBytes \in Nat,
         NEW inRecovery \in BOOLEAN, NEW ending \in BOOLEAN,
         inRecovery = w.active, ending => inRecovery
  PROVE  /\ PolicyFits(AfterACK(w, newBytes, inRecovery, ending))
         /\ inRecovery /\ ~ending => AfterACK(w, newBytes, inRecovery, ending).active = TRUE
         /\ ~inRecovery \/ ending => AfterACK(w, newBytes, inRecovery, ending).active = FALSE
<1>0. w \in Policies /\ w.active \in BOOLEAN /\ w.cwnd \in Nat /\ w.ssthresh \in Nat
      /\ w.avoidance \in Nat /\ w.recoveryWindow \in Nat
  BY DEF PolicyFits, Policies
<1>a. SackMss \in Nat \ {0} /\ SackMaximum \in Nat /\ w.cwnd >= SackMss
  BY <1>0, SackAssumption DEF PolicyFits
<1>1. CASE ~w.active
  <2>1. AfterACK(w, newBytes, inRecovery, ending) = Window!ClassicACK(w, newBytes, FALSE)
    BY <1>1 DEF AfterACK
  <2>2. PICK m \in Nat : m = Window!Smaller(newBytes, SackMss)
    BY <1>a DEF Window!Smaller
  <2>3. PICK a, b : a = Window!Smaller(w.cwnd + m, SackMaximum)
                    /\ b = Window!Smaller(w.cwnd + SackMss, SackMaximum)
    OBVIOUS
  <2>4. a \in SackMss .. SackMaximum /\ b \in SackMss .. SackMaximum /\ a \in Nat /\ b \in Nat
    <3>1. w.cwnd + m \in Nat /\ w.cwnd + m >= SackMss
          /\ w.cwnd + SackMss \in Nat /\ w.cwnd + SackMss >= SackMss
      BY <1>0, <1>a
    <3> QED BY <1>a, <2>3, <3>1, WindowFits
  <2>5. w.cwnd < w.ssthresh => Window!ClassicACK(w, newBytes, FALSE) = [w EXCEPT !.cwnd = a]
    BY <2>2, <2>3 DEF Window!ClassicACK, Window!SetWindow
  <2>6. CASE w.cwnd < w.ssthresh
    <3>1. AfterACK(w, newBytes, inRecovery, ending) = [w EXCEPT !.cwnd = a]
      BY <2>1, <2>5, <2>6
    <3>2. PolicyFits([w EXCEPT !.cwnd = a]) /\ [w EXCEPT !.cwnd = a].active = w.active
      BY <1>0, <1>1, <2>4, WindowIsSet
    <3>3. w.active = FALSE
      BY <1>0, <1>1
    <3> QED BY <1>1, <3>1, <3>2, <3>3
  <2>7. CASE ~(w.cwnd < w.ssthresh) /\ w.avoidance + newBytes < w.cwnd
    <3>1. Window!ClassicACK(w, newBytes, FALSE) = [w EXCEPT !.avoidance = w.avoidance + newBytes]
      BY <2>7 DEF Window!ClassicACK
    <3>2. w.avoidance + newBytes \in Nat
      BY <1>0
    <3> QED BY <1>0, <1>1, <2>1, <3>1, <3>2 DEF PolicyFits, Policies
  <2>8. CASE ~(w.cwnd < w.ssthresh) /\ ~(w.avoidance + newBytes < w.cwnd)
    <3>1. PICK v : v = [w EXCEPT !.avoidance = (w.avoidance + newBytes) - w.cwnd]
      OBVIOUS
    <3>2. (w.avoidance + newBytes) - w.cwnd \in Nat
      BY <1>0, <2>8
    <3>3. v \in Policies /\ v.active = FALSE
      BY <1>0, <1>1, <3>1, <3>2 DEF Policies
    <3>4. Window!SetWindow(v, w.cwnd + SackMss) = [v EXCEPT !.cwnd = b]
      BY <2>3 DEF Window!SetWindow
    <3>5. Window!ClassicACK(w, newBytes, FALSE) = Window!SetWindow(v, w.cwnd + SackMss)
      BY <2>8, <3>1 DEF Window!ClassicACK
    <3>6. AfterACK(w, newBytes, inRecovery, ending) = [v EXCEPT !.cwnd = b]
      BY <2>1, <3>4, <3>5
    <3>7. PolicyFits([v EXCEPT !.cwnd = b]) /\ [v EXCEPT !.cwnd = b].active = v.active
      BY <2>4, <3>3, WindowIsSet
    <3> QED BY <1>1, <3>3, <3>6, <3>7
  <2> QED BY <2>6, <2>7, <2>8
<1>2. CASE w.active /\ ~ending
  <2>1. AfterACK(w, newBytes, inRecovery, ending) = w
    BY <1>2 DEF AfterACK
  <2> QED BY <1>2, <2>1
<1>3. CASE w.active /\ ending
  <2>1. PICK c : c = Window!Smaller(w.recoveryWindow, SackMaximum)
    OBVIOUS
  <2>2. c \in SackMss .. SackMaximum /\ c \in Nat
    BY <1>0, <1>a, <1>3, <2>1, WindowFits DEF PolicyFits
  <2>3. PICK v : v = [[w EXCEPT !.active = FALSE, !.inflations = 0, !.partialACKSeen = FALSE]
                        EXCEPT !.avoidance = 0]
    OBVIOUS
  <2>4. v \in Policies /\ v.active = FALSE
    BY <1>0, <2>3 DEF Policies
  <2>5. AfterACK(w, newBytes, inRecovery, ending) = [v EXCEPT !.cwnd = c]
    BY <1>3, <2>1, <2>3 DEF AfterACK, Window!Deflated, Window!StopRecovery, Window!SetWindow
  <2>6. PolicyFits([v EXCEPT !.cwnd = c]) /\ [v EXCEPT !.cwnd = c].active = v.active
    BY <2>2, <2>4, WindowIsSet
  <2> QED BY <1>3, <2>4, <2>5, <2>6
<1> QED BY <1>1, <1>2, <1>3

-----------------------------------------------------------------------------
(* Repairs.                                                                *)

SameFlight(t, s) ==
  /\ t.policy = s.policy /\ t.oldest = s.oldest /\ t.next = s.next /\ t.ends = s.ends
  /\ t.sending = s.sending /\ t.closed = s.closed /\ t.board = s.board /\ t.active = s.active
  /\ t.recoveryEnd = s.recoveryEnd /\ t.lossesBefore = s.lossesBefore

IsRepaired(t, s, hole, rescue) ==
  /\ t \in Senders /\ SameFlight(t, s) /\ t.rescueAfter = s.rescueAfter
  /\ t.timer = TRUE /\ t.out = Append(s.out, hole) /\ t.pipe = s.pipe + Size(hole)
  /\ t.retries = IF hole.start = s.oldest THEN s.retries + 1 ELSE s.retries
  /\ t.retransmittedEnd = IF rescue THEN s.retransmittedEnd ELSE hole.end
  /\ t.repaired = IF rescue THEN s.repaired ELSE s.repaired \cup Bytes(hole)
  /\ t.rescued = IF rescue THEN s.rescued + Size(hole) ELSE s.rescued
  /\ t.needless = (s.needless \/ Bytes(hole) \cap BytesOf(s.board) # {}
                              \/ (~rescue /\ Bytes(hole) \cap s.repaired # {}))

(* What retransmitSACKHole changes, unless it gives up.                    *)
LEMMA RepairFields ==
  ASSUME NEW s \in Senders, NEW hole \in Blocks, hole.start < hole.end, NEW rescue \in BOOLEAN,
         ~(hole.start = s.oldest /\ s.retries >= SackRetransmissions),
         NEW t, t = RetransmitHole(s, hole, rescue)
  PROVE  IsRepaired(t, s, hole, rescue)
<1>1. /\ s.retries \in Nat /\ s.pipe \in Nat /\ s.rescued \in Nat /\ s.out \in Seq(Blocks)
      /\ s.repaired \in SUBSET Nat /\ s.needless \in BOOLEAN /\ s.retransmittedEnd \in Nat
  BY DEF Senders
<1>2. hole.start \in Nat /\ hole.end \in Nat /\ Size(hole) \in Nat
  BY DEF Blocks, Size
<1>3. PICK retries \in Nat : retries = IF hole.start = s.oldest THEN s.retries + 1 ELSE s.retries
  BY <1>1
<1>4. PICK end \in Nat : end = IF rescue THEN s.retransmittedEnd ELSE hole.end
  BY <1>1, <1>2
<1>5. PICK pipe \in Nat : pipe = s.pipe + Size(hole)
  BY <1>1, <1>2
<1>6. PICK out \in Seq(Blocks) : out = Append(s.out, hole)
  <2>1. Append(s.out, hole) \in Seq(Blocks)
    BY <1>1, AppendProperties
  <2> QED BY <2>1
<1>7. PICK needless \in BOOLEAN :
        needless = (s.needless \/ Bytes(hole) \cap BytesOf(s.board) # {}
                               \/ (~rescue /\ Bytes(hole) \cap s.repaired # {}))
  OBVIOUS
<1>8. PICK repaired \in SUBSET Nat :
        repaired = IF rescue THEN s.repaired ELSE s.repaired \cup Bytes(hole)
  <2>1. Bytes(hole) \in SUBSET Nat
    BY <1>2 DEF Bytes
  <2> QED BY <1>1, <2>1
<1>9. PICK rescued \in Nat : rescued = IF rescue THEN s.rescued + Size(hole) ELSE s.rescued
  BY <1>1, <1>2
<1>10. PICK u : u = [s EXCEPT !.retries = retries, !.retransmittedEnd = end, !.pipe = pipe,
                              !.timer = TRUE, !.out = out]
  OBVIOUS
<1>11. t = [u EXCEPT !.needless = needless, !.repaired = repaired, !.rescued = rescued]
  <2>1. t = [s EXCEPT !.retries = retries, !.retransmittedEnd = end, !.pipe = pipe, !.timer = TRUE,
                      !.out = out, !.needless = needless, !.repaired = repaired, !.rescued = rescued]
    BY <1>3, <1>4, <1>5, <1>6, <1>7, <1>8, <1>9 DEF RetransmitHole
  <2> QED BY <1>10, <2>1
<1>12. /\ u \in Senders /\ SameFlight(u, s) /\ u.rescueAfter = s.rescueAfter
       /\ u.timer = TRUE /\ u.out = out /\ u.pipe = pipe /\ u.retries = retries
       /\ u.retransmittedEnd = end
  BY ONLY s \in Senders, <1>10, retries \in Nat, end \in Nat, pipe \in Nat, out \in Seq(Blocks) DEF Senders, SameFlight
<1>13. /\ t \in Senders /\ SameFlight(t, u) /\ t.rescueAfter = u.rescueAfter
       /\ t.timer = u.timer /\ t.out = u.out /\ t.pipe = u.pipe /\ t.retries = u.retries
       /\ t.retransmittedEnd = u.retransmittedEnd /\ t.repaired = repaired
       /\ t.rescued = rescued /\ t.needless = needless
  BY ONLY <1>11, <1>12, needless \in BOOLEAN, repaired \in SUBSET Nat, rescued \in Nat DEF Senders, SameFlight
<1>14. SameFlight(t, s)
  BY <1>12, <1>13 DEF SameFlight
<1>15. t.timer = TRUE /\ t.out = Append(s.out, hole) /\ t.rescueAfter = s.rescueAfter
  BY <1>6, <1>12, <1>13
<1>16. t.pipe = s.pipe + Size(hole)
  BY <1>5, <1>12, <1>13
<1>17. t.retries = IF hole.start = s.oldest THEN s.retries + 1 ELSE s.retries
  BY <1>3, <1>12, <1>13
<1>18. t.retransmittedEnd = IF rescue THEN s.retransmittedEnd ELSE hole.end
  BY <1>4, <1>12, <1>13
<1>19. t.repaired = IF rescue THEN s.repaired ELSE s.repaired \cup Bytes(hole)
  BY <1>8, <1>13
<1>20. t.rescued = IF rescue THEN s.rescued + Size(hole) ELSE s.rescued
  BY <1>9, <1>13
<1>21. t.needless = (s.needless \/ Bytes(hole) \cap BytesOf(s.board) # {}
                                \/ (~rescue /\ Bytes(hole) \cap s.repaired # {}))
  BY <1>7, <1>13
<1> QED BY <1>13, <1>14, <1>15, <1>16, <1>17, <1>18, <1>19, <1>20, <1>21 DEF IsRepaired

(* A sender that gives up forgets its flight and its events.               *)
LEMMA GiveUpIsSound ==
  ASSUME NEW s, SenderIsTyped(s), NEW t, t = GiveUp(s)
  PROVE  /\ SenderIsTyped(t) /\ IsShut(t) /\ t.closed
         /\ t.oldest = s.oldest /\ t.next = s.next /\ t.out = s.out
<1>1. t = [s EXCEPT !.closed = TRUE, !.timer = FALSE, !.sending = FALSE, !.active = FALSE,
                    !.board = << >>, !.ends = {}]
  BY DEF GiveUp
<1>2. s \in Senders
  BY DEF SenderIsTyped
<1>3. << >> \in Seq(Blocks)
  OBVIOUS
<1>4. t \in Senders
  BY <1>1, <1>2, <1>3, ZenonT(30) DEF Senders
<1>5. /\ t.closed = TRUE /\ t.timer = FALSE /\ t.sending = FALSE /\ t.active = FALSE
      /\ t.board = << >> /\ t.ends = {}
      /\ t.policy = s.policy /\ t.oldest = s.oldest /\ t.next = s.next /\ t.retries = s.retries
      /\ t.needless = s.needless /\ t.out = s.out
  BY <1>1, <1>2 DEF Senders
<1> QED BY <1>4, <1>5 DEF SenderIsTyped, IsShut

(* What the queue of outgoing segments has, one more or not.               *)
LEMMA AppendedSegments ==
  ASSUME NEW out \in Seq(Blocks), NEW hole \in Blocks, NEW more, more = Append(out, hole)
  PROVE  /\ more \in Seq(Blocks)
         /\ \A i \in 1 .. Len(more) : more[i] = hole \/ \E j \in 1 .. Len(out) : more[i] = out[j]
         /\ \E i \in 1 .. Len(more) : more[i] = hole
         /\ \A j \in 1 .. Len(out) : \E i \in 1 .. Len(more) : more[i] = out[j]
<1>1. /\ more \in Seq(Blocks) /\ Len(more) = Len(out) + 1
      /\ \A i \in 1 .. Len(out) : more[i] = out[i]
      /\ more[Len(out) + 1] = hole
  BY AppendProperties
<1>2. Len(out) \in Nat
  OBVIOUS
<1> QED BY <1>1, <1>2

(* What has become of a sender that was to repair a hole.                  *)
Repairs(t, s, h, hole, rescue) ==
  /\ SenderIsSound(t, h) /\ t.oldest = s.oldest /\ t.next = s.next
  /\ t.closed \/ IsRepaired(t, s, hole, rescue)

(* Retransmitting a gap keeps the sender sound: nothing needless is sent,  *)
(* and the estimate stays exact.                                           *)
LEMMA RepairIsSound ==
  ASSUME NEW h, NEW s, SenderIsSound(s, h), ~s.closed, s.active,
         NEW hole, IsHole(hole, s.board, s.oldest, s.next), Size(hole) <= SackMss,
         NEW rescue \in BOOLEAN,
         ~rescue => s.retransmittedEnd <= hole.start
                    /\ \A p \in Int : s.oldest <= p /\ s.retransmittedEnd <= p /\ p < hole.start
                                        => Covers(s.board, p),
         NEW t, t = RetransmitHole(s, hole, rescue)
  PROVE  Repairs(t, s, h, hole, rescue)
<1>1. SenderIsTyped(s) /\ OpenIsSound(s, h) /\ s \in Senders
  BY DEF SenderIsSound, SenderIsTyped
<1>2. CASE hole.start = s.oldest /\ s.retries >= SackRetransmissions
  <2>1. t = GiveUp(s)
    BY <1>2 DEF RetransmitHole
  <2> QED BY <1>1, <2>1, GiveUpIsSound DEF SenderIsSound, Repairs
<1>3. CASE ~(hole.start = s.oldest /\ s.retries >= SackRetransmissions)
  <2>1. hole \in Blocks /\ hole.start \in Nat /\ hole.end \in Nat /\ hole.start < hole.end
        /\ s.oldest <= hole.start /\ hole.end <= s.next
        /\ \A q \in Int : hole.start <= q /\ q < hole.end => ~Covers(s.board, q)
    BY DEF IsHole, Blocks
  <2>2. IsRepaired(t, s, hole, rescue)
    BY <1>1, <1>3, <2>1, RepairFields
  <2>3. /\ s.oldest \in Nat /\ s.next \in Nat /\ s.retries \in Nat /\ s.retransmittedEnd \in Nat
        /\ s.out \in Seq(Blocks) /\ s.pipe \in Nat /\ s.rescued \in Nat
        /\ s.oldest >= 1 /\ s.retries <= SackRetransmissions /\ ~s.needless
        /\ SackRetransmissions \in Nat
    BY <1>1, SackAssumption DEF SenderIsTyped, Senders
  <2>4. RecoveryIsSound(s, h) /\ BoardIs(s, h)
    BY <1>1 DEF OpenIsSound
  <2>5. /\ BytesOf(s.board) = h /\ h \subseteq Nat
        /\ \A q \in Int : q \in h <=> Covers(s.board, q)
    BY <2>4, BytesOfBoard DEF BoardIs, Separate
  <2>6. \A p : p \in Bytes(hole) <=> p \in Nat /\ hole.start <= p /\ p < hole.end
    BY <2>1 DEF Bytes
  <2>7. IsSegment(hole, s.next)
    BY <2>1, <2>3 DEF IsSegment
  <2>8. \A i \in 1 .. Len(t.out) : IsSegment(t.out[i], t.next)
    <3>1. \A i \in 1 .. Len(s.out) : IsSegment(s.out[i], s.next)
      BY <1>1 DEF SenderIsTyped
    <3>2. t.out = Append(s.out, hole) /\ t.next = s.next
      BY <2>2 DEF IsRepaired, SameFlight
    <3> QED BY <2>1, <2>3, <2>7, <3>1, <3>2, AppendedSegments, SMTT(30)
  <2>9. t.needless = FALSE
    <3>1. Bytes(hole) \cap BytesOf(s.board) = {}
      BY <2>1, <2>5, <2>6
    <3>2. ~rescue => Bytes(hole) \cap s.repaired = {}
      <4>1. \A p \in s.repaired : p < s.retransmittedEnd
        BY <2>4 DEF RecoveryIsSound
      <4> QED BY <2>1, <2>3, <2>6, <4>1
    <3> QED BY <2>2, <2>3, <3>1, <3>2 DEF IsRepaired
  <2>10. t.retries <= SackRetransmissions
    BY <1>3, <2>2, <2>3 DEF IsRepaired
  <2>11. SenderIsTyped(t)
    BY <1>1, <2>2, <2>8, <2>9, <2>10 DEF SenderIsTyped, IsRepaired, SameFlight
  <2>12. /\ t.oldest = s.oldest /\ t.next = s.next /\ t.pipe = s.pipe + Size(hole)
         /\ t.retransmittedEnd = IF rescue THEN s.retransmittedEnd ELSE hole.end
         /\ t.rescued = IF rescue THEN s.rescued + Size(hole) ELSE s.rescued
         /\ t.repaired = IF rescue THEN s.repaired ELSE s.repaired \cup Bytes(hole)
         /\ t.recoveryEnd = s.recoveryEnd /\ t.rescueAfter = s.rescueAfter
    BY <2>2 DEF IsRepaired, SameFlight
  <2>13. PipeIs(t, h)
    <3>1. PICK a \in Nat, b \in Nat :
            /\ a = Cardinality(Travelling(h, s.oldest, s.next))
            /\ b = Cardinality(Resent(h, s.oldest, s.next, s.retransmittedEnd))
      BY <2>3, CountsAreNatural
    <3>2. s.pipe = a + b + s.rescued
      BY <2>4, <3>1 DEF RecoveryIsSound, PipeIs
    <3>3. Size(hole) = hole.end - hole.start
      BY DEF Size
    <3>4. CASE rescue
      <4>1. t.pipe = a + b + t.rescued
        BY <2>1, <2>3, <2>12, <3>2, <3>3, <3>4, SMTT(30)
      <4> QED BY <2>12, <3>1, <3>4, <4>1 DEF PipeIs
    <3>5. CASE ~rescue
      <4>1. PICK from \in Nat, to \in Nat, start \in Nat, stop \in Nat, end \in Nat :
              /\ from = s.oldest /\ to = s.next /\ start = hole.start /\ stop = hole.end
              /\ end = s.retransmittedEnd
        BY <2>1, <2>3
      <4>2. from <= start /\ start <= stop /\ stop <= to /\ end <= start
        BY <2>1, <3>5, <4>1
      <4>3. \A p \in Int : start <= p /\ p < stop => p \notin h
        BY <2>1, <2>5, <4>1
      <4>4. \A p \in Int : from <= p /\ end <= p /\ p < start => p \in h
        BY <2>5, <3>5, <4>1
      <4>5. Cardinality(Resent(h, from, to, stop)) = Cardinality(Resent(h, from, to, end)) + (stop - start)
        BY <4>2, <4>3, <4>4, ResentGrows
      <4>6. PICK c \in Nat : c = s.rescued
        BY <2>3
      <4>7. s.pipe = (a + b) + c /\ t.pipe = s.pipe + (stop - start) /\ t.rescued = c
        BY <2>12, <3>2, <3>3, <3>5, <4>1, <4>6
      <4>8. t.pipe = (a + (b + (stop - start))) + c
        BY <4>2, <4>7
      <4>9. Cardinality(Resent(h, from, to, stop)) = b + (stop - start)
        BY <3>1, <4>1, <4>5
      <4>10. t.oldest = from /\ t.next = to /\ t.retransmittedEnd = stop
        BY <2>12, <3>5, <4>1
      <4>11. a = Cardinality(Travelling(h, from, to))
        BY <3>1, <4>1
      <4> QED BY <4>7, <4>8, <4>9, <4>10, <4>11 DEF PipeIs
    <3> QED BY <3>4, <3>5
  <2>14. \A p \in t.repaired : p < t.retransmittedEnd
    <3>1. \A p \in s.repaired : p < s.retransmittedEnd /\ p \in Nat
      BY <1>1, <2>4 DEF RecoveryIsSound, Senders
    <3> QED BY <2>1, <2>3, <2>6, <2>12, <3>1, SMTT(30)
  <2>15. \A p \in (t.oldest .. t.next - 1) \ h : p < t.retransmittedEnd => p \in t.repaired
    <3>1. \A p \in (s.oldest .. s.next - 1) \ h : p < s.retransmittedEnd => p \in s.repaired
      BY <2>4 DEF RecoveryIsSound
    <3>2. CASE rescue
      BY <2>12, <3>1, <3>2
    <3>3. CASE ~rescue
      <4>1. SUFFICES ASSUME NEW p \in (s.oldest .. s.next - 1) \ h, p < hole.end
                     PROVE  p \in s.repaired \cup Bytes(hole)
        BY <2>12, <3>3
      <4>2. p \in Nat /\ s.oldest <= p
        BY <2>3
      <4>3. CASE p < s.retransmittedEnd
        BY <3>1, <4>3
      <4>4. CASE ~(p < s.retransmittedEnd)
        <5>1. ~(p < hole.start)
          BY <2>3, <2>5, <3>3, <4>1, <4>2, <4>4
        <5> QED BY <2>1, <2>6, <4>1, <4>2, <5>1
      <4> QED BY <4>3, <4>4
    <3> QED BY <3>2, <3>3
  <2>16. t.retransmittedEnd <= t.next
    BY <2>1, <2>4, <2>12 DEF RecoveryIsSound
  <2>17. RecoveryIsSound(t, h)
    BY <2>4, <2>12, <2>13, <2>14, <2>15, <2>16 DEF RecoveryIsSound
  <2>18. OpenIsSound(t, h)
    <3>1. /\ t.ends = s.ends /\ t.board = s.board /\ t.sending = s.sending
          /\ t.active = s.active /\ t.policy = s.policy /\ t.timer = TRUE
      BY <2>2 DEF IsRepaired, SameFlight
    <3>2. FlightIsDivided(s) /\ (s.sending => s.next < End) /\ s.active = s.policy.active
      BY <1>1 DEF OpenIsSound
    <3>3. FlightIsDivided(t)
      BY <2>12, <3>1, <3>2 DEF FlightIsDivided
    <3>4. BoardIs(t, h)
      BY <2>4, <2>12, <3>1 DEF BoardIs
    <3>5. t.ends # {}
      <4>1. s.oldest < s.recoveryEnd /\ s.recoveryEnd <= s.next /\ s.recoveryEnd \in Nat
        BY <1>1, <2>4 DEF RecoveryIsSound, Senders
      <4> QED BY <2>3, <3>1, <3>2, <4>1 DEF FlightIsDivided
    <3> QED BY <2>12, <2>17, <3>1, <3>2, <3>3, <3>4, <3>5 DEF OpenIsSound
  <2>19. t.closed = FALSE
    BY <1>1, <2>2 DEF IsRepaired, SameFlight, Senders
  <2> QED BY <2>2, <2>11, <2>12, <2>18, <2>19 DEF SenderIsSound, Repairs
<1> QED BY <1>2, <1>3

(* What a sender is about to send counts as under way.                     *)
OnTrack(s, h, queue, reports) ==
  ~s.closed /\ s.active => RepairsAreOnTheirWay(s, h, queue, reports)

(* A repair puts what it repairs under way.                                *)
LEMMA RepairIsOnTrack ==
  ASSUME NEW h, NEW queue, NEW reports, NEW s \in Senders, ~s.closed, s.active,
         OnTrack(s, h, queue, reports),
         NEW hole \in Blocks, NEW rescue \in BOOLEAN, NEW t, IsRepaired(t, s, hole, rescue)
  PROVE  OnTrack(t, h, queue, reports)
<1>1. /\ t.oldest = s.oldest /\ t.next = s.next /\ t.recoveryEnd = s.recoveryEnd
      /\ t.rescueAfter = s.rescueAfter /\ t.out = Append(s.out, hole)
      /\ t.repaired = IF rescue THEN s.repaired ELSE s.repaired \cup Bytes(hole)
  BY DEF IsRepaired, SameFlight
<1>2. s.out \in Seq(Blocks)
  BY DEF Senders
<1>3. /\ \E i \in 1 .. Len(t.out) : t.out[i] = hole
      /\ \A j \in 1 .. Len(s.out) : \E i \in 1 .. Len(t.out) : t.out[i] = s.out[j]
  BY <1>1, <1>2, AppendedSegments
<1>4. RepairsAreOnTheirWay(s, h, queue, reports)
  BY DEF OnTrack
<1>5. ASSUME NEW p, OnItsWay(p, s, h, queue, reports) PROVE OnItsWay(p, t, h, queue, reports)
  BY <1>1, <1>3, <1>5 DEF OnItsWay
<1>6. ASSUME NEW p \in Bytes(hole) PROVE OnItsWay(p, t, h, queue, reports)
  BY <1>3 DEF OnItsWay
<1>7. \A p \in t.repaired : OnItsWay(p, t, h, queue, reports)
  BY <1>1, <1>4, <1>5, <1>6 DEF RepairsAreOnTheirWay
<1> QED BY <1>1, <1>4, <1>5, <1>7 DEF OnTrack, RepairsAreOnTheirWay

(* Before the rescue it is noted that there was one.                       *)
LEMMA RescueIsNoted ==
  ASSUME NEW h, NEW s, SenderIsSound(s, h), ~s.closed, s.active, s.next = End,
         NEW t, t = [s EXCEPT !.rescueAfter = s.recoveryEnd]
  PROVE  /\ SenderIsSound(t, h) /\ t \in Senders /\ SameFlight(t, s)
         /\ t.out = s.out /\ t.retransmittedEnd = s.retransmittedEnd /\ t.repaired = s.repaired
         /\ t.rescueAfter = s.recoveryEnd
<1>1. s \in Senders /\ SenderIsTyped(s) /\ OpenIsSound(s, h) /\ RecoveryIsSound(s, h)
  BY DEF SenderIsSound, SenderIsTyped, OpenIsSound
<1>2. s.recoveryEnd \in Nat
  BY <1>1 DEF Senders
<1>3. /\ t \in Senders /\ SameFlight(t, s) /\ t.rescueAfter = s.recoveryEnd
      /\ t.retries = s.retries /\ t.needless = s.needless /\ t.out = s.out /\ t.pipe = s.pipe
      /\ t.rescued = s.rescued /\ t.timer = s.timer /\ t.repaired = s.repaired
      /\ t.retransmittedEnd = s.retransmittedEnd
  BY <1>1, <1>2 DEF Senders, SameFlight
<1>4. SenderIsTyped(t)
  BY <1>1, <1>3 DEF SenderIsTyped, SameFlight
<1>5. PipeIs(t, h)
  BY <1>1, <1>3 DEF PipeIs, SameFlight, RecoveryIsSound
<1>6. RecoveryIsSound(t, h)
  BY <1>1, <1>2, <1>3, <1>5 DEF RecoveryIsSound, SameFlight
<1>7. OpenIsSound(t, h)
  BY <1>1, <1>3, <1>6 DEF OpenIsSound, FlightIsDivided, BoardIs, SameFlight
<1>8. t.closed = s.closed
  BY <1>3 DEF SameFlight
<1> QED BY <1>3, <1>4, <1>7, <1>8 DEF SenderIsSound

(* The last gap before the end holds the last byte, if it is not reported. *)
LEMMA RescueIsOnTrack ==
  ASSUME NEW h, NEW queue, NEW reports, NEW s \in Senders, NEW u \in Senders, ~s.closed, s.active,
         OnTrack(s, h, queue, reports), SameFlight(u, s), u.out = s.out, u.repaired = s.repaired,
         BoardIs(s, h), NEW tail, LastGap(tail, s.board, s.oldest, s.next),
         NEW t, IsRepaired(t, u, tail, TRUE)
  PROVE  OnTrack(t, h, queue, reports)
<1>1. /\ t.oldest = s.oldest /\ t.next = s.next /\ t.out = Append(s.out, tail)
      /\ t.repaired = s.repaired
  BY DEF IsRepaired, SameFlight
<1>2. tail \in Blocks /\ s.out \in Seq(Blocks) /\ tail.start \in Nat /\ tail.end \in Nat
      /\ tail.start < tail.end /\ tail.end <= s.next /\ s.next \in Nat
  BY DEF Senders, LastGap, IsHole, Blocks
<1>3. /\ \E i \in 1 .. Len(t.out) : t.out[i] = tail
      /\ \A j \in 1 .. Len(s.out) : \E i \in 1 .. Len(t.out) : t.out[i] = s.out[j]
  BY <1>1, <1>2, AppendedSegments
<1>4. RepairsAreOnTheirWay(s, h, queue, reports)
  BY DEF OnTrack
<1>5. ASSUME NEW p, OnItsWay(p, s, h, queue, reports) PROVE OnItsWay(p, t, h, queue, reports)
  BY <1>1, <1>3, <1>5 DEF OnItsWay
<1>6. OnItsWay(t.next - 1, t, h, queue, reports)
  <2>1. CASE tail.end = s.next
    <3>1. s.next - 1 \in Bytes(tail)
      BY <1>2, <2>1 DEF Bytes
    <3> QED BY <1>1, <1>3, <3>1 DEF OnItsWay
  <2>2. CASE tail.end # s.next
    <3>1. Covers(s.board, s.next - 1)
      BY <1>2, <2>2 DEF LastGap
    <3>2. s.next - 1 \in h
      BY <1>2, <3>1, BytesOfBoard DEF BoardIs, Separate
    <3> QED BY <1>1, <3>2 DEF OnItsWay
  <2> QED BY <2>1, <2>2
<1> QED BY <1>1, <1>4, <1>5, <1>6 DEF OnTrack, RepairsAreOnTheirWay

-----------------------------------------------------------------------------
(* One turn of sendSACKRepairs.                                            *)

(* What a turn has left to do, as a number.                                *)
ToDo(s) == (s.next - s.retransmittedEnd) + (IF s.rescueAfter < s.recoveryEnd THEN 1 ELSE 0)

HasNothingToDo(s) == Space(s) < SackMss \/ NextSize(s) > 0 \/ NothingLeft(s)

IsSettled(s) == s.closed \/ (RepairOnce(s) = s /\ HasNothingToDo(s))

(* A turn of a sound sender in recovery.                                   *)
Turned(t, s, h, queue, reports) ==
  /\ SenderIsSound(t, h) /\ t.oldest = s.oldest /\ t.next = s.next
  /\ t.closed \/ SameFlight(t, s)
  /\ OnTrack(s, h, queue, reports) => OnTrack(t, h, queue, reports)
  /\ t.closed \/ ToDo(t) < ToDo(s) \/ (t = s /\ HasNothingToDo(s))

(* Nothing is reported beyond what was sent.                               *)
LEMMA BoardEnds ==
  ASSUME NEW h, NEW s \in Senders, BoardIs(s, h)
  PROVE  HighestReportedEnd(s.board) \in Nat /\ HighestReportedEnd(s.board) <= s.next
<1>1. /\ Separate(s.board) /\ s.oldest \in Nat /\ s.next \in Nat
      /\ h \subseteq s.oldest + 1 .. s.next - 1 /\ BytesOf(s.board) = h
  BY DEF BoardIs, Senders
<1>2. PICK e \in Nat : e = HighestReportedEnd(s.board)
  BY <1>1, HighestIsAbove
<1>3. CASE s.board = << >>
  BY <1>1, <1>3 DEF HighestReportedEnd
<1>4. CASE s.board # << >>
  <2>1. Covers(s.board, e - 1)
    BY <1>1, <1>2, <1>4, HighestIsAbove
  <2>2. e - 1 \in h
    BY <1>1, <1>2, <2>1, BytesOfBoard DEF Separate
  <2> QED BY <1>1, <1>2, <2>2
<1> QED BY <1>3, <1>4

(* A turn that repairs the first gap.                                      *)
LEMMA GapIsRepaired ==
  ASSUME NEW h, NEW queue, NEW reports, NEW s, SenderIsSound(s, h), ~s.closed, s.active,
         NEW hole, NEW from, from = Higher(s.oldest, s.retransmittedEnd),
         NEW to \in Nat, to <= s.next, FirstGap(hole, s.board, from, to),
         NEW t, t = RetransmitHole(s, hole, FALSE)
  PROVE  Turned(t, s, h, queue, reports)
<1>1. s \in Senders /\ s.oldest \in Nat /\ s.next \in Nat /\ s.retransmittedEnd \in Nat
  BY DEF SenderIsSound, SenderIsTyped, Senders
<1>2. /\ hole \in Blocks /\ hole.start \in Nat /\ hole.end \in Nat /\ hole.start < hole.end
      /\ from <= hole.start /\ hole.end <= to /\ Size(hole) <= SackMss
  BY DEF FirstGap, IsHole, Blocks
<1>3. from \in Nat /\ s.oldest <= from /\ s.retransmittedEnd <= from
      /\ \A p \in Int : s.oldest <= p /\ s.retransmittedEnd <= p => from <= p
  BY <1>1 DEF Higher
<1>4. IsHole(hole, s.board, s.oldest, s.next)
  BY <1>1, <1>2, <1>3 DEF FirstGap, IsHole
<1>5. s.retransmittedEnd <= hole.start
  BY <1>1, <1>2, <1>3
<1>6. \A p \in Int : s.oldest <= p /\ s.retransmittedEnd <= p /\ p < hole.start => Covers(s.board, p)
  BY <1>3 DEF FirstGap
<1>7. /\ SenderIsSound(t, h) /\ (t.closed \/ IsRepaired(t, s, hole, FALSE))
      /\ t.oldest = s.oldest /\ t.next = s.next
  <2>1. Repairs(t, s, h, hole, FALSE)
    BY <1>2, <1>4, <1>5, <1>6, RepairIsSound
  <2> QED BY <2>1 DEF Repairs
<1>8. CASE t.closed
  BY <1>7, <1>8 DEF Turned, OnTrack
<1>9. CASE IsRepaired(t, s, hole, FALSE)
  <2>1. SameFlight(t, s)
    BY <1>9 DEF IsRepaired
  <2>2. OnTrack(s, h, queue, reports) => OnTrack(t, h, queue, reports)
    BY <1>1, <1>2, <1>9, RepairIsOnTrack
  <2>3. t.next = s.next /\ t.retransmittedEnd = hole.end /\ t.rescueAfter = s.rescueAfter
        /\ t.recoveryEnd = s.recoveryEnd
    BY <1>9 DEF IsRepaired, SameFlight
  <2>4. s.next - hole.end < s.next - s.retransmittedEnd
    BY <1>1, <1>2, <1>5
  <2>5. ToDo(t) < ToDo(s)
    <3>1. PICK x \in Int, y \in Int, b \in Int :
            /\ x = s.next - hole.end /\ y = s.next - s.retransmittedEnd
            /\ b = IF s.rescueAfter < s.recoveryEnd THEN 1 ELSE 0
      BY <1>1, <1>2
    <3>2. ToDo(t) = x + b /\ ToDo(s) = y + b
      BY <2>3, <3>1 DEF ToDo
    <3>3. x < y
      BY <2>4, <3>1
    <3> QED BY ONLY <3>1, <3>2, <3>3
  <2> QED BY <1>7, <2>1, <2>2, <2>5 DEF Turned
<1> QED BY <1>7, <1>8, <1>9

(* With room for a segment and nothing to send, all of the stream has been *)
(* sent.                                                                   *)
LEMMA NothingToSend ==
  ASSUME NEW s \in Senders, s.next <= End, s.active, ~(Space(s) < SackMss), ~(NextSize(s) > 0)
  PROVE  s.next = End
<1>1. PICK space \in Int : space = Space(s)
  <2>1. s.policy.cwnd \in Nat /\ s.pipe \in Nat
    BY DEF Senders, Policies
  <2> QED BY <2>1 DEF Space, Higher
<1>2. SackMss \in Nat \ {0} /\ SackPayload \in Nat /\ s.next \in Nat
  BY SackAssumption DEF Senders
<1>3. NextSize(s) = Lower(Lower(Unsent(s), SackMss), space)
  BY <1>1 DEF NextSize
<1>4. space >= SackMss /\ Unsent(s) = End - s.next /\ End \in Nat
  BY <1>1, <1>2 DEF Unsent, End
<1>5. PICK e \in Nat : e = End
  BY <1>4
<1>6. ~(Lower(Lower(e - s.next, SackMss), space) > 0)
  BY <1>3, <1>4, <1>5
<1> QED BY <1>1, <1>2, <1>4, <1>5, <1>6 DEF Lower

(* The rescue happens once, after which nothing is left.                   *)
LEMMA RescueTurns ==
  ASSUME NEW h, NEW queue, NEW reports, NEW s, SenderIsSound(s, h), ~s.closed, s.active,
         s.next = End, s.oldest > s.rescueAfter,
         NEW tail, LastGap(tail, s.board, s.oldest, s.next),
         NEW t, t = RetransmitHole([s EXCEPT !.rescueAfter = s.recoveryEnd], tail, TRUE)
  PROVE  Turned(t, s, h, queue, reports)
<1>1. /\ s \in Senders /\ s.oldest \in Nat /\ s.next \in Nat /\ s.retransmittedEnd \in Nat
      /\ s.rescueAfter \in Nat /\ s.recoveryEnd \in Nat
      /\ BoardIs(s, h) /\ s.oldest < s.recoveryEnd
  BY DEF SenderIsSound, SenderIsTyped, Senders, OpenIsSound, RecoveryIsSound
<1>2. PICK u : u = [s EXCEPT !.rescueAfter = s.recoveryEnd]
  OBVIOUS
<1>3. /\ SenderIsSound(u, h) /\ u \in Senders /\ SameFlight(u, s)
      /\ u.out = s.out /\ u.retransmittedEnd = s.retransmittedEnd /\ u.repaired = s.repaired
      /\ u.rescueAfter = s.recoveryEnd
  BY <1>2, RescueIsNoted
<1>4. ~u.closed /\ u.active /\ t = RetransmitHole(u, tail, TRUE)
      /\ IsHole(tail, u.board, u.oldest, u.next) /\ Size(tail) <= SackMss
  BY <1>2, <1>3 DEF SameFlight, LastGap
<1>5. /\ SenderIsSound(t, h) /\ (t.closed \/ IsRepaired(t, u, tail, TRUE))
      /\ t.oldest = u.oldest /\ t.next = u.next
  <2>1. Repairs(t, u, h, tail, TRUE)
    BY <1>3, <1>4, RepairIsSound
  <2> QED BY <2>1 DEF Repairs
<1>6. CASE t.closed
  BY <1>3, <1>5, <1>6 DEF Turned, OnTrack, SameFlight
<1>7. CASE IsRepaired(t, u, tail, TRUE)
  <2>1. SameFlight(t, s)
    BY <1>3, <1>7 DEF IsRepaired, SameFlight
  <2>2. OnTrack(s, h, queue, reports) => OnTrack(t, h, queue, reports)
    BY <1>1, <1>3, <1>7, RescueIsOnTrack
  <2>3. /\ t.next = s.next /\ t.retransmittedEnd = s.retransmittedEnd
        /\ t.rescueAfter = s.recoveryEnd /\ t.recoveryEnd = s.recoveryEnd
    BY <1>3, <1>7 DEF IsRepaired, SameFlight
  <2>4. ToDo(t) < ToDo(s)
    <3>1. PICK y \in Int : y = s.next - s.retransmittedEnd
      BY <1>1
    <3>2. s.rescueAfter < s.recoveryEnd /\ ~(s.recoveryEnd < s.recoveryEnd)
      BY <1>1
    <3>3. ToDo(t) = y + 0 /\ ToDo(s) = y + 1
      BY <2>3, <3>1, <3>2 DEF ToDo
    <3> QED BY ONLY <3>1, <3>3
  <2> QED BY <1>5, <2>1, <2>2, <2>4 DEF Turned, SameFlight
<1> QED BY <1>5, <1>6, <1>7

(* A turn does something that was to do, or nothing is left.               *)
LEMMA RepairOnceTurns ==
  ASSUME NEW h, NEW queue, NEW reports, NEW s, SenderIsSound(s, h), ~s.closed, s.active,
         NEW t, t = RepairOnce(s)
  PROVE  Turned(t, s, h, queue, reports)
<1> DEFINE from == Higher(s.oldest, s.retransmittedEnd)
           highest == Higher(s.oldest, HighestReportedEnd(s.board))
           lost == NextHole(s.board, from, highest, TRUE, SackMss)
           gap == NextHole(s.board, from, highest, FALSE, SackMss)
           tail == LastHole(s.board, s.oldest, s.next, SackMss)
<1>1. t = IF ~s.active \/ s.closed \/ Space(s) < SackMss THEN s
          ELSE IF lost # NoBlock THEN RetransmitHole(s, lost, FALSE)
          ELSE IF NextSize(s) > 0 THEN s
          ELSE IF gap # NoBlock THEN RetransmitHole(s, gap, FALSE)
          ELSE IF s.oldest <= s.rescueAfter \/ tail = NoBlock THEN s
          ELSE RetransmitHole([s EXCEPT !.rescueAfter = s.recoveryEnd], tail, TRUE)
  BY DEF RepairOnce
<1>2. /\ s \in Senders /\ BoardIs(s, h) /\ Separate(s.board)
      /\ s.oldest \in Nat /\ 1 <= s.oldest /\ s.next \in Nat /\ s.retransmittedEnd \in Nat
      /\ s.oldest < s.recoveryEnd /\ s.recoveryEnd <= s.next /\ s.recoveryEnd \in Nat
      /\ s.rescueAfter \in Nat /\ s.next <= End
  BY DEF SenderIsSound, SenderIsTyped, Senders, OpenIsSound, RecoveryIsSound, BoardIs
<1>3. from \in Nat \ {0} /\ highest \in Nat /\ highest <= s.next
  <2>1. PICK e \in Nat : e = HighestReportedEnd(s.board) /\ e <= s.next
    BY <1>2, BoardEnds
  <2> QED BY <1>2, <2>1 DEF Higher
<1>4. ASSUME t = s, HasNothingToDo(s) PROVE Turned(t, s, h, queue, reports)
  BY <1>4 DEF Turned, SameFlight
<1>5. lost # NoBlock => FirstGap(lost, s.board, from, highest)
  <2>1. TRUE \in BOOLEAN
    OBVIOUS
  <2> HIDE DEF from, highest
  <2> QED BY <1>2, <1>3, <2>1, NextHoleIsFirst
<1>6. /\ gap # NoBlock => FirstGap(gap, s.board, from, highest)
      /\ gap = NoBlock => \A p \in Int : from <= p /\ p < highest => Covers(s.board, p)
  <2>1. FALSE \in BOOLEAN
    OBVIOUS
  <2> HIDE DEF from, highest
  <2> QED BY <1>2, <1>3, <2>1, NextHoleIsFirst
<1>7. /\ tail # NoBlock => LastGap(tail, s.board, s.oldest, s.next)
      /\ tail = NoBlock => \A p \in Int : s.oldest <= p /\ p < s.next => Covers(s.board, p)
  <2>1. s.oldest \in Nat \ {0}
    BY <1>2
  <2> QED BY <1>2, <2>1, LastHoleIsLast
<1>8. tail # NoBlock
  <2>1. s.oldest \notin h /\ s.oldest < s.next
    BY <1>2 DEF BoardIs
  <2>2. ~Covers(s.board, s.oldest)
    BY <1>2, <2>1, BytesOfBoard DEF BoardIs, Separate
  <2> HIDE DEF tail
  <2> QED BY <1>2, <1>7, <2>1, <2>2
<1>9. from = Higher(s.oldest, s.retransmittedEnd) /\ highest = Higher(s.oldest, HighestReportedEnd(s.board))
  OBVIOUS
<1> HIDE DEF from, highest, lost, gap, tail
<1>10. CASE Space(s) < SackMss
  BY <1>1, <1>4, <1>10 DEF HasNothingToDo
<1>11. CASE ~(Space(s) < SackMss) /\ lost # NoBlock
  <2>1. t = RetransmitHole(s, lost, FALSE)
    BY <1>1, <1>11
  <2> QED BY <1>3, <1>5, <1>9, <1>11, <2>1, GapIsRepaired
<1>12. CASE ~(Space(s) < SackMss) /\ lost = NoBlock /\ NextSize(s) > 0
  BY <1>1, <1>4, <1>12 DEF HasNothingToDo
<1>13. CASE ~(Space(s) < SackMss) /\ lost = NoBlock /\ ~(NextSize(s) > 0) /\ gap # NoBlock
  <2>1. t = RetransmitHole(s, gap, FALSE)
    BY <1>1, <1>13
  <2> QED BY <1>3, <1>6, <1>9, <1>13, <2>1, GapIsRepaired
<1>14. CASE ~(Space(s) < SackMss) /\ lost = NoBlock /\ ~(NextSize(s) > 0) /\ gap = NoBlock
  <2>1. s.next = End
    BY <1>2, <1>14, NothingToSend
  <2>2. CASE s.oldest <= s.rescueAfter
    <3>1. NothingLeft(s)
      <4>1. \A p \in Int : from <= p /\ p < highest => Covers(s.board, p)
        BY <1>6, <1>14
      <4>2. \A p \in Int :
              /\ Higher(s.oldest, s.retransmittedEnd) <= p
              /\ p < Higher(s.oldest, HighestReportedEnd(s.board))
              => Covers(s.board, p)
        BY ONLY <1>9, <4>1
      <4> QED BY ONLY <2>1, <2>2, <4>2 DEF NothingLeft
    <3>2. t = s
      BY <1>1, <1>14, <2>2
    <3> QED BY <1>4, <3>1, <3>2 DEF HasNothingToDo
  <2>3. CASE ~(s.oldest <= s.rescueAfter)
    <3>1. t = RetransmitHole([s EXCEPT !.rescueAfter = s.recoveryEnd], tail, TRUE)
      BY <1>1, <1>8, <1>14, <2>3
    <3>2. s.oldest > s.rescueAfter
      BY <1>2, <2>3
    <3> QED BY <1>7, <1>8, <2>1, <3>1, <3>2, RescueTurns
  <2> QED BY <2>2, <2>3
<1> QED BY <1>10, <1>11, <1>12, <1>13, <1>14

-----------------------------------------------------------------------------
(* The loop of sendSACKRepairs.                                            *)

(* A sender after i turns.                                                 *)
Turning(y, s, h, queue, reports, i) ==
  /\ SenderIsSound(y, h) /\ y.oldest = s.oldest /\ y.next = s.next
  /\ y.closed \/ SameFlight(y, s)
  /\ OnTrack(s, h, queue, reports) => OnTrack(y, h, queue, reports)
  /\ IsSettled(y) \/ ToDo(y) + i <= SackPayload + 2

(* What is left to do is a number.                                         *)
LEMMA ToDoIsNumber ==
  ASSUME NEW s \in Senders
  PROVE  ToDo(s) \in Int
<1>1. s.next \in Nat /\ s.retransmittedEnd \in Nat
  BY DEF Senders
<1>2. PICK y \in Int, b \in Int : y = s.next - s.retransmittedEnd
                                  /\ b = IF s.rescueAfter < s.recoveryEnd THEN 1 ELSE 0
  BY <1>1
<1>3. ToDo(s) = y + b
  BY <1>2 DEF ToDo
<1> QED BY ONLY <1>2, <1>3

(* A turn of the loop leaves less to do.                                   *)
LEMMA TurningNext ==
  ASSUME NEW h, NEW queue, NEW reports, NEW s, ~s.closed, s.active, NEW i \in Nat \ {0},
         NEW y, Turning(y, s, h, queue, reports, i - 1), NEW t, t = RepairOnce(y)
  PROVE  Turning(t, s, h, queue, reports, i)
<1>1. /\ SenderIsSound(y, h) /\ (y.closed \/ SameFlight(y, s))
      /\ y.oldest = s.oldest /\ y.next = s.next
      /\ OnTrack(s, h, queue, reports) => OnTrack(y, h, queue, reports)
      /\ IsSettled(y) \/ ToDo(y) + (i - 1) <= SackPayload + 2
  BY DEF Turning
<1>2. CASE y.closed
  <2>1. t = y
    BY <1>2 DEF RepairOnce
  <2> QED BY <1>1, <1>2, <2>1 DEF Turning, IsSettled
<1>3. CASE ~y.closed
  <2>1. SameFlight(y, s) /\ y.active
    BY <1>1, <1>3 DEF SameFlight
  <2>2. Turned(t, y, h, queue, reports)
    BY <1>1, <1>3, <2>1, RepairOnceTurns
  <2>3. /\ SenderIsSound(t, h) /\ (t.closed \/ SameFlight(t, s))
        /\ t.oldest = s.oldest /\ t.next = s.next
    BY <1>1, <2>1, <2>2 DEF Turned, SameFlight
  <2>4. OnTrack(s, h, queue, reports) => OnTrack(t, h, queue, reports)
    BY <1>1, <2>2 DEF Turned
  <2>5. CASE IsSettled(y)
    <3>1. t = y
      BY <1>3, <2>5 DEF IsSettled
    <3> QED BY <2>3, <2>4, <2>5, <3>1 DEF Turning
  <2>6. CASE ~IsSettled(y)
    <3>1. t.closed => IsSettled(t)
      BY DEF IsSettled
    <3>2. t = y /\ HasNothingToDo(y) => IsSettled(t)
      BY DEF IsSettled
    <3>3. ASSUME ToDo(t) < ToDo(y), ~IsSettled(t) PROVE ToDo(t) + i <= SackPayload + 2
      <4>1. t \in Senders /\ y \in Senders
        BY <1>1, <2>3 DEF SenderIsSound, SenderIsTyped
      <4>2. PICK a \in Int, b \in Int : a = ToDo(t) /\ b = ToDo(y)
        BY <4>1, ToDoIsNumber
      <4>3. a < b /\ b + (i - 1) <= SackPayload + 2 /\ SackPayload \in Nat
        BY <1>1, <2>6, <3>3, <4>2, SackAssumption
      <4>4. a + i <= SackPayload + 2
        BY ONLY a \in Int, b \in Int, i \in Nat \ {0}, <4>3
      <4> QED BY <4>2, <4>4
    <3>4. t.closed \/ ToDo(t) < ToDo(y) \/ (t = y /\ HasNothingToDo(y))
      BY <2>2 DEF Turned
    <3> QED BY <2>3, <2>4, <3>1, <3>2, <3>3, <3>4 DEF Turning
  <2> QED BY <2>5, <2>6
<1> QED BY <1>2, <1>3

(* At the end of the loop nothing is left to do.                           *)
LEMMA TurningEnds ==
  ASSUME NEW h, NEW queue, NEW reports, NEW s, ~s.closed, s.active,
         NEW y, Turning(y, s, h, queue, reports, SackPayload + 2)
  PROVE  y.closed \/ HasNothingToDo(y)
<1>1. SUFFICES ASSUME ~y.closed, ~IsSettled(y) PROVE HasNothingToDo(y)
  BY DEF IsSettled
<1>2. /\ SenderIsSound(y, h) /\ SameFlight(y, s)
      /\ ToDo(y) + (SackPayload + 2) <= SackPayload + 2
  BY <1>1 DEF Turning
<1>3. y \in Senders /\ y.active /\ RecoveryIsSound(y, h) /\ BoardIs(y, h)
  BY <1>1, <1>2 DEF SenderIsSound, SenderIsTyped, SameFlight, OpenIsSound
<1>4. /\ y.next \in Nat /\ y.oldest \in Nat /\ y.retransmittedEnd \in Nat
      /\ y.rescueAfter \in Nat /\ y.recoveryEnd \in Nat
      /\ y.oldest < y.recoveryEnd /\ y.recoveryEnd <= y.next
      /\ y.retransmittedEnd <= y.next /\ y.rescueAfter <= y.recoveryEnd
      /\ y.rescueAfter = y.recoveryEnd => y.next = End
  BY <1>3 DEF Senders, RecoveryIsSound
<1>5. y.retransmittedEnd = y.next /\ y.rescueAfter = y.recoveryEnd
  <2>1. PICK a \in Int, b \in Int : a = y.next - y.retransmittedEnd
                                    /\ b = IF y.rescueAfter < y.recoveryEnd THEN 1 ELSE 0
    BY <1>4
  <2>2. ToDo(y) = a + b
    BY <2>1 DEF ToDo
  <2>3. a >= 0 /\ b >= 0
    BY <1>4, <2>1
  <2>4. SackPayload \in Nat
    BY SackAssumption
  <2>5. (a + b) + (SackPayload + 2) <= SackPayload + 2
    BY <1>2, <2>2
  <2>6. a = 0 /\ b = 0
    BY ONLY a \in Int, b \in Int, <2>3, <2>4, <2>5
  <2> QED BY <1>4, <2>1, <2>6
<1>6. PICK e \in Nat : e = HighestReportedEnd(y.board) /\ e <= y.next
  BY <1>3, BoardEnds
<1>7. ~(Higher(y.oldest, y.retransmittedEnd) < Higher(y.oldest, e))
  BY <1>4, <1>5, <1>6 DEF Higher
<1>8. Higher(y.oldest, y.retransmittedEnd) \in Int /\ Higher(y.oldest, e) \in Int
  BY <1>4, <1>6 DEF Higher
<1>9. \A p \in Int : ~(/\ Higher(y.oldest, y.retransmittedEnd) <= p
                       /\ p < Higher(y.oldest, HighestReportedEnd(y.board)))
  BY <1>6, <1>7, <1>8
<1>10. NothingLeft(y)
  BY <1>4, <1>5, <1>9 DEF NothingLeft
<1> QED BY <1>10 DEF HasNothingToDo

(* sendSACKRepairs leaves the flight as it is, and nothing to do.          *)
LEMMA RepairsAreDone ==
  ASSUME NEW h, NEW queue, NEW reports, NEW s, SenderIsSound(s, h), ~s.closed, s.active,
         NEW t, t = SendRepairs(s)
  PROVE  /\ SenderIsSound(t, h) /\ t.oldest = s.oldest /\ t.next = s.next
         /\ t.closed \/ (SameFlight(t, s) /\ HasNothingToDo(t))
         /\ OnTrack(s, h, queue, reports) => OnTrack(t, h, queue, reports)
<1> DEFINE n == SackPayload + 2
           After == CHOOSE f : f = [i \in 0 .. n |-> IF i = 0 THEN s ELSE RepairOnce(f[i - 1])]
           S == [i \in 0 .. n |-> {y \in Senders : Turning(y, s, h, queue, reports, i)}]
           g == [i \in 1 .. n |-> [y \in Senders |-> RepairOnce(y)]]
<1>1. n \in Nat /\ 0 \in 0 .. n /\ n \in 0 .. n
  BY SackAssumption
<1>2. s \in S[0]
  <2>1. s \in Senders /\ s.next \in Nat /\ s.retransmittedEnd \in Nat /\ s.next <= SackPayload + 1
    BY DEF SenderIsSound, SenderIsTyped, Senders, End
  <2>2. ToDo(s) + 0 <= SackPayload + 2
    <3>1. PICK a \in Int, b \in Int : a = s.next - s.retransmittedEnd
                                      /\ b = IF s.rescueAfter < s.recoveryEnd THEN 1 ELSE 0
      BY <2>1
    <3>2. ToDo(s) = a + b /\ b <= 1 /\ SackPayload \in Nat
      BY <3>1, SackAssumption DEF ToDo
    <3>3. a <= SackPayload + 1
      BY <2>1, <3>1, <3>2
    <3>4. (a + b) + 0 <= SackPayload + 2
      BY ONLY a \in Int, b \in Int, <3>2, <3>3
    <3> QED BY <3>2, <3>4
  <2>3. Turning(s, s, h, queue, reports, 0)
    BY <2>2 DEF Turning, SameFlight
  <2> QED BY <1>1, <2>1, <2>3
<1>3. ASSUME NEW i \in 1 .. n, NEW y \in S[i - 1] PROVE g[i][y] \in S[i]
  <2>1. i \in 0 .. n /\ i - 1 \in 0 .. n /\ i \in Nat \ {0}
    BY <1>1
  <2>2. y \in Senders /\ Turning(y, s, h, queue, reports, i - 1)
    BY <2>1
  <2>3. Turning(RepairOnce(y), s, h, queue, reports, i)
    BY <2>1, <2>2, TurningNext
  <2>4. RepairOnce(y) \in Senders
    BY <2>3 DEF Turning, SenderIsSound, SenderIsTyped
  <2>5. g[i][y] = RepairOnce(y)
    BY <2>2
  <2> HIDE DEF g
  <2> QED BY <2>1, <2>3, <2>4, <2>5
<1>4. \A i \in 0 .. n : \A y \in S[i] : y \in Senders /\ Turning(y, s, h, queue, reports, i)
  OBVIOUS
<1>5. \A i \in 1 .. n : \A y \in Senders : g[i][y] = RepairOnce(y)
  OBVIOUS
<1>a. t = After[n]
  BY DEF SendRepairs
<1>b. After = CHOOSE f : f = [i \in 0 .. n |-> IF i = 0 THEN s ELSE RepairOnce(f[i - 1])]
  OBVIOUS
<1>c. n = SackPayload + 2
  OBVIOUS
<1> HIDE DEF n, S, g, After
<1>6. PICK f : Loops(f, n, S, s, g)
  BY <1>1, <1>2, <1>3, LoopExists
<1>7. f = [i \in 0 .. n |-> IF i = 0 THEN s ELSE RepairOnce(f[i - 1])]
  <2>1. \A i \in 0 .. n : f[i] = IF i = 0 THEN s ELSE RepairOnce(f[i - 1])
    <3>1. SUFFICES ASSUME NEW i \in 0 .. n
                   PROVE  f[i] = IF i = 0 THEN s ELSE RepairOnce(f[i - 1])
      OBVIOUS
    <3>2. CASE i = 0
      BY <1>6, <3>2 DEF Loops
    <3>3. CASE i # 0
      <4>1. i \in 1 .. n /\ i - 1 \in 0 .. n
        BY <1>1, <3>3
      <4>2. f[i] = g[i][f[i - 1]] /\ f[i - 1] \in Senders
        BY <1>4, <1>6, <4>1 DEF Loops
      <4> QED BY <1>5, <3>3, <4>1, <4>2
    <3> QED BY <3>2, <3>3
  <2>2. f = [i \in 0 .. n |-> f[i]]
    BY <1>6 DEF Loops
  <2> QED BY <2>1, <2>2
<1>8. After = [i \in 0 .. n |-> IF i = 0 THEN s ELSE RepairOnce(After[i - 1])]
  BY <1>7, <1>b
<1>9. \A i \in 0 .. n : After[i] = f[i]
  <2> DEFINE T == {i \in 0 .. n : After[i] # f[i]}
  <2>1. SUFFICES ASSUME T # {} PROVE FALSE
    OBVIOUS
  <2>2. T \in SUBSET Nat
    OBVIOUS
  <2>3. PICK k \in T : \A j \in T : k <= j
    BY <2>1, <2>2, LeastOf
  <2>4. k \in 0 .. n /\ After[k] # f[k]
    BY <2>3
  <2>5. k # 0
    BY <1>1, <1>7, <1>8, <2>4
  <2>6. k - 1 \in 0 .. n /\ ~(k <= k - 1)
    BY <1>1, <2>4, <2>5
  <2>7. After[k - 1] = f[k - 1]
    BY <2>3, <2>6
  <2> HIDE DEF T
  <2>8. After[k] = RepairOnce(After[k - 1])
    BY <1>8, <2>4, <2>5
  <2>9. f[k] = RepairOnce(f[k - 1])
    BY <1>7, <2>4, <2>5
  <2> QED BY <2>4, <2>7, <2>8, <2>9
<1>10. Turning(t, s, h, queue, reports, n)
  BY <1>1, <1>4, <1>6, <1>9, <1>a DEF Loops
<1>11. t.closed \/ HasNothingToDo(t)
  BY <1>10, <1>c, TurningEnds
<1> QED BY <1>10, <1>11 DEF Turning

-----------------------------------------------------------------------------
(* queueSegment and what follows it.                                       *)

(* What the window allows to send, of what there is to send.               *)
LEMMA SizeIsNatural ==
  ASSUME NEW s \in Senders, s.next <= End
  PROVE  /\ Space(s) \in Nat /\ NextSize(s) \in Nat
         /\ NextSize(s) <= SackMss /\ NextSize(s) <= End - s.next /\ NextSize(s) <= Space(s)
         /\ s.active /\ NextSize(s) > 0 => Space(s) >= SackMss
<1>1. PICK space \in Nat : space = Space(s)
  <2>1. s.policy.cwnd \in Nat /\ s.pipe \in Nat /\ s.next \in Nat /\ s.oldest \in Nat
    BY DEF Senders, Policies
  <2>2. PICK c \in Int, d \in Int :
          c = s.policy.cwnd /\ d = IF s.active THEN s.pipe ELSE s.next - s.oldest
    BY <2>1
  <2>3. Space(s) = Higher(c - d, 0)
    BY <2>2 DEF Space
  <2>4. Higher(c - d, 0) \in Nat
    BY DEF Higher
  <2> QED BY <2>3, <2>4
<1>2. SackMss \in Nat \ {0} /\ SackPayload \in Nat /\ s.next \in Nat
  BY SackAssumption DEF Senders
<1>3. PICK u \in Nat : u = End - s.next /\ u = Unsent(s)
  BY <1>2 DEF End, Unsent
<1>4. NextSize(s) = IF s.active /\ space < SackMss THEN 0 ELSE Lower(Lower(u, SackMss), space)
  BY <1>1, <1>3 DEF NextSize
<1>5. PICK size : size = NextSize(s)
  OBVIOUS
<1>6. CASE s.active /\ space < SackMss
  BY <1>1, <1>2, <1>3, <1>4, <1>6
<1>7. CASE ~(s.active /\ space < SackMss)
  <2>1. size = Lower(Lower(u, SackMss), space)
    BY <1>4, <1>5, <1>7
  <2>2. size \in Nat /\ size <= SackMss /\ size <= u /\ size <= space
    BY <1>2, <2>1 DEF Lower
  <2> QED BY <1>1, <1>2, <1>3, <1>5, <1>7, <2>2
<1> QED BY <1>6, <1>7

(* An idle sender has room for a segment.                                  *)
LEMMA IdleHasRoom ==
  ASSUME NEW s \in Senders, PolicyFits(s.policy), s.next < End, s.next = s.oldest, ~s.active
  PROVE  NextSize(s) > 0
<1>1. PICK c \in Nat : c = s.policy.cwnd /\ c >= SackMss
  BY SackAssumption DEF PolicyFits, Policies
<1>2. SackMss \in Nat \ {0} /\ SackPayload \in Nat /\ s.next \in Nat
  BY SackAssumption DEF Senders
<1>3. Space(s) = Higher(c - 0, 0)
  <2>1. s.next - s.oldest = 0
    BY <1>2
  <2> QED BY <1>1, <2>1 DEF Space
<1>4. Space(s) = c
  BY <1>1, <1>2, <1>3 DEF Higher
<1>5. PICK u \in Nat : u > 0 /\ u = Unsent(s)
  BY <1>2 DEF End, Unsent
<1>6. NextSize(s) = Lower(Lower(u, SackMss), c)
  BY <1>4, <1>5 DEF NextSize
<1>7. Lower(Lower(u, SackMss), c) > 0
  BY <1>1, <1>2, <1>5 DEF Lower
<1> QED BY <1>6, <1>7

(* A step that leaves a sender sound and its repairs on their way.         *)
StaysSound(t, s, h, queue, reports) ==
  SenderIsSound(t, h) /\ (OnTrack(s, h, queue, reports) => OnTrack(t, h, queue, reports))

(* Queueing an event to send more changes nothing else.                    *)
OnlySends(t, s, b) ==
  /\ t.sending = b
  /\ t.oldest = s.oldest /\ t.next = s.next /\ t.closed = s.closed /\ t.active = s.active
  /\ t.ends = s.ends /\ t.lossesBefore = s.lossesBefore /\ t.out = s.out
  /\ Space(t) = Space(s) /\ NextSize(t) = NextSize(s) /\ (NothingLeft(s) => NothingLeft(t))

(* The sender is otherwise as it was.                                      *)
LEMMA SendingIsSound ==
  ASSUME NEW h, NEW queue, NEW reports, NEW s, SenderIsSound(s, h), ~s.closed,
         NEW b \in BOOLEAN, b => s.next < End, NEW t, t = [s EXCEPT !.sending = b]
  PROVE  OnlySends(t, s, b) /\ StaysSound(t, s, h, queue, reports)
<1>1. s \in Senders /\ SenderIsTyped(s) /\ OpenIsSound(s, h)
  BY DEF SenderIsSound, SenderIsTyped
<1>2. /\ t \in Senders /\ t.sending = b
      /\ t.policy = s.policy /\ t.oldest = s.oldest /\ t.next = s.next /\ t.ends = s.ends
      /\ t.retries = s.retries /\ t.timer = s.timer /\ t.closed = s.closed /\ t.board = s.board
      /\ t.active = s.active /\ t.recoveryEnd = s.recoveryEnd
      /\ t.retransmittedEnd = s.retransmittedEnd /\ t.rescueAfter = s.rescueAfter
      /\ t.pipe = s.pipe /\ t.out = s.out /\ t.repaired = s.repaired /\ t.needless = s.needless
      /\ t.rescued = s.rescued /\ t.lossesBefore = s.lossesBefore
  BY <1>1 DEF Senders
<1>3. SenderIsTyped(t)
  BY <1>1, <1>2 DEF SenderIsTyped
<1>4. RecoveryIsSound(s, h) => RecoveryIsSound(t, h)
  BY <1>2 DEF RecoveryIsSound, PipeIs
<1>5. FlightIsDivided(t) /\ BoardIs(t, h)
  BY <1>1, <1>2 DEF OpenIsSound, FlightIsDivided, BoardIs
<1>6. OpenIsSound(t, h)
  BY <1>1, <1>2, <1>4, <1>5 DEF OpenIsSound
<1>7. Space(t) = Space(s)
  BY <1>2 DEF Space
<1>8. NextSize(t) = NextSize(s)
  BY <1>2, <1>7 DEF NextSize, Unsent
<1>9. NothingLeft(s) => NothingLeft(t)
  BY <1>2 DEF NothingLeft
<1>10. ASSUME NEW p, OnItsWay(p, s, h, queue, reports) PROVE OnItsWay(p, t, h, queue, reports)
  BY <1>2, <1>10 DEF OnItsWay
<1>11. OnTrack(s, h, queue, reports) => OnTrack(t, h, queue, reports)
  BY <1>2, <1>10 DEF OnTrack, RepairsAreOnTheirWay
<1>12. SenderIsSound(t, h)
  BY <1>1, <1>2, <1>3, <1>6 DEF SenderIsSound
<1>13. OnlySends(t, s, b)
  BY <1>2, <1>7, <1>8, <1>9 DEF OnlySends
<1> QED BY <1>11, <1>12, <1>13 DEF StaysSound

(* A sender that goes on after an event.                                   *)
GoesOn(t, s, h, queue, reports) ==
  /\ SenderIsSound(t, h) /\ t.oldest = s.oldest /\ t.next = s.next
  /\ t.active => s.active /\ t.lossesBefore = s.lossesBefore
  /\ OnTrack(s, h, queue, reports) => OnTrack(t, h, queue, reports)

(* Afterwards the sender is at rest: something is due, and nothing more    *)
(* can be repaired.                                                        *)
LEMMA QueueDataIsSound ==
  ASSUME NEW h, NEW queue, NEW reports, NEW s, SenderIsSound(s, h), NEW t, t = QueueData(s)
  PROVE  GoesOn(t, s, h, queue, reports) /\ IsAtRest(t)
<1>1. PICK u : u = IF s.active THEN SendRepairs(s) ELSE s
  OBVIOUS
<1>2. t = IF u.closed THEN u ELSE IF u.oldest = End THEN GiveUp(u)
          ELSE [u EXCEPT !.sending = @ \/ NextSize(u) > 0]
  BY <1>1 DEF QueueData
<1>3. s \in Senders /\ s.active \in BOOLEAN /\ s.closed \in BOOLEAN /\ (s.active => ~s.closed)
  BY DEF SenderIsSound, SenderIsTyped, IsShut, Senders
<1>4. /\ GoesOn(u, s, h, queue, reports) /\ u.active \in BOOLEAN
      /\ ~u.closed /\ u.active => HasNothingToDo(u)
  <2>1. CASE s.active
    <3>1. /\ SenderIsSound(u, h) /\ u.oldest = s.oldest /\ u.next = s.next
          /\ u.closed \/ (SameFlight(u, s) /\ HasNothingToDo(u))
          /\ OnTrack(s, h, queue, reports) => OnTrack(u, h, queue, reports)
      BY <1>1, <1>3, <2>1, RepairsAreDone
    <3>2. u \in Senders /\ u.active \in BOOLEAN /\ (u.closed => ~u.active)
      BY <3>1 DEF SenderIsSound, SenderIsTyped, Senders, IsShut
    <3> QED BY <2>1, <3>1, <3>2 DEF GoesOn, SameFlight
  <2>2. CASE ~s.active
    BY <1>1, <1>3, <2>2 DEF GoesOn
  <2> QED BY <2>1, <2>2
<1>5. CASE u.closed
  BY <1>2, <1>4, <1>5 DEF IsAtRest
<1>6. CASE ~u.closed /\ u.oldest = End
  <2>1. t = GiveUp(u)
    BY <1>2, <1>6
  <2>2. SenderIsTyped(u)
    BY <1>4 DEF GoesOn, SenderIsSound
  <2>3. /\ SenderIsTyped(t) /\ IsShut(t) /\ t.closed
        /\ t.oldest = u.oldest /\ t.next = u.next
    BY <2>1, <2>2, GiveUpIsSound
  <2> QED BY <1>4, <2>3 DEF GoesOn, SenderIsSound, IsAtRest, OnTrack, IsShut
<1>7. CASE ~u.closed /\ u.oldest # End
  <2>1. /\ u \in Senders /\ SenderIsTyped(u) /\ OpenIsSound(u, h) /\ u.next \in Nat /\ u.oldest \in Nat
        /\ u.oldest <= u.next /\ u.next <= End /\ u.sending \in BOOLEAN /\ PolicyFits(u.policy)
        /\ End \in Nat
    <3>1. u \in Senders /\ SenderIsTyped(u) /\ OpenIsSound(u, h)
      BY <1>4, <1>7 DEF GoesOn, SenderIsSound, SenderIsTyped
    <3>2. u.next \in Nat /\ u.oldest \in Nat /\ u.sending \in BOOLEAN
      BY <3>1 DEF Senders
    <3>3. u.oldest <= u.next /\ u.next <= End /\ PolicyFits(u.policy)
      BY <3>1 DEF SenderIsTyped
    <3>4. End \in Nat
      BY SackAssumption DEF End
    <3> QED BY <3>1, <3>2, <3>3, <3>4
  <2>2. NextSize(u) \in Nat /\ NextSize(u) <= End - u.next
    BY <2>1, SizeIsNatural
  <2>3. PICK b \in BOOLEAN : b = (u.sending \/ NextSize(u) > 0)
    OBVIOUS
  <2>4. t = [u EXCEPT !.sending = b]
    BY <1>2, <1>7, <2>3
  <2>5. b => u.next < End
    <3>1. u.sending => u.next < End
      BY <2>1 DEF OpenIsSound
    <3>2. NextSize(u) > 0 => u.next < End
      BY <2>1, <2>2
    <3> QED BY <2>3, <3>1, <3>2
  <2>6. /\ SenderIsSound(t, h) /\ t.sending = b
        /\ t.oldest = u.oldest /\ t.next = u.next /\ t.closed = u.closed /\ t.active = u.active
        /\ t.ends = u.ends /\ t.lossesBefore = u.lossesBefore
        /\ Space(t) = Space(u) /\ NextSize(t) = NextSize(u) /\ (NothingLeft(u) => NothingLeft(t))
        /\ OnTrack(u, h, queue, reports) => OnTrack(t, h, queue, reports)
    <3>1. SenderIsSound(u, h)
      BY <1>4 DEF GoesOn
    <3>2. OnlySends(t, u, b) /\ StaysSound(t, u, h, queue, reports)
      BY <1>7, <2>4, <2>5, <3>1, SendingIsSound
    <3> QED BY <3>2 DEF OnlySends, StaysSound
  <2>7. GoesOn(t, s, h, queue, reports)
    BY <1>4, <2>6 DEF GoesOn
  <2>8. t.oldest < End
    BY <1>7, <2>1, <2>6
  <2>9. t.ends = {} => t.sending
    <3>1. SUFFICES ASSUME u.ends = {} PROVE b
      BY <2>6
    <3>2. u.next = u.oldest
      BY <2>1, <3>1 DEF OpenIsSound, FlightIsDivided
    <3>3. ~u.active
      <4>1. SUFFICES ASSUME u.active PROVE FALSE
        OBVIOUS
      <4>2. u.oldest < u.recoveryEnd /\ u.recoveryEnd <= u.next /\ u.recoveryEnd \in Nat
        BY <2>1, <4>1 DEF OpenIsSound, RecoveryIsSound, Senders
      <4> QED BY <2>1, <3>2, <4>2
    <3>4. NextSize(u) > 0
      BY <1>7, <2>1, <3>2, <3>3, IdleHasRoom
    <3> QED BY <2>3, <3>4
  <2>10. t.active => Space(t) < SackMss \/ t.sending \/ NothingLeft(t)
    BY <1>4, <1>7, <2>3, <2>6 DEF HasNothingToDo
  <2> QED BY <2>7, <2>8, <2>9, <2>10 DEF IsAtRest
<1> QED BY <1>5, <1>6, <1>7

-----------------------------------------------------------------------------
(* What arrives.                                                           *)

(* h2 are the positions reported, with a report at this position.          *)
IsHeard(h2, h, position, next, blocks) ==
  /\ h2 \in SUBSET Nat
  /\ \A x \in Nat : x \in h2 <=>
       /\ x >= position
       /\ \/ x \in h
          \/ \E i \in 1 .. Len(blocks) : /\ Reported(position, next, blocks[i])
                                         /\ blocks[i].start <= x /\ x < blocks[i].end

(* The position and the blocks of a report are what the sender can use.    *)
IsReport(position, blocks, s, h) ==
  /\ position \in Nat /\ s.oldest <= position /\ position <= s.next /\ position \notin h
  /\ blocks \in Seq(Blocks)

(* The board after a report is what was heard.                             *)
LEMMA BoardIsUpdated ==
  ASSUME NEW h, NEW s \in Senders, BoardIs(s, h), NEW position, NEW blocks,
         IsReport(position, blocks, s, h), NEW h2, IsHeard(h2, h, position, s.next, blocks),
         NEW board, board = Update(s.board, position, s.next, blocks)
  PROVE  /\ Separate(board) /\ BytesOf(board) = h2 /\ h2 \subseteq position + 1 .. s.next - 1
         /\ board \in Seq(Blocks)
<1>1. /\ Separate(s.board) /\ BytesOf(s.board) = h /\ h \subseteq s.oldest + 1 .. s.next - 1
      /\ s.oldest \in Nat /\ s.next \in Nat
  BY DEF BoardIs, Senders
<1>2. /\ position \in Nat /\ position <= s.next /\ position \notin h /\ blocks \in Seq(Blocks)
  BY DEF IsReport
<1>3. /\ Separate(board)
      /\ \A p \in Int :
           Covers(board, p)
             <=> \/ p >= position /\ Covers(s.board, p)
                 \/ \E i \in DOMAIN blocks : /\ Reported(position, s.next, blocks[i])
                                             /\ blocks[i].start <= p /\ p < blocks[i].end
  BY <1>1, <1>2, UpdateIsSound
<1>4. board \in Seq(Blocks)
  BY <1>3 DEF Separate
<1>5. BytesOf(board) \subseteq Nat /\ \A p \in Int : p \in BytesOf(board) <=> Covers(board, p)
  BY <1>4, BytesOfBoard
<1>6. \A p \in Int : p \in h <=> Covers(s.board, p)
  BY <1>1, BytesOfBoard DEF Separate
<1>7. DOMAIN blocks = 1 .. Len(blocks)
  BY <1>2
<1>8. BytesOf(board) = h2
  <2>1. ASSUME NEW p \in Nat PROVE p \in BytesOf(board) <=> p \in h2
    <3>1. p \in BytesOf(board) <=> Covers(board, p)
      BY <1>5
    <3>2. Covers(board, p)
            <=> \/ p >= position /\ p \in h
                \/ \E i \in 1 .. Len(blocks) : /\ Reported(position, s.next, blocks[i])
                                               /\ blocks[i].start <= p /\ p < blocks[i].end
      BY <1>3, <1>6, <1>7
    <3>3. ASSUME NEW i \in 1 .. Len(blocks), Reported(position, s.next, blocks[i]),
                 blocks[i].start <= p
          PROVE  p >= position
      <4>1. blocks[i] \in Blocks
        BY <1>2
      <4>2. blocks[i].start \in Nat /\ blocks[i].start > position
        BY <3>3, <4>1 DEF Reported, Blocks
      <4> QED BY <1>2, <3>3, <4>2
    <3> QED BY <3>1, <3>2, <3>3 DEF IsHeard
  <2>2. h2 \in SUBSET Nat
    BY DEF IsHeard
  <2> QED BY <1>5, <2>1, <2>2
<1>9. ASSUME NEW x \in h2 PROVE x \in position + 1 .. s.next - 1
  <2>1. x \in Nat /\ x >= position
    BY DEF IsHeard
  <2>2. CASE x \in h
    <3>1. x # position /\ x <= s.next - 1
      BY <1>1, <1>2, <2>2
    <3> QED BY <1>1, <1>2, <2>1, <3>1
  <2>3. CASE x \notin h
    <3>1. PICK i \in 1 .. Len(blocks) : /\ Reported(position, s.next, blocks[i])
                                        /\ blocks[i].start <= x /\ x < blocks[i].end
      BY <2>1, <2>3 DEF IsHeard
    <3>2. blocks[i].start \in Nat /\ blocks[i].end \in Nat
      <4>1. blocks[i] \in Blocks
        BY <1>2
      <4> QED BY <4>1 DEF Blocks
    <3>3. blocks[i].start > position /\ blocks[i].end <= s.next
      BY <3>1 DEF Reported
    <3> QED BY <1>1, <1>2, <2>1, <3>1, <3>2, <3>3
  <2> QED BY <2>2, <2>3
<1> QED BY <1>3, <1>4, <1>8, <1>9

(* What a report does to what the sender knows of a recovery.              *)
Recorded(c, s, board, pipe, rescued) ==
  /\ c \in Senders
  /\ c.board = board /\ c.pipe = pipe /\ c.rescued = rescued
  /\ c.policy = s.policy /\ c.oldest = s.oldest /\ c.next = s.next /\ c.ends = s.ends
  /\ c.retries = s.retries /\ c.timer = s.timer /\ c.sending = s.sending /\ c.closed = s.closed
  /\ c.timedOutEnd = s.timedOutEnd /\ c.active = s.active /\ c.recoveryEnd = s.recoveryEnd
  /\ c.retransmittedEnd = s.retransmittedEnd /\ c.rescueAfter = s.rescueAfter
  /\ c.out = s.out /\ c.repaired = s.repaired /\ c.needless = s.needless
  /\ c.lossesBefore = s.lossesBefore

(* What recordSACKReports changes.                                         *)
LEMMA RecordedFields ==
  ASSUME NEW s \in Senders, NEW board \in Seq(Blocks), NEW pipe \in Nat, NEW rescued \in Nat,
         NEW c, c = [s EXCEPT !.board = board, !.pipe = pipe, !.rescued = rescued]
  PROVE  Recorded(c, s, board, pipe, rescued)
<1>1. c \in Senders
  BY DEF Senders
<1>2. c.board = board /\ c.pipe = pipe /\ c.rescued = rescued
  BY DEF Senders
<1> QED BY <1>1, <1>2 DEF Recorded, Senders

(* The recovery goes on from a later position with more reported.          *)
LEMMA RecoveryGoesOn ==
  ASSUME NEW h \in SUBSET Nat, NEW s \in Senders, RecoveryIsSound(s, h), NEW position, NEW blocks,
         IsReport(position, blocks, s, h), NEW h2, IsHeard(h2, h, position, s.next, blocks),
         position < s.recoveryEnd,
         NEW c \in Senders, c.oldest = position, c.next = s.next, c.recoveryEnd = s.recoveryEnd,
         c.retransmittedEnd = s.retransmittedEnd, c.rescueAfter = s.rescueAfter,
         c.repaired = s.repaired, PipeIs(c, h2)
  PROVE  RecoveryIsSound(c, h2)
<1>1. /\ s.oldest \in Nat /\ s.next \in Nat /\ s.recoveryEnd \in Nat /\ s.rescueAfter \in Nat
      /\ position \in Nat /\ s.oldest <= position
  BY DEF Senders, IsReport
<1>2. \A p \in (position .. s.next - 1) \ h2 : p < s.retransmittedEnd => p \in s.repaired
  <2>1. SUFFICES ASSUME NEW p \in (position .. s.next - 1) \ h2, p < s.retransmittedEnd
                 PROVE  p \in s.repaired
    OBVIOUS
  <2>2. p \in Nat /\ p >= position /\ p \in s.oldest .. s.next - 1
    BY <1>1
  <2>3. p \notin h
    BY <2>2 DEF IsHeard
  <2> QED BY <2>1, <2>2, <2>3 DEF RecoveryIsSound
<1>3. position <= s.rescueAfter /\ s.rescueAfter < s.recoveryEnd => \E q \in h2 : q >= s.rescueAfter
  <2>1. SUFFICES ASSUME position <= s.rescueAfter, s.rescueAfter < s.recoveryEnd
                 PROVE  \E q \in h2 : q >= s.rescueAfter
    OBVIOUS
  <2>2. s.oldest <= s.rescueAfter
    BY <1>1, <2>1
  <2>3. PICK q \in h : q >= s.rescueAfter
    BY <2>1, <2>2 DEF RecoveryIsSound
  <2>4. q \in Nat /\ q >= position
    BY <1>1, <2>1, <2>3
  <2>5. q \in h2
    BY <2>3, <2>4 DEF IsHeard
  <2> QED BY <2>3, <2>5
<1> QED BY <1>2, <1>3 DEF RecoveryIsSound

(* A report that confirms nothing keeps the sender sound.                  *)
LEMMA RecordIsSound ==
  ASSUME NEW h, NEW s \in Senders, BoardIs(s, h), NEW position, NEW blocks,
         IsReport(position, blocks, s, h), NEW h2, IsHeard(h2, h, position, s.next, blocks),
         NEW c, c = RecordReports(s, position, blocks)
  PROVE  \E board \in Seq(Blocks), pipe \in Nat, rescued \in Nat :
           /\ Recorded(c, s, board, pipe, rescued)
           /\ board = Update(s.board, position, s.next, blocks)
           /\ s.active => pipe = Cardinality(Travelling(h2, position, s.next))
                                   + Cardinality(Resent(h2, position, s.next, s.retransmittedEnd))
                                   + rescued
<1>1. PICK board \in Seq(Blocks) : board = Update(s.board, position, s.next, blocks)
  BY BoardIsUpdated
<1>2. Separate(board) /\ BytesOf(board) = h2
  BY <1>1, BoardIsUpdated
<1>3. PICK from \in Nat, to \in Nat, end \in Nat :
        from = position /\ to = s.next /\ end = s.retransmittedEnd
  BY DEF IsReport, Senders
<1>4. PICK a \in Nat, b \in Nat :
        a = Cardinality(Travelling(h2, from, to)) /\ b = Cardinality(Resent(h2, from, to, end))
  BY CountsAreNatural
<1>5. Pipe(board, from, to, end, SackMss) = a + b
  <2>1. end \in Int
    OBVIOUS
  <2> QED BY <1>2, <1>4, <2>1, PipeCounts
<1>6. PICK pipe \in Nat :
        pipe = IF s.active THEN Pipe(board, from, to, end, SackMss) ELSE s.pipe
  <2>1. PICK counted \in Nat : counted = Pipe(board, from, to, end, SackMss)
    BY ONLY a \in Nat, b \in Nat, <1>5
  <2>2. PICK kept \in Nat : kept = s.pipe
    BY ONLY s \in Senders DEF Senders
  <2> QED BY ONLY <2>1, <2>2, Zenon
<1>7. PICK rescued \in Nat : rescued = IF s.active THEN 0 ELSE s.rescued
  BY DEF Senders
<1>8. c = [s EXCEPT !.board = board, !.pipe = pipe, !.rescued = rescued]
  BY <1>1, <1>3, <1>6, <1>7 DEF RecordReports
<1>9. Recorded(c, s, board, pipe, rescued)
  BY <1>8, RecordedFields
<1>10. s.active => pipe = a + b + rescued
  BY <1>5, <1>6, <1>7
<1> QED BY <1>1, <1>3, <1>4, <1>9, <1>10

(* What confirming bytes changes.                                          *)
Confirmed(c, s, ack) ==
  /\ c \in Senders /\ PolicyFits(c.policy) /\ c.oldest = ack /\ c.retries = 0
  /\ c.ends = {e \in s.ends : e > ack}
  /\ c.timer = (c.ends # {})
  /\ c.active => s.active /\ ack < s.recoveryEnd
  /\ c.active = c.policy.active
  /\ c.next = s.next /\ c.sending = s.sending /\ c.closed = s.closed /\ c.board = s.board
  /\ c.recoveryEnd = s.recoveryEnd /\ c.retransmittedEnd = s.retransmittedEnd
  /\ c.rescueAfter = s.rescueAfter /\ c.pipe = s.pipe /\ c.out = s.out
  /\ c.repaired = s.repaired /\ c.needless = s.needless /\ c.rescued = s.rescued
  /\ c.lossesBefore = s.lossesBefore

(* What a confirmation changes.                                            *)
LEMMA ConfirmedFields ==
  ASSUME NEW s \in Senders, PolicyFits(s.policy), s.active = s.policy.active,
         NEW ack \in Nat, s.oldest < ack, NEW c, c = ConfirmBytes(s, ack)
  PROVE  Confirmed(c, s, ack)
<1>1. /\ s.active \in BOOLEAN /\ s.recoveryEnd \in Nat /\ s.ends \in SUBSET Nat
      /\ s.oldest \in Nat /\ s.timedOutEnd \in Nat
  BY DEF Senders
<1>2. PICK ending \in BOOLEAN : ending = (s.active /\ ack >= s.recoveryEnd)
  OBVIOUS
<1>3. PICK remaining \in SUBSET Nat : remaining = {e \in s.ends : e > ack}
  BY <1>1
<1>4. PICK active \in BOOLEAN : active = (s.active /\ ~ending)
  OBVIOUS
<1>5. PICK timer \in BOOLEAN : timer = (remaining # {})
  OBVIOUS
<1>6. PICK timedOut \in Nat : timedOut = IF ack >= s.timedOutEnd THEN 0 ELSE s.timedOutEnd
  BY <1>1
<1>7. PICK size \in Nat : size = ack - s.oldest
  BY <1>1
<1>8. PICK policy : policy = AfterACK(s.policy, size, s.active, ending)
  OBVIOUS
<1>9. PolicyFits(policy) /\ policy \in Policies /\ policy.active = active
  <2>1. /\ PolicyFits(policy)
        /\ s.active /\ ~ending => policy.active = TRUE
        /\ ~s.active \/ ending => policy.active = FALSE
    BY <1>1, <1>2, <1>8, AfterACKIsUsable, ZenonT(30)
  <2>2. CASE s.active /\ ~ending
    BY <1>4, <2>1, <2>2 DEF PolicyFits
  <2>3. CASE ~(s.active /\ ~ending)
    BY <1>1, <1>4, <2>1, <2>3 DEF PolicyFits
  <2> QED BY <2>2, <2>3
<1>10. c = [s EXCEPT !.oldest = ack, !.ends = remaining, !.retries = 0, !.active = active,
                     !.timer = timer, !.timedOutEnd = timedOut, !.policy = policy]
  BY <1>2, <1>3, <1>4, <1>5, <1>6, <1>7, <1>8 DEF ConfirmBytes
<1>11. PICK u : u = [s EXCEPT !.oldest = ack, !.ends = remaining, !.retries = 0]
  OBVIOUS
<1>12. /\ u \in Senders /\ u.oldest = ack /\ u.ends = remaining /\ u.retries = 0
       /\ u.next = s.next /\ u.sending = s.sending /\ u.closed = s.closed /\ u.board = s.board
       /\ u.recoveryEnd = s.recoveryEnd /\ u.retransmittedEnd = s.retransmittedEnd
       /\ u.rescueAfter = s.rescueAfter /\ u.pipe = s.pipe /\ u.out = s.out
       /\ u.repaired = s.repaired /\ u.needless = s.needless /\ u.rescued = s.rescued
       /\ u.lossesBefore = s.lossesBefore
  BY ONLY s \in Senders, <1>11, ack \in Nat, remaining \in SUBSET Nat DEF Senders
<1>13. c = [u EXCEPT !.active = active, !.timer = timer, !.timedOutEnd = timedOut, !.policy = policy]
  BY <1>10, <1>11
<1>14. /\ c \in Senders /\ c.oldest = ack /\ c.ends = remaining /\ c.retries = 0
       /\ c.next = u.next /\ c.sending = u.sending /\ c.closed = u.closed /\ c.board = u.board
       /\ c.recoveryEnd = u.recoveryEnd /\ c.retransmittedEnd = u.retransmittedEnd
       /\ c.rescueAfter = u.rescueAfter /\ c.pipe = u.pipe /\ c.out = u.out
       /\ c.repaired = u.repaired /\ c.needless = u.needless /\ c.rescued = u.rescued
       /\ c.lossesBefore = u.lossesBefore
       /\ c.active = active /\ c.timer = timer /\ c.policy = policy
  BY ONLY <1>12, <1>13, <1>9, active \in BOOLEAN, timer \in BOOLEAN, timedOut \in Nat, ZenonT(30)
     DEF Senders
<1>15. active => s.active /\ ack < s.recoveryEnd
  <2>1. SUFFICES ASSUME active PROVE s.active /\ ack < s.recoveryEnd
    OBVIOUS
  <2>2. s.active /\ ~ending
    BY <1>4, <2>1
  <2>3. ~(ack >= s.recoveryEnd)
    BY <1>2, <2>2
  <2> QED BY <1>1, <2>2, <2>3
<1>16. c.ends = {e \in s.ends : e > ack} /\ c.timer = (c.ends # {})
  BY <1>3, <1>5, <1>14
<1>17. c.active = c.policy.active
  BY <1>9, <1>14
<1> QED BY <1>9, <1>12, <1>14, <1>15, <1>16, <1>17 DEF Confirmed

(* What is left of the flight is still divided.                            *)
LEMMA FlightIsConfirmed ==
  ASSUME NEW s \in Senders, FlightIsDivided(s), s.oldest <= s.next,
         NEW ack \in Nat, s.oldest < ack, ack <= s.next,
         NEW c \in Senders, c.oldest = ack, c.next = s.next, c.ends = {e \in s.ends : e > ack}
  PROVE  FlightIsDivided(c)
<1>1. /\ s.oldest \in Nat /\ s.next \in Nat /\ s.ends \in SUBSET Nat
      /\ s.ends \subseteq s.oldest + 1 .. s.next /\ SackMss \in Nat
  BY SackAssumption DEF Senders, FlightIsDivided
<1>2. c.ends \subseteq ack + 1 .. s.next
  BY <1>1
<1>3. s.next = ack \/ s.next \in c.ends
  <2>1. s.next \in s.ends
    BY <1>1 DEF FlightIsDivided
  <2> QED BY <1>1, <2>1
<1>4. ASSUME NEW e \in c.ends PROVE \E d \in c.ends \cup {ack} : d < e /\ e - d <= SackMss
  <2>1. e \in s.ends /\ e \in Nat /\ e > ack
    BY <1>1
  <2>2. PICK d \in s.ends \cup {s.oldest} : d < e /\ e - d <= SackMss
    BY <2>1 DEF FlightIsDivided
  <2>3. d \in Nat
    BY <1>1
  <2>4. CASE d > ack
    <3>1. d \in s.ends
      BY <1>1, <2>3, <2>4
    <3> QED BY <2>2, <2>4, <3>1
  <2>5. CASE ~(d > ack)
    <3>1. e - ack <= SackMss
      BY <1>1, <2>1, <2>2, <2>3, <2>5
    <3> QED BY <2>1, <3>1
  <2> QED BY <2>4, <2>5
<1> QED BY <1>2, <1>3, <1>4 DEF FlightIsDivided

(* A sender that has recorded a report and confirmed what it confirms.     *)
Learned(c, s, position) ==
  /\ c \in Senders /\ c.oldest = position /\ c.next = s.next /\ c.closed = s.closed
  /\ c.active => s.active
  /\ c.lossesBefore = s.lossesBefore /\ c.out = s.out /\ c.repaired = s.repaired
  /\ c.rescueAfter = s.rescueAfter /\ c.recoveryEnd = s.recoveryEnd

Confirming(s, position, blocks, ack) ==
  IF ack > s.oldest THEN ConfirmBytes(RecordReports(s, position, blocks), ack)
  ELSE RecordReports(s, position, blocks)

(* Whatever a report says, the sender is sound before it decides about     *)
(* recovery.                                                               *)
LEMMA LearnedIsSound ==
  ASSUME NEW h, NEW s, SenderIsSound(s, h), ~s.closed, NEW ack \in Nat, NEW blocks,
         NEW position, position = Higher(ack, s.oldest), IsReport(position, blocks, s, h),
         NEW h2, IsHeard(h2, h, position, s.next, blocks),
         NEW c, c = Confirming(s, position, blocks, ack)
  PROVE  /\ SenderIsSound(c, h2) /\ Learned(c, s, position)
         /\ c.board = Update(s.board, position, s.next, blocks)
<1>1. /\ s \in Senders /\ SenderIsTyped(s) /\ OpenIsSound(s, h)
      /\ s.oldest \in Nat /\ s.next \in Nat /\ s.recoveryEnd \in Nat
  BY DEF SenderIsSound, SenderIsTyped, Senders
<1>2. BoardIs(s, h) /\ FlightIsDivided(s) /\ PolicyFits(s.policy) /\ s.active = s.policy.active
  BY <1>1 DEF OpenIsSound, SenderIsTyped
<1>3. h \in SUBSET Nat
  BY <1>1, <1>2 DEF BoardIs
<1>4. PICK r : r = RecordReports(s, position, blocks)
  OBVIOUS
<1>5. PICK board \in Seq(Blocks), pipe \in Nat, rescued \in Nat :
        /\ Recorded(r, s, board, pipe, rescued)
        /\ board = Update(s.board, position, s.next, blocks)
        /\ s.active => pipe = Cardinality(Travelling(h2, position, s.next))
                                + Cardinality(Resent(h2, position, s.next, s.retransmittedEnd))
                                + rescued
  BY <1>1, <1>2, <1>4, RecordIsSound
<1>6. /\ Separate(board) /\ BytesOf(board) = h2 /\ h2 \subseteq position + 1 .. s.next - 1
  BY <1>1, <1>2, <1>5, BoardIsUpdated
<1>7. position \in Nat /\ s.oldest <= position /\ position <= s.next
  BY DEF IsReport
<1>8. \A i \in 1 .. Len(s.out) : IsSegment(s.out[i], s.next)
  BY <1>1 DEF SenderIsTyped
<1>9. CASE ack > s.oldest
  <2>1. c = ConfirmBytes(r, ack) /\ position = ack
    BY <1>4, <1>9 DEF Confirming, Higher
  <2>2. r \in Senders /\ PolicyFits(r.policy) /\ r.active = r.policy.active /\ r.oldest < ack
    BY <1>1, <1>2, <1>5, <1>9 DEF Recorded
  <2>3. Confirmed(c, r, ack)
    BY <2>1, <2>2, ConfirmedFields
  <2>4. /\ c \in Senders /\ PolicyFits(c.policy) /\ c.oldest = position /\ c.retries = 0
        /\ c.ends = {e \in s.ends : e > ack} /\ c.timer = (c.ends # {})
        /\ c.active => s.active /\ position < s.recoveryEnd
        /\ c.active = c.policy.active
        /\ c.next = s.next /\ c.sending = s.sending /\ c.closed = s.closed /\ c.board = board
        /\ c.recoveryEnd = s.recoveryEnd /\ c.retransmittedEnd = s.retransmittedEnd
        /\ c.rescueAfter = s.rescueAfter /\ c.pipe = pipe /\ c.out = s.out
        /\ c.repaired = s.repaired /\ c.needless = s.needless /\ c.rescued = rescued
        /\ c.lossesBefore = s.lossesBefore
    BY <1>5, <2>1, <2>3 DEF Confirmed, Recorded
  <2>5. SenderIsTyped(c)
    BY <1>1, <1>7, <1>8, <2>4, SackAssumption DEF SenderIsTyped
  <2>6. c.active => RecoveryIsSound(c, h2)
    <3>1. SUFFICES ASSUME c.active PROVE RecoveryIsSound(c, h2)
      OBVIOUS
    <3>2. s.active /\ position < s.recoveryEnd /\ RecoveryIsSound(s, h)
      BY <1>1, <2>4, <3>1 DEF OpenIsSound
    <3>3. PipeIs(c, h2)
      BY <1>5, <2>4, <3>2 DEF PipeIs
    <3> QED BY <1>1, <1>3, <2>4, <3>2, <3>3, RecoveryGoesOn
  <2>7. FlightIsDivided(c)
    <3>1. s.oldest <= s.next
      BY <1>1 DEF SenderIsTyped
    <3>2. s.oldest < ack /\ ack <= s.next
      BY <1>1, <1>7, <1>9, <2>1
    <3> QED BY <1>1, <1>2, <2>1, <2>4, <3>1, <3>2, FlightIsConfirmed
  <2>8. BoardIs(c, h2)
    BY <1>6, <2>4 DEF BoardIs
  <2>9. OpenIsSound(c, h2)
    <3>1. c.timer <=> c.ends # {}
      BY <2>4
    <3>2. c.sending => c.next < End
      BY <1>1, <2>4 DEF OpenIsSound
    <3> QED BY <2>4, <2>6, <2>7, <2>8, <3>1, <3>2 DEF OpenIsSound
  <2> QED BY <1>5, <2>4, <2>5, <2>9 DEF SenderIsSound, Learned
<1>10. CASE ~(ack > s.oldest)
  <2>1. c = r /\ position = s.oldest
    BY <1>1, <1>4, <1>10 DEF Confirming, Higher
  <2>2. Recorded(c, s, board, pipe, rescued)
    BY <1>5, <2>1
  <2>3. SenderIsTyped(c)
    BY <1>1, <2>2 DEF SenderIsTyped, Recorded
  <2>4. c.active => RecoveryIsSound(c, h2)
    <3>1. SUFFICES ASSUME c.active PROVE RecoveryIsSound(c, h2)
      OBVIOUS
    <3>2. s.active /\ RecoveryIsSound(s, h)
      BY <1>1, <2>2, <3>1 DEF OpenIsSound, Recorded
    <3>3. PipeIs(c, h2)
      BY <1>5, <2>1, <2>2, <3>2 DEF PipeIs, Recorded
    <3>4. position < s.recoveryEnd
      BY <2>1, <3>2 DEF RecoveryIsSound
    <3>5. /\ c \in Senders /\ c.oldest = position /\ c.next = s.next
          /\ c.recoveryEnd = s.recoveryEnd /\ c.retransmittedEnd = s.retransmittedEnd
          /\ c.rescueAfter = s.rescueAfter /\ c.repaired = s.repaired
      BY <2>1, <2>2 DEF Recorded
    <3> QED BY <1>1, <1>3, <3>2, <3>3, <3>4, <3>5, RecoveryGoesOn
  <2>5. FlightIsDivided(c)
    BY <1>2, <2>2 DEF FlightIsDivided, Recorded
  <2>6. BoardIs(c, h2)
    BY <1>6, <2>1, <2>2 DEF BoardIs, Recorded
  <2>7. OpenIsSound(c, h2)
    BY <1>1, <2>2, <2>4, <2>5, <2>6 DEF OpenIsSound, Recorded
  <2> QED BY <1>5, <2>1, <2>2, <2>3, <2>7 DEF SenderIsSound, Learned, Recorded
<1> QED BY <1>9, <1>10

(* The blocks of a report are above its acknowledgement and what was sent, *)
(* and none holds the oldest data.                                         *)
BlocksAreApart(report, s) ==
  \A i \in 1 .. Len(report.blocks) :
    /\ report.blocks[i].start > report.ack /\ report.blocks[i].end <= s.next
    /\ s.oldest \notin Bytes(report.blocks[i])

(* Of the reports on their way only this one is taken.                     *)
OthersRemain(reports, report, reports2) ==
  \A i \in 1 .. Len(reports) :
    reports[i] = report \/ \E j \in 1 .. Len(reports2) : reports2[j] = reports[i]

(* Nothing a report carried is forgotten.                                  *)
LEMMA LearnedIsOnTrack ==
  ASSUME NEW h, NEW queue, NEW reports, NEW reports2, NEW s \in Senders, NEW c,
         NEW report \in Reports, NEW position, position = Higher(report.ack, s.oldest),
         NEW h2, IsHeard(h2, h, position, s.next, report.blocks), h \in SUBSET Nat,
         BlocksAreApart(report, s), OthersRemain(reports, report, reports2),
         Learned(c, s, position), ~s.closed, OnTrack(s, h, queue, reports)
  PROVE  OnTrack(c, h2, queue, reports2)
<1>1. /\ s.oldest \in Nat /\ s.next \in Nat /\ report.ack \in Nat /\ report.blocks \in Seq(Blocks)
      /\ s.repaired \in SUBSET Nat
  BY DEF Senders, Reports
<1>2. position \in Nat /\ s.oldest <= position /\ report.ack <= position
      /\ (position = s.oldest \/ position = report.ack)
  BY <1>1 DEF Higher
<1>3. /\ c.oldest = position /\ c.next = s.next /\ c.closed = s.closed /\ (c.active => s.active)
      /\ c.out = s.out /\ c.repaired = s.repaired /\ c.rescueAfter = s.rescueAfter
      /\ c.recoveryEnd = s.recoveryEnd
  BY DEF Learned
<1>4. SUFFICES ASSUME c.active PROVE RepairsAreOnTheirWay(c, h2, queue, reports2)
  BY DEF OnTrack
<1>5. RepairsAreOnTheirWay(s, h, queue, reports)
  BY <1>3, <1>4 DEF OnTrack
<1>6. ASSUME NEW p \in Nat, Carries(report, p) PROVE p < position \/ p \in h2
  <2>1. CASE p < report.ack
    BY <1>1, <1>2, <2>1
  <2>2. CASE ~(p < report.ack)
    <3>1. PICK i \in 1 .. Len(report.blocks) : p \in Bytes(report.blocks[i])
      BY <1>6, <2>2 DEF Carries
    <3>2. PICK b \in Blocks : b = report.blocks[i]
      BY <1>1
    <3>3. b.start \in Nat /\ b.end \in Nat
      BY DEF Blocks
    <3>4. b.start <= p /\ p < b.end /\ b.start > report.ack /\ b.end <= s.next
          /\ ~(b.start <= s.oldest /\ s.oldest < b.end)
      BY <1>1, <3>1, <3>2, <3>3 DEF Bytes, BlocksAreApart
    <3>5. CASE p < position
      BY <3>5
    <3>6. CASE p >= position
      <4>1. b.start > position
        BY <1>1, <1>2, <3>3, <3>4, <3>6
      <4>2. Reported(position, s.next, b)
        BY <1>1, <1>2, <3>3, <3>4, <4>1 DEF Reported
      <4> QED BY <3>1, <3>2, <3>4, <3>6, <4>2 DEF IsHeard
    <3> QED BY <1>2, <3>5, <3>6
  <2> QED BY <2>1, <2>2
<1>7. ASSUME NEW p \in Nat, OnItsWay(p, s, h, queue, reports) PROVE OnItsWay(p, c, h2, queue, reports2)
  <2>1. CASE p < s.oldest
    <3>1. p < position
      BY <1>1, <1>2, <2>1
    <3> QED BY <1>3, <3>1 DEF OnItsWay
  <2>2. CASE p \in h
    <3>1. p < position \/ p >= position
      BY <1>2
    <3>2. p >= position => p \in h2
      BY <2>2 DEF IsHeard
    <3> QED BY <1>3, <3>1, <3>2 DEF OnItsWay
  <2>3. CASE \E i \in 1 .. Len(queue) : p \in Bytes(queue[i])
    BY <2>3 DEF OnItsWay
  <2>4. CASE \E i \in 1 .. Len(s.out) : p \in Bytes(s.out[i])
    BY <1>3, <2>4 DEF OnItsWay
  <2>5. CASE \E i \in 1 .. Len(reports) : Carries(reports[i], p)
    <3>1. PICK i \in 1 .. Len(reports) : Carries(reports[i], p)
      BY <2>5
    <3>a. reports[i] = report \/ \E j \in 1 .. Len(reports2) : reports2[j] = reports[i]
      BY DEF OthersRemain
    <3>2. CASE reports[i] = report
      BY <1>3, <1>6, <3>1, <3>2 DEF OnItsWay
    <3>3. CASE \E j \in 1 .. Len(reports2) : reports2[j] = reports[i]
      BY <3>1, <3>3 DEF OnItsWay
    <3> QED BY <3>a, <3>2, <3>3
  <2> QED BY <1>7, <2>1, <2>2, <2>3, <2>4, <2>5 DEF OnItsWay
<1>8. \A p \in c.repaired : OnItsWay(p, c, h2, queue, reports2)
  BY <1>1, <1>3, <1>5, <1>7 DEF RepairsAreOnTheirWay
<1>9. c.rescueAfter = c.recoveryEnd => OnItsWay(c.next - 1, c, h2, queue, reports2)
  <2>1. SUFFICES ASSUME s.rescueAfter = s.recoveryEnd PROVE OnItsWay(s.next - 1, c, h2, queue, reports2)
    BY <1>3
  <2>2. OnItsWay(s.next - 1, s, h, queue, reports)
    BY <1>5, <2>1 DEF RepairsAreOnTheirWay
  <2>3. CASE s.next - 1 \in Nat
    BY <1>7, <2>2, <2>3
  <2>4. CASE s.next - 1 \notin Nat
    <3>1. s.next - 1 < position
      BY <1>1, <1>2, <2>4
    <3> QED BY <1>3, <3>1 DEF OnItsWay
  <2> QED BY <2>3, <2>4
<1> QED BY <1>8, <1>9 DEF RepairsAreOnTheirWay

-----------------------------------------------------------------------------
(* What the reports lead to.                                               *)

(* Something is reported above the first gap, which is the oldest data.    *)
LEMMA FirstGapIsOldest ==
  ASSUME NEW h, NEW s \in Senders, BoardIs(s, h), 1 <= s.oldest, s.oldest < s.next, h # {},
         NEW hole, hole = NextHole(s.board, s.oldest, s.next, FALSE, SackMss)
  PROVE  /\ IsHole(hole, s.board, s.oldest, s.next) /\ Size(hole) <= SackMss
         /\ hole # NoBlock /\ hole.start = s.oldest /\ hole.end \in Nat /\ hole.end < s.next
         /\ \E q \in h : q >= hole.end
<1>1. /\ Separate(s.board) /\ BytesOf(s.board) = h /\ h \subseteq s.oldest + 1 .. s.next - 1
      /\ s.oldest \in Nat \ {0} /\ s.next \in Nat
  BY DEF BoardIs, Senders
<1>2. \A p \in Int : p \in h <=> Covers(s.board, p)
  BY <1>1, BytesOfBoard DEF Separate
<1>3. PICK o \in Nat, n \in Nat : o = s.oldest /\ n = s.next
  BY <1>1
<1>4. o < n /\ h # {} /\ \A p \in h : p \in Nat /\ o < p /\ p <= n - 1
  BY <1>1, <1>3
<1>5. /\ hole # NoBlock => FirstGap(hole, s.board, s.oldest, s.next)
      /\ hole = NoBlock => \A p \in Int : s.oldest <= p /\ p < s.next => Covers(s.board, p)
  <2>1. FALSE \in BOOLEAN
    OBVIOUS
  <2> QED BY <1>1, <2>1, NextHoleIsFirst
<1>6. ~Covers(s.board, o)
  BY ONLY <1>2, <1>4, o \in Nat
<1>7. hole # NoBlock
  BY ONLY <1>3, <1>4, <1>5, <1>6, o \in Nat
<1>8. /\ IsHole(hole, s.board, s.oldest, s.next) /\ Size(hole) <= SackMss
      /\ \A p \in Int : o <= p /\ p < hole.start => Covers(s.board, p)
  BY ONLY <1>3, <1>5, <1>7 DEF FirstGap
<1>9. /\ hole \in Blocks /\ hole.start \in Nat /\ hole.end \in Nat /\ hole.start < hole.end
      /\ o <= hole.start /\ hole.end <= n
      /\ \A q \in Int : hole.start <= q /\ q < hole.end => ~Covers(s.board, q)
  BY ONLY <1>3, <1>8 DEF IsHole, Blocks
<1>10. hole.start = o
  BY ONLY <1>6, <1>8, <1>9, o \in Nat
<1>11. PICK q \in h : TRUE
  BY ONLY <1>4
<1>12. q >= hole.end /\ q <= n - 1 /\ hole.end < n
  BY ONLY <1>2, <1>4, <1>9, <1>10, <1>11, o \in Nat, n \in Nat
<1> QED BY ONLY <1>3, <1>7, <1>8, <1>9, <1>10, <1>11, <1>12

(* A recovery begins sound, with its first repair under way.               *)
LEMMA StartsSound ==
  ASSUME NEW h, NEW queue, NEW reports, NEW s, SenderIsSound(s, h), ~s.closed, s.ends # {},
         h # {}, losses \in Nat, NEW t, t = StartRecovery(s)
  PROVE  /\ SenderIsSound(t, h) /\ t.oldest = s.oldest /\ t.next = s.next
         /\ OnTrack(t, h, queue, reports)
         /\ t.active => t.lossesBefore = losses
<1>1. /\ s \in Senders /\ SenderIsTyped(s) /\ OpenIsSound(s, h) /\ BoardIs(s, h)
      /\ s.oldest \in Nat /\ s.next \in Nat /\ 1 <= s.oldest
      /\ PolicyFits(s.policy) /\ FlightIsDivided(s)
  BY DEF SenderIsSound, SenderIsTyped, Senders, OpenIsSound
<1>2. s.oldest < s.next
  BY <1>1 DEF FlightIsDivided
<1>3. PICK hole : hole = NextHole(s.board, s.oldest, s.next, FALSE, SackMss)
  OBVIOUS
<1>4. /\ IsHole(hole, s.board, s.oldest, s.next) /\ Size(hole) <= SackMss
      /\ hole # NoBlock /\ hole.start = s.oldest /\ hole.end \in Nat /\ hole.end < s.next
      /\ \E q \in h : q >= hole.end
  BY <1>1, <1>2, <1>3, FirstGapIsOldest
<1>5. PICK flight \in Nat : flight = s.next - s.oldest
  BY <1>1, <1>2
<1>6. PICK policy : policy = OnLoss(s.policy, flight)
  OBVIOUS
<1>7. PolicyFits(policy) /\ policy.active /\ policy \in Policies
  BY <1>1, <1>6, LossIsUsable DEF PolicyFits
<1>8. PICK from \in Nat, to \in Nat : from = s.oldest /\ to = s.next
  BY <1>1
<1>9. PICK a \in Nat, b \in Nat :
        a = Cardinality(Travelling(h, from, to)) /\ b = Cardinality(Resent(h, from, to, from))
  BY CountsAreNatural
<1>10. PICK pipe \in Nat : pipe = Pipe(s.board, from, to, from, SackMss) /\ pipe = a + b
  <2>1. from \in Int /\ Separate(s.board) /\ BytesOf(s.board) = h
    BY <1>1 DEF BoardIs
  <2> QED BY <1>9, <2>1, PipeCounts
<1>11. PICK u : u = [s EXCEPT !.policy = policy, !.active = TRUE, !.recoveryEnd = to,
                              !.retransmittedEnd = from, !.pipe = pipe]
  OBVIOUS
<1>12. PICK v : v = [u EXCEPT !.repaired = {}, !.rescued = 0, !.lossesBefore = losses,
                              !.rescueAfter = hole.end]
  OBVIOUS
<1>13. t = RetransmitHole(v, hole, FALSE)
  <2>1. StartRecovery(s) = RetransmitHole(
          [[s EXCEPT !.policy = OnLoss(s.policy, s.next - s.oldest), !.active = TRUE,
                     !.recoveryEnd = s.next, !.retransmittedEnd = s.oldest,
                     !.pipe = Pipe(s.board, s.oldest, s.next, s.oldest, SackMss),
                     !.repaired = {}, !.rescued = 0, !.lossesBefore = losses]
             EXCEPT !.rescueAfter = hole.end], hole, FALSE)
    BY <1>3, <1>4 DEF StartRecovery
  <2>2. v = [[s EXCEPT !.policy = policy, !.active = TRUE, !.recoveryEnd = to,
                       !.retransmittedEnd = from, !.pipe = pipe,
                       !.repaired = {}, !.rescued = 0, !.lossesBefore = losses]
               EXCEPT !.rescueAfter = hole.end]
    BY ONLY <1>11, <1>12
  <2> QED BY <1>5, <1>6, <1>8, <1>10, <2>1, <2>2
<1>14. /\ u \in Senders /\ u.policy = policy /\ u.active = TRUE /\ u.recoveryEnd = to
       /\ u.retransmittedEnd = from /\ u.pipe = pipe
       /\ u.oldest = s.oldest /\ u.next = s.next /\ u.ends = s.ends /\ u.retries = s.retries
       /\ u.timer = s.timer /\ u.sending = s.sending /\ u.closed = s.closed
       /\ u.board = s.board /\ u.out = s.out /\ u.needless = s.needless
  BY ONLY <1>1, <1>7, <1>11, from \in Nat, to \in Nat, pipe \in Nat DEF Senders
<1>15. /\ v \in Senders /\ v.repaired = {} /\ v.rescued = 0 /\ v.lossesBefore = losses
       /\ v.rescueAfter = hole.end
       /\ v.policy = u.policy /\ v.active = u.active /\ v.recoveryEnd = u.recoveryEnd
       /\ v.retransmittedEnd = u.retransmittedEnd /\ v.pipe = u.pipe
       /\ v.oldest = u.oldest /\ v.next = u.next /\ v.ends = u.ends /\ v.retries = u.retries
       /\ v.timer = u.timer /\ v.sending = u.sending /\ v.closed = u.closed
       /\ v.board = u.board /\ v.out = u.out /\ v.needless = u.needless
  BY ONLY <1>4, <1>12, <1>14, losses \in Nat DEF Senders
<1>16. SenderIsTyped(v)
  BY <1>1, <1>7, <1>14, <1>15 DEF SenderIsTyped
<1>17. RecoveryIsSound(v, h)
  <2>1. PipeIs(v, h)
    <3>1. v.pipe = (a + b) + 0
      BY <1>10, <1>14, <1>15
    <3> QED BY <1>8, <1>9, <1>14, <1>15, <3>1 DEF PipeIs
  <2>2. \A p \in (v.oldest .. v.next - 1) \ h : ~(p < v.retransmittedEnd)
    BY <1>1, <1>8, <1>14, <1>15
  <2>3. /\ v.oldest < v.recoveryEnd /\ v.recoveryEnd <= v.next /\ v.retransmittedEnd <= v.next
        /\ v.rescueAfter <= v.recoveryEnd /\ v.rescueAfter # v.recoveryEnd
    BY <1>1, <1>2, <1>4, <1>8, <1>14, <1>15
  <2>4. \E q \in h : q >= v.rescueAfter
    BY <1>4, <1>15
  <2>5. \A p \in v.repaired : FALSE
    BY <1>15
  <2> QED BY <2>1, <2>2, <2>3, <2>4, <2>5 DEF RecoveryIsSound
<1>18. OpenIsSound(v, h)
  <2>1. FlightIsDivided(v) /\ BoardIs(v, h)
    BY <1>1, <1>14, <1>15 DEF FlightIsDivided, BoardIs
  <2>2. (v.timer <=> v.ends # {}) /\ (v.sending => v.next < End)
    BY <1>1, <1>14, <1>15 DEF OpenIsSound
  <2>3. v.active = v.policy.active
    BY <1>7, <1>14, <1>15 DEF Policies
  <2> QED BY <1>17, <2>1, <2>2, <2>3 DEF OpenIsSound
<1>19. SenderIsSound(v, h) /\ ~v.closed /\ v.active
  BY <1>14, <1>15, <1>16, <1>18 DEF SenderIsSound
<1>20. Repairs(t, v, h, hole, FALSE)
  <2>1. IsHole(hole, v.board, v.oldest, v.next)
    BY <1>4, <1>14, <1>15
  <2>2. v.retransmittedEnd <= hole.start
    BY <1>1, <1>4, <1>8, <1>14, <1>15
  <2>3. \A p \in Int : v.oldest <= p /\ v.retransmittedEnd <= p /\ p < hole.start => Covers(v.board, p)
    BY <1>1, <1>4, <1>14, <1>15
  <2> QED BY <1>4, <1>13, <1>19, <2>1, <2>2, <2>3, RepairIsSound
<1>21. OnTrack(v, h, queue, reports)
  <2>1. v.rescueAfter # v.recoveryEnd
    BY <1>1, <1>4, <1>8, <1>14, <1>15
  <2> QED BY <1>15, <2>1 DEF OnTrack, RepairsAreOnTheirWay
<1>22. SenderIsSound(t, h) /\ t.oldest = s.oldest /\ t.next = s.next
  BY <1>14, <1>15, <1>20 DEF Repairs
<1>23. CASE t.closed
  <2>1. ~t.active
    BY <1>22, <1>23 DEF SenderIsSound, IsShut
  <2> QED BY <1>22, <1>23, <2>1 DEF OnTrack
<1>24. CASE IsRepaired(t, v, hole, FALSE)
  <2>1. OnTrack(t, h, queue, reports)
    <3>1. hole \in Blocks
      BY <1>4 DEF IsHole
    <3> QED BY <1>15, <1>19, <1>21, <1>24, <3>1, RepairIsOnTrack
  <2>2. t.lossesBefore = losses
    BY <1>15, <1>24 DEF IsRepaired, SameFlight
  <2> QED BY <1>22, <2>1, <2>2
<1> QED BY <1>20, <1>23, <1>24 DEF Repairs

(* Counting duplicates changes nothing else.                               *)
LEMMA DuplicatesAreSound ==
  ASSUME NEW h, NEW queue, NEW reports, NEW s, SenderIsSound(s, h), NEW d \in Nat,
         NEW t, t = [s EXCEPT !.duplicateACKs = d]
  PROVE  /\ GoesOn(t, s, h, queue, reports) /\ t.closed = s.closed /\ t.ends = s.ends
         /\ t.active = s.active /\ t.board = s.board /\ t.duplicateACKs = d
<1>1. s \in Senders /\ SenderIsTyped(s)
  BY DEF SenderIsSound, SenderIsTyped
<1>2. /\ t \in Senders /\ t.duplicateACKs = d
      /\ t.policy = s.policy /\ t.oldest = s.oldest /\ t.next = s.next /\ t.ends = s.ends
      /\ t.retries = s.retries /\ t.timer = s.timer /\ t.sending = s.sending
      /\ t.closed = s.closed /\ t.board = s.board
      /\ t.active = s.active /\ t.recoveryEnd = s.recoveryEnd
      /\ t.retransmittedEnd = s.retransmittedEnd /\ t.rescueAfter = s.rescueAfter
      /\ t.pipe = s.pipe /\ t.out = s.out /\ t.repaired = s.repaired /\ t.needless = s.needless
      /\ t.rescued = s.rescued /\ t.lossesBefore = s.lossesBefore
  BY <1>1 DEF Senders
<1>3. SenderIsTyped(t)
  BY <1>1, <1>2 DEF SenderIsTyped
<1>4. RecoveryIsSound(s, h) => RecoveryIsSound(t, h)
  BY <1>2 DEF RecoveryIsSound, PipeIs
<1>5. (FlightIsDivided(s) => FlightIsDivided(t)) /\ (BoardIs(s, h) => BoardIs(t, h))
  BY <1>2 DEF FlightIsDivided, BoardIs
<1>6. OpenIsSound(s, h) => OpenIsSound(t, h)
  BY <1>2, <1>4, <1>5 DEF OpenIsSound
<1>7. IsShut(s) => IsShut(t)
  BY <1>2 DEF IsShut
<1>8. ASSUME NEW p, OnItsWay(p, s, h, queue, reports) PROVE OnItsWay(p, t, h, queue, reports)
  BY <1>2, <1>8 DEF OnItsWay
<1>9. OnTrack(s, h, queue, reports) => OnTrack(t, h, queue, reports)
  BY <1>2, <1>8 DEF OnTrack, RepairsAreOnTheirWay
<1>10. SenderIsSound(t, h)
  BY <1>2, <1>3, <1>6, <1>7 DEF SenderIsSound
<1> QED BY <1>2, <1>9, <1>10 DEF GoesOn

(* A sender that goes on with its recovery or begins one.                  *)
Follows(t, s, h, queue, reports) ==
  /\ SenderIsSound(t, h) /\ t.oldest = s.oldest /\ t.next = s.next
  /\ t.active => \/ /\ s.active /\ t.lossesBefore = s.lossesBefore
                    /\ OnTrack(s, h, queue, reports) => OnTrack(t, h, queue, reports)
                 \/ t.lossesBefore = losses /\ OnTrack(t, h, queue, reports)

(* observeSACKFeedback leaves a sound sender, in the same recovery or in a *)
(* new one.                                                                *)
LEMMA ObserveIsSound ==
  ASSUME NEW h, NEW queue, NEW reports, NEW s, SenderIsSound(s, h),
         NEW news, news => h # {}, NEW advancing, losses \in Nat,
         NEW t, t = ObserveFeedback(s, news, advancing)
  PROVE  Follows(t, s, h, queue, reports)
<1>1. s \in Senders /\ s.duplicateACKs \in Nat
  BY DEF SenderIsSound, SenderIsTyped, Senders
<1>2. PICK u : u = IF advancing THEN [s EXCEPT !.duplicateACKs = 0] ELSE s
  OBVIOUS
<1>3. PICK d \in Nat : d = IF advancing THEN 0 ELSE s.duplicateACKs
  BY <1>1
<1>4. u = [s EXCEPT !.duplicateACKs = d]
  BY <1>1, <1>2, <1>3 DEF Senders
<1>5. /\ GoesOn(u, s, h, queue, reports) /\ u.closed = s.closed /\ u.ends = s.ends
      /\ u.active = s.active /\ u.board = s.board /\ u.duplicateACKs = d
  BY <1>4, DuplicatesAreSound
<1>6. PICK e \in Nat : e = Lower(d + 1, 3)
  BY DEF Lower
<1>7. PICK v : v = [u EXCEPT !.duplicateACKs = e]
  OBVIOUS
<1>8. SenderIsSound(u, h)
  BY <1>5 DEF GoesOn
<1>9. /\ GoesOn(v, u, h, queue, reports) /\ v.closed = u.closed /\ v.ends = u.ends
      /\ v.active = u.active /\ v.board = u.board
  BY <1>7, <1>8, DuplicatesAreSound
<1>10. v = [u EXCEPT !.duplicateACKs = Lower(@ + 1, 3)]
  BY <1>5, <1>6, <1>7
<1>11. \/ t = s
       \/ t = u
       \/ t = v
       \/ ~s.closed /\ s.ends # {} /\ news /\ t = StartRecovery(v)
  BY <1>2, <1>10 DEF ObserveFeedback, IsPending
<1>12. CASE t = s
  BY <1>12 DEF Follows
<1>13. CASE t = u
  BY <1>5, <1>13 DEF Follows, GoesOn
<1>14. CASE t = v
  BY <1>5, <1>9, <1>14 DEF Follows, GoesOn
<1>15. CASE ~s.closed /\ s.ends # {} /\ news /\ t = StartRecovery(v)
  <2>1. SenderIsSound(v, h) /\ ~v.closed /\ v.ends # {}
        /\ v.oldest = s.oldest /\ v.next = s.next
    BY <1>5, <1>9, <1>15 DEF GoesOn
  <2>2. /\ SenderIsSound(t, h) /\ t.oldest = v.oldest /\ t.next = v.next
        /\ OnTrack(t, h, queue, reports)
        /\ t.active => t.lossesBefore = losses
    BY <1>15, <2>1, StartsSound
  <2> QED BY <2>1, <2>2 DEF Follows
<1> QED BY <1>11, <1>12, <1>13, <1>14, <1>15

(* A report with news leaves something reported.                           *)
LEMMA NewsIsHeard ==
  ASSUME NEW h, NEW s \in Senders, BoardIs(s, h), NEW position, NEW blocks,
         IsReport(position, blocks, s, h), NEW h2, IsHeard(h2, h, position, s.next, blocks),
         IsNews(s.board, position, s.next, blocks)
  PROVE  h2 # {}
<1>1. BytesOf(Update(s.board, position, s.next, blocks)) = h2
  <2>1. PICK board : board = Update(s.board, position, s.next, blocks)
    OBVIOUS
  <2>2. /\ Separate(board) /\ BytesOf(board) = h2 /\ h2 \subseteq position + 1 .. s.next - 1
        /\ board \in Seq(Blocks)
    BY <2>1, BoardIsUpdated
  <2> QED BY <2>1, <2>2
<1>2. PICK d : d = DiscardBefore(s.board, position)
  OBVIOUS
<1>3. Separate(d)
  <2>1. position \in Nat /\ Separate(s.board)
    BY DEF IsReport, BoardIs
  <2> QED BY <1>2, <2>1, DiscardIsSound
<1>4. PICK k \in Nat : k = Cardinality(BytesOf(d))
  BY <1>3, BytesAreFinite, FS_CardinalityType
<1>5. Cardinality(h2) > k
  BY <1>1, <1>2, <1>4 DEF IsNews, ReceivedBytes
<1>6. Cardinality({}) = 0
  BY FS_EmptySet
<1> QED BY <1>4, <1>5, <1>6

(* A sender after a report.                                                *)
Hears(t, s, h, queue, reports, position, h2, reports2) ==
  /\ SenderIsSound(t, h2) /\ IsAtRest(t) /\ t.oldest = position /\ t.next = s.next
  /\ t.active => \/ /\ s.active /\ t.lossesBefore = s.lossesBefore
                    /\ OnTrack(s, h, queue, reports) => OnTrack(t, h2, queue, reports2)
                 \/ t.lossesBefore = losses /\ OnTrack(t, h2, queue, reports2)

(* The whole handler of an acknowledgement.                                *)
LEMMA HandleReportIsSound ==
  ASSUME NEW h, NEW queue, NEW reports, NEW reports2, NEW s, SenderIsSound(s, h), ~s.closed,
         losses \in Nat,
         NEW report \in Reports, NEW position, position = Higher(report.ack, s.oldest),
         IsReport(position, report.blocks, s, h),
         NEW h2, IsHeard(h2, h, position, s.next, report.blocks),
         BlocksAreApart(report, s), OthersRemain(reports, report, reports2),
         NEW t, t = HandleReport(s, report.ack, report.blocks)
  PROVE  Hears(t, s, h, queue, reports, position, h2, reports2)
<1>1. s \in Senders /\ BoardIs(s, h) /\ s.oldest \in Nat /\ report.ack \in Nat
  BY DEF SenderIsSound, SenderIsTyped, OpenIsSound, Senders, Reports
<1>2. h \in SUBSET Nat
  BY <1>1, SMTT(30) DEF BoardIs, Senders
<1>3. PICK blocks : blocks = report.blocks
  OBVIOUS
<1>4. PICK news : news = IsNews(s.board, position, s.next, blocks)
  OBVIOUS
<1>5. PICK advancing : advancing = (report.ack > s.oldest)
  OBVIOUS
<1>6. PICK c : c = Confirming(s, position, blocks, report.ack)
  OBVIOUS
<1>7. SenderIsSound(c, h2) /\ Learned(c, s, position)
  BY <1>1, <1>3, <1>6, LearnedIsSound
<1>8. OnTrack(s, h, queue, reports) => OnTrack(c, h2, queue, reports2)
  <2>1. SUFFICES ASSUME OnTrack(s, h, queue, reports) PROVE OnTrack(c, h2, queue, reports2)
    OBVIOUS
  <2> QED BY <1>1, <1>2, <1>7, <2>1, LearnedIsOnTrack
<1>9. news => h2 # {}
  BY <1>1, <1>3, <1>4, NewsIsHeard
<1>10. PICK u : u = ObserveFeedback(c, news, advancing)
  OBVIOUS
<1>11. Follows(u, c, h2, queue, reports2)
  BY <1>7, <1>9, <1>10, ObserveIsSound
<1>12. t = QueueData(u)
  BY <1>3, <1>4, <1>5, <1>6, <1>10 DEF HandleReport, Confirming
<1>13. GoesOn(t, u, h2, queue, reports2) /\ IsAtRest(t)
  BY <1>11, <1>12, QueueDataIsSound DEF Follows
<1>14. SenderIsSound(t, h2) /\ IsAtRest(t) /\ t.oldest = position /\ t.next = s.next
  BY <1>7, <1>11, <1>13 DEF GoesOn, Follows, Learned
<1>15. t.active => \/ /\ s.active /\ t.lossesBefore = s.lossesBefore
                      /\ OnTrack(s, h, queue, reports) => OnTrack(t, h2, queue, reports2)
                   \/ t.lossesBefore = losses /\ OnTrack(t, h2, queue, reports2)
  <2>1. SUFFICES ASSUME t.active
                 PROVE  \/ /\ s.active /\ t.lossesBefore = s.lossesBefore
                           /\ OnTrack(s, h, queue, reports) => OnTrack(t, h2, queue, reports2)
                        \/ t.lossesBefore = losses /\ OnTrack(t, h2, queue, reports2)
    OBVIOUS
  <2>2. /\ u.active /\ t.lossesBefore = u.lossesBefore
        /\ OnTrack(u, h2, queue, reports2) => OnTrack(t, h2, queue, reports2)
    BY <1>13, <2>1 DEF GoesOn
  <2>3. CASE /\ c.active /\ u.lossesBefore = c.lossesBefore
             /\ OnTrack(c, h2, queue, reports2) => OnTrack(u, h2, queue, reports2)
    BY <1>7, <1>8, <2>2, <2>3 DEF Learned
  <2>4. CASE u.lossesBefore = losses /\ OnTrack(u, h2, queue, reports2)
    BY <2>2, <2>4
  <2> QED BY <1>11, <2>2, <2>3, <2>4 DEF Follows
<1> QED BY <1>14, <1>15 DEF Hears

-----------------------------------------------------------------------------
(* The events of the sender.                                               *)

(* A sender after it has sent something new.                               *)
Sends(t, s, h, queue, reports) ==
  /\ SenderIsSound(t, h) /\ IsAtRest(t) /\ t.oldest = s.oldest /\ s.next <= t.next
  /\ t.active => s.active /\ t.lossesBefore = s.lossesBefore
  /\ OnTrack(s, h, queue, reports) => OnTrack(t, h, queue, reports)

(* A segment of new data is queued.                                        *)
Queued(v, s, end, pipe) ==
  /\ v \in Senders
  /\ v.next = end /\ v.ends = s.ends \cup {end} /\ v.timer = TRUE /\ v.pipe = pipe
  /\ v.out = Append(s.out, Block(s.next, end))
  /\ v.policy = s.policy /\ v.oldest = s.oldest /\ v.retries = s.retries
  /\ v.sending = s.sending /\ v.closed = s.closed /\ v.board = s.board
  /\ v.active = s.active /\ v.recoveryEnd = s.recoveryEnd
  /\ v.retransmittedEnd = s.retransmittedEnd /\ v.rescueAfter = s.rescueAfter
  /\ v.repaired = s.repaired /\ v.needless = s.needless
  /\ v.rescued = s.rescued /\ v.lossesBefore = s.lossesBefore

(* What queueing a segment changes.                                        *)
LEMMA QueuedFields ==
  ASSUME NEW s \in Senders, NEW end \in Nat, NEW pipe \in Nat,
         NEW v, v = [s EXCEPT !.next = end, !.ends = @ \cup {end}, !.timer = TRUE, !.pipe = pipe,
                              !.out = Append(@, Block(s.next, end))]
  PROVE  Queued(v, s, end, pipe)
<1>1. s.ends \in SUBSET Nat /\ s.out \in Seq(Blocks) /\ s.next \in Nat
  BY DEF Senders
<1>2. PICK ends \in SUBSET Nat : ends = s.ends \cup {end}
  BY <1>1
<1>3. PICK out \in Seq(Blocks) : out = Append(s.out, Block(s.next, end))
  <2>1. Block(s.next, end) \in Blocks
    BY <1>1 DEF Block, Blocks
  <2>2. Append(s.out, Block(s.next, end)) \in Seq(Blocks)
    BY <1>1, <2>1, AppendProperties
  <2> QED BY <2>2
<1>4. v = [s EXCEPT !.next = end, !.ends = ends, !.timer = TRUE, !.pipe = pipe, !.out = out]
  BY <1>2, <1>3
<1>5. /\ v \in Senders
      /\ v.next = end /\ v.ends = ends /\ v.timer = TRUE /\ v.pipe = pipe /\ v.out = out
      /\ v.policy = s.policy /\ v.oldest = s.oldest /\ v.retries = s.retries
      /\ v.sending = s.sending /\ v.closed = s.closed /\ v.board = s.board
      /\ v.active = s.active /\ v.recoveryEnd = s.recoveryEnd
      /\ v.retransmittedEnd = s.retransmittedEnd /\ v.rescueAfter = s.rescueAfter
      /\ v.repaired = s.repaired /\ v.needless = s.needless
      /\ v.rescued = s.rescued /\ v.lossesBefore = s.lossesBefore
  BY ONLY s \in Senders, <1>4, end \in Nat, pipe \in Nat, ends \in SUBSET Nat,
          out \in Seq(Blocks) DEF Senders
<1> QED BY <1>2, <1>3, <1>5 DEF Queued

(* New data keeps the sender sound, and the estimate exact.                *)
LEMMA QueuedIsSound ==
  ASSUME NEW h, NEW queue, NEW reports, NEW s, SenderIsSound(s, h), ~s.closed, ~s.sending,
         NEW size \in Nat \ {0}, size <= SackMss, s.next + size <= End,
         NEW end, end = s.next + size,
         NEW pipe \in Nat, pipe = IF s.active THEN s.pipe + size ELSE s.pipe,
         NEW v, Queued(v, s, end, pipe)
  PROVE  StaysSound(v, s, h, queue, reports)
<1>1. /\ s \in Senders /\ SenderIsTyped(s) /\ OpenIsSound(s, h)
      /\ s.oldest \in Nat /\ s.next \in Nat /\ s.ends \in SUBSET Nat /\ s.pipe \in Nat
      /\ s.rescued \in Nat /\ s.retransmittedEnd \in Nat /\ s.recoveryEnd \in Nat
      /\ s.rescueAfter \in Nat /\ s.out \in Seq(Blocks)
      /\ 1 <= s.oldest /\ s.oldest <= s.next
      /\ SackMss \in Nat
  BY SackAssumption DEF SenderIsSound, SenderIsTyped, Senders
<1>2. end \in Nat /\ s.next < end /\ end <= End /\ end - s.next <= SackMss
  <2>1. PICK n \in Nat, e \in Nat : n = s.next /\ e = End
    BY <1>1, SackAssumption DEF End
  <2>2. end = n + size /\ n + size <= e /\ size <= SackMss
    BY <2>1
  <2>3. end \in Nat /\ n < end /\ end <= e /\ end - n <= SackMss
    BY ONLY <1>1, <2>2, n \in Nat, size \in Nat \ {0}
  <2> QED BY <2>1, <2>3
<1>3. /\ v \in Senders
      /\ v.next = end /\ v.ends = s.ends \cup {end} /\ v.timer = TRUE /\ v.pipe = pipe
      /\ v.out = Append(s.out, Block(s.next, end))
      /\ v.policy = s.policy /\ v.oldest = s.oldest /\ v.retries = s.retries
      /\ v.sending = s.sending /\ v.closed = s.closed /\ v.board = s.board
      /\ v.active = s.active /\ v.recoveryEnd = s.recoveryEnd
      /\ v.retransmittedEnd = s.retransmittedEnd /\ v.rescueAfter = s.rescueAfter
      /\ v.repaired = s.repaired /\ v.needless = s.needless
      /\ v.rescued = s.rescued /\ v.lossesBefore = s.lossesBefore
  BY DEF Queued
<1>4. PICK b \in Blocks : b = Block(s.next, end) /\ b.start = s.next /\ b.end = end
  <2>1. PICK n \in Nat : n = s.next
    BY <1>1
  <2>2. PICK b : b = [start |-> n, end |-> end]
    OBVIOUS
  <2>3. b \in Blocks /\ b.start = n /\ b.end = end
    BY ONLY <1>2, <2>2, n \in Nat DEF Blocks
  <2> QED BY <2>1, <2>2, <2>3 DEF Block
<1>5. /\ \A i \in 1 .. Len(v.out) : v.out[i] = b \/ \E j \in 1 .. Len(s.out) : v.out[i] = s.out[j]
      /\ \A j \in 1 .. Len(s.out) : \E i \in 1 .. Len(v.out) : v.out[i] = s.out[j]
  BY <1>1, <1>3, <1>4, AppendedSegments, SMTT(30)
<1>6. SenderIsTyped(v)
  <2>1. IsSegment(b, end)
    BY <1>1, <1>2, <1>4, SMTT(30) DEF IsSegment, Size
  <2>2. \A j \in 1 .. Len(s.out) : IsSegment(s.out[j], end)
    <3>1. SUFFICES ASSUME NEW j \in 1 .. Len(s.out) PROVE IsSegment(s.out[j], end)
      OBVIOUS
    <3>2. IsSegment(s.out[j], s.next)
      BY <1>1 DEF SenderIsTyped
    <3>3. s.out[j] \in Blocks
      BY <1>1
    <3>4. s.out[j].end \in Nat
      BY <3>3 DEF Blocks
    <3> QED BY ONLY <1>1, <1>2, <3>2, <3>4, SMTT(30) DEF IsSegment
  <2>3. \A i \in 1 .. Len(v.out) : IsSegment(v.out[i], v.next)
    BY <1>3, <1>5, <2>1, <2>2
  <2>4. v.oldest <= v.next /\ v.next <= End
    BY ONLY <1>1, <1>2, <1>3
  <2> QED BY <1>1, <1>3, <2>3, <2>4 DEF SenderIsTyped
<1>7. FlightIsDivided(v)
  <2>1. FlightIsDivided(s)
    BY <1>1 DEF OpenIsSound
  <2>2. v.ends \subseteq v.oldest + 1 .. v.next
    <3>1. s.ends \subseteq s.oldest + 1 .. s.next
      BY <2>1 DEF FlightIsDivided
    <3>2. PICK o \in Nat, n \in Nat : o = s.oldest /\ n = s.next /\ o <= n /\ n < end
      BY <1>1, <1>2
    <3>3. s.ends \cup {end} \subseteq o + 1 .. end
      BY ONLY <1>2, <3>1, <3>2
    <3> QED BY <1>3, <3>2, <3>3
  <2>3. ASSUME NEW e \in v.ends PROVE \E d \in v.ends \cup {v.oldest} : d < e /\ e - d <= SackMss
    <3>1. CASE e \in s.ends
      <4>1. PICK d \in s.ends \cup {s.oldest} : d < e /\ e - d <= SackMss
        BY <2>1, <3>1 DEF FlightIsDivided
      <4> QED BY <1>3, <4>1
    <3>2. CASE e = end
      <4>1. s.next \in v.ends \cup {v.oldest}
        BY <1>3, <2>1 DEF FlightIsDivided
      <4>2. s.next < e /\ e - s.next <= SackMss
        BY <1>2, <3>2
      <4> QED BY <4>1, <4>2
    <3> QED BY <1>3, <3>1, <3>2
  <2> QED BY <1>3, <2>2, <2>3 DEF FlightIsDivided
<1>8. BoardIs(s, h) /\ BoardIs(v, h)
  <2>1. BoardIs(s, h)
    BY <1>1 DEF OpenIsSound
  <2>2. h \subseteq s.oldest + 1 .. s.next - 1
    BY <2>1 DEF BoardIs
  <2>3. h \subseteq s.oldest + 1 .. end - 1
    BY <1>1, <1>2, <2>2
  <2> QED BY <1>3, <2>1, <2>3 DEF BoardIs
<1>9. v.active => RecoveryIsSound(v, h) /\ v.rescueAfter # v.recoveryEnd
  <2>1. SUFFICES ASSUME s.active PROVE RecoveryIsSound(v, h) /\ v.rescueAfter # v.recoveryEnd
    BY <1>3
  <2>2. RecoveryIsSound(s, h)
    BY <1>1, <2>1 DEF OpenIsSound
  <2>3. s.rescueAfter # s.recoveryEnd
    <3>1. s.next # End
      BY <1>1, <1>2 DEF End
    <3> QED BY <2>2, <3>1 DEF RecoveryIsSound
  <2>4. PipeIs(v, h)
    <3>1. PICK from \in Nat, to \in Nat, mark \in Nat, c \in Nat :
            from = s.oldest /\ to = s.next /\ mark = s.retransmittedEnd /\ c = s.rescued
      BY <1>1
    <3>2. PICK x \in Nat, y \in Nat :
            x = Cardinality(Travelling(h, from, to)) /\ y = Cardinality(Resent(h, from, to, mark))
      BY CountsAreNatural
    <3>3. s.pipe = (x + y) + c
      BY <2>2, <3>1, <3>2 DEF RecoveryIsSound, PipeIs
    <3>4. h \in SUBSET Nat /\ from <= to /\ mark <= to /\ \A q \in h : q < to
      BY ONLY <1>1, <1>8, <2>2, <3>1 DEF BoardIs, RecoveryIsSound
    <3>5. PICK stop : stop = to + size
      OBVIOUS
    <3>6. /\ Cardinality(Travelling(h, from, stop)) = Cardinality(Travelling(h, from, to)) + size
          /\ Resent(h, from, stop, mark) = Resent(h, from, to, mark)
      <4>1. size \in Nat /\ h \in SUBSET Nat /\ \A q \in h : q < to
        BY <3>4
      <4>2. GrowsBy(h, from, to, stop, mark, size)
        BY <3>4, <3>5, <4>1, TravellingGrows
      <4> QED BY <4>2 DEF GrowsBy
    <3>7. v.pipe = ((x + size) + y) + c
      BY <1>3, <2>1, <3>3
    <3>8. v.oldest = from /\ v.next = stop /\ v.retransmittedEnd = mark /\ v.rescued = c
      BY <1>3, <3>1, <3>5
    <3> QED BY <3>2, <3>6, <3>7, <3>8 DEF PipeIs
  <2>5. \A p \in (v.oldest .. v.next - 1) \ h : p < v.retransmittedEnd => p \in v.repaired
    <3>1. SUFFICES ASSUME NEW p \in (s.oldest .. end - 1) \ h, p < s.retransmittedEnd
                   PROVE  p \in s.repaired
      BY <1>3
    <3>2. s.retransmittedEnd <= s.next
      BY <2>2 DEF RecoveryIsSound
    <3>3. p \in (s.oldest .. s.next - 1) \ h
      BY <1>1, <1>2, <3>1, <3>2, SMTT(30)
    <3> QED BY <2>2, <3>1, <3>3 DEF RecoveryIsSound
  <2>6. v.recoveryEnd <= v.next /\ v.retransmittedEnd <= v.next
    BY ONLY <1>1, <1>2, <1>3, <2>2 DEF RecoveryIsSound
  <2> QED BY <1>3, <2>2, <2>3, <2>4, <2>5, <2>6 DEF RecoveryIsSound
<1>10. OpenIsSound(v, h)
  <2>1. v.timer <=> v.ends # {}
    BY <1>3
  <2>2. v.active = v.policy.active
    BY <1>1, <1>3 DEF OpenIsSound
  <2> QED BY <1>3, <1>7, <1>8, <1>9, <2>1, <2>2 DEF OpenIsSound
<1>11. ASSUME NEW p, OnItsWay(p, s, h, queue, reports) PROVE OnItsWay(p, v, h, queue, reports)
  BY <1>3, <1>5, <1>11 DEF OnItsWay
<1>12. OnTrack(s, h, queue, reports) => OnTrack(v, h, queue, reports)
  BY <1>3, <1>9, <1>11 DEF OnTrack, RepairsAreOnTheirWay
<1>13. SenderIsSound(v, h)
  BY <1>3, <1>6, <1>10 DEF SenderIsSound
<1> QED BY <1>12, <1>13 DEF StaysSound

(* A sender to which a segment of new data is added.                       *)
WithSegment(u, size) ==
  [u EXCEPT !.next = u.next + size, !.ends = @ \cup {u.next + size}, !.timer = TRUE,
            !.pipe = IF u.active THEN @ + size ELSE @,
            !.out = Append(@, Block(u.next, u.next + size))]

(* The whole event that sends new data.                                    *)
LEMMA SendNextIsSound ==
  ASSUME NEW h, NEW queue, NEW reports, NEW s, SenderIsSound(s, h), IsAtRest(s), s.sending,
         NEW u, u = [s EXCEPT !.sending = FALSE], NEW size, size = NextSize(u),
         NEW t, t = IF size = 0 THEN u ELSE QueueData(WithSegment(u, size))
  PROVE  Sends(t, s, h, queue, reports)
<1>1. ~s.closed /\ s \in Senders /\ OpenIsSound(s, h) /\ s.next < End /\ s.oldest < End
  BY DEF SenderIsSound, IsShut, SenderIsTyped, OpenIsSound, IsAtRest
<1>2. PICK b \in BOOLEAN : b = FALSE
  OBVIOUS
<1>2a. u = [s EXCEPT !.sending = b]
  BY <1>2
<1>2b. b => s.next < End
  BY <1>2
<1>3. /\ SenderIsSound(u, h) /\ u.sending = b
      /\ u.oldest = s.oldest /\ u.next = s.next /\ u.closed = s.closed /\ u.active = s.active
      /\ u.ends = s.ends /\ u.lossesBefore = s.lossesBefore /\ u.out = s.out
      /\ Space(u) = Space(s) /\ NextSize(u) = NextSize(s) /\ (NothingLeft(s) => NothingLeft(u))
      /\ OnTrack(s, h, queue, reports) => OnTrack(u, h, queue, reports)
  <2>1. OnlySends(u, s, b) /\ StaysSound(u, s, h, queue, reports)
    BY <1>1, <1>2a, <1>2b, SendingIsSound
  <2> QED BY <2>1 DEF OnlySends, StaysSound
<1>4. /\ u \in Senders /\ u.next \in Nat /\ u.pipe \in Nat /\ u.next <= End /\ u.oldest \in Nat
      /\ u.active \in BOOLEAN /\ u.closed \in BOOLEAN /\ u.oldest <= u.next /\ PolicyFits(u.policy)
  BY <1>3 DEF SenderIsSound, SenderIsTyped, Senders
<1>5. End \in Nat /\ SackMss \in Nat \ {0}
  BY SackAssumption DEF End
<1>6. /\ size \in Nat /\ size <= SackMss /\ size <= End - u.next
      /\ u.active /\ size > 0 => Space(u) >= SackMss
  BY <1>4, SizeIsNatural
<1>8a. s.next <= u.next
  BY <1>3, <1>4
<1>7. CASE size = 0
  <2>1. t = u
    BY <1>7
  <2>2. IsAtRest(u)
    <3>1. u.ends # {}
      <4>1. SUFFICES ASSUME u.ends = {} PROVE FALSE
        OBVIOUS
      <4>2. OpenIsSound(u, h)
        BY <1>1, <1>3 DEF SenderIsSound
      <4>3. u.next = u.oldest
        BY <4>1, <4>2 DEF OpenIsSound, FlightIsDivided
      <4>4. ~u.active
        <5>1. SUFFICES ASSUME u.active PROVE FALSE
          OBVIOUS
        <5>2. u.oldest < u.recoveryEnd /\ u.recoveryEnd <= u.next /\ u.recoveryEnd \in Nat
          BY <1>4, <4>2, <5>1 DEF OpenIsSound, RecoveryIsSound, Senders
        <5> QED BY <1>4, <4>3, <5>2
      <4>5. u.next < End
        BY <1>1, <1>3
      <4>6. NextSize(u) > 0
        BY <1>4, <4>3, <4>4, <4>5, IdleHasRoom
      <4> QED BY <1>7, <4>6
    <3>2. u.active => Space(u) < SackMss
      <4>1. SUFFICES ASSUME u.active, ~(Space(u) < SackMss) PROVE FALSE
        OBVIOUS
      <4>2. ~(NextSize(u) > 0)
        BY <1>7
      <4>3. u.next = End
        BY <1>4, <4>1, <4>2, NothingToSend
      <4> QED BY <1>1, <1>3, <1>5, <4>3
    <3> QED BY <1>1, <1>3, <3>1, <3>2 DEF IsAtRest
  <2> QED BY <1>3, <1>4, <1>8a, <2>1, <2>2 DEF Sends
<1>8. CASE size # 0
  <2>1. PICK end \in Nat : end = u.next + size
    BY <1>4, <1>6
  <2>2. PICK pipe \in Nat : pipe = IF u.active THEN u.pipe + size ELSE u.pipe
    BY <1>4, <1>6
  <2>3. PICK v : v = [u EXCEPT !.next = end, !.ends = @ \cup {end}, !.timer = TRUE, !.pipe = pipe,
                               !.out = Append(@, Block(u.next, end))]
    OBVIOUS
  <2>4. t = QueueData(v)
    <3>1. t = QueueData([u EXCEPT
                !.next = u.next + size, !.ends = @ \cup {u.next + size}, !.timer = TRUE,
                !.pipe = IF u.active THEN @ + size ELSE @,
                !.out = Append(@, Block(u.next, u.next + size))])
      BY <1>8 DEF WithSegment
    <3>2. v = [u EXCEPT
                !.next = u.next + size, !.ends = @ \cup {u.next + size}, !.timer = TRUE,
                !.pipe = IF u.active THEN @ + size ELSE @,
                !.out = Append(@, Block(u.next, u.next + size))]
      BY ONLY <2>1, <2>2, <2>3
    <3> QED BY <3>1, <3>2
  <2>5. Queued(v, u, end, pipe)
    BY <1>4, <2>3, QueuedFields
  <2>6. u.next + size <= End
    BY <1>4, <1>5, <1>6
  <2>7. ~u.closed /\ ~u.sending /\ size \in Nat \ {0}
    BY <1>1, <1>2, <1>3, <1>6, <1>8
  <2>8. /\ SenderIsSound(v, h)
        /\ OnTrack(u, h, queue, reports) => OnTrack(v, h, queue, reports)
    <3>1. SenderIsSound(u, h) /\ end = u.next + size /\ size <= SackMss
      BY <1>3, <1>6, <2>1
    <3>1a. PICK n \in Nat \ {0} : n = size
      BY <2>7
    <3>1b. n <= SackMss /\ u.next + n <= End /\ end = u.next + n
      BY <2>6, <3>1, <3>1a
    <3>1c. pipe = IF u.active THEN u.pipe + n ELSE u.pipe
      BY <2>2, <3>1a
    <3>2. StaysSound(v, u, h, queue, reports)
      BY ONLY <1>3, <2>1, <2>2, <2>5, <2>7, <3>1, <3>1a, <3>1b, <3>1c, QueuedIsSound
    <3> QED BY <3>2 DEF StaysSound
  <2>9. GoesOn(t, v, h, queue, reports) /\ IsAtRest(t)
    BY <2>4, <2>8, QueueDataIsSound
  <2>10. v.oldest = s.oldest /\ v.next = end /\ v.active = s.active /\ v.lossesBefore = s.lossesBefore
    <3>1. v.oldest = u.oldest /\ v.next = end /\ v.active = u.active /\ v.lossesBefore = u.lossesBefore
      BY <2>5 DEF Queued
    <3> QED BY <1>3, <3>1
  <2>11. s.next <= t.next
    BY <1>3, <1>4, <1>6, <2>1, <2>9, <2>10 DEF GoesOn
  <2> QED BY <1>3, <2>8, <2>9, <2>10, <2>11 DEF Sends, GoesOn
<1> QED BY <1>7, <1>8

(* The oldest segment is one that was sent.                                *)
LEMMA OldestIsSegment ==
  ASSUME NEW s \in Senders, FlightIsDivided(s), s.ends # {}, 1 <= s.oldest
  PROVE  OldestSegment(s) \in Blocks /\ IsSegment(OldestSegment(s), s.next)
<1>1. s.ends \in SUBSET Nat /\ s.oldest \in Nat /\ s.next \in Nat /\ SackMss \in Nat
  BY SackAssumption DEF Senders
<1>2. PICK e \in s.ends : \A f \in s.ends : e <= f
  BY <1>1, LeastOf
<1>3. PICK x : x = CHOOSE e1 \in s.ends : \A f \in s.ends : e1 <= f
  OBVIOUS
<1>4. x \in s.ends /\ \A f \in s.ends : x <= f
  BY <1>2, <1>3
<1>5. PICK d \in s.ends \cup {s.oldest} : d < x /\ x - d <= SackMss
  BY <1>4 DEF FlightIsDivided
<1>6. x \in Nat /\ s.oldest < x /\ x <= s.next
  BY <1>1, <1>4 DEF FlightIsDivided
<1>7. d = s.oldest
  BY <1>1, <1>4, <1>5, <1>6
<1>8. OldestSegment(s) = Block(s.oldest, x)
  BY <1>3 DEF OldestSegment
<1>9. PICK o \in Nat : o = s.oldest
  BY <1>1
<1>10. PICK b : b = [start |-> o, end |-> x]
  OBVIOUS
<1>11. b \in Blocks /\ b.start = o /\ b.end = x
  BY ONLY <1>6, <1>10, o \in Nat DEF Blocks
<1>12. OldestSegment(s) = b
  BY <1>8, <1>9, <1>10 DEF Block
<1>13. x - o <= SackMss
  BY <1>5, <1>7, <1>9
<1>14. IsSegment(b, s.next)
  BY <1>6, <1>9, <1>11, <1>13 DEF IsSegment, Size
<1> QED BY <1>11, <1>12, <1>14

(* A timeout forgets the board and the recovery, and repeats the oldest    *)
(* segment.                                                                *)
LEMMA TimeOutIsSound ==
  ASSUME NEW h, NEW queue, NEW reports, NEW s, SenderIsSound(s, h), IsAtRest(s), s.timer,
         NEW t, t = OnTimeout(s)
  PROVE  SenderIsSound(t, {}) /\ IsAtRest(t) /\ ~t.active /\ t.oldest = s.oldest /\ t.next = s.next
<1>1. /\ s \in Senders /\ SenderIsTyped(s) /\ ~s.closed /\ OpenIsSound(s, h)
      /\ s.oldest \in Nat /\ s.next \in Nat /\ s.retries \in Nat /\ s.timedOutEnd \in Nat
      /\ s.out \in Seq(Blocks) /\ s.oldest <= s.next
      /\ FlightIsDivided(s) /\ s.ends # {} /\ PolicyFits(s.policy) /\ 1 <= s.oldest
      /\ s.retries <= SackRetransmissions /\ SackRetransmissions \in Nat
  BY SackAssumption DEF SenderIsSound, IsShut, SenderIsTyped, OpenIsSound, Senders
<1>2. CASE s.retries >= SackRetransmissions
  <2>1. t = GiveUp(s)
    BY <1>2 DEF OnTimeout
  <2>2. /\ SenderIsTyped(t) /\ IsShut(t) /\ t.closed
        /\ t.oldest = s.oldest /\ t.next = s.next
    BY <1>1, <2>1, GiveUpIsSound
  <2> QED BY <2>2 DEF SenderIsSound, IsAtRest, IsShut
<1>3. CASE ~(s.retries >= SackRetransmissions)
  <2>1. PICK oldest \in Blocks : oldest = OldestSegment(s) /\ IsSegment(oldest, s.next)
    BY <1>1, OldestIsSegment
  <2>2. PICK retries \in Nat : retries = s.retries + 1 /\ retries <= SackRetransmissions
    BY <1>1, <1>3
  <2>3. PICK out \in Seq(Blocks) : out = Append(s.out, oldest)
    <3>1. Append(s.out, oldest) \in Seq(Blocks)
      BY <1>1, AppendProperties
    <3> QED BY <3>1
  <2>4. PICK timedOut \in Nat : timedOut = IF s.timedOutEnd = 0 THEN oldest.end ELSE s.timedOutEnd
    BY <1>1 DEF Blocks
  <2>5. PICK flight \in Nat : flight = s.next - s.oldest
    BY <1>1
  <2>6. PICK counted \in BOOLEAN : counted = (s.timedOutEnd # 0)
    OBVIOUS
  <2>7. PICK policy : policy = Window!OnTimeoutLoss(s.policy, flight, s.next, counted)
    OBVIOUS
  <2>8. PolicyFits(policy) /\ ~policy.active /\ policy \in Policies /\ policy.active \in BOOLEAN
    <3>1. PolicyFits(policy) /\ ~policy.active
      BY <1>1, <2>7, TimeoutLossIsUsable
    <3> QED BY <3>1 DEF PolicyFits, Policies
  <2>9. PICK u : u = ResetAfterTimeout(s)
    OBVIOUS
  <2>10. /\ u \in Senders /\ u.board = << >> /\ u.active = FALSE
         /\ u.policy = s.policy /\ u.oldest = s.oldest /\ u.next = s.next /\ u.ends = s.ends
         /\ u.retries = s.retries /\ u.sending = s.sending /\ u.closed = s.closed
         /\ u.out = s.out /\ u.needless = s.needless /\ u.timedOutEnd = s.timedOutEnd
    <3>0. << >> \in Seq(Blocks)
      OBVIOUS
    <3>1. PICK board \in Seq(Blocks) : board = << >>
      BY <3>0
    <3>2. PICK n \in Nat : n = s.next
      BY <1>1
    <3>3. u = [s EXCEPT !.board = board, !.active = FALSE, !.duplicateACKs = 0,
                        !.recoveryEnd = n, !.retransmittedEnd = 0, !.rescueAfter = 0, !.pipe = 0]
      BY <2>9, <3>1, <3>2 DEF ResetAfterTimeout
    <3>4. PICK w : w = [s EXCEPT !.board = board, !.active = FALSE, !.duplicateACKs = 0,
                                 !.recoveryEnd = n]
      OBVIOUS
    <3>5. /\ w \in Senders /\ w.board = board /\ w.active = FALSE
          /\ w.policy = s.policy /\ w.oldest = s.oldest /\ w.next = s.next /\ w.ends = s.ends
          /\ w.retries = s.retries /\ w.sending = s.sending /\ w.closed = s.closed
          /\ w.out = s.out /\ w.needless = s.needless /\ w.timedOutEnd = s.timedOutEnd
      BY ONLY <1>1, <3>4, board \in Seq(Blocks), n \in Nat DEF Senders
    <3>6. u = [w EXCEPT !.retransmittedEnd = 0, !.rescueAfter = 0, !.pipe = 0]
      BY ONLY <3>3, <3>4
    <3>7. /\ u \in Senders /\ u.board = w.board /\ u.active = w.active
          /\ u.policy = w.policy /\ u.oldest = w.oldest /\ u.next = w.next /\ u.ends = w.ends
          /\ u.retries = w.retries /\ u.sending = w.sending /\ u.closed = w.closed
          /\ u.out = w.out /\ u.needless = w.needless /\ u.timedOutEnd = w.timedOutEnd
      BY ONLY <3>5, <3>6 DEF Senders
    <3> QED BY <3>1, <3>5, <3>7
  <2>11. t = [u EXCEPT !.retries = retries, !.timer = TRUE, !.out = out,
                       !.timedOutEnd = timedOut, !.policy = policy]
    <3>1. t = [ResetAfterTimeout(s) EXCEPT
                 !.retries = @ + 1, !.timer = TRUE, !.out = Append(@, OldestSegment(s)),
                 !.timedOutEnd = IF @ = 0 THEN OldestSegment(s).end ELSE @,
                 !.policy = Window!OnTimeoutLoss(@, s.next - s.oldest, s.next, s.timedOutEnd # 0)]
      BY <1>3 DEF OnTimeout
    <3> QED BY <2>1, <2>2, <2>3, <2>4, <2>5, <2>6, <2>7, <2>9, <2>10, <3>1
  <2>12. /\ t \in Senders /\ t.retries = retries /\ t.timer = TRUE /\ t.out = out
         /\ t.policy = policy
         /\ t.board = u.board /\ t.active = u.active
         /\ t.oldest = u.oldest /\ t.next = u.next /\ t.ends = u.ends
         /\ t.sending = u.sending /\ t.closed = u.closed /\ t.needless = u.needless
    BY ONLY <2>8, <2>10, <2>11, retries \in Nat, out \in Seq(Blocks), timedOut \in Nat DEF Senders
  <2>13. SenderIsTyped(t)
    <3>1. \A i \in 1 .. Len(out) : IsSegment(out[i], s.next)
      <4>1. \A j \in 1 .. Len(s.out) : IsSegment(s.out[j], s.next)
        BY <1>1 DEF SenderIsTyped
      <4>2. \A i \in 1 .. Len(out) : out[i] = oldest \/ \E j \in 1 .. Len(s.out) : out[i] = s.out[j]
        BY <1>1, <2>3, AppendedSegments
      <4> QED BY <2>1, <4>1, <4>2
    <3> QED BY <1>1, <2>2, <2>8, <2>10, <2>12, <3>1 DEF SenderIsTyped
  <2>14. BoardIs(t, {})
    <3>1. Separate(<< >>)
      BY DEF Separate
    <3>2. BytesOf(<< >>) = {}
      BY DEF BytesOf, BytesIn
    <3> QED BY <2>10, <2>12, <3>1, <3>2 DEF BoardIs
  <2>15. OpenIsSound(t, {})
    <3>1. FlightIsDivided(t)
      BY <1>1, <2>10, <2>12 DEF FlightIsDivided
    <3>2. t.active = t.policy.active
      BY <2>8, <2>10, <2>12
    <3>3. t.sending => t.next < End
      BY <1>1, <2>10, <2>12 DEF OpenIsSound
    <3> QED BY <1>1, <2>10, <2>12, <2>14, <3>1, <3>2, <3>3 DEF OpenIsSound
  <2>16. IsAtRest(t)
    BY <1>1, <2>10, <2>12 DEF IsAtRest
  <2> QED BY <1>1, <2>10, <2>12, <2>13, <2>15, <2>16 DEF SenderIsSound
<1> QED BY <1>2, <1>3

-----------------------------------------------------------------------------
(* The network.                                                            *)

(* w is what is left of a queue when i has been taken.                     *)
IsWithout(w, queue, i) ==
  /\ \A j \in 1 .. Len(w) : \E k \in 1 .. Len(queue) : w[j] = queue[k]
  /\ \A k \in 1 .. Len(queue) : k = i \/ \E j \in 1 .. Len(w) : w[j] = queue[k]

(* Taking one of a queue leaves the others.                                *)
LEMMA WithoutKeeps ==
  ASSUME NEW S, NEW queue \in Seq(S), NEW i \in DOMAIN queue, NEW w, w = Without(queue, i)
  PROVE  w \in Seq(S) /\ IsWithout(w, queue, i)
<1>1. PICK I : I = DOMAIN queue \ {i}
  OBVIOUS
<1>2. DOMAIN queue = 1 .. Len(queue) /\ I \in SUBSET DOMAIN queue
  BY <1>1
<1>3. w = ElementsAt(queue, I)
  BY <1>1 DEF Without
<1>4. w \in Seq(S) /\ Selected(queue, I, w)
  BY <1>2, <1>3, Selects
<1>5. /\ \A k \in I : PlaceIn(I, k) \in 1 .. Len(w) /\ w[PlaceIn(I, k)] = queue[k]
      /\ \A j \in 1 .. Len(w) : \E k \in I : PlaceIn(I, k) = j /\ w[j] = queue[k]
  BY <1>4 DEF Selected
<1>6. \A j \in 1 .. Len(w) : \E k \in 1 .. Len(queue) : w[j] = queue[k]
  BY <1>2, <1>5
<1>7. ASSUME NEW k \in 1 .. Len(queue), k # i PROVE \E j \in 1 .. Len(w) : w[j] = queue[k]
  <2>1. k \in I
    BY <1>1, <1>2, <1>7
  <2> QED BY <1>5, <2>1
<1> QED BY <1>4, <1>6, <1>7 DEF IsWithout

(* w holds what two queues hold.                                           *)
Combines(w, a, b) ==
  /\ \A j \in 1 .. Len(w) : \/ \E k \in 1 .. Len(a) : w[j] = a[k]
                            \/ \E k \in 1 .. Len(b) : w[j] = b[k]
  /\ \A k \in 1 .. Len(a) : \E j \in 1 .. Len(w) : w[j] = a[k]
  /\ \A k \in 1 .. Len(b) : \E j \in 1 .. Len(w) : w[j] = b[k]

(* Two queues one after the other.                                         *)
LEMMA JoinedKeeps ==
  ASSUME NEW S, NEW a \in Seq(S), NEW b \in Seq(S), NEW w, w = a \o b
  PROVE  w \in Seq(S) /\ Combines(w, a, b)
<1>1. PICK m \in Nat, n \in Nat : m = Len(a) /\ n = Len(b)
  OBVIOUS
<1>2. /\ w \in Seq(S) /\ Len(w) = m + n
      /\ \A i \in 1 .. m + n : w[i] = IF i <= m THEN a[i] ELSE b[i - m]
  BY <1>1, ConcatProperties
<1>3. ASSUME NEW j \in 1 .. m + n
      PROVE  (\E k \in 1 .. m : w[j] = a[k]) \/ (\E k \in 1 .. n : w[j] = b[k])
  <2>1. CASE j <= m
    BY <1>2, <2>1
  <2>2. CASE ~(j <= m)
    <3>1. j - m \in 1 .. n /\ w[j] = b[j - m]
      BY <1>2, <2>2
    <3> QED BY <3>1
  <2> QED BY <2>1, <2>2
<1>4. ASSUME NEW k \in 1 .. m PROVE k \in 1 .. m + n /\ w[k] = a[k]
  BY <1>2
<1>5. ASSUME NEW k \in 1 .. n PROVE k + m \in 1 .. m + n /\ w[k + m] = b[k]
  <2>1. k + m \in 1 .. m + n /\ ~(k + m <= m) /\ k + m - m = k
    OBVIOUS
  <2> QED BY <1>2, <2>1
<1> QED BY <1>1, <1>2, <1>3, <1>4, <1>5, ZenonT(30) DEF Combines

(* Appending a report.                                                     *)
LEMMA AppendedReports ==
  ASSUME NEW queue \in Seq(Reports), NEW p \in Reports, NEW w, w = Append(queue, p)
  PROVE  /\ w \in Seq(Reports)
         /\ \A i \in 1 .. Len(w) : w[i] = p \/ \E j \in 1 .. Len(queue) : w[i] = queue[j]
         /\ \E i \in 1 .. Len(w) : w[i] = p
         /\ \A j \in 1 .. Len(queue) : \E i \in 1 .. Len(w) : w[i] = queue[j]
<1>1. /\ w \in Seq(Reports) /\ Len(w) = Len(queue) + 1
      /\ \A i \in 1 .. Len(queue) : w[i] = queue[i]
      /\ w[Len(queue) + 1] = p
  BY AppendProperties
<1>2. Len(queue) \in Nat
  OBVIOUS
<1> QED BY <1>1, <1>2

(* Reports of which each is an earlier one are as sound.                   *)
LEMMA FewerAcks ==
  ASSUME NEW queue, NEW h, NEW held, NEW oldest, AcksAreSound(queue, h, held, oldest),
         NEW w \in Seq(Reports), \A j \in 1 .. Len(w) : \E k \in 1 .. Len(queue) : w[j] = queue[k]
  PROVE  AcksAreSound(w, h, held, oldest)
<1>1. \A i \in 1 .. Len(w) : ReportIsTrue(w[i], h, held, oldest)
  BY DEF AcksAreSound
<1>2. ASSUME NEW i \in 1 .. Len(w), NEW j \in 1 .. Len(w)
      PROVE  \A k \in 1 .. Len(w[j].blocks) : w[i].ack \notin Bytes(w[j].blocks[k])
  <2>1. PICK m \in 1 .. Len(queue) : w[i] = queue[m]
    OBVIOUS
  <2>2. PICK n \in 1 .. Len(queue) : w[j] = queue[n]
    OBVIOUS
  <2>3. \A k \in 1 .. Len(queue[n].blocks) : queue[m].ack \notin Bytes(queue[n].blocks[k])
    BY DEF AcksAreSound
  <2> QED BY <2>1, <2>2, <2>3
<1> QED BY <1>1, <1>2 DEF AcksAreSound

(* The same of segments.                                                   *)
LEMMA FewerData ==
  ASSUME NEW queue, NEW next, DataIsSound(queue, next), NEW w \in Seq(Blocks),
         \A j \in 1 .. Len(w) : \E k \in 1 .. Len(queue) : w[j] = queue[k]
  PROVE  DataIsSound(w, next)
BY DEF DataIsSound

-----------------------------------------------------------------------------
(* A segment arrives.                                                      *)

(* A report of all that is held is true, and what the reports before it    *)
(* say is still true beside it.                                            *)
IsTrueReport(p, segment, held) ==
  /\ got \subseteq held /\ held \subseteq 1 .. sender.next - 1
  /\ p \in Reports /\ Len(p.blocks) <= MaxSACKBlocks
  /\ ReportIsTrue(p, heard, held, sender.oldest)
  /\ \A k \in 1 .. Len(p.blocks) : p.ack \notin Bytes(p.blocks[k])
  /\ \A i \in 1 .. Len(acks) :
       /\ \A k \in 1 .. Len(p.blocks) : acks[i].ack \notin Bytes(p.blocks[k])
       /\ \A k \in 1 .. Len(acks[i].blocks) : p.ack \notin Bytes(acks[i].blocks[k])
  /\ \A x \in Bytes(segment) : Carries(p, x)

(* The bytes of a run.                                                     *)
LEMMA RunsAreBytes ==
  ASSUME NEW P, NEW r, IsRun(r, P)
  PROVE  r \in Blocks /\ r.start < r.end /\ r.start \in P /\ Bytes(r) \subseteq P
<1>1. PICK a \in Nat, b \in Nat : a = r.start /\ b = r.end
  BY DEF IsRun, Blocks
<1>2. a < b /\ \A q \in Int : a <= q /\ q < b => q \in P
  BY <1>1 DEF IsRun
<1>3. a \in P
  BY ONLY <1>2, a \in Nat, b \in Nat
<1>4. a .. b - 1 \subseteq P
  BY ONLY <1>2, a \in Nat, b \in Nat
<1> QED BY <1>1, <1>2, <1>3, <1>4 DEF Bytes, IsRun

(* The report on a segment is one.                                         *)
LEMMA ArrivalIsSound ==
  ASSUME SackInv, NEW segment \in Blocks, IsSegment(segment, sender.next),
         NEW held, held = got \cup Bytes(segment), NEW r, r = Report(segment, held),
         NEW p, p = [ack |-> NextExpected(held), blocks |-> r]
  PROVE  IsTrueReport(p, segment, held)
<1>1. /\ sender \in Senders /\ sender.next \in Nat /\ sender.oldest \in Nat /\ sender.next <= End
      /\ 1 <= sender.oldest /\ NetworkIsSound
  BY DEF SackInv, SenderIsSound, SenderIsTyped, Senders
<1>2. /\ got \subseteq 1 .. sender.next - 1 /\ recent \in Seq(Blocks)
      /\ 1 .. sender.oldest - 1 \subseteq got /\ heard \subseteq got
      /\ AcksAreSound(acks, heard, got, sender.oldest)
  BY <1>1 DEF NetworkIsSound
<1>3. SackPayload \in Nat /\ End = SackPayload + 1
  BY SackAssumption DEF End
<1>4. PICK from \in Nat, to \in Nat : from = segment.start /\ to = segment.end
  BY DEF Blocks
<1>5. 1 <= from /\ from < to /\ to <= sender.next /\ Bytes(segment) = from .. to - 1
  BY <1>4 DEF IsSegment, Bytes
<1>6. held \subseteq 1 .. sender.next - 1 /\ got \subseteq held /\ Bytes(segment) \subseteq held
  BY <1>1, <1>2, <1>5
<1>7. held \in SUBSET (1 .. SackPayload)
  BY <1>1, <1>3, <1>6
<1>8. PICK e \in 1 .. End : e = NextExpected(held) /\ e \notin held
  BY <1>7, NextExpectedIsFirst
<1>9. \A q \in Int : 1 <= q /\ q < e => q \in held
  BY <1>7, <1>8, NextExpectedIsFirst
<1>10. /\ r \in Seq(Blocks) /\ Len(r) <= MaxSACKBlocks
       /\ \A k \in 1 .. Len(r) : IsRun(r[k], Buffered(held))
  BY <1>2, <1>7, ReportIsSound
<1>11. \A q \in Buffered(held) : q \in held /\ q \in Nat /\ q > e
  <2>1. \A q \in Nat : q \in Buffered(held) <=> q \in held /\ q > NextExpected(held)
    BY <1>7, BufferedIsAbove
  <2>2. Buffered(held) \in SUBSET Nat
    BY <1>7, BufferedIsAbove
  <2> QED BY <1>8, <2>1, <2>2
<1>12. ASSUME NEW k \in 1 .. Len(r)
       PROVE  /\ e < r[k].start /\ r[k].start < r[k].end /\ Bytes(r[k]) \subseteq Buffered(held)
              /\ r[k] \in Blocks
  <2>1. IsRun(r[k], Buffered(held))
    BY <1>10
  <2>2. /\ r[k] \in Blocks /\ r[k].start < r[k].end
        /\ r[k].start \in Buffered(held) /\ Bytes(r[k]) \subseteq Buffered(held)
    BY <2>1, RunsAreBytes
  <2> QED BY <1>11, <2>2
<1>13. p \in Reports /\ p.ack = e /\ p.blocks = r /\ e \in Nat
  BY <1>3, <1>8, <1>10 DEF Reports
<1>14. sender.oldest <= e
  <2>1. SUFFICES ASSUME e < sender.oldest PROVE FALSE
    BY <1>1, <1>13
  <2>2. e \in 1 .. sender.oldest - 1
    BY <1>1, <1>8, <1>13, <2>1
  <2> QED BY <1>2, <1>6, <1>8, <2>2
<1>15. ASSUME NEW o \in Nat, o <= e, NEW k \in 1 .. Len(r) PROVE o \notin Bytes(r[k])
  <2>1. SUFFICES ASSUME o \in Bytes(r[k]) PROVE FALSE
    OBVIOUS
  <2>2. o \in Buffered(held)
    BY <1>12, <2>1
  <2>3. o > e
    BY <1>11, <2>2
  <2> QED BY <1>13, <1>15, <2>3
<1>16. ReportIsTrue(p, heard, held, sender.oldest)
  <2>1. 1 .. e - 1 \subseteq held
    BY <1>9, <1>13
  <2>2. e \notin heard
    BY <1>2, <1>6, <1>8
  <2>3. \A k \in 1 .. Len(r) : Bytes(r[k]) \subseteq held
    BY <1>11, <1>12
  <2>4. \A k \in 1 .. Len(r) : sender.oldest \notin Bytes(r[k])
    BY <1>1, <1>14, <1>15
  <2>5. \A k \in 1 .. Len(r) : e < r[k].start /\ r[k].start < r[k].end
    BY <1>12
  <2> QED BY <1>8, <1>13, <2>1, <2>2, <2>3, <2>4, <2>5 DEF ReportIsTrue
<1>17. \A k \in 1 .. Len(p.blocks) : p.ack \notin Bytes(p.blocks[k])
  <2>1. e <= e
    BY <1>13
  <2>2. \A k \in 1 .. Len(r) : e \notin Bytes(r[k])
    BY <1>13, <1>15, <2>1
  <2> QED BY <1>13, <2>2
<1>18. ASSUME NEW i \in 1 .. Len(acks)
       PROVE  /\ \A k \in 1 .. Len(p.blocks) : acks[i].ack \notin Bytes(p.blocks[k])
              /\ \A k \in 1 .. Len(acks[i].blocks) : p.ack \notin Bytes(acks[i].blocks[k])
  <2>1. ReportIsTrue(acks[i], heard, got, sender.oldest)
    BY <1>2 DEF AcksAreSound
  <2>2. PICK a \in Nat : a = acks[i].ack
    BY <1>3, <2>1 DEF ReportIsTrue
  <2>3. 1 .. a - 1 \subseteq got
    BY <2>1, <2>2 DEF ReportIsTrue
  <2>4. a <= e
    <3>1. SUFFICES ASSUME e < a PROVE FALSE
      BY <1>13, <2>2
    <3>2. e \in 1 .. a - 1
      BY <1>8, <1>13, <2>2, <3>1
    <3> QED BY <1>6, <1>8, <2>3, <3>2
  <2>5. \A k \in 1 .. Len(acks[i].blocks) : Bytes(acks[i].blocks[k]) \subseteq got
    BY <2>1 DEF ReportIsTrue
  <2>6. e \notin got
    BY <1>6, <1>8
  <2> QED BY <1>13, <1>15, <2>2, <2>4, <2>5, <2>6
<1>19. ASSUME NEW x \in Bytes(segment) PROVE Carries(p, x)
  <2>1. segment.start < segment.end
    BY <1>4, <1>5
  <2>2. x < NextExpected(held) \/ \E k \in 1 .. Len(r) : x \in Bytes(r[k])
    BY <1>2, <1>6, <1>7, <2>1, ArrivalIsReported
  <2> QED BY <1>8, <1>13, <2>2 DEF Carries
<1> QED BY <1>6, <1>10, <1>13, <1>16, <1>17, <1>18, <1>19 DEF IsTrueReport

(* Holding more makes no report false.                                     *)
LEMMA MoreIsHeld ==
  ASSUME NEW p, NEW h, NEW held, NEW oldest, ReportIsTrue(p, h, held, oldest),
         NEW more, held \subseteq more
  PROVE  ReportIsTrue(p, h, more, oldest)
BY DEF ReportIsTrue

(* A segment that arrives is answered by a true report, which carries all  *)
(* of it.                                                                  *)
LEMMA DeliverIsSound ==
  ASSUME SackInv, Deliver
  PROVE  SackInv'
<1>1. PICK i \in 1 .. 2 :
        /\ Arrives(data, i)
        /\ LET held == got \cup Bytes(data[i])
               report == Report(data[i], held)
           IN  /\ data' = Without(data, i)
               /\ got' = held /\ recent' = report
               /\ acks' = Append(acks, [ack |-> NextExpected(held), blocks |-> report])
  BY DEF Deliver
<1>2. UNCHANGED <<sender, losses, heard>>
  BY DEF Deliver
<1>3. PICK held : held = got \cup Bytes(data[i])
  OBVIOUS
<1>4. PICK r : r = Report(data[i], held)
  OBVIOUS
<1>5. PICK p : p = [ack |-> NextExpected(held), blocks |-> r]
  OBVIOUS
<1>6. data' = Without(data, i) /\ got' = held /\ recent' = r /\ acks' = Append(acks, p)
  BY <1>1, <1>3, <1>4, <1>5
<1>7. NetworkIsSound /\ i \in DOMAIN data
  BY <1>1 DEF SackInv, Arrives
<1>8. /\ data \in Seq(Blocks) /\ \A j \in 1 .. Len(data) : IsSegment(data[j], sender.next)
      /\ acks \in Seq(Reports) /\ AcksAreSound(acks, heard, got, sender.oldest)
  BY <1>7 DEF NetworkIsSound, DataIsSound, AcksAreSound
<1>9. i \in 1 .. Len(data) /\ data[i] \in Blocks /\ IsSegment(data[i], sender.next)
  BY <1>7, <1>8
<1>10. IsTrueReport(p, data[i], held)
  BY <1>3, <1>4, <1>5, <1>9, ArrivalIsSound
<1>11. p \in Reports /\ p.blocks = r /\ r \in Seq(Blocks) /\ Len(r) <= MaxSACKBlocks
  BY <1>5, <1>10 DEF IsTrueReport, Reports
<1>12. /\ data' \in Seq(Blocks)
       /\ \A j \in 1 .. Len(data') : \E k \in 1 .. Len(data) : data'[j] = data[k]
       /\ \A k \in 1 .. Len(data) : k = i \/ \E j \in 1 .. Len(data') : data'[j] = data[k]
  <2>1. PICK w : w = Without(data, i)
    OBVIOUS
  <2>2. w \in Seq(Blocks) /\ IsWithout(w, data, i)
    BY <1>7, <1>8, <2>1, WithoutKeeps
  <2>3. data' = w
    BY <1>6, <2>1
  <2> QED BY <2>2, <2>3 DEF IsWithout
<1>13. /\ acks' \in Seq(Reports)
       /\ \A m \in 1 .. Len(acks') : acks'[m] = p \/ \E j \in 1 .. Len(acks) : acks'[m] = acks[j]
       /\ \E m \in 1 .. Len(acks') : acks'[m] = p
       /\ \A j \in 1 .. Len(acks) : \E m \in 1 .. Len(acks') : acks'[m] = acks[j]
  BY <1>6, <1>8, <1>11, AppendedReports
<1>14. DataIsSound(data', sender.next)
  BY <1>8, <1>12 DEF DataIsSound
<1>15. AcksAreSound(acks', heard, held, sender.oldest)
  <2>1. ASSUME NEW m \in 1 .. Len(acks') PROVE ReportIsTrue(acks'[m], heard, held, sender.oldest)
    <3>1. \A j \in 1 .. Len(acks) : ReportIsTrue(acks[j], heard, held, sender.oldest)
      <4>1. \A j \in 1 .. Len(acks) : ReportIsTrue(acks[j], heard, got, sender.oldest)
        BY <1>8 DEF AcksAreSound
      <4>2. got \subseteq held
        BY <1>3
      <4> QED BY <4>1, <4>2, MoreIsHeld
    <3> QED BY <1>10, <1>13, <3>1 DEF IsTrueReport
  <2>2. ASSUME NEW m \in 1 .. Len(acks'), NEW n \in 1 .. Len(acks')
        PROVE  \A k \in 1 .. Len(acks'[n].blocks) : acks'[m].ack \notin Bytes(acks'[n].blocks[k])
    <3>1. CASE acks'[m] = p /\ acks'[n] = p
      BY <1>10, <3>1 DEF IsTrueReport
    <3>2. CASE acks'[m] = p /\ \E j \in 1 .. Len(acks) : acks'[n] = acks[j]
      <4>1. PICK j \in 1 .. Len(acks) : acks'[n] = acks[j]
        BY <3>2
      <4> QED BY <1>10, <3>2, <4>1 DEF IsTrueReport
    <3>3. CASE (\E j \in 1 .. Len(acks) : acks'[m] = acks[j]) /\ acks'[n] = p
      <4>1. PICK j \in 1 .. Len(acks) : acks'[m] = acks[j]
        BY <3>3
      <4> QED BY <1>10, <3>3, <4>1 DEF IsTrueReport
    <3>4. CASE /\ \E j \in 1 .. Len(acks) : acks'[m] = acks[j]
               /\ \E j \in 1 .. Len(acks) : acks'[n] = acks[j]
      <4>1. PICK j \in 1 .. Len(acks) : acks'[m] = acks[j]
        BY <3>4
      <4>2. PICK l \in 1 .. Len(acks) : acks'[n] = acks[l]
        BY <3>4
      <4>3. \A k \in 1 .. Len(acks[l].blocks) : acks[j].ack \notin Bytes(acks[l].blocks[k])
        BY <1>8 DEF AcksAreSound
      <4> QED BY <4>1, <4>2, <4>3
    <3> QED BY <1>13, <3>1, <3>2, <3>3, <3>4
  <2> QED BY <1>13, <2>1, <2>2 DEF AcksAreSound
<1>16. NetworkIsSound'
  <2>1. /\ 1 .. sender.oldest - 1 \subseteq held /\ heard \subseteq held
        /\ held \subseteq 1 .. sender.next - 1
    BY <1>3, <1>7, <1>10 DEF NetworkIsSound, IsTrueReport
  <2>2. recent' \in Seq(Blocks) /\ Len(recent') <= MaxSACKBlocks
    BY <1>6, <1>11
  <2> QED BY <1>2, <1>6, <1>14, <1>15, <2>1, <2>2 DEF NetworkIsSound
<1>17. troubles' \in 0 .. MaxTroubles /\ troubles <= troubles'
  <2>1. troubles \in 0 .. MaxTroubles /\ MaxTroubles \in Nat
    BY SackAssumption DEF SackInv
  <2>2. troubles' = troubles \/ (troubles < MaxTroubles /\ troubles' = troubles + 1)
    BY <1>1 DEF Arrives, Trouble
  <2> QED BY <2>1, <2>2
<1>18. ASSUME NEW q, OnItsWay(q, sender, heard, data, acks)
       PROVE  OnItsWay(q, sender, heard, data', acks')
  <2>1. \A x \in Bytes(data[i]) : Carries(p, x)
    BY <1>10 DEF IsTrueReport
  <2>2. (\E k \in 1 .. Len(data) : q \in Bytes(data[k]))
          => \/ q \in Bytes(data[i])
             \/ \E k \in 1 .. Len(data') : q \in Bytes(data'[k])
    BY <1>12
  <2>3. (\E k \in 1 .. Len(acks) : Carries(acks[k], q))
          => \E k \in 1 .. Len(acks') : Carries(acks'[k], q)
    BY <1>13
  <2>4. q \in Bytes(data[i]) => \E k \in 1 .. Len(acks') : Carries(acks'[k], q)
    BY <1>13, <2>1
  <2> QED BY <1>18, <2>2, <2>3, <2>4 DEF OnItsWay
<1>19. Undisturbed(sender)' => RepairsAreOnTheirWay(sender, heard, data', acks')
  <2>1. Undisturbed(sender)' => Undisturbed(sender)
    BY <1>2 DEF Undisturbed
  <2>2. Undisturbed(sender) => RepairsAreOnTheirWay(sender, heard, data, acks)
    BY DEF SackInv
  <2>3. RepairsAreOnTheirWay(sender, heard, data, acks)
          => RepairsAreOnTheirWay(sender, heard, data', acks')
    BY <1>18 DEF RepairsAreOnTheirWay
  <2> QED BY <2>1, <2>2, <2>3
<1>20. /\ SenderIsSound(sender, heard) /\ IsAtRest(sender) /\ sender.out = << >>
       /\ losses \in 0 .. MaxTroubles /\ losses <= troubles
       /\ troubles \in 0 .. MaxTroubles
       /\ sender.active => sender.lossesBefore <= losses
  BY DEF SackInv
<1>21. losses <= troubles'
  <2>1. losses \in Nat /\ troubles \in Nat /\ troubles' \in Nat
    BY <1>17, <1>20, SackAssumption
  <2> QED BY <1>17, <1>20, <2>1
<1> QED BY <1>2, <1>16, <1>17, <1>19, <1>20, <1>21 DEF SackInv

-----------------------------------------------------------------------------
(* What is sent is under way.                                              *)

(* A sender that has sent what it was about to send.                       *)
SentBy(u, t) == u = [t EXCEPT !.out = << >>]

(* It is otherwise as it was.                                              *)
LEMMA SentFields ==
  ASSUME NEW t \in Senders, NEW u, SentBy(u, t)
  PROVE  /\ u \in Senders /\ u.out = << >>
         /\ u.policy = t.policy /\ u.oldest = t.oldest /\ u.next = t.next /\ u.ends = t.ends
         /\ u.retries = t.retries /\ u.timer = t.timer /\ u.closed = t.closed /\ u.board = t.board
         /\ u.active = t.active /\ u.recoveryEnd = t.recoveryEnd /\ u.sending = t.sending
         /\ u.retransmittedEnd = t.retransmittedEnd /\ u.rescueAfter = t.rescueAfter
         /\ u.pipe = t.pipe /\ u.repaired = t.repaired /\ u.needless = t.needless
         /\ u.rescued = t.rescued /\ u.lossesBefore = t.lossesBefore
<1>1. << >> \in Seq(Blocks)
  OBVIOUS
<1>2. PICK out \in Seq(Blocks) : out = << >>
  BY <1>1
<1>3. u = [t EXCEPT !.out = out]
  BY <1>2 DEF SentBy
<1> QED BY <1>2, <1>3 DEF Senders

(* What it was about to send is in the network now.                        *)
LEMMA SentIsSound ==
  ASSUME NEW h, NEW reports, NEW queue, NEW t, SenderIsSound(t, h), IsAtRest(t),
         NEW next \in Nat, next <= t.next, DataIsSound(queue, next),
         NEW u, SentBy(u, t), NEW w, w = queue \o t.out
  PROVE  /\ SenderIsSound(u, h) /\ IsAtRest(u) /\ DataIsSound(w, t.next)
         /\ OnTrack(t, h, queue, reports) => OnTrack(u, h, w, reports)
<1>1. /\ t \in Senders /\ SenderIsTyped(t) /\ t.out \in Seq(Blocks) /\ t.next \in Nat
      /\ queue \in Seq(Blocks)
      /\ \A i \in 1 .. Len(queue) : IsSegment(queue[i], next)
      /\ \A i \in 1 .. Len(t.out) : IsSegment(t.out[i], t.next)
  BY DEF SenderIsSound, SenderIsTyped, Senders, DataIsSound
<1>2. /\ u \in Senders /\ u.out = << >>
      /\ u.policy = t.policy /\ u.oldest = t.oldest /\ u.next = t.next /\ u.ends = t.ends
      /\ u.retries = t.retries /\ u.timer = t.timer /\ u.closed = t.closed /\ u.board = t.board
      /\ u.active = t.active /\ u.recoveryEnd = t.recoveryEnd /\ u.sending = t.sending
      /\ u.retransmittedEnd = t.retransmittedEnd /\ u.rescueAfter = t.rescueAfter
      /\ u.pipe = t.pipe /\ u.repaired = t.repaired /\ u.needless = t.needless
      /\ u.rescued = t.rescued /\ u.lossesBefore = t.lossesBefore
  BY <1>1, SentFields
<1>3. SenderIsTyped(u)
  BY <1>1, <1>2 DEF SenderIsTyped
<1>4. RecoveryIsSound(t, h) => RecoveryIsSound(u, h)
  BY <1>2 DEF RecoveryIsSound, PipeIs
<1>5. OpenIsSound(t, h) => OpenIsSound(u, h)
  BY <1>2, <1>4 DEF OpenIsSound, FlightIsDivided, BoardIs
<1>6. SenderIsSound(u, h)
  BY <1>1, <1>2, <1>3, <1>5 DEF SenderIsSound, IsShut
<1>7. Space(u) = Space(t) /\ (NothingLeft(t) => NothingLeft(u))
  BY <1>2 DEF Space, NothingLeft
<1>8. IsAtRest(u)
  BY <1>2, <1>7 DEF IsAtRest
<1>9. /\ w \in Seq(Blocks)
      /\ \A j \in 1 .. Len(w) : \/ \E k \in 1 .. Len(queue) : w[j] = queue[k]
                                \/ \E k \in 1 .. Len(t.out) : w[j] = t.out[k]
      /\ \A k \in 1 .. Len(queue) : \E j \in 1 .. Len(w) : w[j] = queue[k]
      /\ \A k \in 1 .. Len(t.out) : \E j \in 1 .. Len(w) : w[j] = t.out[k]
  <2>1. PICK out \in Seq(Blocks) : out = t.out
    BY <1>1
  <2>2. w \in Seq(Blocks) /\ Combines(w, queue, out)
    BY <1>1, <2>1, JoinedKeeps
  <2> QED BY <2>1, <2>2 DEF Combines
<1>10. DataIsSound(w, t.next)
  <2>1. ASSUME NEW k \in 1 .. Len(queue) PROVE IsSegment(queue[k], t.next)
    <3>1. IsSegment(queue[k], next) /\ queue[k] \in Blocks
      BY <1>1
    <3>2. queue[k].end \in Nat
      BY <3>1 DEF Blocks
    <3> QED BY ONLY <1>1, next \in Nat, next <= t.next, <3>1, <3>2 DEF IsSegment
  <2> QED BY <1>1, <1>9, <2>1 DEF DataIsSound
<1>11. ASSUME NEW p, OnItsWay(p, t, h, queue, reports) PROVE OnItsWay(p, u, h, w, reports)
  <2>1. (\E i \in 1 .. Len(queue) : p \in Bytes(queue[i])) \/ (\E i \in 1 .. Len(t.out) : p \in Bytes(t.out[i]))
          => \E i \in 1 .. Len(w) : p \in Bytes(w[i])
    BY <1>9
  <2> QED BY <1>2, <1>11, <2>1 DEF OnItsWay
<1>12. OnTrack(t, h, queue, reports) => OnTrack(u, h, w, reports)
  BY <1>2, <1>11 DEF OnTrack, RepairsAreOnTheirWay
<1> QED BY <1>6, <1>8, <1>10, <1>12

-----------------------------------------------------------------------------
(* The steps of the network and of the sender's events.                    *)

(* Troubles are counted up to their bound.                                 *)
LEMMA TroublesStayBounded ==
  ASSUME SackInv, UNCHANGED troubles \/ Trouble
  PROVE  /\ troubles' \in 0 .. MaxTroubles /\ losses \in Nat
         /\ losses \in 0 .. MaxTroubles /\ losses <= troubles' /\ troubles' \in Nat
         /\ Trouble => losses + 1 <= troubles' /\ losses + 1 \in 0 .. MaxTroubles
<1>1. /\ MaxTroubles \in Nat /\ losses \in 0 .. MaxTroubles /\ troubles \in 0 .. MaxTroubles
      /\ losses <= troubles
  BY SackAssumption DEF SackInv
<1> QED BY <1>1 DEF Trouble

(* A loss makes no report false, and no recovery that suffers one is       *)
(* undisturbed.                                                            *)
LEMMA LoseIsSound ==
  ASSUME SackInv, Lose
  PROVE  SackInv'
<1>1. /\ Trouble /\ losses' = losses + 1 /\ UNCHANGED <<sender, got, recent, heard>>
      /\ \/ \E i \in DOMAIN data : data' = Without(data, i) /\ UNCHANGED acks
         \/ \E i \in DOMAIN acks : acks' = Without(acks, i) /\ UNCHANGED data
  BY DEF Lose
<1>2. NetworkIsSound
  BY DEF SackInv
<1>3. /\ data \in Seq(Blocks) /\ acks \in Seq(Reports)
      /\ DataIsSound(data, sender.next) /\ AcksAreSound(acks, heard, got, sender.oldest)
  BY <1>2 DEF NetworkIsSound, DataIsSound, AcksAreSound
<1>4. DataIsSound(data', sender.next) /\ AcksAreSound(acks', heard, got, sender.oldest)
  <2>1. CASE \E i \in DOMAIN data : data' = Without(data, i) /\ UNCHANGED acks
    <3>1. PICK i \in DOMAIN data : data' = Without(data, i) /\ UNCHANGED acks
      BY <2>1
    <3>2. PICK w : w = Without(data, i)
      OBVIOUS
    <3>3. w \in Seq(Blocks) /\ IsWithout(w, data, i)
      BY <1>3, <3>2, WithoutKeeps
    <3>4. DataIsSound(w, sender.next)
      BY <1>3, <3>3, FewerData DEF IsWithout
    <3> QED BY <1>3, <3>1, <3>2, <3>4
  <2>2. CASE \E i \in DOMAIN acks : acks' = Without(acks, i) /\ UNCHANGED data
    <3>1. PICK i \in DOMAIN acks : acks' = Without(acks, i) /\ UNCHANGED data
      BY <2>2
    <3>2. PICK w : w = Without(acks, i)
      OBVIOUS
    <3>3. w \in Seq(Reports) /\ IsWithout(w, acks, i)
      BY <1>3, <3>2, WithoutKeeps
    <3>4. AcksAreSound(w, heard, got, sender.oldest)
      BY <1>3, <3>3, FewerAcks DEF IsWithout
    <3> QED BY <1>3, <3>1, <3>2, <3>4
  <2> QED BY <1>1, <2>1, <2>2
<1>5. NetworkIsSound'
  BY <1>1, <1>2, <1>4 DEF NetworkIsSound
<1>6. /\ troubles' \in 0 .. MaxTroubles /\ losses' \in 0 .. MaxTroubles /\ losses' <= troubles'
  BY <1>1, TroublesStayBounded
<1>7. /\ sender.active => sender.lossesBefore <= losses /\ sender.lossesBefore \in Nat
      /\ losses \in Nat
  <2>1. sender \in Senders /\ (sender.active => sender.lossesBefore <= losses)
    BY DEF SackInv, SenderIsSound, SenderIsTyped
  <2>2. losses \in Nat
    BY <1>1, TroublesStayBounded
  <2> QED BY <2>1, <2>2 DEF Senders
<1>8. /\ sender'.active => sender'.lossesBefore <= losses'
      /\ ~Undisturbed(sender)'
  <2>1. sender.active => sender.lossesBefore <= losses + 1 /\ losses + 1 # sender.lossesBefore
    BY ONLY <1>7
  <2> QED BY <1>1, <2>1 DEF Undisturbed
<1> QED BY <1>1, <1>5, <1>6, <1>8 DEF SackInv

(* New data is sent.                                                       *)
LEMMA SendNextKeeps ==
  ASSUME SackInv, SendNext
  PROVE  SackInv'
<1>1. PICK u : u = [sender EXCEPT !.sending = FALSE]
  OBVIOUS
<1>2. PICK size : size = NextSize(u)
  OBVIOUS
<1>3. PICK t : t = IF size = 0 THEN u ELSE QueueData(WithSegment(u, size))
  OBVIOUS
<1>4. sender.sending /\ Send(t) /\ UNCHANGED <<acks, got, recent, troubles, losses, heard>>
  BY <1>1, <1>2, <1>3 DEF SendNext, WithSegment
<1>5. /\ SenderIsSound(sender, heard) /\ IsAtRest(sender) /\ NetworkIsSound
  BY DEF SackInv
<1>6. Sends(t, sender, heard, data, acks)
  BY <1>1, <1>2, <1>3, <1>4, <1>5, SendNextIsSound
<1>7. /\ SenderIsSound(t, heard) /\ IsAtRest(t) /\ t.oldest = sender.oldest /\ sender.next <= t.next
      /\ t.active => sender.active /\ t.lossesBefore = sender.lossesBefore
      /\ OnTrack(sender, heard, data, acks) => OnTrack(t, heard, data, acks)
  BY <1>6 DEF Sends
<1>8. /\ sender \in Senders /\ t \in Senders /\ sender.next \in Nat /\ t.next \in Nat
      /\ DataIsSound(data, sender.next) /\ ~sender.closed
  BY <1>4, <1>5, <1>7 DEF NetworkIsSound, SenderIsSound, SenderIsTyped, Senders, IsShut
<1>9. SentBy(sender', t) /\ data' = data \o t.out
  BY <1>4 DEF Send, SentBy
<1>10. /\ SenderIsSound(sender', heard) /\ IsAtRest(sender') /\ DataIsSound(data', t.next)
       /\ OnTrack(t, heard, data, acks) => OnTrack(sender', heard, data', acks)
  BY <1>5, <1>7, <1>8, <1>9, SentIsSound
<1>11. /\ sender'.out = << >> /\ sender'.oldest = t.oldest /\ sender'.next = t.next
       /\ sender'.active = t.active /\ sender'.closed = t.closed
       /\ sender'.lossesBefore = t.lossesBefore
  BY <1>8, <1>9, SentFields
<1>12. NetworkIsSound'
  <2>1. got \subseteq 1 .. sender'.next - 1
    <3>1. got \subseteq 1 .. sender.next - 1
      BY <1>5 DEF NetworkIsSound
    <3> QED BY <1>7, <1>8, <1>11, <3>1
  <2>2. DataIsSound(data', sender'.next)
    BY <1>10, <1>11
  <2> QED BY <1>4, <1>5, <1>7, <1>11, <2>1, <2>2 DEF NetworkIsSound
<1>13. Undisturbed(sender)' => RepairsAreOnTheirWay(sender', heard, data', acks)
  <2>1. SUFFICES ASSUME Undisturbed(sender)' PROVE RepairsAreOnTheirWay(sender', heard, data', acks)
    OBVIOUS
  <2>2. ~sender'.closed /\ sender'.active /\ losses = sender'.lossesBefore
    BY <1>4, <2>1 DEF Undisturbed
  <2>3. Undisturbed(sender)
    BY <1>7, <1>8, <1>11, <2>2 DEF Undisturbed
  <2>4. OnTrack(sender, heard, data, acks)
    BY <2>3 DEF SackInv, OnTrack
  <2> QED BY <1>7, <1>10, <2>2, <2>4 DEF OnTrack
<1>14. sender'.active => sender'.lossesBefore <= losses
  BY <1>7, <1>11 DEF SackInv
<1>15. /\ losses \in 0 .. MaxTroubles /\ losses <= troubles /\ troubles \in 0 .. MaxTroubles
  BY DEF SackInv
<1> QED BY <1>4, <1>10, <1>11, <1>12, <1>13, <1>14, <1>15 DEF SackInv

(* The timer fires.                                                        *)
LEMMA TimeOutKeeps ==
  ASSUME SackInv, TimeOut
  PROVE  SackInv'
<1>1. PICK t : t = OnTimeout(sender)
  OBVIOUS
<1>2. /\ sender.timer /\ Send(t) /\ heard' = {} /\ UNCHANGED <<acks, got, recent, losses>>
      /\ UNCHANGED troubles \/ Trouble
  BY <1>1 DEF TimeOut
<1>3. /\ SenderIsSound(sender, heard) /\ IsAtRest(sender) /\ NetworkIsSound
  BY DEF SackInv
<1>4. SenderIsSound(t, {}) /\ IsAtRest(t) /\ ~t.active /\ t.oldest = sender.oldest /\ t.next = sender.next
  BY <1>1, <1>2, <1>3, TimeOutIsSound
<1>5. /\ sender \in Senders /\ t \in Senders /\ sender.next \in Nat /\ t.next \in Nat
      /\ DataIsSound(data, sender.next) /\ sender.next <= t.next
  <2>1. sender \in Senders /\ t \in Senders
    BY <1>3, <1>4 DEF SenderIsSound, SenderIsTyped
  <2>2. sender.next \in Nat /\ t.next \in Nat
    BY <2>1 DEF Senders
  <2>3. sender.next <= t.next
    BY <1>4, <2>2
  <2> QED BY <1>3, <2>1, <2>2, <2>3 DEF NetworkIsSound
<1>6. SentBy(sender', t) /\ data' = data \o t.out
  BY <1>2 DEF Send, SentBy
<1>7. /\ SenderIsSound(sender', {}) /\ IsAtRest(sender') /\ DataIsSound(data', t.next)
      /\ OnTrack(t, {}, data, acks) => OnTrack(sender', {}, data', acks)
  BY <1>4, <1>5, <1>6, SentIsSound
<1>8. /\ sender'.out = << >> /\ sender'.oldest = t.oldest /\ sender'.next = t.next
      /\ sender'.active = t.active
  BY <1>5, <1>6, SentFields
<1>9. AcksAreSound(acks, {}, got, sender.oldest)
  BY <1>3 DEF NetworkIsSound, AcksAreSound, ReportIsTrue
<1>10. NetworkIsSound'
  BY <1>2, <1>3, <1>4, <1>7, <1>8, <1>9 DEF NetworkIsSound
<1>11. ~sender'.active
  BY <1>4, <1>8
<1>12. /\ troubles' \in 0 .. MaxTroubles /\ losses \in 0 .. MaxTroubles /\ losses <= troubles'
  BY <1>2, TroublesStayBounded
<1> QED BY <1>2, <1>7, <1>8, <1>10, <1>11, <1>12 DEF SackInv, Undisturbed

-----------------------------------------------------------------------------
(* A report arrives.                                                       *)

(* The reference of a report says what the board learns.                   *)
LEMMA HeardIsHeard ==
  ASSUME heard \in SUBSET Nat, NEW p \in Reports, NEW position,
         position = Higher(p.ack, sender.oldest), position \in Nat, NEW h2, h2 = Heard(p)
  PROVE  IsHeard(h2, heard, position, sender.next, p.blocks)
<1>1. PICK blocks \in Seq(Blocks) : blocks = p.blocks
  BY DEF Reports
<1>2. DOMAIN blocks = 1 .. Len(blocks)
  OBVIOUS
<1>3. PICK useful : useful = {b \in {blocks[i] : i \in 1 .. Len(blocks)} : Reported(position, sender.next, b)}
  OBVIOUS
<1>4. h2 = {x \in heard \cup UNION {Bytes(b) : b \in useful} : x >= position}
  BY <1>1, <1>2, <1>3 DEF Heard
<1>5. \A b \in useful : b \in Blocks
  BY <1>3
<1>6. \A b \in useful : \A x : x \in Bytes(b) <=> x \in Nat /\ b.start <= x /\ x < b.end
  <2>1. SUFFICES ASSUME NEW b \in Blocks, NEW x
                 PROVE  x \in Bytes(b) <=> x \in Nat /\ b.start <= x /\ x < b.end
    BY <1>5
  <2>2. PICK s \in Nat, e \in Nat : s = b.start /\ e = b.end
    BY DEF Blocks
  <2>3. x \in s .. e - 1 <=> x \in Nat /\ s <= x /\ x < e
    BY <2>2
  <2> QED BY <2>2, <2>3 DEF Bytes
<1>7. \A x \in Nat : (\E b \in useful : x \in Bytes(b)) <=>
        \E i \in 1 .. Len(blocks) : /\ Reported(position, sender.next, blocks[i])
                                    /\ blocks[i].start <= x /\ x < blocks[i].end
  BY <1>3, <1>6
<1>8. h2 \in SUBSET Nat
  BY <1>4, <1>6
<1>9. \A x \in Nat : x \in h2 <=> x >= position /\ (x \in heard \/ \E b \in useful : x \in Bytes(b))
  BY <1>4
<1> QED BY <1>1, <1>7, <1>8, <1>9 DEF IsHeard

(* What the sender makes of a report is true of the receiver.              *)
IsUsable(p, position, h2) ==
  /\ IsReport(position, p.blocks, sender, heard) /\ BlocksAreApart(p, sender)
  /\ IsHeard(h2, heard, position, sender.next, p.blocks)
  /\ 1 .. position - 1 \subseteq got /\ h2 \subseteq got
  /\ position = sender.oldest \/ position = p.ack
  /\ \A q : q \in h2 => q \in heard \/ \E k \in 1 .. Len(p.blocks) : q \in Bytes(p.blocks[k])

(* A report that is true of the receiver is so.                            *)
LEMMA ReportIsUsable ==
  ASSUME SenderIsSound(sender, heard), ~sender.closed, NetworkIsSound,
         NEW i \in 1 .. Len(acks), NEW p, p = acks[i],
         NEW position, position = Higher(p.ack, sender.oldest), NEW h2, h2 = Heard(p)
  PROVE  p \in Reports /\ IsUsable(p, position, h2)
<1>1. /\ sender.oldest \in Nat /\ sender.next \in Nat /\ 1 <= sender.oldest
      /\ sender.oldest <= sender.next /\ BoardIs(sender, heard)
      /\ heard \subseteq sender.oldest + 1 .. sender.next - 1
  BY DEF SenderIsSound, SenderIsTyped, Senders, OpenIsSound, BoardIs
<1>2. /\ got \subseteq 1 .. sender.next - 1 /\ 1 .. sender.oldest - 1 \subseteq got
      /\ heard \subseteq got /\ AcksAreSound(acks, heard, got, sender.oldest)
  BY DEF NetworkIsSound
<1>3. p \in Reports /\ ReportIsTrue(p, heard, got, sender.oldest)
  BY <1>2 DEF AcksAreSound
<1>4. PICK blocks \in Seq(Blocks), ack \in Nat : blocks = p.blocks /\ ack = p.ack
  BY <1>3 DEF Reports
<1>5. /\ 1 <= ack /\ 1 .. ack - 1 \subseteq got /\ ack \notin heard
      /\ \A k \in 1 .. Len(blocks) :
           /\ ack < blocks[k].start /\ blocks[k].start < blocks[k].end
           /\ Bytes(blocks[k]) \subseteq got /\ sender.oldest \notin Bytes(blocks[k])
  <2>1. ack \in 1 .. End
    BY <1>3, <1>4 DEF ReportIsTrue
  <2>2. End \in Int
    BY SackAssumption DEF End
  <2> QED BY <1>3, <1>4, <2>1, <2>2 DEF ReportIsTrue
<1>6. ack <= sender.next
  <2>1. SUFFICES ASSUME sender.next < ack PROVE FALSE
    BY <1>1
  <2>2. sender.next \in 1 .. ack - 1
    BY <1>1, <2>1
  <2>3. sender.next \in 1 .. sender.next - 1
    BY <1>2, <1>5, <2>2
  <2> QED BY <1>1, <2>3
<1>7. /\ position \in Nat /\ sender.oldest <= position /\ position <= sender.next
      /\ position = sender.oldest \/ position = ack
  BY <1>1, <1>4, <1>6 DEF Higher
<1>8. sender.oldest \notin heard
  BY <1>1
<1>9. position \notin heard
  BY <1>5, <1>7, <1>8
<1>10. IsReport(position, p.blocks, sender, heard)
  BY <1>4, <1>7, <1>9 DEF IsReport
<1>11. ASSUME NEW k \in 1 .. Len(blocks) PROVE blocks[k].end <= sender.next
  <2>1. blocks[k] \in Blocks
    OBVIOUS
  <2>2. PICK s \in Nat, e \in Nat : s = blocks[k].start /\ e = blocks[k].end /\ s < e
    BY <1>5, <2>1 DEF Blocks
  <2>3. e - 1 \in Bytes(blocks[k])
    BY <2>2 DEF Bytes
  <2>4. e - 1 \in 1 .. sender.next - 1
    BY <1>2, <1>5, <2>3
  <2> QED BY <1>1, <2>2, <2>4
<1>12. BlocksAreApart(p, sender)
  <2>1. \A k \in 1 .. Len(blocks) : blocks[k].start > ack
    <3>1. SUFFICES ASSUME NEW k \in 1 .. Len(blocks) PROVE blocks[k].start > ack
      OBVIOUS
    <3>2. blocks[k] \in Blocks
      OBVIOUS
    <3>3. blocks[k].start \in Nat
      BY <3>2 DEF Blocks
    <3> QED BY <1>5, <3>3
  <2> QED BY <1>4, <1>5, <1>11, <2>1 DEF BlocksAreApart
<1>13. heard \in SUBSET Nat
  BY <1>1
<1>14. IsHeard(h2, heard, position, sender.next, p.blocks)
  BY <1>3, <1>7, <1>13, HeardIsHeard
<1>15. 1 .. position - 1 \subseteq got
  BY <1>2, <1>5, <1>7
<1>16. ASSUME NEW q \in h2 PROVE q \in heard \/ \E k \in 1 .. Len(blocks) : q \in Bytes(blocks[k])
  <2>1. q \in Nat
    BY <1>14 DEF IsHeard
  <2>2. SUFFICES ASSUME q \notin heard PROVE \E k \in 1 .. Len(blocks) : q \in Bytes(blocks[k])
    OBVIOUS
  <2>3. PICK k \in 1 .. Len(blocks) : blocks[k].start <= q /\ q < blocks[k].end
    BY <1>4, <1>14, <2>1, <2>2 DEF IsHeard
  <2>4. blocks[k] \in Blocks
    OBVIOUS
  <2>5. PICK s \in Nat, e \in Nat : s = blocks[k].start /\ e = blocks[k].end
    BY <2>4 DEF Blocks
  <2>6. q \in s .. e - 1
    BY <2>1, <2>3, <2>5
  <2> QED BY <2>5, <2>6 DEF Bytes
<1>17. h2 \subseteq got
  BY <1>2, <1>5, <1>16
<1> QED BY <1>3, <1>4, <1>7, <1>10, <1>12, <1>14, <1>15, <1>16, <1>17 DEF IsUsable

(* An acknowledgement is taken.                                            *)
LEMMA ReceiveReportKeeps ==
  ASSUME SackInv, ReceiveReport
  PROVE  SackInv'
<1>1. PICK i \in 1 .. 2 :
        /\ Arrives(acks, i) /\ acks' = Without(acks, i)
        /\ Send(HandleReport(sender, acks[i].ack, acks[i].blocks)) /\ heard' = Heard(acks[i])
  BY DEF ReceiveReport
<1>2. ~sender.closed /\ UNCHANGED <<got, recent, losses>>
  BY DEF ReceiveReport
<1>3. PICK p : p = acks[i]
  OBVIOUS
<1>4. PICK position : position = Higher(p.ack, sender.oldest)
  OBVIOUS
<1>5. PICK h2 : h2 = Heard(p)
  OBVIOUS
<1>6. PICK w : w = Without(acks, i)
  OBVIOUS
<1>7. PICK t : t = HandleReport(sender, p.ack, p.blocks)
  OBVIOUS
<1>8. acks' = w /\ Send(t) /\ heard' = h2
  BY <1>1, <1>3, <1>5, <1>6, <1>7
<1>9. /\ SenderIsSound(sender, heard) /\ IsAtRest(sender) /\ NetworkIsSound /\ i \in DOMAIN acks
      /\ UNCHANGED troubles \/ Trouble
  BY <1>1 DEF SackInv, Arrives
<1>10. acks \in Seq(Reports) /\ AcksAreSound(acks, heard, got, sender.oldest)
  BY <1>9 DEF NetworkIsSound, AcksAreSound
<1>11. i \in 1 .. Len(acks)
  BY <1>9, <1>10
<1>12. p \in Reports /\ IsUsable(p, position, h2)
  BY <1>2, <1>3, <1>4, <1>5, <1>9, <1>11, ReportIsUsable
<1>13. w \in Seq(Reports) /\ IsWithout(w, acks, i)
  BY <1>6, <1>9, <1>10, WithoutKeeps
<1>14. OthersRemain(acks, p, w)
  BY <1>3, <1>13 DEF IsWithout, OthersRemain
<1>15. losses \in Nat /\ troubles' \in 0 .. MaxTroubles /\ losses <= troubles' /\ losses \in 0 .. MaxTroubles
  BY <1>9, TroublesStayBounded
<1>16. Hears(t, sender, heard, data, acks, position, h2, w)
  <2>1. /\ IsReport(position, p.blocks, sender, heard) /\ BlocksAreApart(p, sender)
        /\ IsHeard(h2, heard, position, sender.next, p.blocks)
    BY <1>12 DEF IsUsable
  <2> QED BY <1>2, <1>4, <1>7, <1>9, <1>12, <1>14, <1>15, <2>1, HandleReportIsSound
<1>17. /\ SenderIsSound(t, h2) /\ IsAtRest(t) /\ t.oldest = position /\ t.next = sender.next
       /\ t.active => \/ /\ sender.active /\ t.lossesBefore = sender.lossesBefore
                         /\ OnTrack(sender, heard, data, acks) => OnTrack(t, h2, data, w)
                      \/ t.lossesBefore = losses /\ OnTrack(t, h2, data, w)
  BY <1>16 DEF Hears
<1>18. /\ t \in Senders /\ sender.next \in Nat /\ t.next \in Nat /\ sender.next <= t.next
       /\ DataIsSound(data, sender.next)
  <2>1. sender \in Senders /\ t \in Senders
    BY <1>9, <1>17 DEF SenderIsSound, SenderIsTyped
  <2>2. sender.next \in Nat /\ t.next \in Nat
    BY <2>1 DEF Senders
  <2>3. sender.next <= t.next
    BY <1>17, <2>2
  <2> QED BY <1>9, <2>1, <2>2, <2>3 DEF NetworkIsSound
<1>19. SentBy(sender', t) /\ data' = data \o t.out
  BY <1>8 DEF Send, SentBy
<1>20. /\ SenderIsSound(sender', h2) /\ IsAtRest(sender') /\ DataIsSound(data', t.next)
       /\ OnTrack(t, h2, data, w) => OnTrack(sender', h2, data', w)
  BY <1>17, <1>18, <1>19, SentIsSound, ZenonT(30)
<1>21. /\ sender'.out = << >> /\ sender'.oldest = position /\ sender'.next = sender.next
       /\ sender'.active = t.active /\ sender'.closed = t.closed
       /\ sender'.lossesBefore = t.lossesBefore
  BY <1>17, <1>18, <1>19, SentFields
<1>22. AcksAreSound(w, h2, got, position)
  <2>1. ASSUME NEW m \in 1 .. Len(acks) PROVE ReportIsTrue(acks[m], h2, got, position)
    <3>1. PICK q : q = acks[m]
      OBVIOUS
    <3>2. ReportIsTrue(q, heard, got, sender.oldest)
      BY <1>10, <3>1 DEF AcksAreSound
    <3>3. /\ \A k \in 1 .. Len(p.blocks) : q.ack \notin Bytes(p.blocks[k])
          /\ \A k \in 1 .. Len(q.blocks) : p.ack \notin Bytes(q.blocks[k])
      BY <1>3, <1>10, <1>11, <3>1 DEF AcksAreSound
    <3>4. q.ack \notin h2
      BY <1>12, <3>2, <3>3 DEF IsUsable, ReportIsTrue
    <3>5. \A k \in 1 .. Len(q.blocks) : position \notin Bytes(q.blocks[k])
      BY <1>12, <3>2, <3>3 DEF IsUsable, ReportIsTrue
    <3> QED BY <3>1, <3>2, <3>4, <3>5 DEF ReportIsTrue
  <2>2. AcksAreSound(acks, h2, got, position)
    BY <1>10, <2>1 DEF AcksAreSound
  <2> QED BY <1>13, <2>2, FewerAcks DEF IsWithout
<1>23. NetworkIsSound'
  <2>1. 1 .. position - 1 \subseteq got /\ h2 \subseteq got
    BY <1>12 DEF IsUsable
  <2> QED BY <1>2, <1>8, <1>9, <1>17, <1>20, <1>21, <1>22, <2>1 DEF NetworkIsSound
<1>24. Undisturbed(sender)' => RepairsAreOnTheirWay(sender', h2, data', w)
  <2>1. SUFFICES ASSUME Undisturbed(sender)' PROVE RepairsAreOnTheirWay(sender', h2, data', w)
    OBVIOUS
  <2>2. ~sender'.closed /\ sender'.active /\ losses = sender'.lossesBefore
    BY <1>2, <2>1 DEF Undisturbed
  <2>3. OnTrack(t, h2, data, w)
    <3>1. CASE /\ sender.active /\ t.lossesBefore = sender.lossesBefore
               /\ OnTrack(sender, heard, data, acks) => OnTrack(t, h2, data, w)
      <4>1. Undisturbed(sender)
        BY <1>2, <1>21, <2>2, <3>1 DEF Undisturbed
      <4>2. OnTrack(sender, heard, data, acks)
        BY <4>1 DEF SackInv, OnTrack
      <4> QED BY <3>1, <4>2
    <3>2. CASE t.lossesBefore = losses /\ OnTrack(t, h2, data, w)
      BY <3>2
    <3> QED BY <1>17, <1>21, <2>2, <3>1, <3>2
  <2> QED BY <1>20, <2>2, <2>3 DEF OnTrack
<1>25. sender'.active => sender'.lossesBefore <= losses
  <2>1. sender.active => sender.lossesBefore <= losses
    BY DEF SackInv
  <2>2. losses <= losses
    BY <1>15
  <2> QED BY <1>17, <1>21, <2>1, <2>2
<1> QED BY <1>2, <1>8, <1>15, <1>20, <1>21, <1>23, <1>24, <1>25 DEF SackInv

-----------------------------------------------------------------------------
(* The invariant, and what follows from it.                                *)

(* A transfer starts in the invariant.                                     *)
LEMMA SackBegins ==
  ASSUME SackInit
  PROVE  SackInv
<1>1. /\ SackPayload \in Nat \ {0} /\ SackMss \in Nat \ {0} /\ End = SackPayload + 1
      /\ SackRetransmissions \in Nat /\ MaxSACKBlocks \in Nat /\ MaxTroubles \in Nat
  BY SackAssumption DEF End
<1>2. PICK policy : policy = Window!NewPolicy
  OBVIOUS
<1>3. PolicyFits(policy) /\ ~policy.active /\ policy \in Policies /\ policy.active = FALSE
  BY <1>2, NewPolicyIsUsable DEF PolicyFits, Policies
<1>4. << >> \in Seq(Blocks) /\ << >> \in Seq(Reports)
  OBVIOUS
<1>5. PICK board \in Seq(Blocks) : board = << >>
  BY <1>4
<1>6. PICK none \in SUBSET Nat : none = {}
  OBVIOUS
<1>7. sender = [policy |-> policy, oldest |-> 1, next |-> 1, ends |-> none,
                retries |-> 0, timer |-> FALSE, sending |-> TRUE, closed |-> FALSE,
                timedOutEnd |-> 0, board |-> board, active |-> FALSE, recoveryEnd |-> 0,
                retransmittedEnd |-> 0, rescueAfter |-> 0, duplicateACKs |-> 0,
                pipe |-> 0, out |-> board,
                repaired |-> none, needless |-> FALSE, rescued |-> 0, lossesBefore |-> 0]
  BY <1>2, <1>5, <1>6 DEF SackInit
<1>8. /\ sender.policy = policy /\ sender.oldest = 1 /\ sender.next = 1 /\ sender.ends = none
      /\ sender.retries = 0 /\ sender.timer = FALSE /\ sender.sending = TRUE
      /\ sender.closed = FALSE /\ sender.board = board /\ sender.active = FALSE
      /\ sender.out = board /\ sender.needless = FALSE
  BY ONLY <1>7
<1>9. sender \in Senders
  BY ONLY <1>3, <1>7, board \in Seq(Blocks), none \in SUBSET Nat DEF Senders
<1>10. /\ data = << >> /\ acks = << >> /\ got = {} /\ recent = << >>
       /\ troubles = 0 /\ losses = 0 /\ heard = {}
  BY DEF SackInit
<1>11. 1 < End /\ 1 <= End /\ 0 <= SackRetransmissions
  BY <1>1
<1>12. SenderIsTyped(sender)
  <2>1. \A i \in 1 .. Len(sender.out) : IsSegment(sender.out[i], sender.next)
    BY <1>5, <1>8
  <2> QED BY <1>3, <1>8, <1>9, <1>11, <2>1 DEF SenderIsTyped
<1>13. OpenIsSound(sender, heard)
  <2>1. FlightIsDivided(sender)
    BY <1>6, <1>8 DEF FlightIsDivided
  <2>2. BoardIs(sender, heard)
    <3>1. Separate(<< >>)
      BY DEF Separate
    <3>2. BytesOf(<< >>) = {}
      BY DEF BytesOf, BytesIn
    <3> QED BY <1>5, <1>8, <1>10, <3>1, <3>2 DEF BoardIs
  <2> QED BY <1>3, <1>6, <1>8, <1>11, <2>1, <2>2 DEF OpenIsSound
<1>14. SenderIsSound(sender, heard)
  BY <1>8, <1>12, <1>13 DEF SenderIsSound
<1>15. IsAtRest(sender)
  BY <1>8, <1>11 DEF IsAtRest
<1>16. NetworkIsSound
  <2>1. DataIsSound(data, sender.next)
    BY <1>4, <1>10 DEF DataIsSound
  <2>2. AcksAreSound(acks, heard, got, sender.oldest)
    BY <1>4, <1>10 DEF AcksAreSound
  <2>3. 1 .. sender.oldest - 1 \subseteq got
    BY <1>8
  <2>4. recent \in Seq(Blocks) /\ Len(recent) <= MaxSACKBlocks
    BY <1>1, <1>4, <1>10
  <2> QED BY <1>10, <2>1, <2>2, <2>3, <2>4 DEF NetworkIsSound
<1>17. losses \in 0 .. MaxTroubles /\ troubles \in 0 .. MaxTroubles /\ losses <= troubles
  BY <1>1, <1>10
<1> QED BY <1>5, <1>8, <1>14, <1>15, <1>16, <1>17 DEF SackInv, Undisturbed

(* Every state of a transfer satisfies the invariant: board, estimate,     *)
(* flight and window of the sender agree, and what is under way is true of *)
(* the receiver (sack_recovery.go, scoreboard.go, receiver_sack.go).       *)
THEOREM SackInvariant == SackSpec => []SackInv
<1>1. SackInit => SackInv
  BY SackBegins
<1>2. SackInv /\ [SackNext]_sackVars => SackInv'
  <2>1. SUFFICES ASSUME SackInv, [SackNext]_sackVars PROVE SackInv'
    OBVIOUS
  <2>2. CASE Deliver
    BY <2>1, <2>2, DeliverIsSound
  <2>3. CASE Lose
    BY <2>1, <2>3, LoseIsSound
  <2>4. CASE ReceiveReport
    BY <2>1, <2>4, ReceiveReportKeeps
  <2>5. CASE SendNext
    BY <2>1, <2>5, SendNextKeeps
  <2>6. CASE TimeOut
    BY <2>1, <2>6, TimeOutKeeps
  <2>7. CASE UNCHANGED sackVars
    BY <2>1, <2>7 DEF sackVars, SackInv, NetworkIsSound, Undisturbed
  <2> QED BY <2>1, <2>2, <2>3, <2>4, <2>5, <2>6, <2>7 DEF SackNext
<1> QED BY <1>1, <1>2, PTL DEF SackSpec

(* The types follow from it.                                               *)
LEMMA SackTypesHold ==
  ASSUME SackInv
  PROVE  SackTypes
<1>1. /\ sender \in Senders /\ SenderIsTyped(sender) /\ NetworkIsSound
      /\ IF sender.closed THEN IsShut(sender) ELSE OpenIsSound(sender, heard)
  BY DEF SackInv, SenderIsSound, SenderIsTyped
<1>2. /\ sender.oldest \in Nat /\ sender.next \in Nat /\ sender.retries \in Nat /\ sender.pipe \in Nat
      /\ 1 <= sender.oldest /\ sender.oldest <= sender.next /\ sender.next <= End
      /\ sender.retries <= SackRetransmissions
      /\ sender.policy.cwnd \in SackMss .. SackMaximum
  BY <1>1 DEF SenderIsTyped, Senders, PolicyFits
<1>3. /\ SackPayload \in Nat /\ End = SackPayload + 1 /\ SackRetransmissions \in Nat
  BY SackAssumption DEF End
<1>4. sender.oldest \in 1 .. End /\ sender.next \in sender.oldest .. End
      /\ sender.retries \in 0 .. SackRetransmissions
  BY <1>2, <1>3
<1>5. sender.ends \subseteq sender.oldest + 1 .. sender.next
  BY <1>1 DEF IsShut, OpenIsSound, FlightIsDivided
<1>6. got \subseteq 1 .. SackPayload
  <2>1. got \subseteq 1 .. sender.next - 1
    BY <1>1 DEF NetworkIsSound
  <2> QED BY <1>2, <1>3, <2>1
<1>7. \A i \in DOMAIN data : data[i].start < data[i].end /\ Size(data[i]) <= SackMss
  <2>1. data \in Seq(Blocks) /\ \A i \in 1 .. Len(data) : IsSegment(data[i], sender.next)
    BY <1>1 DEF NetworkIsSound, DataIsSound
  <2>2. DOMAIN data = 1 .. Len(data)
    BY <2>1
  <2> QED BY <2>1, <2>2 DEF IsSegment
<1>8. losses \in 0 .. MaxTroubles /\ Len(recent) <= MaxSACKBlocks
  BY DEF SackInv, NetworkIsSound
<1> QED BY <1>2, <1>4, <1>5, <1>6, <1>7, <1>8 DEF SackTypes

(* The board is what was reported, and the receiver holds it.              *)
LEMMA BoardHolds ==
  ASSUME SackInv
  PROVE  BoardIsTrue /\ BothAgree
<1>1. /\ sender \in Senders /\ SenderIsTyped(sender) /\ NetworkIsSound
      /\ IF sender.closed THEN IsShut(sender) ELSE OpenIsSound(sender, heard)
  BY DEF SackInv, SenderIsSound, SenderIsTyped
<1>2. Separate(sender.board) /\ (~sender.closed => BytesOf(sender.board) = heard)
  <2>1. Separate(<< >>)
    BY DEF Separate
  <2> QED BY <1>1, <2>1 DEF IsShut, OpenIsSound, BoardIs
<1>3. BoardIsTrue
  <2>1. PICK board \in Seq(Blocks) : board = sender.board
    BY <1>2 DEF Separate
  <2>2. DOMAIN board = 1 .. Len(board) /\ Len(board) \in Nat
    OBVIOUS
  <2>3. \A i \in DOMAIN board : board[i].start < board[i].end
    BY <1>2, <2>1, <2>2 DEF Separate
  <2>4. ASSUME NEW i \in 1 .. Len(board) - 1 PROVE board[i].end < board[i + 1].start
    <3>1. i \in 1 .. Len(board) /\ i + 1 \in 1 .. Len(board) /\ i < i + 1
      BY <2>2
    <3> QED BY <1>2, <2>1, <3>1 DEF Separate
  <2> QED BY <1>2, <2>1, <2>3, <2>4 DEF BoardIsTrue, StillOpen
<1>4. BothAgree
  <2>1. SUFFICES ASSUME ~sender.closed
                 PROVE  /\ heard \subseteq got \cap (sender.oldest + 1 .. sender.next - 1)
                        /\ 1 .. sender.oldest - 1 \subseteq got
                        /\ sender.active = sender.policy.active
                        /\ sender.active => sender.oldest < sender.recoveryEnd
                                            /\ sender.recoveryEnd <= sender.next
    BY DEF BothAgree, StillOpen
  <2>2. OpenIsSound(sender, heard)
    BY <1>1, <2>1
  <2>3. heard \subseteq sender.oldest + 1 .. sender.next - 1 /\ heard \subseteq got
    BY <1>1, <2>2 DEF OpenIsSound, BoardIs, NetworkIsSound
  <2> QED BY <1>1, <2>2, <2>3 DEF OpenIsSound, NetworkIsSound, RecoveryIsSound
<1> QED BY <1>3, <1>4

(* The estimate is that of RFC 6675.                                       *)
LEMMA PipeHolds ==
  ASSUME SackInv
  PROVE  PipeIsTrue
<1>1. SUFFICES ASSUME sender.active
               PROVE  sender.pipe = Cardinality({p \in Missing : ~KnownLost(p)})
                        + Cardinality({p \in Missing : p < sender.retransmittedEnd})
                        + sender.rescued
  BY DEF PipeIsTrue
<1>2. RecoveryIsSound(sender, heard)
  BY <1>1 DEF SackInv, SenderIsSound, IsShut, OpenIsSound
<1>3. {p \in Missing : ~KnownLost(p)} = Travelling(heard, sender.oldest, sender.next)
  BY DEF Missing, KnownLost, Travelling, LostIn
<1>4. {p \in Missing : p < sender.retransmittedEnd}
        = Resent(heard, sender.oldest, sender.next, sender.retransmittedEnd)
  BY DEF Missing, Resent
<1> QED BY <1>2, <1>3, <1>4 DEF RecoveryIsSound, PipeIs

(* If a recovery fell silent with room for a segment, nothing would be     *)
(* left to repair and everything repaired would have arrived, even the end *)
(* of the flight.                                                          *)
LEMMA TransferHolds ==
  ASSUME SackInv
  PROVE  TransferGoesOn
<1>1. /\ sender \in Senders /\ IsAtRest(sender) /\ sender.out = << >>
      /\ IF sender.closed THEN IsShut(sender) ELSE OpenIsSound(sender, heard)
  BY DEF SackInv, SenderIsSound, SenderIsTyped
<1>2. SomethingIsDue
  BY <1>1 DEF SomethingIsDue, StillOpen, IsPending, IsAtRest, OpenIsSound
<1>3. ASSUME sender.active, data = << >>, acks = << >>, losses = sender.lossesBefore,
             NothingLeft(sender)
      PROVE  FALSE
  <2>1. ~sender.closed /\ OpenIsSound(sender, heard)
    BY <1>1, <1>3 DEF IsShut
  <2>2. RecoveryIsSound(sender, heard) /\ BoardIs(sender, heard)
    BY <1>3, <2>1 DEF OpenIsSound
  <2>3. /\ sender.oldest \in Nat /\ sender.next \in Nat /\ sender.recoveryEnd \in Nat
        /\ sender.retransmittedEnd \in Nat /\ sender.rescueAfter \in Nat
        /\ sender.oldest < sender.recoveryEnd /\ sender.recoveryEnd <= sender.next
        /\ heard \subseteq sender.oldest + 1 .. sender.next - 1
        /\ Separate(sender.board) /\ BytesOf(sender.board) = heard
    BY <1>1, <2>2 DEF RecoveryIsSound, BoardIs, Senders
  <2>4. RepairsAreOnTheirWay(sender, heard, data, acks)
    BY <1>3, <2>1 DEF SackInv, Undisturbed
  <2>5. ASSUME NEW p, OnItsWay(p, sender, heard, data, acks) PROVE p < sender.oldest \/ p \in heard
    BY <1>1, <1>3, <2>5 DEF OnItsWay
  <2>6. sender.oldest \notin heard /\ ~(sender.oldest < sender.oldest)
    BY <2>3
  <2>7. sender.oldest \notin sender.repaired
    BY <2>4, <2>5, <2>6 DEF RepairsAreOnTheirWay
  <2>8. sender.oldest \in (sender.oldest .. sender.next - 1) \ heard
    BY <2>3, <2>6
  <2>9. sender.retransmittedEnd <= sender.oldest
    <3>1. ~(sender.oldest < sender.retransmittedEnd)
      BY <2>2, <2>7, <2>8 DEF RecoveryIsSound
    <3> QED BY <2>3, <3>1
  <2>10. Higher(sender.oldest, sender.retransmittedEnd) = sender.oldest
    BY <2>3, <2>9 DEF Higher
  <2>11. PICK e \in Nat : e = HighestReportedEnd(sender.board)
    BY <2>2, <1>1, BoardEnds
  <2>12. ~Covers(sender.board, sender.oldest)
    <3>1. sender.oldest \in Int
      BY <2>3
    <3> QED BY <2>3, <2>6, <3>1, BytesOfBoard DEF Separate
  <2>13. e <= sender.oldest
    <3>1. SUFFICES ASSUME sender.oldest < e PROVE FALSE
      BY <2>3
    <3>2. Higher(sender.oldest, e) = e /\ sender.oldest \in Int /\ sender.oldest <= sender.oldest
      BY <2>3, <3>1 DEF Higher
    <3>3. Covers(sender.board, sender.oldest)
      BY <1>3, <2>10, <2>11, <3>1, <3>2 DEF NothingLeft
    <3> QED BY <2>12, <3>3
  <2>14. heard = {}
    <3>1. SUFFICES ASSUME NEW q \in heard PROVE FALSE
      OBVIOUS
    <3>2. q \in Int /\ q > sender.oldest
      BY <2>3
    <3>3. Covers(sender.board, q)
      BY <2>3, <3>2, BytesOfBoard DEF Separate
    <3>4. q < e
      BY <2>3, <2>11, <3>2, <3>3, HighestIsAbove
    <3> QED BY <2>3, <2>13, <3>2, <3>4
  <2>15. sender.rescueAfter = sender.recoveryEnd
    <3>1. sender.oldest <= sender.rescueAfter
      BY <1>3 DEF NothingLeft
    <3>2. ~(sender.rescueAfter < sender.recoveryEnd)
      BY <2>2, <2>14, <3>1 DEF RecoveryIsSound
    <3>3. sender.rescueAfter <= sender.recoveryEnd
      BY <2>2 DEF RecoveryIsSound
    <3> QED BY <2>3, <3>2, <3>3
  <2>16. sender.next - 1 < sender.oldest
    BY <2>4, <2>5, <2>14, <2>15 DEF RepairsAreOnTheirWay
  <2> QED BY <2>3, <2>16
<1>4. StallsOnlyWhenFull
  <2>1. SUFFICES ASSUME sender.active, data = << >>, acks = << >>, losses = sender.lossesBefore
                 PROVE  Space(sender) < SackMss \/ sender.sending
    BY DEF StallsOnlyWhenFull
  <2>2. ~sender.closed
    BY <1>1, <2>1 DEF IsShut
  <2> QED BY <1>1, <1>3, <2>1, <2>2 DEF IsAtRest
<1> QED BY <1>2, <1>4 DEF TransferGoesOn

(* What the sender knows of the receiver and the network is true           *)
(* (Scoreboard.Update, Pipe, recordSACKReports).                           *)
THEOREM ReportsAreBelieved == SackSpec => []SackIsSound
<1>1. SackInv => SackIsSound
  BY SackTypesHold, BoardHolds, PipeHolds DEF SackIsSound
<1> QED BY <1>1, SackInvariant, PTL

(* No repair is needless (sendSACKRepairs, NextHole, retransmittedEnd).    *)
THEOREM NothingIsRepairedInVain == SackSpec => []RepairsAreNeeded
<1>1. SackInv => RepairsAreNeeded
  BY DEF SackInv, SenderIsSound, SenderIsTyped, RepairsAreNeeded
<1> QED BY <1>1, SackInvariant, PTL

(* A recovery goes on from one acknowledgement to the next, and an open    *)
(* sender has a timer or an event (sendSACKRepairs, observeSACKFeedback).  *)
THEOREM RecoveryGoesOnByItself == SackSpec => []TransferGoesOn
<1>1. SackInv => TransferGoesOn
  BY TransferHolds
<1> QED BY <1>1, SackInvariant, PTL
=============================================================================
