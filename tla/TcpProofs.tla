----------------------------- MODULE TcpProofs -----------------------------
(***************************************************************************)
(* Proofs about a TCP connection, for any payload, segment, window and     *)
(* limits of retries: that its two ends stay sound whatever the ways       *)
(* between them do, and that the connection is the transfer it promises    *)
(* (TcpInvariant, Transfer); and about the timer of its sender, for any width of a  *)
(* Duration, any limits and any round trips (Rto).                         *)
(*                                                                         *)
(* The handlers of both ends are operators from a state to a state.  What  *)
(* holds inside a handler (Well for the client, Loose for a connection of  *)
(* the backend) is less than what holds between two of them (Sound, Conn): *)
(* a lemma per operator says what it needs and what it leaves, and the     *)
(* steps of the specification follow from the lemmas of their handlers.    *)
(* Most handlers end in one large update of a record.  Such an update has  *)
(* a definition of its own here (Sends, Confirms, Opens, Closes ...), so   *)
(* that its fields can be named without taking the handler apart again.    *)
(***************************************************************************)
EXTENDS TcpInvariant, Rto, SequenceTheorems, WellFoundedInduction, TLAPS

-----------------------------------------------------------------------------
(* The timer of the sender (Rto): arithmetic.                              *)

(* A value in range is not changed by wrapping.                            *)
LEMMA WrapInRange ==
  ASSUME NEW n \in Int, -MaxDuration - 1 <= n, n <= MaxDuration
  PROVE  Wrap(n) = n
BY RtoAssumption DEF Wrap

(* Rounding down, however Go divides.                                      *)
LEMMA PartIsFloor ==
  ASSUME NEW change \in Int, NEW weight \in {4, 8}
  PROVE  Part(change, weight) = change \div weight
<1>1. CASE weight = 4
  BY <1>1 DEF Part
<1>2. CASE weight = 8
  BY <1>2 DEF Part
<1> QED BY <1>1, <1>2

(* smoothDuration is the weighted average of the RFC, and stays between    *)
(* the values it averages.                                                 *)
LEMMA SmoothIsExact ==
  ASSUME NEW previous \in 0 .. MaxDuration, NEW sample \in 0 .. MaxDuration,
         NEW weight \in {4, 8}
  PROVE  /\ SmoothDuration(previous, sample, weight)
              = ((weight - 1) * previous + sample) \div weight
         /\ SmoothDuration(previous, sample, weight) \in 0 .. MaxDuration
<1> DEFINE change == sample - previous
           part == change \div weight
<1>1. /\ MaxDuration \in Nat /\ previous \in Int /\ sample \in Int
      /\ 0 <= previous /\ previous <= MaxDuration
      /\ 0 <= sample /\ sample <= MaxDuration
  BY RtoAssumption
<1>2. change \in Int /\ -MaxDuration - 1 <= change /\ change <= MaxDuration
  BY <1>1
<1>3. Wrap(sample - previous) = change
  BY <1>2, WrapInRange
<1>4. part \in Int /\ 0 <= previous + part /\ previous + part <= MaxDuration
  <2>1. CASE weight = 4
    BY <1>1, <2>1
  <2>2. CASE weight = 8
    BY <1>1, <2>2
  <2> QED BY <2>1, <2>2
<1>5. Wrap(previous + part) = previous + part
  <2>1. previous + part \in Int /\ -MaxDuration - 1 <= previous + part
    BY <1>1, <1>4
  <2> QED BY <1>4, <2>1, WrapInRange
<1>6. SmoothDuration(previous, sample, weight) = previous + part
  BY <1>2, <1>3, <1>5, PartIsFloor DEF SmoothDuration
<1>7. previous + part = ((weight - 1) * previous + sample) \div weight
  <2>1. CASE weight = 4
    BY <1>1, <2>1
  <2>2. CASE weight = 8
    BY <1>1, <2>2
  <2> QED BY <2>1, <2>2
<1> QED BY <1>1, <1>4, <1>6, <1>7

(* measuredTimeout is the formula of the RFC between the two limits.       *)
LEMMA MeasuredIsExact ==
  ASSUME NEW smoothed \in 0 .. MaxDuration, NEW variation \in 0 .. MaxDuration
  PROVE  /\ MeasuredTimeout(smoothed, variation)
              = Shorter(Longer(MinimumTimeout, smoothed + Longer(1, 4 * variation)),
                        MaximumTimeout)
         /\ MeasuredTimeout(smoothed, variation) \in MinimumTimeout .. MaximumTimeout
         /\ \/ MeasuredTimeout(smoothed, variation) > smoothed
            \/ MeasuredTimeout(smoothed, variation) = MaximumTimeout
<1>1. /\ MaxDuration \in Nat /\ MinimumTimeout \in Nat /\ MaximumTimeout \in Nat
      /\ MinimumTimeout <= MaximumTimeout /\ MaximumTimeout <= MaxDuration
      /\ smoothed \in Int /\ variation \in Int /\ 0 <= smoothed /\ 0 <= variation
      /\ smoothed <= MaxDuration /\ variation <= MaxDuration
  BY RtoAssumption
<1>2. CASE variation > MaximumTimeout \div 4
  <2>1. MeasuredTimeout(smoothed, variation) = MaximumTimeout
    BY <1>2 DEF MeasuredTimeout
  <2>2. 4 * variation >= MaximumTimeout
    BY <1>1, <1>2
  <2> QED BY <1>1, <2>1, <2>2 DEF Shorter, Longer
<1>3. CASE ~(variation > MaximumTimeout \div 4)
  <2>1. 4 * variation <= MaximumTimeout /\ 4 * variation \in Int
    BY <1>1, <1>3
  <2>2. Wrap(4 * variation) = 4 * variation
    <3>1. -MaxDuration - 1 <= 4 * variation /\ 4 * variation <= MaxDuration
      BY <1>1, <2>1
    <3> QED BY <2>1, <3>1, WrapInRange
  <2>3. Wrap(MaximumTimeout - smoothed) = MaximumTimeout - smoothed
    <3>1. /\ MaximumTimeout - smoothed \in Int
          /\ -MaxDuration - 1 <= MaximumTimeout - smoothed
          /\ MaximumTimeout - smoothed <= MaxDuration
      BY <1>1
    <3> QED BY <3>1, WrapInRange
  <2> DEFINE margin == Longer(1, 4 * variation)
  <2>4. margin \in Int /\ margin >= 1 /\ margin >= 4 * variation
    BY <2>1 DEF Longer
  <2>5. CASE smoothed >= MaximumTimeout \/ margin >= MaximumTimeout - smoothed
    <3>1. MeasuredTimeout(smoothed, variation) = MaximumTimeout
      BY <1>3, <2>2, <2>3, <2>5 DEF MeasuredTimeout
    <3>2. smoothed + margin >= MaximumTimeout
      BY <1>1, <2>4, <2>5
    <3> HIDE DEF margin
    <3>3. Shorter(Longer(MinimumTimeout, smoothed + margin), MaximumTimeout) = MaximumTimeout
      BY <1>1, <2>4, <3>2 DEF Shorter, Longer
    <3> QED BY <1>1, <3>1, <3>3 DEF margin
  <2>6. CASE ~(smoothed >= MaximumTimeout \/ margin >= MaximumTimeout - smoothed)
    <3>1. smoothed + margin \in Int /\ smoothed + margin < MaximumTimeout
      BY <1>1, <2>4, <2>6
    <3>2. Wrap(smoothed + margin) = smoothed + margin
      <4>1. -MaxDuration - 1 <= smoothed + margin /\ smoothed + margin <= MaxDuration
        BY <1>1, <2>4, <3>1
      <4> QED BY <3>1, <4>1, WrapInRange
    <3>3. MeasuredTimeout(smoothed, variation) = Longer(MinimumTimeout, smoothed + margin)
      BY <1>3, <2>2, <2>3, <2>6, <3>2 DEF MeasuredTimeout
    <3> HIDE DEF margin
    <3>4. /\ Longer(MinimumTimeout, smoothed + margin) \in MinimumTimeout .. MaximumTimeout
          /\ Longer(MinimumTimeout, smoothed + margin) > smoothed
          /\ Shorter(Longer(MinimumTimeout, smoothed + margin), MaximumTimeout)
               = Longer(MinimumTimeout, smoothed + margin)
      BY <1>1, <2>4, <3>1 DEF Shorter, Longer
    <3> QED BY <3>3, <3>4 DEF margin
  <2> QED BY <2>5, <2>6
<1> QED BY <1>2, <1>3

(* Doubling stops exactly at the maximum.                                  *)
LEMMA DoubledIsExact ==
  ASSUME NEW timeout \in 1 .. MaximumTimeout
  PROVE  /\ Doubled(timeout) = Shorter(2 * timeout, MaximumTimeout)
         /\ Doubled(timeout) \in timeout .. MaximumTimeout
<1>1. /\ MaxDuration \in Nat /\ MaximumTimeout \in Nat /\ MaximumTimeout <= MaxDuration
      /\ timeout \in Int /\ 1 <= timeout /\ timeout <= MaximumTimeout
  BY RtoAssumption
<1>2. Wrap(MaximumTimeout - timeout) = MaximumTimeout - timeout
  <2>1. /\ MaximumTimeout - timeout \in Int
        /\ -MaxDuration - 1 <= MaximumTimeout - timeout
        /\ MaximumTimeout - timeout <= MaxDuration
    BY <1>1
  <2> QED BY <2>1, WrapInRange
<1>3. CASE timeout >= MaximumTimeout - timeout
  BY <1>1, <1>2, <1>3 DEF Doubled, Shorter
<1>4. CASE ~(timeout >= MaximumTimeout - timeout)
  <2>1. /\ timeout * 2 \in Int /\ -MaxDuration - 1 <= timeout * 2
        /\ timeout * 2 <= MaxDuration
    BY <1>1, <1>4
  <2>2. Wrap(timeout * 2) = timeout * 2
    BY <2>1, WrapInRange
  <2> QED BY <1>1, <1>2, <1>4, <2>2 DEF Doubled, Shorter
<1> QED BY <1>3, <1>4

-----------------------------------------------------------------------------
(* The operations of the estimator, as relations between two estimates.    *)

(* A sample gives the exact estimate, whatever was estimated before.       *)
LEMMA ObserveIsExact ==
  ASSUME RtoTypeOK, EstimateIsExact, NEW sample \in Samples, ObserveRTT(sample)
  PROVE  /\ srtt' \in 0 .. MaxDuration /\ rttvar' \in 0 .. MaxDuration
         /\ measured' = TRUE
         /\ base' \in MinimumTimeout .. MaximumTimeout /\ current' = base'
         /\ exact' \in [srtt : Nat, rttvar : Nat, timeout : Nat]
         /\ EstimateIsExact'
         /\ adaptive => base' > srtt' \/ base' = MaximumTimeout
<1>1. /\ sample \in 0 .. MaxDuration /\ MaxDuration \in Nat
      /\ srtt \in 0 .. MaxDuration /\ rttvar \in 0 .. MaxDuration
      /\ srtt = exact.srtt /\ rttvar = exact.rttvar
  BY RtoAssumption DEF RtoTypeOK, EstimateIsExact
<1>2. Distance(srtt, sample) \in 0 .. MaxDuration
  BY <1>1 DEF Distance
<1>3. srtt' = ExactSample(sample).srtt /\ srtt' \in 0 .. MaxDuration
  <2>1. CASE measured
    <3>1. srtt' = SmoothDuration(srtt, sample, 8)
      BY <2>1 DEF ObserveRTT
    <3>2. /\ srtt' = ((8 - 1) * srtt + sample) \div 8
          /\ srtt' \in 0 .. MaxDuration
      BY <1>1, <3>1, SmoothIsExact
    <3> QED BY <1>1, <2>1, <3>2 DEF ExactSample
  <2>2. CASE ~measured
    BY <1>1, <2>2 DEF ObserveRTT, ExactSample
  <2> QED BY <2>1, <2>2
<1>4. rttvar' = ExactSample(sample).rttvar /\ rttvar' \in 0 .. MaxDuration
  <2>1. CASE measured
    <3>1. rttvar' = SmoothDuration(rttvar, Distance(srtt, sample), 4)
      BY <2>1 DEF ObserveRTT
    <3>2. /\ rttvar' = ((4 - 1) * rttvar + Distance(srtt, sample)) \div 4
          /\ rttvar' \in 0 .. MaxDuration
      BY <1>1, <1>2, <3>1, SmoothIsExact
    <3> QED BY <1>1, <2>1, <3>2 DEF ExactSample
  <2>2. CASE ~measured
    BY <1>1, <2>2 DEF ObserveRTT, ExactSample
  <2> QED BY <2>1, <2>2
<1>5. exact' = ExactSample(sample) /\ measured' = TRUE /\ current' = base'
  BY DEF ObserveRTT
<1> DEFINE margin == Longer(1, 4 * rttvar')
<1>6. exact'.timeout = IF adaptive THEN Longer(MinimumTimeout, srtt' + margin)
                       ELSE InitialTimeout
  BY <1>3, <1>4, <1>5 DEF ExactSample
<1>7. margin \in Nat
  BY <1>4, RtoAssumption DEF Longer
<1>8. exact'.timeout \in Nat
  BY <1>3, <1>6, <1>7, RtoAssumption DEF Longer
<1>9. exact' \in [srtt : Nat, rttvar : Nat, timeout : Nat]
  <2>1. exact' = [srtt |-> srtt', rttvar |-> rttvar', timeout |-> exact'.timeout]
    BY <1>3, <1>4, <1>5 DEF ExactSample
  <2>2. srtt' \in Nat /\ rttvar' \in Nat
    BY <1>3, <1>4, RtoAssumption
  <2> QED BY <1>8, <2>1, <2>2
<1>10. /\ base' \in MinimumTimeout .. MaximumTimeout
       /\ base' = Shorter(exact'.timeout, MaximumTimeout)
       /\ adaptive => base' > srtt' \/ base' = MaximumTimeout
  <2>1. CASE adaptive
    <3>1. base' = MeasuredTimeout(srtt', rttvar')
      BY <2>1 DEF ObserveRTT
    <3> QED BY <1>3, <1>4, <1>6, <2>1, <3>1, MeasuredIsExact
  <2>2. CASE ~adaptive
    <3>1. base' = InitialTimeout
      BY <2>2 DEF ObserveRTT
    <3> QED BY <1>6, <2>2, <3>1, RtoAssumption DEF Shorter
  <2> QED BY <2>1, <2>2
<1> HIDE DEF margin
<1> QED BY <1>3, <1>4, <1>5, <1>9, <1>10 DEF EstimateIsExact

(* Backing off stays with the exact timeout until both reach the maximum.  *)
LEMMA BackOffIsExact ==
  ASSUME RtoTypeOK, EstimateIsExact, BackOff
  PROVE  /\ current' \in base .. MaximumTimeout
         /\ exact' \in [srtt : Nat, rttvar : Nat, timeout : Nat]
         /\ EstimateIsExact'
<1>1. /\ MinimumTimeout \in Nat \ {0} /\ MaximumTimeout \in Nat
      /\ base \in MinimumTimeout .. MaximumTimeout /\ current \in base .. MaximumTimeout
      /\ exact \in [srtt : Nat, rttvar : Nat, timeout : Nat]
      /\ exact.timeout \in Nat /\ current = Shorter(exact.timeout, MaximumTimeout)
  BY RtoAssumption DEF RtoTypeOK, EstimateIsExact
<1>2. UNCHANGED <<srtt, rttvar, base>>
  BY DEF BackOff, estimate
<1>3. exact'.srtt = exact.srtt /\ exact'.rttvar = exact.rttvar
  BY <1>1 DEF BackOff, ExactBackOff
<1>4. CASE exponential
  <2>1. current \in 1 .. MaximumTimeout
    BY <1>1
  <2>2. /\ current' = Shorter(2 * current, MaximumTimeout)
        /\ current' \in current .. MaximumTimeout
    BY <1>4, <2>1, DoubledIsExact DEF BackOff
  <2>3. exact'.timeout = IF exact.timeout <= MaximumTimeout THEN 2 * exact.timeout
                         ELSE exact.timeout
    BY <1>1, <1>4 DEF BackOff, ExactBackOff
  <2>4. current' = Shorter(exact'.timeout, MaximumTimeout)
    BY <1>1, <2>2, <2>3 DEF Shorter
  <2>5. exact' = [exact EXCEPT !.timeout = exact'.timeout] /\ exact'.timeout \in Nat
    BY <1>1, <1>4, <2>3 DEF BackOff, ExactBackOff
  <2> QED BY <1>1, <1>2, <1>3, <2>2, <2>4, <2>5 DEF EstimateIsExact
<1>5. CASE ~exponential
  <2>1. current' = current /\ exact' = exact
    BY <1>1, <1>5 DEF BackOff, ExactBackOff
  <2> QED BY <1>1, <1>2, <1>3, <2>1 DEF EstimateIsExact
<1> QED BY <1>4, <1>5

(* And so does the caution after a repeated SYN.                           *)
LEMMA SYNRetryIsExact ==
  ASSUME RtoTypeOK, EstimateIsExact, AfterSYNRetry
  PROVE  /\ current' \in base .. MaximumTimeout
         /\ exact' \in [srtt : Nat, rttvar : Nat, timeout : Nat]
         /\ EstimateIsExact'
<1>1. /\ Conservative \in Nat /\ MaximumTimeout \in Nat
      /\ base \in Nat /\ current \in base .. MaximumTimeout
      /\ exact \in [srtt : Nat, rttvar : Nat, timeout : Nat]
      /\ exact.timeout \in Nat /\ current = Shorter(exact.timeout, MaximumTimeout)
  BY RtoAssumption DEF RtoTypeOK, EstimateIsExact
<1>2. UNCHANGED <<srtt, rttvar, base>>
  BY DEF AfterSYNRetry, estimate
<1>3. CASE adaptive
  <2>1. /\ current' = Longer(current, Shorter(Conservative, MaximumTimeout))
        /\ exact' = [exact EXCEPT !.timeout = Longer(exact.timeout, Conservative)]
    BY <1>3 DEF AfterSYNRetry
  <2>2. exact'.timeout = Longer(exact.timeout, Conservative)
    BY <1>1, <2>1
  <2>3. Longer(exact.timeout, Conservative) \in Nat
    BY <1>1 DEF Longer
  <2>4. /\ current' = Shorter(exact'.timeout, MaximumTimeout)
        /\ current' \in base .. MaximumTimeout
    BY <1>1, <2>1, <2>2 DEF Shorter, Longer
  <2>5. exact'.srtt = exact.srtt /\ exact'.rttvar = exact.rttvar
    BY <1>1, <2>1
  <2>6. exact' \in [srtt : Nat, rttvar : Nat, timeout : Nat]
    BY <1>1, <2>1, <2>3
  <2> QED BY <1>1, <1>2, <2>4, <2>5, <2>6 DEF EstimateIsExact
<1>4. CASE ~adaptive
  BY <1>1, <1>2, <1>4 DEF AfterSYNRetry, EstimateIsExact
<1> QED BY <1>3, <1>4

-----------------------------------------------------------------------------
(* The invariant of the timer.                                             *)

(* A new estimator knows no round trip (newRTOEstimator).                  *)
LEMMA InitIsSound == RtoInit => TimeoutIsSound
<1> SUFFICES ASSUME RtoInit PROVE TimeoutIsSound
  OBVIOUS
<1>1. RtoTypeOK
  <2>1. InitialTimeout \in MinimumTimeout .. MaximumTimeout /\ InitialTimeout \in Nat
    BY RtoAssumption
  <2>2. exact \in [srtt : Nat, rttvar : Nat, timeout : Nat]
    BY <2>1 DEF RtoInit
  <2>3. srtt \in 0 .. MaxDuration /\ rttvar \in 0 .. MaxDuration
    BY RtoAssumption DEF RtoInit
  <2>4. base \in MinimumTimeout .. MaximumTimeout /\ current \in base .. MaximumTimeout
    BY <2>1, RtoAssumption DEF RtoInit
  <2> QED BY <2>2, <2>3, <2>4 DEF RtoInit, RtoTypeOK
<1>2. EstimateIsExact
  BY RtoAssumption DEF RtoInit, EstimateIsExact, Shorter
<1>3. NotTooEager
  BY DEF RtoInit, NotTooEager
<1> QED BY <1>1, <1>2, <1>3 DEF TimeoutIsSound

(* Whatever changes the estimate keeps it sound, and whatever only reads   *)
(* it keeps the delays it started within the limits.                       *)
LEMMA StepIsSound ==
  ASSUME TimeoutIsSound, [RtoNext]_rtoVars
  PROVE  TimeoutIsSound'
<1>0. RtoTypeOK /\ EstimateIsExact /\ NotTooEager
  BY DEF TimeoutIsSound
<1>1. ASSUME \E sample \in Samples : ObserveRTT(sample),
             UNCHANGED <<config, hold, finDelay>>,
             established' \in BOOLEAN, synRetried' \in BOOLEAN
      PROVE  TimeoutIsSound'
  <2>1. PICK sample \in Samples : ObserveRTT(sample)
    BY <1>1
  <2>2. /\ srtt' \in 0 .. MaxDuration /\ rttvar' \in 0 .. MaxDuration
        /\ measured' = TRUE
        /\ base' \in MinimumTimeout .. MaximumTimeout /\ current' = base'
        /\ exact' \in [srtt : Nat, rttvar : Nat, timeout : Nat]
        /\ EstimateIsExact'
        /\ adaptive => base' > srtt' \/ base' = MaximumTimeout
    BY <1>0, <2>1, ObserveIsExact
  <2>3. UNCHANGED <<adaptive, exponential, hold, finDelay>>
    BY <1>1 DEF config
  <2>4. current' \in base' .. MaximumTimeout
    BY <2>2, RtoAssumption
  <2>5. RtoTypeOK'
    BY <1>0, <1>1, <2>2, <2>3, <2>4 DEF RtoTypeOK
  <2>6. NotTooEager'
    BY <2>2, <2>3 DEF NotTooEager
  <2> QED BY <2>2, <2>5, <2>6 DEF TimeoutIsSound
<1>2. ASSUME BackOff \/ AfterSYNRetry,
             UNCHANGED <<config, hold, finDelay>>,
             established' \in BOOLEAN, synRetried' \in BOOLEAN
      PROVE  TimeoutIsSound'
  <2>1. /\ current' \in base .. MaximumTimeout
        /\ exact' \in [srtt : Nat, rttvar : Nat, timeout : Nat]
        /\ EstimateIsExact'
    BY <1>0, <1>2, BackOffIsExact, SYNRetryIsExact
  <2>2. UNCHANGED <<adaptive, exponential, hold, finDelay, measured, srtt, rttvar, base>>
    BY <1>2 DEF config, estimate, BackOff, AfterSYNRetry
  <2>3. RtoTypeOK'
    BY <1>0, <1>2, <2>1, <2>2 DEF RtoTypeOK
  <2>4. NotTooEager'
    BY <1>0, <2>2 DEF NotTooEager
  <2> QED BY <2>1, <2>3, <2>4 DEF TimeoutIsSound
<1>3. ASSUME UNCHANGED <<config, phase, estimate, current, exact>>,
             hold' \in {0} \cup MinimumTimeout .. MaximumTimeout,
             finDelay' \in {0} \cup MinimumTimeout .. MaximumTimeout
      PROVE  TimeoutIsSound'
  <2>1. UNCHANGED <<adaptive, exponential, established, synRetried, measured, srtt,
                    rttvar, base, current, exact>>
    BY <1>3 DEF config, phase, estimate
  <2>2. RtoTypeOK'
    BY <1>0, <1>3, <2>1 DEF RtoTypeOK
  <2>3. EstimateIsExact' /\ NotTooEager'
    BY <1>0, <2>1 DEF EstimateIsExact, NotTooEager
  <2> QED BY <2>2, <2>3 DEF TimeoutIsSound
<1>4. /\ current \in MinimumTimeout .. MaximumTimeout
      /\ MinimumTimeout \in Nat \ {0} /\ MaximumTimeout \in Nat
  BY <1>0, RtoAssumption DEF RtoTypeOK
<1>5. ASSUME NEW delay \in {0} \cup MinimumTimeout .. MaximumTimeout, delay # 0
      PROVE  Doubled(delay) \in MinimumTimeout .. MaximumTimeout
  <2>1. delay \in 1 .. MaximumTimeout /\ delay >= MinimumTimeout
    BY <1>4, <1>5
  <2>2. Doubled(delay) \in delay .. MaximumTimeout
    BY <2>1, DoubledIsExact
  <2> QED BY <1>4, <2>1, <2>2
<1>6. established \in BOOLEAN /\ synRetried \in BOOLEAN
  BY <1>0 DEF RtoTypeOK
<1>7. CASE SynTimerFires
  BY <1>2, <1>6, <1>7 DEF SynTimerFires
<1>8. CASE Establish
  BY <1>1, <1>2, <1>6, <1>8 DEF Establish
<1>9. CASE DataSample
  BY <1>1, <1>6, <1>9 DEF DataSample, phase
<1>10. CASE DataTimerFires
  BY <1>2, <1>6, <1>10 DEF DataTimerFires, phase
<1>11. CASE HoldForECN
  <2>1. hold' \in {0} \cup MinimumTimeout .. MaximumTimeout
    <3>1. hold \in {0} \cup MinimumTimeout .. MaximumTimeout
      BY <1>0 DEF RtoTypeOK
    <3> QED BY <1>4, <1>5, <1>11, <3>1 DEF HoldForECN
  <2>2. UNCHANGED <<config, phase, estimate, current, finDelay, exact>>
    BY <1>11 DEF HoldForECN
  <2> QED BY <1>0, <1>3, <2>1, <2>2 DEF RtoTypeOK
<1>12. CASE FinTimerStarts
  BY <1>0, <1>3, <1>4, <1>12 DEF FinTimerStarts, RtoTypeOK
<1>13. CASE RetryFIN
  <2>1. finDelay' \in {0} \cup MinimumTimeout .. MaximumTimeout
    <3>1. finDelay \in {0} \cup MinimumTimeout .. MaximumTimeout
      BY <1>0 DEF RtoTypeOK
    <3> QED BY <1>5, <1>13, <3>1 DEF RetryFIN
  <2>2. UNCHANGED <<config, phase, estimate, current, hold, exact>>
    BY <1>13 DEF RetryFIN
  <2> QED BY <1>0, <1>3, <2>1, <2>2 DEF RtoTypeOK
<1>14. CASE UNCHANGED rtoVars
  BY <1>0, <1>3, <1>14 DEF rtoVars, RtoTypeOK
<1> QED
  BY <1>7, <1>8, <1>9, <1>10, <1>11, <1>12, <1>13, <1>14 DEF RtoNext

(* For every width of a Duration, every limit and every series of samples  *)
(* and retries the estimate is the one of RFC 6298 in exact arithmetic,    *)
(* and each delay of a Sender lies between the limits (rto.go).            *)
THEOREM TimeoutInvariant == RtoSpec => []TimeoutIsSound
<1>1. RtoInit => TimeoutIsSound
  BY InitIsSound
<1>2. TimeoutIsSound /\ [RtoNext]_rtoVars => TimeoutIsSound'
  BY StepIsSound
<1> QED BY <1>1, <1>2, PTL DEF RtoSpec

-----------------------------------------------------------------------------
(* The retransmission queue and the counters of the sender.                *)

(* The constants are numbers of a useful size.                             *)
LEMMA Sizes ==
  /\ Payload \in Nat /\ Payload >= 1 /\ Mss \in Nat /\ Mss >= 1 /\ Window \in Nat /\ Window >= 1
  /\ MaxWindow \in Nat /\ MaxWindow >= 1 /\ MaxRetransmissions \in Nat /\ MaxRetransmissions >= 1
  /\ SegmentsPerACK \in 1 .. 2
BY TcpAssumption

USE Sizes

(* The numbers of a Sender, one by one.                                    *)
LEMMA SenderFields ==
  ASSUME NEW s \in Sender
  PROVE  /\ s.nextSend \in 0 .. Payload + 2 /\ s.oldest \in 0 .. Payload + 2
         /\ s.nextSend \in Nat /\ s.oldest \in Nat
         /\ s.windowEnd \in Nat
         /\ s.unsent \in 0 .. Payload /\ s.unsent \in Nat
         /\ s.acknowledged \in 0 .. Payload /\ s.acknowledged \in Nat
         /\ s.toConfirm \in 0 .. Payload /\ s.toConfirm \in Nat
<1>1. /\ s.nextSend \in 0 .. Payload + 2 /\ s.oldest \in 0 .. Payload + 2
      /\ s.windowEnd \in Nat
      /\ s.unsent \in 0 .. Payload
      /\ s.acknowledged \in 0 .. Payload
      /\ s.toConfirm \in 0 .. Payload
  BY DEF Sender
<1> QED BY <1>1

(* What a handler of the client has emitted so far.                        *)
OutOk(s) == \A i \in DOMAIN s.out : FromClient(s.out[i])

(* Names for the empty queue and for no events, so that a record can be    *)
(* updated with them without being taken apart.                            *)
NoSegments == << >>
NoEvents == {}

(* Both have their types.                                                  *)
LEMMA Empty == NoSegments \in Seq(Segment) /\ NoEvents \in SUBSET SenderEvent
BY DEF NoSegments, NoEvents

(* The larger of two numbers.                                              *)
LEMMA LargerOfTwo ==
  ASSUME NEW a \in Int, NEW b \in Int
  PROVE  S!Max({a, b}) = (IF a >= b THEN a ELSE b)
<1>1. CASE a >= b
  BY <1>1 DEF S!Max
<1>2. CASE ~(a >= b)
  BY <1>2 DEF S!Max
<1> QED BY <1>1, <1>2

(* Numbers have a smallest.                                                *)
LEMMA SmallestOf ==
  ASSUME NEW set \in SUBSET Nat, set # {}
  PROVE  \E x \in set : \A y \in set : x <= y
<1>1. PICK x \in set : \A y \in set : ~ (<<y, x>> \in OpToRel(<, Nat))
  BY NatLessThanWellFounded, WFMin
<1>2. \A y \in set : ~(y < x)
  BY <1>1 DEF OpToRel
<1> QED BY <1>2

(* The smallest of the four limits of NextPayloadSize.                     *)
LEMMA SmallestOfFour ==
  ASSUME NEW a \in Int, NEW b \in Int, NEW c \in Int, NEW d \in Int
  PROVE  LET m == S!Min({a, b, c, d})
         IN  m \in {a, b, c, d} /\ m <= a /\ m <= b /\ m <= c /\ m <= d
<1>1. \E m \in {a, b, c, d} : \A y \in {a, b, c, d} : m <= y
  <2>1. \E m \in {a, b} : m <= a /\ m <= b
    OBVIOUS
  <2>2. \E m \in {c, d} : m <= c /\ m <= d
    OBVIOUS
  <2>3. PICK m \in {a, b} : m <= a /\ m <= b
    BY <2>1
  <2>4. PICK n \in {c, d} : n <= c /\ n <= d
    BY <2>2
  <2>5. CASE m <= n
    BY <2>3, <2>4, <2>5
  <2>6. CASE ~(m <= n)
    BY <2>3, <2>4, <2>6
  <2> QED BY <2>5, <2>6
<1> QED BY <1>1 DEF S!Min

(* What sendNext sends next: no more than is left, nothing before the      *)
(* handshake, and something as soon as all that was sent is confirmed.     *)
LEMMA PayloadSize ==
  ASSUME NEW s \in Sender, Counted(s), NEW cwnd \in {Mss, MaxWindow}
  PROVE  LET size == S!NextPayloadSize(s, cwnd)
         IN  /\ size \in 0 .. s.unsent /\ size <= Mss
             /\ ~s.handshakeCompleted => size = 0
             /\ /\ s.handshakeCompleted /\ ~s.finSent /\ ~s.terminated
                /\ s.unsent > 0 /\ s.nextSend = s.oldest
                => size > 0
<1> DEFINE space == S!Max({cwnd - S!BytesInFlight(s), 0})
           credit == S!Max({s.windowEnd - s.nextSend, 0})
           size == S!Min({s.unsent, Mss, credit, space})
<1>2. s.windowEnd \in Int /\ s.nextSend \in Int /\ s.oldest \in Int /\ s.unsent \in Nat
  BY SenderFields
<1>1. S!BytesInFlight(s) \in Int /\ cwnd \in Int /\ cwnd > 0
  <2>1. S!BytesInFlight(s) \in Int
    BY <1>2 DEF S!BytesInFlight
  <2> QED BY <2>1
<1>3. space = (IF cwnd - S!BytesInFlight(s) >= 0 THEN cwnd - S!BytesInFlight(s) ELSE 0)
  BY <1>1, LargerOfTwo
<1>4. credit = (IF s.windowEnd - s.nextSend >= 0 THEN s.windowEnd - s.nextSend ELSE 0)
  BY <1>2, LargerOfTwo
<1>5. space \in Nat
  BY <1>1, <1>3
<1>6. credit \in Nat
  BY <1>2, <1>4
<1>7. /\ size \in {s.unsent, Mss, credit, space}
      /\ size <= s.unsent /\ size <= Mss /\ size <= credit /\ size <= space
  <2>1. s.unsent \in Int /\ Mss \in Int /\ credit \in Int /\ space \in Int
    BY <1>2, <1>5, <1>6
  <2> HIDE DEF credit, space
  <2> QED BY <2>1, SmallestOfFour
<1>8. S!NextPayloadSize(s, cwnd) = size
  BY DEF S!NextPayloadSize
<1> HIDE DEF size, space, credit
<1>9. size \in 0 .. s.unsent
  BY <1>2, <1>5, <1>6, <1>7
<1>10. ASSUME ~s.handshakeCompleted PROVE size = 0
  <2>1. s.windowEnd = 0 /\ s.nextSend \in Nat
    BY <1>10, SenderFields DEF Counted
  <2> QED BY <2>1, <1>2, <1>4, <1>7, <1>9
<1>11. ASSUME s.handshakeCompleted, ~s.finSent, ~s.terminated, s.unsent > 0,
              s.nextSend = s.oldest
       PROVE  size > 0
  <2>1. S!BytesInFlight(s) = 0
    BY <1>2, <1>11 DEF S!BytesInFlight
  <2>2. space > 0
    BY <2>1, <1>1, <1>3
  <2>3. s.windowEnd - s.nextSend = Window
    BY <1>2, <1>11 DEF Counted
  <2>4. credit > 0
    BY <2>3, <1>4
  <2> QED BY <2>2, <2>4, <1>7, <1>11
<1> QED BY <1>7, <1>8, <1>9, <1>10, <1>11

(* A queue is empty when it ends where it begins.                          *)
LEMMA ChainEnds ==
  ASSUME NEW q \in Seq(Segment), NEW from \in Nat, NEW to \in Nat, Chain(q, from, to)
  PROVE  from <= to /\ (q = << >> <=> from = to)
<1>1. CASE q = << >>
  BY <1>1 DEF Chain
<1>2. CASE q # << >>
  <2>1. 1 \in DOMAIN q
    BY <1>2
  <2>2. q[1] \in Segment
    BY <2>1
  <2>3. q[1].seq = from /\ q[1].seq + q[1].size <= to /\ q[1].size >= 1
    BY <2>1 DEF Chain, FromClient
  <2>4. q[1].size \in Int
    BY <2>2 DEF Segment
  <2> QED BY <1>2, <2>3, <2>4
<1> QED BY <1>1, <1>2

(* The numbers of a segment.                                               *)
LEMMA SegmentNumbers ==
  ASSUME NEW p \in Segment
  PROVE  p.seq \in Nat /\ p.size \in Nat /\ p.ack \in Nat
BY DEF Segment

(* sendNext appends a segment that begins where the queue ends.            *)
LEMMA ChainGrows ==
  ASSUME NEW q \in Seq(Segment), NEW from \in Nat, NEW to \in Nat, Chain(q, from, to),
         NEW p \in Segment, FromClient(p), p.kind = "DATA", p.seq = to
  PROVE  Chain(Append(q, p), from, to + p.size) /\ Append(q, p) \in Seq(Segment)
<1> DEFINE r == Append(q, p)
<1>1. r \in Seq(Segment) /\ Len(r) = Len(q) + 1 /\ DOMAIN r = 1 .. Len(q) + 1 /\ r # << >>
  <2>1. r \in Seq(Segment) /\ Len(r) = Len(q) + 1
    OBVIOUS
  <2> HIDE DEF r
  <2> QED BY <2>1
<1>2. \A i \in 1 .. Len(q) : r[i] = q[i]
  OBVIOUS
<1>3. r[Len(q) + 1] = p
  OBVIOUS
<1>4. p.size \in Nat
  BY DEF Segment
<1> HIDE DEF r
<1>5. ASSUME NEW i \in 1 .. Len(q) + 1
      PROVE  /\ FromClient(r[i]) /\ r[i].kind = "DATA"
             /\ r[i].seq = (IF i = 1 THEN from ELSE r[i - 1].seq + r[i - 1].size)
             /\ r[i].seq + r[i].size <= to + p.size
  <2>1. CASE i \in 1 .. Len(q)
    <3>1. /\ FromClient(q[i]) /\ q[i].kind = "DATA"
          /\ q[i].seq = (IF i = 1 THEN from ELSE q[i - 1].seq + q[i - 1].size)
          /\ q[i].seq + q[i].size <= to
      BY <2>1 DEF Chain
    <3>2. i # 1 => i - 1 \in 1 .. Len(q)
      BY <2>1
    <3>3. q[i] \in Segment
      BY <2>1
    <3>4. q[i].seq \in Nat /\ q[i].size \in Nat
      BY <3>3, SegmentNumbers
    <3>6. r[i] = q[i]
      BY <2>1, <1>2
    <3>5. r[i].seq + r[i].size <= to + p.size
      <4>1. q[i].seq + q[i].size <= to
        BY <3>1
      <4>2. q[i].seq + q[i].size <= to + p.size
        BY <4>1, <3>4, <1>4, SMTT(30)
      <4> QED BY <4>2, <3>6
    <3>7. i # 1 => r[i - 1] = q[i - 1]
      BY <3>2, <1>2
    <3>8. r[i].seq = (IF i = 1 THEN from ELSE r[i - 1].seq + r[i - 1].size)
      BY <3>1, <3>6, <3>7
    <3> QED BY <3>1, <3>5, <3>6, <3>8
  <2>2. CASE i = Len(q) + 1
    <3>1. r[i] = p
      BY <2>2, <1>3
    <3>4. FromClient(r[i]) /\ r[i].kind = "DATA" /\ r[i].seq + r[i].size <= to + p.size
      BY <3>1, <1>4
    <3>2. CASE q = << >>
      <4>1. i = 1 /\ to = from
        BY <3>2, <2>2 DEF Chain
      <4> QED BY <3>1, <3>4, <4>1
    <3>3. CASE q # << >>
      <4>1. i - 1 = Len(q) /\ i # 1 /\ Len(q) \in 1 .. Len(q)
        BY <3>3, <2>2
      <4>2. r[i - 1] = q[Len(q)]
        BY <4>1, <1>2
      <4>3. to = q[Len(q)].seq + q[Len(q)].size
        BY <3>3 DEF Chain
      <4> QED BY <3>1, <3>4, <4>1, <4>2, <4>3
    <3> QED BY <3>2, <3>3
  <2> QED BY <1>5, <2>1, <2>2
<1>6. to + p.size = r[Len(r)].seq + r[Len(r)].size
  BY <1>1, <1>3
<1>7. Chain(r, from, to + p.size)
  BY <1>1, <1>5, <1>6 DEF Chain
<1> QED BY <1>1, <1>7 DEF r
(* The front that an acknowledgement confirms is the first Unconfirmed     *)
(* leaves out.                                                             *)
LEMMA FirstMissing ==
  ASSUME NEW q \in Seq(Segment), NEW ack \in Nat
  PROVE  LET first == S!Min({i \in DOMAIN q : S!SequenceEnd(q[i]) > ack} \cup {Len(q) + 1})
         IN  /\ first \in 1 .. Len(q) + 1
             /\ first <= Len(q) => S!SequenceEnd(q[first]) > ack
             /\ \A i \in 1 .. first - 1 : ~(S!SequenceEnd(q[i]) > ack)
<1> DEFINE missing == {i \in DOMAIN q : S!SequenceEnd(q[i]) > ack} \cup {Len(q) + 1}
           first == S!Min(missing)
<1>1. missing \subseteq 1 .. Len(q) + 1 /\ Len(q) + 1 \in missing /\ Len(q) \in Nat
  OBVIOUS
<1>2. \A i \in 1 .. Len(q) : i \in missing <=> S!SequenceEnd(q[i]) > ack
  OBVIOUS
<1> HIDE DEF missing
<1>3. missing # {} /\ missing \in SUBSET Nat
  BY <1>1
<1>4. \E x \in missing : \A y \in missing : x <= y
  BY <1>1, SmallestOf
<1>5. first \in missing /\ \A y \in missing : first <= y
  BY <1>4 DEF S!Min
<1> HIDE DEF first
<1>6. first \in 1 .. Len(q) + 1
  BY <1>1, <1>5
<1>7. first <= Len(q) => S!SequenceEnd(q[first]) > ack
  BY <1>2, <1>5, <1>6
<1>8. \A i \in 1 .. first - 1 : ~(S!SequenceEnd(q[i]) > ack)
  BY <1>1, <1>2, <1>5, <1>6
<1> QED BY <1>6, <1>7, <1>8 DEF first, missing

(* A segment of which a part was confirmed is still a segment.             *)
LEMMA Trimmed ==
  ASSUME NEW p \in Segment, NEW seq \in 0 .. Payload + 2, NEW size \in 0 .. Mss
  PROVE  [p EXCEPT !.seq = seq, !.size = size] \in Segment
BY DEF Segment

(* acknowledgeData leaves a queue that begins at the acknowledged          *)
(* position: what is wholly confirmed is dropped, and the first segment    *)
(* left is cut (the one definition of the sender with a search in it).     *)
LEMMA ChainShrinks ==
  ASSUME NEW q \in Seq(Segment), NEW from \in Nat, NEW to \in Nat, Chain(q, from, to),
         NEW ack \in Nat, from <= ack, ack <= to, from >= 1, to <= Payload + 1
  PROVE  LET r == S!Unconfirmed(q, ack)
         IN  r \in Seq(Segment) /\ Chain(r, ack, to)
<1> DEFINE first == S!Min({i \in DOMAIN q : S!SequenceEnd(q[i]) > ack} \cup {Len(q) + 1})
           missing == SubSeq(q, first, Len(q))
<1>1. /\ first \in 1 .. Len(q) + 1
      /\ first <= Len(q) => S!SequenceEnd(q[first]) > ack
      /\ \A i \in 1 .. first - 1 : ~(S!SequenceEnd(q[i]) > ack)
  BY FirstMissing
<1>2. S!Unconfirmed(q, ack) =
        IF missing # << >> /\ Head(missing).seq < ack
        THEN [missing EXCEPT ![1] = [Head(missing) EXCEPT
                !.seq = ack, !.size = S!SequenceEnd(Head(missing)) - ack]]
        ELSE missing
  BY DEF S!Unconfirmed
<1> HIDE DEF first
<1>3. \A i \in 1 .. Len(q) :
        /\ q[i] \in Segment /\ q[i].seq \in Nat /\ q[i].size \in Nat /\ FromClient(q[i])
        /\ q[i].kind = "DATA" /\ S!SequenceEnd(q[i]) = q[i].seq + q[i].size
        /\ q[i].seq = (IF i = 1 THEN from ELSE q[i - 1].seq + q[i - 1].size)
        /\ q[i].seq + q[i].size <= to
  <2> TAKE i \in 1 .. Len(q)
  <2>1. q[i] \in Segment
    OBVIOUS
  <2>2. q[i].seq \in 0 .. Payload + 2 /\ q[i].size \in 0 .. Mss
    BY <2>1 DEF Segment
  <2>3. /\ FromClient(q[i]) /\ q[i].kind = "DATA"
        /\ q[i].seq = (IF i = 1 THEN from ELSE q[i - 1].seq + q[i - 1].size)
        /\ q[i].seq + q[i].size <= to
    BY DEF Chain
  <2>4. S!SequenceEnd(q[i]) = q[i].seq + q[i].size
    BY <2>3 DEF S!SequenceEnd
  <2> QED BY <2>1, <2>2, <2>3, <2>4
<1>4. CASE first = Len(q) + 1
  <2>1. missing = << >>
    BY <1>4
  <2>2. ack = to
    <3>1. CASE q = << >>
      BY <3>1 DEF Chain
    <3>2. CASE q # << >>
      <4>1. Len(q) \in 1 .. first - 1 /\ Len(q) \in 1 .. Len(q)
        BY <3>2, <1>4
      <4>2. ~(S!SequenceEnd(q[Len(q)]) > ack)
        BY <4>1, <1>1
      <4>3. to = S!SequenceEnd(q[Len(q)])
        BY <3>2, <4>1, <1>3 DEF Chain
      <4> QED BY <4>2, <4>3
    <3> QED BY <3>1, <3>2
  <2>3. S!Unconfirmed(q, ack) = NoSegments
    BY <2>1, <1>2 DEF NoSegments
  <2>4. Chain(NoSegments, ack, to)
    BY <2>2 DEF Chain, NoSegments
  <2> QED BY <2>3, <2>4, Empty
<1>5. CASE first \in 1 .. Len(q)
  <2> DEFINE n == Len(q) - first + 1
  <2>1. /\ missing \in Seq(Segment) /\ Len(missing) = n /\ missing # << >>
        /\ \A i \in 1 .. n : missing[i] = q[first + i - 1]
    <3>1. missing \in Seq(Segment) /\ Len(missing) = n
      BY <1>5
    <3>2. \A i \in 1 .. n : missing[i] = q[first + i - 1]
      BY <1>5
    <3>3. n >= 1
      BY <1>5
    <3> HIDE DEF missing, n
    <3> QED BY <3>1, <3>2, <3>3
  <2>2. Head(missing) = q[first] /\ missing[1] = q[first]
    BY <2>1, <1>5
  <2>3. q[first].seq <= ack /\ q[first].seq + q[first].size > ack
    <3>1. q[first].seq + q[first].size > ack
      BY <1>1, <1>3, <1>5
    <3>2. CASE first = 1
      BY <3>1, <3>2, <1>3, <1>5
    <3>3. CASE first # 1
      <4>1. first - 1 \in 1 .. first - 1 /\ first - 1 \in 1 .. Len(q)
        BY <3>3, <1>5
      <4>2. ~(q[first - 1].seq + q[first - 1].size > ack)
        BY <4>1, <1>1, <1>3
      <4>3. q[first].seq = q[first - 1].seq + q[first - 1].size
        BY <3>3, <1>3, <1>5
      <4>4. q[first].seq \in Nat
        BY <1>3, <1>5
      <4> QED BY <3>1, <4>2, <4>3, <4>4
    <3> QED BY <3>2, <3>3
  <2> DEFINE front == [q[first] EXCEPT !.seq = ack, !.size = S!SequenceEnd(q[first]) - ack]
             r == [missing EXCEPT ![1] = front]
  <2>4. S!Unconfirmed(q, ack) = r
    <3> HIDE DEF missing
    <3>1. CASE q[first].seq < ack
      BY <3>1, <1>2, <2>1, <2>2
    <3>2. CASE q[first].seq = ack
      <4>1. front = q[first]
        <5>1. q[first] \in Segment /\ S!SequenceEnd(q[first]) = q[first].seq + q[first].size
          BY <1>3, <1>5
        <5>2. S!SequenceEnd(q[first]) - ack = q[first].size
          BY <3>2, <5>1 DEF Segment
        <5> QED BY <5>1, <5>2, <3>2 DEF Segment
      <4>2. r = missing
        <5>1. 1 \in DOMAIN missing /\ missing[1] = front
          BY <4>1, <2>1, <2>2
        <5> HIDE DEF front
        <5> QED BY <5>1, <2>1 DEF r
      <4> QED BY <4>2, <3>2, <1>2, <2>2
    <3> QED BY <3>1, <3>2, <2>3, <1>3, <1>5, SMTT(30)
  <2>5. /\ front \in Segment /\ FromClient(front) /\ front.kind = "DATA" /\ front.seq = ack
        /\ front.seq + front.size = q[first].seq + q[first].size
    <3> DEFINE size == S!SequenceEnd(q[first]) - ack
    <3>1. /\ q[first] \in Segment /\ q[first].kind = "DATA"
          /\ S!SequenceEnd(q[first]) = q[first].seq + q[first].size
          /\ q[first].seq + q[first].size <= to
      BY <1>3, <1>5
    <3>2. q[first].size \in 0 .. Mss /\ q[first].seq \in Nat
      BY <3>1 DEF Segment
    <3>3. size \in 1 .. Mss /\ ack + size = q[first].seq + q[first].size
      BY <3>1, <3>2, <2>3, SMTT(30)
    <3>4. ack \in 0 .. Payload + 2
      OBVIOUS
    <3> HIDE DEF size
    <3>5. front = [q[first] EXCEPT !.seq = ack, !.size = size]
      BY DEF size
    <3>6. front \in Segment
      <4>1. q[first] \in Segment /\ size \in 0 .. Mss
        BY <3>1, <3>3
      <4> HIDE DEF front
      <4> QED BY <4>1, <3>4, <3>5, Trimmed
    <3>7. front.kind = "DATA" /\ front.seq = ack /\ front.size = size
      BY <3>1, <3>5 DEF Segment
    <3>8. front.seq >= 1 /\ front.size >= 1 /\ front.seq + front.size <= Payload + 1
      BY <3>1, <3>2, <3>3, <3>7
    <3>9. FromClient(front)
      BY <3>6, <3>7, <3>8 DEF FromClient
    <3> QED BY <3>3, <3>6, <3>7, <3>9
  <2> HIDE DEF front
  <2>6. /\ r \in Seq(Segment) /\ Len(r) = n /\ r # << >> /\ DOMAIN r = 1 .. n
        /\ r[1] = front
        /\ \A i \in 2 .. n : r[i] = q[first + i - 1]
    <3>1. r \in Seq(Segment) /\ Len(r) = n
      BY <2>1, <2>5, SMTT(30)
    <3>2. 1 \in 1 .. n /\ DOMAIN missing = 1 .. n
      BY <2>1, <1>5
    <3>3. r[1] = front
      BY <3>2
    <3>4. \A i \in 2 .. n : r[i] = q[first + i - 1]
      <4> HIDE DEF missing
      <4> TAKE i \in 2 .. n
      <4>1. i \in 1 .. n /\ i # 1 /\ i \in DOMAIN missing
        BY <3>2, <1>5
      <4>2. r[i] = missing[i]
        BY <4>1
      <4> QED BY <4>1, <4>2, <2>1
    <3> HIDE DEF r
    <3> QED BY <3>1, <3>2, <3>3, <3>4
  <2> HIDE DEF r, missing
  <2>7. ASSUME NEW i \in 1 .. n
        PROVE  /\ FromClient(r[i]) /\ r[i].kind = "DATA"
               /\ r[i].seq = (IF i = 1 THEN ack ELSE r[i - 1].seq + r[i - 1].size)
               /\ r[i].seq + r[i].size <= to
    <3>1. CASE i = 1
      <4>1. q[first].seq + q[first].size <= to
        BY <1>3, <1>5
      <4> QED BY <3>1, <4>1, <2>5, <2>6
    <3>2. CASE i # 1
      <4> DEFINE j == first + i - 1
      <4>1. j \in 1 .. Len(q) /\ j - 1 \in 1 .. Len(q) /\ j # 1 /\ i \in 2 .. n
        BY <3>2, <1>5, <2>7
      <4>2. r[i] = q[j]
        BY <4>1, <2>6
      <4>3. r[i - 1].seq + r[i - 1].size = q[j - 1].seq + q[j - 1].size
        <5>1. CASE i = 2
          <6>1. j - 1 = first /\ i - 1 = 1
            BY <5>1, <1>5
          <6> HIDE DEF j
          <6> QED BY <6>1, <2>5, <2>6
        <5>2. CASE i # 2
          <6>1. i - 1 \in 2 .. n /\ first + (i - 1) - 1 = j - 1
            BY <5>2, <4>1, <1>5
          <6>2. r[i - 1] = q[first + (i - 1) - 1]
            BY <6>1, <2>6
          <6> HIDE DEF j
          <6> QED BY <6>1, <6>2
        <5> QED BY <5>1, <5>2
      <4> HIDE DEF j
      <4>4. q[j].seq = q[j - 1].seq + q[j - 1].size
        BY <4>1, <1>3
      <4>5. FromClient(q[j]) /\ q[j].kind = "DATA" /\ q[j].seq + q[j].size <= to
        BY <4>1, <1>3
      <4> QED BY <3>2, <4>2, <4>3, <4>4, <4>5
    <3> QED BY <3>1, <3>2
  <2>8. to = r[Len(r)].seq + r[Len(r)].size
    <3>1. to = q[Len(q)].seq + q[Len(q)].size
      BY <1>5 DEF Chain
    <3>2. CASE n = 1
      <4>1. first = Len(q)
        BY <3>2, <1>5
      <4> QED BY <3>1, <3>2, <4>1, <2>5, <2>6
    <3>3. CASE n # 1
      <4>1. n \in 2 .. n /\ first + n - 1 = Len(q)
        BY <3>3, <1>5
      <4>2. r[n] = q[Len(q)]
        BY <4>1, <2>6
      <4> QED BY <3>1, <4>2, <2>6
    <3> QED BY <3>2, <3>3
  <2>9. Chain(r, ack, to)
    BY <2>6, <2>7, <2>8 DEF Chain
  <2> QED BY <2>4, <2>6, <2>9
<1> QED BY <1>1, <1>4, <1>5

(* A Sender inside a handler: everything but its timers and its outcome    *)
(* holds all the time, and those hold again at the end.                    *)
Well(s) == s \in Sender /\ Counted(s) /\ OutOk(s) /\ FinTimed(s)
Sound(s) == Well(s) /\ Settled(s) /\ Timed(s)

(* An open connection whose stream has not been completed.                 *)
Ready(s) ==
  /\ ~s.terminated /\ ~s.finSent /\ s.handshakeCompleted
  /\ s.outcome = "" /\ s.status = "inProgress" /\ ~s.streamCompleted
  /\ s.pending # << >> => "data" \in s.armed

(* What most parts of a handler leave alone.                               *)
Same(t, s) ==
  /\ t.acknowledged = s.acknowledged /\ t.oldest = s.oldest
  /\ t.terminated = s.terminated /\ t.outcome = s.outcome
  /\ t.finAcked = s.finAcked /\ t.peerFIN = s.peerFIN /\ t.nextReceive = s.nextReceive
  /\ t.handshakeCompleted = s.handshakeCompleted /\ t.finSent = s.finSent

(* The connection has ended, and the transfer with it.                     *)
Over(t, s, outcome) ==
  /\ ~s.terminated /\ t.terminated
  /\ t.acknowledged = s.acknowledged /\ t.finAcked = s.finAcked
  /\ t.status = (IF s.status = "inProgress" THEN "failed" ELSE s.status)
  /\ t.outcome = outcome

(* The numbers of an open transfer whose FIN is not sent.                  *)
LEMMA InFlight ==
  ASSUME NEW s, Well(s), ~s.terminated, ~s.finSent, s.handshakeCompleted
  PROVE  /\ s.oldest = s.acknowledged + 1 /\ s.nextSend = Payload + 1 - s.unsent
         /\ s.toConfirm = Payload - s.acknowledged
         /\ s.oldest <= s.nextSend /\ (s.pending = << >> <=> s.oldest = s.nextSend)
         /\ Chain(s.pending, s.oldest, s.nextSend) /\ s.pending \in Seq(Segment)
         /\ s.windowEnd = s.oldest + Window /\ s.nextReceive = (IF s.peerFIN THEN 2 ELSE 1)
<1>1. s \in Sender /\ Counted(s)
  BY DEF Well
<1>2. /\ s.acknowledged \in 0 .. Payload /\ s.unsent \in 0 .. Payload
      /\ s.oldest \in Nat /\ s.nextSend \in Nat
  BY <1>1, SenderFields
<1>3. s.pending \in Seq(Segment)
  BY <1>1 DEF Sender
<1>4. /\ s.oldest = s.acknowledged + 1
      /\ s.nextSend = Payload + 1 - s.unsent + (IF s.finSent THEN 1 ELSE 0)
      /\ Chain(s.pending, s.oldest, Payload + 1 - s.unsent)
      /\ s.toConfirm = Payload - s.acknowledged
      /\ s.windowEnd = s.oldest + Window /\ s.nextReceive = (IF s.peerFIN THEN 2 ELSE 1)
  BY <1>1 DEF Counted
<1>5. s.nextSend = Payload + 1 - s.unsent
  <2>1. s.nextSend = Payload + 1 - s.unsent + (IF s.finSent THEN 1 ELSE 0)
    BY <1>4
  <2>2. (IF s.finSent THEN 1 ELSE 0) = 0
    OBVIOUS
  <2>3. Payload + 1 - s.unsent \in Int
    BY <1>2
  <2> QED BY <2>1, <2>2, <2>3
<1>6. Chain(s.pending, s.oldest, s.nextSend)
  BY <1>4, <1>5
<1>7. s.oldest <= s.nextSend /\ (s.pending = << >> <=> s.oldest = s.nextSend)
  BY <1>2, <1>3, <1>6, ChainEnds
<1> QED BY <1>3, <1>4, <1>5, <1>6, <1>7

(* Between handlers such a transfer has something to confirm and a timer   *)
(* for it.                                                                 *)
LEMMA SoundIsReady ==
  ASSUME NEW s, Sound(s), ~s.terminated, ~s.finSent, s.handshakeCompleted
  PROVE  Ready(s) /\ s.acknowledged # Payload /\ ~(s.unsent = 0 /\ s.pending = << >>)
<1>1. s.acknowledged # Payload /\ s.status = "inProgress" /\ ~s.streamCompleted /\ s.outcome = ""
  BY DEF Sound, Settled, Well, Sender
<1>2. s.pending # << >> => "data" \in s.armed
  BY DEF Sound, Timed, Well, Counted
<1>3. Well(s)
  BY DEF Sound
<1>4. /\ s.oldest = s.acknowledged + 1 /\ s.nextSend = Payload + 1 - s.unsent
      /\ (s.pending = << >> <=> s.oldest = s.nextSend)
  BY <1>3, InFlight
<1>5. s.acknowledged \in Nat /\ s.unsent \in Nat
  BY <1>3, SenderFields DEF Well
<1>6. ASSUME s.unsent = 0, s.pending = << >> PROVE FALSE
  <2>1. s.oldest = s.nextSend
    BY <1>4, <1>6
  <2>2. s.nextSend = Payload + 1
    BY <1>4, <1>6
  <2>3. s.acknowledged + 1 = Payload + 1
    BY <2>1, <2>2, <1>4
  <2>4. s.acknowledged = Payload
    BY <2>3, <1>5
  <2> QED BY <2>4, <1>1
<1> QED BY <1>1, <1>2, <1>6 DEF Ready

(* Only out changes: the type of the result,                               *)
LEMMA OutTyped ==
  ASSUME NEW s \in Sender, NEW q \in Seq(Segment)
  PROVE  [s EXCEPT !.out = q] \in Sender /\ [s EXCEPT !.out = q].out = q
BY DEF Sender

(* its counters,                                                           *)
LEMMA OutCounted ==
  ASSUME NEW s \in Sender, NEW q, Counted(s)
  PROVE  Counted([s EXCEPT !.out = q])
BY DEF Sender, Counted

(* its outcome,                                                            *)
LEMMA OutSettled ==
  ASSUME NEW s \in Sender, NEW q, Settled(s)
  PROVE  Settled([s EXCEPT !.out = q])
BY DEF Sender, Settled

(* its timers,                                                             *)
LEMMA OutTimed ==
  ASSUME NEW s \in Sender, NEW q, Timed(s)
  PROVE  Timed([s EXCEPT !.out = q])
BY DEF Sender, Timed

(* and all the rest are those of before.                                   *)
LEMMA OutSame ==
  ASSUME NEW s \in Sender, NEW q
  PROVE  LET t == [s EXCEPT !.out = q]
         IN  /\ Same(t, s) /\ t.status = s.status /\ (Ready(s) => Ready(t)) /\ t.state = s.state
             /\ FinTimed(s) => FinTimed(t)
BY DEF Sender, Same, Ready, FinTimed

(* Emit adds to what was emitted, if anything.                             *)
LEMMA EmitIs ==
  ASSUME NEW s \in Sender, OutOk(s), NEW p, FromClient(p)
  PROVE  \E q \in Seq(Segment) : /\ S!Emit(s, p) = [s EXCEPT !.out = q]
                                 /\ \A i \in DOMAIN q : FromClient(q[i])
<1>1. s.out \in Seq(Segment) /\ p \in Segment
  BY DEF Sender, FromClient
<1>2. CASE s.terminated
  <2>1. s = [s EXCEPT !.out = s.out]
    BY DEF Sender
  <2>2. S!Emit(s, p) = [s EXCEPT !.out = s.out]
    BY <2>1, <1>2, Zenon DEF S!Emit
  <2>3. \A i \in DOMAIN s.out : FromClient(s.out[i])
    BY DEF OutOk
  <2> QED BY <2>2, <2>3, <1>1, Zenon
<1>3. CASE ~s.terminated
  <2> DEFINE q == Append(s.out, p)
  <2>1. S!Emit(s, p) = [s EXCEPT !.out = q]
    BY <1>3, Zenon DEF S!Emit
  <2>2. q \in Seq(Segment) /\ DOMAIN q = 1 .. Len(s.out) + 1
    BY <1>1
  <2>3. ASSUME NEW i \in DOMAIN q PROVE FromClient(q[i])
    <3>1. CASE i = Len(s.out) + 1
      BY <3>1, <1>1
    <3>2. CASE i \in 1 .. Len(s.out)
      BY <3>2, <1>1 DEF OutOk
    <3> QED BY <3>1, <3>2, <2>2, <2>3, <1>1
  <2> HIDE DEF q
  <2> QED BY <2>1, <2>2, <2>3, Zenon
<1> QED BY <1>2, <1>3

(* Emitting changes nothing else.                                          *)
LEMMA EmitKeeps ==
  ASSUME NEW s, Well(s), NEW p, FromClient(p)
  PROVE  LET t == S!Emit(s, p)
         IN  /\ Well(t) /\ Same(t, s) /\ t.status = s.status /\ t.state = s.state
             /\ Settled(s) => Settled(t)
             /\ Timed(s) => Timed(t)
             /\ Ready(s) => Ready(t)
<1>1. s \in Sender /\ Counted(s) /\ OutOk(s) /\ FinTimed(s)
  BY DEF Well
<1>2. PICK q \in Seq(Segment) : /\ S!Emit(s, p) = [s EXCEPT !.out = q]
                                /\ \A i \in DOMAIN q : FromClient(q[i])
  BY <1>1, EmitIs
<1> DEFINE t == [s EXCEPT !.out = q]
<1>3. t \in Sender /\ t.out = q
  BY <1>1, OutTyped
<1>4. Counted(t) /\ (Settled(s) => Settled(t)) /\ (Timed(s) => Timed(t))
  BY <1>1, OutCounted, OutSettled, OutTimed
<1>5. Same(t, s) /\ t.status = s.status /\ (Ready(s) => Ready(t)) /\ t.state = s.state
      /\ FinTimed(t)
  BY <1>1, OutSame
<1> HIDE DEF t
<1>6. OutOk(t)
  BY <1>2, <1>3 DEF OutOk
<1>7. S!Emit(s, p) = t
  BY <1>2 DEF t
<1> QED BY <1>3, <1>4, <1>5, <1>6, <1>7 DEF Well

(* The end of a connection is a state of a Sender.                         *)
LEMMA ShutdownTyped ==
  ASSUME NEW s \in Sender, NEW q \in Seq(Segment), NEW a \in SUBSET SenderEvent,
         NEW o \in {"", "aborted", "reset", "finRetryLimit", "waitTimeout", "graceful"}
  PROVE  [s EXCEPT !.status = IF @ = "inProgress" THEN "failed" ELSE @,
           !.outcome = o, !.state = "closed", !.terminated = TRUE, !.armed = a,
           !.pending = q, !.retries = 0, !.duplicateACKs = 0, !.untilSeq = 0] \in Sender
BY ZenonT(30) DEF Sender

(* What ShutdownWithReason does, written out for a connection that is      *)
(* open.                                                                   *)
LEMMA ShutdownIs ==
  ASSUME NEW s \in Sender, ~s.terminated
  PROVE  S!ShutdownWithReason(s) =
          [s EXCEPT !.status = IF @ = "inProgress" THEN "failed" ELSE @,
           !.outcome = IF s.outcome = "" THEN "aborted" ELSE s.outcome,
           !.state = "closed", !.terminated = TRUE, !.armed = NoEvents,
           !.pending = NoSegments, !.retries = 0, !.duplicateACKs = 0, !.untilSeq = 0]
BY DEF S!ShutdownWithReason, NoEvents, NoSegments

(* It leaves a Sender that is over, with nothing armed.                    *)
LEMMA ShutdownSound ==
  ASSUME NEW s, Well(s), ~s.terminated, s.status # "failed",
         s.streamCompleted <=> s.status = "succeeded"
  PROVE  LET t == S!ShutdownWithReason(s)
         IN  /\ Sound(t)
             /\ Over(t, s, IF s.outcome = "" THEN "aborted" ELSE s.outcome)
<1> DEFINE t == S!ShutdownWithReason(s)
           o == IF s.outcome = "" THEN "aborted" ELSE s.outcome
<1>1. s \in Sender /\ Counted(s) /\ OutOk(s) /\ FinTimed(s)
  BY DEF Well
<1>2. o \in {"", "aborted", "reset", "finRetryLimit", "waitTimeout", "graceful"}
  BY <1>1 DEF Sender
<1>3. t \in Sender
  <2> HIDE DEF o
  <2>1. [s EXCEPT !.status = IF @ = "inProgress" THEN "failed" ELSE @,
           !.outcome = o, !.state = "closed", !.terminated = TRUE, !.armed = NoEvents,
           !.pending = NoSegments, !.retries = 0, !.duplicateACKs = 0, !.untilSeq = 0]
         \in Sender
    BY <1>1, <1>2, Empty, ShutdownTyped, ZenonT(30)
  <2> QED BY <2>1, <1>1, ShutdownIs DEF o
<1>4. Counted(t)
  BY <1>1 DEF S!ShutdownWithReason, Sender, Counted
<1>5. t.out = s.out /\ t.terminated /\ t.armed = {}
  BY <1>1 DEF S!ShutdownWithReason, Sender
<1>6. OutOk(t)
  BY <1>1, <1>5 DEF OutOk
<1>7. Settled(t)
  BY <1>1 DEF S!ShutdownWithReason, Sender, Settled
<1>8. Timed(t)
  BY <1>5 DEF Timed
<1>9. Over(t, s, o)
  BY <1>1 DEF S!ShutdownWithReason, Sender, Over
<1>10. FinTimed(t)
  BY <1>5 DEF FinTimed
<1> QED BY <1>3, <1>4, <1>6, <1>7, <1>8, <1>9, <1>10 DEF Sound, Well

(* The ways in which a connection ends.                                    *)
Outcomes == {"aborted", "reset", "finRetryLimit", "waitTimeout", "graceful"}

(* finishConnection ends it with the outcome it was given.                 *)
LEMMA FinishSound ==
  ASSUME NEW s, Well(s), ~s.terminated, s.status # "failed",
         s.streamCompleted <=> s.status = "succeeded", NEW outcome \in Outcomes
  PROVE  LET t == S!FinishConnection(s, outcome) IN Sound(t) /\ Over(t, s, outcome)
<1> DEFINE r == [s EXCEPT !.outcome = outcome]
<1>1. s \in Sender /\ Counted(s) /\ OutOk(s) /\ FinTimed(s)
  BY DEF Well
<1>2. r \in Sender
  BY <1>1 DEF Sender, Outcomes
<1>3. Counted(r)
  BY <1>1 DEF Sender, Counted
<1>4. /\ r.out = s.out /\ r.terminated = s.terminated /\ r.status = s.status
      /\ r.streamCompleted = s.streamCompleted /\ r.outcome = outcome
      /\ r.acknowledged = s.acknowledged /\ r.finAcked = s.finAcked
  BY <1>1 DEF Sender
<1>10. FinTimed(r)
  BY <1>1 DEF Sender, FinTimed
<1>5. S!FinishConnection(s, outcome) = S!ShutdownWithReason(r)
  BY DEF S!FinishConnection
<1>6. outcome # ""
  BY DEF Outcomes
<1> HIDE DEF r
<1>7. OutOk(r)
  BY <1>1, <1>4 DEF OutOk
<1>8. Well(r)
  BY <1>2, <1>3, <1>7, <1>10 DEF Well
<1>9. Sound(S!ShutdownWithReason(r)) /\ Over(S!ShutdownWithReason(r), r, outcome)
  BY <1>4, <1>6, <1>8, ShutdownSound
<1> QED BY <1>4, <1>5, <1>9 DEF Over

(* What the two lemmas above ask for holds between handlers.               *)
LEMMA SoundShutdown ==
  ASSUME NEW s, Sound(s), ~s.terminated
  PROVE  s.status # "failed" /\ (s.streamCompleted <=> s.status = "succeeded")
BY DEF Sound, Settled

-----------------------------------------------------------------------------
(* The sender inside a handler.                                            *)

(* What an operator that starts nothing leaves: events, counters, output.  *)
LEMMA ArmKeeps ==
  ASSUME NEW s, Well(s), NEW e \in SenderEvent, s.finSent \/ e \notin {"fin", "finSend"}
  PROVE  LET t == S!Arm(s, e)
         IN  /\ Well(t) /\ Same(t, s) /\ t.status = s.status /\ t.state = s.state
             /\ t.armed = s.armed \cup {e} /\ t.pending = s.pending
             /\ Settled(s) /\ ~s.terminated => Settled(t)
             /\ Timed(s) /\ ~s.terminated /\ s.handshakeStarted => Timed(t)
             /\ Ready(s) => Ready(t)
<1> DEFINE t == S!Arm(s, e)
           a == s.armed \cup {e}
<1>1. s \in Sender /\ Counted(s) /\ OutOk(s) /\ FinTimed(s)
  BY DEF Well
<1>2. a \in SUBSET SenderEvent
  BY <1>1 DEF Sender
<1>3. t = [s EXCEPT !.armed = a]
  BY DEF S!Arm
<1> HIDE DEF a
<1>4. t \in Sender
  <2>1. [s EXCEPT !.armed = a] \in Sender
    BY <1>1, <1>2 DEF Sender
  <2> QED BY <2>1, <1>3
<1>5. Counted(t)
  BY <1>1, ZenonT(30) DEF S!Arm, Sender, Counted
<1>6. t.out = s.out /\ t.armed = a /\ t.pending = s.pending
  BY <1>1, <1>3 DEF Sender
<1>7. Same(t, s) /\ t.status = s.status /\ t.state = s.state
  BY <1>1, <1>3 DEF Sender, Same
<1>8. Settled(s) /\ ~s.terminated => Settled(t)
  BY <1>1, <1>3 DEF Sender, Settled
<1>9. Timed(s) /\ ~s.terminated /\ s.handshakeStarted => Timed(t)
  <2>1. /\ t.handshakeStarted = s.handshakeStarted /\ t.terminated = s.terminated
        /\ t.handshakeCompleted = s.handshakeCompleted /\ t.finSent = s.finSent
        /\ t.finAcked = s.finAcked
    BY <1>1, <1>3 DEF Sender
  <2>2. s.armed \subseteq t.armed
    BY <1>6 DEF a
  <2> HIDE DEF t
  <2> QED BY <2>1, <2>2, <1>6 DEF Timed
<1>10. Ready(s) => Ready(t)
  BY <1>1, <1>3, ZenonT(30) DEF Sender, Ready, a
<1>12. FinTimed(t)
  BY <1>1, <1>6, <1>7 DEF FinTimed, Same, a
<1> HIDE DEF t
<1>11. OutOk(t)
  BY <1>1, <1>6 DEF OutOk
<1> QED BY <1>4, <1>5, <1>6, <1>7, <1>8, <1>9, <1>10, <1>11, <1>12 DEF Well, a, t

(* Cancelling an event leaves everything but the timers as it was.         *)
LEMMA CancelKeeps ==
  ASSUME NEW s, Well(s), NEW e \in SenderEvent
  PROVE  LET t == S!Cancel(s, e)
         IN  /\ Well(t) /\ Same(t, s) /\ t.status = s.status /\ t.state = s.state
             /\ t.armed = s.armed \ {e} /\ t.pending = s.pending
             /\ t.streamCompleted = s.streamCompleted
             /\ Settled(s) => Settled(t)
<1> DEFINE t == S!Cancel(s, e)
           a == s.armed \ {e}
<1>1. s \in Sender /\ Counted(s) /\ OutOk(s) /\ FinTimed(s)
  BY DEF Well
<1>2. a \in SUBSET SenderEvent
  BY <1>1 DEF Sender
<1>3. t = [s EXCEPT !.armed = a]
  BY DEF S!Cancel
<1> HIDE DEF a
<1>4. t \in Sender
  <2>1. [s EXCEPT !.armed = a] \in Sender
    BY <1>1, <1>2 DEF Sender
  <2> QED BY <2>1, <1>3
<1>5. Counted(t)
  BY <1>1, ZenonT(30) DEF S!Cancel, Sender, Counted
<1>6. t.out = s.out /\ t.armed = a /\ t.pending = s.pending /\ t.streamCompleted = s.streamCompleted
  BY <1>1, <1>3 DEF Sender
<1>7. Same(t, s) /\ t.status = s.status /\ t.state = s.state
  BY <1>1, <1>3 DEF Sender, Same
<1>8. Settled(s) => Settled(t)
  BY <1>1, <1>3, ZenonT(30) DEF Sender, Settled, a
<1>12. FinTimed(t)
  BY <1>1, <1>6, <1>7 DEF FinTimed, Same, a
<1> HIDE DEF t
<1>11. OutOk(t)
  BY <1>1, <1>6 DEF OutOk
<1> QED BY <1>4, <1>5, <1>6, <1>7, <1>8, <1>11, <1>12 DEF Well, a, t

(* A ready sender becomes sound as soon as it has an event for its next    *)
(* segment or starts its FIN.                                              *)
LEMMA ReadySettled ==
  ASSUME NEW s, Well(s), Ready(s), s.acknowledged # Payload
  PROVE  Settled(s)
BY DEF Well, Sender, Ready, Settled

(* With something to send, or with data in flight, it is timed.            *)
LEMMA ReadyTimed ==
  ASSUME NEW s, Well(s), Ready(s), s.pending = << >> => "send" \in s.armed
  PROVE  Timed(s)
<1>1. s.handshakeStarted /\ ~s.finAcked
  BY DEF Well, Ready, Counted, Sender
<1> QED BY <1>1 DEF Ready, Timed

(* recordTransferSuccess, field by field.                                  *)
LEMMA Completed ==
  ASSUME NEW s \in Sender
  PROVE  LET r == [s EXCEPT !.streamCompleted = TRUE, !.status = "succeeded", !.requested = TRUE]
         IN  /\ r \in Sender
             /\ r.finSent = s.finSent /\ r.requested /\ r.unsent = s.unsent
             /\ r.pending = s.pending /\ r.nextSend = s.nextSend /\ r.peerFIN = s.peerFIN
             /\ r.armed = s.armed /\ r.terminated = s.terminated /\ r.status = "succeeded"
             /\ r.streamCompleted /\ r.outcome = s.outcome /\ r.acknowledged = s.acknowledged
             /\ r.finAcked = s.finAcked /\ r.out = s.out /\ r.toConfirm = s.toConfirm
             /\ r.oldest = s.oldest /\ r.windowEnd = s.windowEnd
             /\ r.handshakeStarted = s.handshakeStarted
             /\ r.handshakeCompleted = s.handshakeCompleted /\ r.nextReceive = s.nextReceive
BY DEF Sender

(* What startFINWhenDrained does to the fields of a Sender.                *)
SendsFIN(s, seq, next, state, a) ==
  [s EXCEPT !.finSent = TRUE, !.finSeq = seq, !.nextSend = next,
            !.state = state, !.armed = a, !.duplicateACKs = 0, !.untilSeq = 0]

(* The fields after it.                                                    *)
LEMMA FINSent ==
  ASSUME NEW s \in Sender, NEW seq \in 0 .. Payload + 1, NEW next \in 0 .. Payload + 2,
         NEW state \in {"lastAck", "finWait1"}, NEW a \in SUBSET SenderEvent
  PROVE  LET r == SendsFIN(s, seq, next, state, a)
         IN  /\ r \in Sender
             /\ r.finSent /\ r.finSeq = seq /\ r.nextSend = next /\ r.state = state
             /\ r.armed = a /\ r.unsent = s.unsent
             /\ r.pending = s.pending /\ r.peerFIN = s.peerFIN
             /\ r.terminated = s.terminated /\ r.status = s.status
             /\ r.streamCompleted = s.streamCompleted /\ r.outcome = s.outcome
             /\ r.acknowledged = s.acknowledged
             /\ r.finAcked = s.finAcked /\ r.out = s.out /\ r.toConfirm = s.toConfirm
             /\ r.oldest = s.oldest /\ r.windowEnd = s.windowEnd
             /\ r.handshakeStarted = s.handshakeStarted
             /\ r.handshakeCompleted = s.handshakeCompleted /\ r.nextReceive = s.nextReceive
BY DEF Sender, SendsFIN

(* When all is confirmed nothing is in flight or left.                     *)
LEMMA Drained ==
  ASSUME NEW s, Well(s), Ready(s), s.acknowledged = Payload
  PROVE  /\ s.oldest = Payload + 1 /\ s.nextSend = Payload + 1 /\ s.unsent = 0
         /\ s.pending = << >> /\ s.toConfirm = 0
<1>1. s \in Sender /\ ~s.terminated /\ ~s.finSent /\ s.handshakeCompleted
  BY DEF Well, Ready
<1>2. /\ s.oldest = s.acknowledged + 1 /\ s.nextSend = Payload + 1 - s.unsent
      /\ (s.pending = << >> <=> s.oldest = s.nextSend) /\ s.oldest <= s.nextSend
      /\ s.toConfirm = Payload - s.acknowledged
  BY <1>1, InFlight
<1>3. s.unsent \in Nat
  BY <1>1, SenderFields
<1>4. s.oldest = Payload + 1
  BY <1>2
<1>5. s.unsent = 0
  BY <1>2, <1>3, <1>4
<1>6. s.nextSend = Payload + 1
  BY <1>2, <1>5
<1>7. s.pending = << >>
  BY <1>2, <1>4, <1>6
<1>8. s.toConfirm = 0
  BY <1>2
<1> QED BY <1>4, <1>5, <1>6, <1>7, <1>8

(* Then finishStream starts the FIN, and the result is sound: the success  *)
(* is recorded, and a timer will send the FIN.                             *)
LEMMA FINStarts ==
  ASSUME NEW s, Well(s), Ready(s), s.acknowledged = Payload
  PROVE  LET t == S!FinishStream(s)
         IN  /\ Sound(t) /\ t.acknowledged = s.acknowledged /\ ~t.terminated
             /\ t.finAcked = s.finAcked /\ t.outcome = "" /\ t.peerFIN = s.peerFIN
             /\ t.handshakeCompleted
<1>1. s \in Sender /\ Counted(s) /\ OutOk(s) /\ FinTimed(s)
  BY DEF Well
<1>2. /\ ~s.terminated /\ ~s.finSent /\ s.handshakeCompleted /\ ~s.streamCompleted
      /\ s.outcome = "" /\ s.status = "inProgress"
  BY DEF Ready
<1>3. s.windowEnd = s.oldest + Window /\ s.nextReceive = (IF s.peerFIN THEN 2 ELSE 1)
  BY <1>2, InFlight
<1>4. /\ s.oldest = Payload + 1 /\ s.nextSend = Payload + 1 /\ s.unsent = 0
      /\ s.pending = << >> /\ s.toConfirm = 0
  BY Drained
<1>5. s.handshakeStarted /\ ~s.finAcked
  <2>1. s.handshakeStarted /\ (s.finAcked => s.finSent)
    BY <1>1, <1>2 DEF Counted
  <2> QED BY <2>1, <1>2
<1> DEFINE r == [s EXCEPT !.streamCompleted = TRUE, !.status = "succeeded", !.requested = TRUE]
           a == (s.armed \ {"read", "data", "send"}) \cup {"finSend"}
           last == IF s.peerFIN THEN "lastAck" ELSE "finWait1"
           seq == Payload + 1
           next == Payload + 2
           t == SendsFIN(r, seq, next, last, a)
<1>6. a \in SUBSET SenderEvent /\ "finSend" \in a
  <2>1. s.armed \in SUBSET SenderEvent
    BY <1>1 DEF Sender
  <2> QED BY <2>1 DEF SenderEvent
<1>7. last \in {"lastAck", "finWait1"}
  OBVIOUS
<1>8. S!FinishStream(s) = S!StartFINWhenDrained(r)
  BY <1>2 DEF S!FinishStream
<1>9. /\ r \in Sender
      /\ r.finSent = s.finSent /\ r.requested /\ r.unsent = s.unsent
      /\ r.pending = s.pending /\ r.nextSend = s.nextSend /\ r.peerFIN = s.peerFIN
      /\ r.armed = s.armed /\ r.terminated = s.terminated /\ r.status = "succeeded"
      /\ r.streamCompleted /\ r.outcome = s.outcome /\ r.acknowledged = s.acknowledged
      /\ r.finAcked = s.finAcked /\ r.out = s.out /\ r.toConfirm = s.toConfirm
      /\ r.oldest = s.oldest /\ r.windowEnd = s.windowEnd
      /\ r.handshakeStarted = s.handshakeStarted
      /\ r.handshakeCompleted = s.handshakeCompleted /\ r.nextReceive = s.nextReceive
  BY <1>1, Completed
<1> HIDE DEF r
<1>10. S!StartFINWhenDrained(r) = t
  <2>1. ~(r.terminated \/ r.finSent \/ ~r.requested \/ r.unsent # 0 \/ S!HasPending(r))
    BY <1>2, <1>4, <1>9 DEF S!HasPending
  <2>2. S!StartFINWhenDrained(r) =
         SendsFIN(r, r.nextSend, r.nextSend + 1,
                  IF r.peerFIN THEN "lastAck" ELSE "finWait1",
                  (r.armed \ {"read", "data", "send"}) \cup {"finSend"})
    BY <2>1 DEF S!StartFINWhenDrained, SendsFIN
  <2>3. r.nextSend = seq /\ r.nextSend + 1 = next
    BY <1>4, <1>9
  <2>4. last = (IF r.peerFIN THEN "lastAck" ELSE "finWait1")
    BY <1>9
  <2>5. a = (r.armed \ {"read", "data", "send"}) \cup {"finSend"}
    BY <1>9
  <2> HIDE DEF last, a, seq, next
  <2> QED BY <2>2, <2>3, <2>4, <2>5, Zenon
<1>11. seq \in 0 .. Payload + 1 /\ next \in 0 .. Payload + 2
  OBVIOUS
<1> HIDE DEF a, last, seq, next
<1>12. /\ t \in Sender
       /\ t.finSent /\ t.finSeq = seq /\ t.nextSend = next /\ t.state = last
       /\ t.armed = a /\ t.unsent = r.unsent
       /\ t.pending = r.pending /\ t.peerFIN = r.peerFIN
       /\ t.terminated = r.terminated /\ t.status = r.status
       /\ t.streamCompleted = r.streamCompleted /\ t.outcome = r.outcome
       /\ t.acknowledged = r.acknowledged
       /\ t.finAcked = r.finAcked /\ t.out = r.out /\ t.toConfirm = r.toConfirm
       /\ t.oldest = r.oldest /\ t.windowEnd = r.windowEnd
       /\ t.handshakeStarted = r.handshakeStarted
       /\ t.handshakeCompleted = r.handshakeCompleted /\ t.nextReceive = r.nextReceive
  <2>1. r \in Sender /\ a \in SUBSET SenderEvent
    BY <1>6, <1>9
  <2> QED BY <2>1, <1>7, <1>11, FINSent
<1> HIDE DEF t
<1>13. /\ t.unsent = 0 /\ t.pending = << >> /\ t.toConfirm = 0 /\ t.oldest = Payload + 1
       /\ t.acknowledged = Payload /\ t.windowEnd = t.oldest + Window
       /\ ~t.terminated /\ t.status = "succeeded" /\ t.streamCompleted /\ t.outcome = ""
       /\ ~t.finAcked /\ t.handshakeStarted /\ t.handshakeCompleted /\ t.out = s.out
       /\ t.nextReceive = (IF t.peerFIN THEN 2 ELSE 1) /\ t.peerFIN = s.peerFIN
  BY <1>2, <1>3, <1>4, <1>5, <1>9, <1>12, ZenonT(30)
<1>14. Counted(t)
  <2>1. t.unsent = 0 /\ t.acknowledged = Payload /\ t.oldest = Payload + 1 /\ t.pending = << >>
    BY <1>13
  <2>2. Payload + 1 - t.unsent = Payload + 1
    <3>1. Payload + 1 - 0 = Payload + 1
      OBVIOUS
    <3> QED BY <2>1, <3>1, Zenon
  <2>3. Chain(t.pending, t.oldest, Payload + 1 - t.unsent)
    <3>1. Chain(<< >>, Payload + 1, Payload + 1)
      BY DEF Chain
    <3> QED BY <2>1, <2>2, <3>1, Zenon
  <2>4. t.state # "timeWait"
    BY <1>7, <1>12
  <2>5. t.nextSend = Payload + 1 - t.unsent + (IF t.finSent THEN 1 ELSE 0)
    <3>1. t.finSent /\ t.nextSend = Payload + 2
      BY <1>12 DEF next
    <3>2. (IF t.finSent THEN 1 ELSE 0) = 1
      BY <3>1
    <3>3. Payload + 1 + 1 = Payload + 2
      OBVIOUS
    <3> QED BY <2>2, <3>1, <3>2, <3>3, Zenon
  <2>6. t.acknowledged + t.unsent <= Payload /\ t.toConfirm = Payload - t.acknowledged
    <3>1. Payload + 0 <= Payload /\ 0 = Payload - Payload
      OBVIOUS
    <3>2. t.toConfirm = 0
      BY <1>13
    <3> QED BY <2>1, <3>1, <3>2, Zenon
  <2>7. t.finSent /\ t.finSeq = Payload + 1
    BY <1>12 DEF seq
  <2> QED BY <1>13, <2>3, <2>4, <2>5, <2>6, <2>7 DEF Counted
<1>15. Settled(t)
  BY <1>12, <1>13 DEF Settled
<1>16. Timed(t)
  BY <1>6, <1>12, <1>13 DEF Timed
<1>17. OutOk(t)
  BY <1>1, <1>13 DEF OutOk
<1>18. Sound(t)
  <2>1. FinTimed(t)
    BY <1>12 DEF FinTimed
  <2> QED BY <2>1, <1>12, <1>14, <1>15, <1>16, <1>17 DEF Sound, Well
<1>19. S!FinishStream(s) = t
  BY <1>8, <1>10
<1>20. t.acknowledged = s.acknowledged /\ t.finAcked = s.finAcked
  BY <1>9, <1>12
<1> QED BY <1>13, <1>18, <1>19, <1>20

(* queueSegment inside a handler: either the stream is finished or there   *)
(* is a timer for what remains.                                            *)
LEMMA QueueReady ==
  ASSUME NEW s, Well(s), Ready(s), NEW cwnd \in {Mss, MaxWindow}
  PROVE  LET t == S!QueueSegment(s, cwnd)
         IN  /\ Sound(t) /\ t.acknowledged = s.acknowledged /\ ~t.terminated
             /\ t.finAcked = s.finAcked /\ t.outcome = "" /\ t.peerFIN = s.peerFIN
             /\ t.handshakeCompleted
<1>1. s \in Sender /\ ~s.terminated /\ ~s.finSent /\ s.handshakeCompleted /\ s.outcome = ""
  BY DEF Well, Ready
<1>2. s.acknowledged \in Nat /\ s.acknowledged <= Payload /\ s.toConfirm = Payload - s.acknowledged
  <2>1. s.toConfirm = Payload - s.acknowledged
    BY <1>1, InFlight
  <2>2. s.acknowledged \in 0 .. Payload
    BY <1>1, SenderFields
  <2> QED BY <2>1, <2>2
<1>3. CASE s.toConfirm = 0
  <2>1. s.acknowledged = Payload
    BY <1>2, <1>3
  <2>2. S!QueueSegment(s, cwnd) = S!FinishStream(s)
    BY <1>1, <1>3 DEF S!QueueSegment
  <2> QED BY <2>1, <2>2, <1>1, FINStarts
<1>4. CASE s.toConfirm # 0 /\ S!NextPayloadSize(s, cwnd) = 0
  <2>1. S!QueueSegment(s, cwnd) = s
    BY <1>1, <1>4 DEF S!QueueSegment
  <2>2. s.acknowledged # Payload
    BY <1>2, <1>4
  <2>3. s.pending # << >>
    <3>1. SUFFICES ASSUME s.pending = << >> PROVE FALSE
      OBVIOUS
    <3>2. s.oldest = s.nextSend /\ s.oldest = s.acknowledged + 1 /\ s.nextSend = Payload + 1 - s.unsent
      BY <1>1, <3>1, InFlight
    <3>3. s.unsent \in Nat
      BY <1>1, SenderFields
    <3>4. s.unsent > 0
      <4>1. SUFFICES ASSUME s.unsent = 0 PROVE FALSE
        BY <3>3
      <4>2. s.nextSend = Payload + 1
        <5>1. Payload + 1 - 0 = Payload + 1
          OBVIOUS
        <5>2. s.nextSend = Payload + 1 - s.unsent
          BY <3>2
        <5> QED BY <4>1, <5>1, <5>2, Zenon
      <4>3. s.acknowledged + 1 = Payload + 1
        BY <3>2, <4>2
      <4>4. s.acknowledged = Payload
        BY <4>3, <1>2
      <4> QED BY <4>4, <2>2
    <3>5. Counted(s)
      BY DEF Well
    <3>6. S!NextPayloadSize(s, cwnd) > 0
      BY <1>1, <3>2, <3>4, <3>5, PayloadSize
    <3> QED BY <1>4, <3>6
  <2> QED BY <2>1, <2>2, <2>3, <1>1, ReadySettled, ReadyTimed DEF Sound
<1>5. CASE s.toConfirm # 0 /\ S!NextPayloadSize(s, cwnd) # 0
  <2> DEFINE t == S!Arm(s, "send")
  <2>1. S!QueueSegment(s, cwnd) = t
    BY <1>1, <1>5 DEF S!QueueSegment
  <2>2. s.acknowledged # Payload
    BY <1>2, <1>5
  <2>3. "send" \in SenderEvent
    BY DEF SenderEvent
  <2>4. Well(t) /\ Ready(t) /\ Same(t, s) /\ "send" \in t.armed
    BY <2>3, ArmKeeps
  <2>5. t.acknowledged = s.acknowledged /\ t.finAcked = s.finAcked /\ t.peerFIN = s.peerFIN
    BY <2>4 DEF Same
  <2> HIDE DEF t
  <2>6. Sound(t)
    BY <2>2, <2>4, <2>5, ReadySettled, ReadyTimed DEF Sound
  <2> QED BY <2>1, <2>4, <2>5, <2>6 DEF Ready
<1> QED BY <1>3, <1>4, <1>5

(* What a step of a live sender that goes on leaves as it is.              *)
Kept(t, s) ==
  /\ t.acknowledged = s.acknowledged /\ t.finAcked = s.finAcked /\ t.peerFIN = s.peerFIN
  /\ t.terminated = s.terminated /\ t.outcome = s.outcome
  /\ t.handshakeCompleted = s.handshakeCompleted

(* queueSegment between handlers.                                          *)
LEMMA QueueSound ==
  ASSUME NEW s, Sound(s), NEW cwnd \in {Mss, MaxWindow}
  PROVE  LET t == S!QueueSegment(s, cwnd)
         IN  Sound(t) /\ Kept(t, s) /\ (s.terminated => t = s)
<1>1. CASE s.terminated \/ s.finSent \/ ~s.handshakeCompleted
  BY <1>1 DEF S!QueueSegment, Kept
<1>2. CASE ~(s.terminated \/ s.finSent \/ ~s.handshakeCompleted)
  <2>1. Ready(s) /\ Well(s)
    BY <1>2, SoundIsReady DEF Sound
  <2> DEFINE t == S!QueueSegment(s, cwnd)
  <2>2. /\ Sound(t) /\ t.acknowledged = s.acknowledged /\ ~t.terminated
        /\ t.finAcked = s.finAcked /\ t.outcome = "" /\ t.peerFIN = s.peerFIN
        /\ t.handshakeCompleted
    BY <2>1, QueueReady
  <2> HIDE DEF t
  <2>3. s.outcome = "" /\ s.handshakeCompleted \in BOOLEAN /\ t.handshakeCompleted \in BOOLEAN
        /\ s.terminated \in BOOLEAN /\ t.terminated \in BOOLEAN
    BY <2>1, <2>2 DEF Ready, Sound, Well, Sender
  <2> QED BY <1>2, <2>2, <2>3 DEF Kept, t
<1> QED BY <1>1, <1>2

(* A sender with nothing to send or repeat has sent its FIN already.       *)
LEMMA NotDrained ==
  ASSUME NEW s, Sound(s)
  PROVE  S!StartFINWhenDrained(s) = s
<1>1. CASE s.terminated \/ s.finSent
  BY <1>1 DEF S!StartFINWhenDrained
<1>2. CASE ~s.terminated /\ ~s.finSent /\ s.handshakeCompleted
  <2>1. ~(s.unsent = 0 /\ s.pending = << >>)
    BY <1>2, SoundIsReady
  <2> QED BY <2>1 DEF S!StartFINWhenDrained, S!HasPending
<1>3. CASE ~s.handshakeCompleted
  <2>1. s.unsent = Payload
    BY <1>3 DEF Sound, Well, Counted
  <2>2. s.unsent # 0
    BY <2>1
  <2> QED BY <2>2 DEF S!StartFINWhenDrained
<1> QED BY <1>1, <1>2, <1>3

(* What sendNext does to the fields of a Sender.                           *)
Sends(s, next, unsent, q, a) ==
  [s EXCEPT !.nextSend = next, !.unsent = unsent, !.pending = q, !.armed = a]

(* The fields after it.                                                    *)
LEMMA SendsFields ==
  ASSUME NEW s \in Sender, NEW next \in 0 .. Payload + 2, NEW unsent \in 0 .. Payload,
         NEW q \in Seq(Segment), NEW a \in SUBSET SenderEvent
  PROVE  LET r == Sends(s, next, unsent, q, a)
         IN  /\ r \in Sender
             /\ r.nextSend = next /\ r.unsent = unsent /\ r.pending = q /\ r.armed = a
             /\ r.state = s.state /\ r.out = s.out /\ r.status = s.status
             /\ r.handshakeStarted = s.handshakeStarted /\ r.finSeq = s.finSeq
             /\ r.streamCompleted = s.streamCompleted /\ r.toConfirm = s.toConfirm
             /\ r.windowEnd = s.windowEnd
             /\ Same(r, s)
BY DEF Sender, Sends, Same

(* A segment of data leaves the counters sound: the queue grows by what is *)
(* taken from the data left.                                               *)
LEMMA SendsReady ==
  ASSUME NEW s, Well(s), Ready(s), NEW size \in 1 .. Mss, size <= s.unsent,
         NEW p, FromClient(p), p.kind = "DATA", p.seq = s.nextSend, p.size = size,
         NEW a \in SUBSET SenderEvent, "data" \in a, a \cap {"fin", "finSend"} = {}
  PROVE  LET r == Sends(s, s.nextSend + size, s.unsent - size, Append(s.pending, p), a)
         IN  Well(r) /\ Ready(r) /\ Same(r, s)
<1>1. s \in Sender /\ Counted(s) /\ OutOk(s)
  BY DEF Well
<1>2. ~s.terminated /\ ~s.finSent /\ s.handshakeCompleted
  BY DEF Ready
<1>3. /\ s.oldest = s.acknowledged + 1 /\ s.nextSend = Payload + 1 - s.unsent
      /\ s.oldest <= s.nextSend
      /\ Chain(s.pending, s.oldest, s.nextSend) /\ s.pending \in Seq(Segment)
      /\ s.toConfirm = Payload - s.acknowledged
      /\ s.windowEnd = s.oldest + Window /\ s.nextReceive = (IF s.peerFIN THEN 2 ELSE 1)
  BY <1>2, InFlight
<1>4. s.unsent \in 0 .. Payload /\ s.acknowledged \in 0 .. Payload /\ s.oldest \in Nat /\ s.nextSend \in Nat
  BY <1>1, SenderFields
<1> DEFINE next == s.nextSend + size
           unsent == s.unsent - size
           q == Append(s.pending, p)
           r == Sends(s, next, unsent, q, a)
<1>5. next \in 0 .. Payload + 2 /\ unsent \in 0 .. Payload /\ next = Payload + 1 - unsent
  <2>1. s.nextSend = Payload + 1 - s.unsent
    BY <1>3
  <2>2. s.unsent \in Nat /\ s.unsent <= Payload /\ size \in Nat
    BY <1>4
  <2> QED BY <2>1, <2>2
<1>6. Chain(q, s.oldest, next) /\ q \in Seq(Segment)
  <2>1. p \in Segment
    BY DEF FromClient
  <2> QED BY <2>1, <1>3, <1>4, ChainGrows
<1>7. s.acknowledged + unsent <= Payload
  <2>1. s.oldest = s.acknowledged + 1
    BY <1>3
  <2>2. s.oldest <= s.nextSend
    BY <1>3
  <2>3. s.nextSend = Payload + 1 - s.unsent
    BY <1>3
  <2>4. s.unsent \in Nat /\ s.acknowledged \in Nat /\ size \in Nat
    BY <1>4
  <2> QED BY <2>1, <2>2, <2>3, <2>4
<1>14. s.handshakeStarted /\ (s.finAcked => s.finSent) /\ (s.state = "timeWait" => s.finAcked)
  BY <1>1, <1>2 DEF Counted
<1> HIDE DEF next, unsent, q
<1>8. /\ r \in Sender
      /\ r.nextSend = next /\ r.unsent = unsent /\ r.pending = q /\ r.armed = a
      /\ r.state = s.state /\ r.out = s.out /\ r.status = s.status
      /\ r.handshakeStarted = s.handshakeStarted
      /\ r.streamCompleted = s.streamCompleted /\ r.toConfirm = s.toConfirm
      /\ r.windowEnd = s.windowEnd
      /\ Same(r, s)
  BY <1>1, <1>5, <1>6, SendsFields
<1>9. /\ r.acknowledged = s.acknowledged /\ r.oldest = s.oldest
      /\ r.terminated = s.terminated /\ r.outcome = s.outcome
      /\ r.finAcked = s.finAcked /\ r.peerFIN = s.peerFIN /\ r.nextReceive = s.nextReceive
      /\ r.handshakeCompleted = s.handshakeCompleted /\ r.finSent = s.finSent
  BY <1>8 DEF Same
<1> HIDE DEF r
<1>10. Counted(r)
  <2>1. r.nextSend = Payload + 1 - r.unsent + (IF r.finSent THEN 1 ELSE 0)
    <3>1. (IF r.finSent THEN 1 ELSE 0) = 0
      BY <1>2, <1>9
    <3>2. Payload + 1 - unsent + 0 = Payload + 1 - unsent
      BY <1>5
    <3> QED BY <1>5, <1>8, <3>1, <3>2, Zenon
  <2>2. Chain(r.pending, r.oldest, Payload + 1 - r.unsent)
    BY <1>5, <1>6, <1>8, <1>9, Zenon
  <2> QED BY <2>1, <2>2, <1>2, <1>3, <1>7, <1>8, <1>9, <1>14 DEF Counted
<1>11. OutOk(r)
  BY <1>1, <1>8 DEF OutOk
<1>12. Ready(r)
  BY <1>8, <1>9 DEF Ready
<1>13. FinTimed(r)
  BY <1>8 DEF FinTimed
<1> QED BY <1>8, <1>10, <1>11, <1>12, <1>13 DEF Well, r, next, unsent, q

(* The event of sendNext: it sends one segment, and the timers are right   *)
(* whether or not there is more.                                           *)
LEMMA SendNewSound ==
  ASSUME NEW s, Sound(s), "send" \in s.armed, NEW cwnd \in {Mss, MaxWindow}
  PROVE  LET t == S!SendNew(s, cwnd) IN Sound(t) /\ Kept(t, s)
<1> DEFINE r == S!Cancel(s, "send")
           size == S!NextPayloadSize(r, cwnd)
           p == S!Data(r.nextSend, size, r.nextReceive)
<1>1. ~s.terminated /\ Well(s) /\ s \in Sender /\ Settled(s)
  BY DEF Sound, Settled, Well
<1>2. /\ Well(r) /\ Same(r, s) /\ r.status = s.status /\ r.state = s.state
      /\ r.armed = s.armed \ {"send"} /\ r.pending = s.pending
      /\ r.streamCompleted = s.streamCompleted /\ Settled(r)
  <2>1. "send" \in SenderEvent
    BY DEF SenderEvent
  <2> QED BY <2>1, <1>1, CancelKeeps
<1>3. /\ r.nextSend = s.nextSend /\ r.unsent = s.unsent /\ r.handshakeStarted = s.handshakeStarted
  BY <1>1 DEF S!Cancel, Sender
<1>4. /\ r.acknowledged = s.acknowledged /\ r.oldest = s.oldest
      /\ r.terminated = s.terminated /\ r.outcome = s.outcome
      /\ r.finAcked = s.finAcked /\ r.peerFIN = s.peerFIN /\ r.nextReceive = s.nextReceive
      /\ r.handshakeCompleted = s.handshakeCompleted /\ r.finSent = s.finSent
  BY <1>2 DEF Same
<1> HIDE DEF r
<1>5. /\ size \in 0 .. r.unsent /\ size <= Mss
      /\ ~r.handshakeCompleted => size = 0
      /\ /\ r.handshakeCompleted /\ ~r.finSent /\ ~r.terminated
         /\ r.unsent > 0 /\ r.nextSend = r.oldest
         => size > 0
  BY <1>2, PayloadSize DEF Well
<1>6. CASE s.finSent \/ size = 0
  <2>1. S!SendNew(s, cwnd) = r
    BY <1>6 DEF S!SendNew, r
  <2>2. Timed(r)
    <3>1. CASE s.finSent \/ ~s.handshakeCompleted
      <4>1. Timed(s) /\ (s.finSent => s.handshakeCompleted)
        BY <1>1 DEF Sound, Well, Counted
      <4> QED BY <3>1, <4>1, <1>1, <1>2, <1>3, <1>4 DEF Timed
    <3>2. CASE ~s.finSent /\ s.handshakeCompleted /\ size = 0
      <4>1. s.pending # << >>
        <5>1. SUFFICES ASSUME s.pending = << >> PROVE FALSE
          OBVIOUS
        <5>2. s.unsent # 0
          BY <5>1, <3>2, <1>1, SoundIsReady
        <5>3. s.oldest = s.nextSend
          BY <5>1, <3>2, <1>1, InFlight
        <5>4. s.unsent > 0
          BY <5>2, <1>1, SenderFields
        <5> QED BY <5>3, <5>4, <3>2, <1>1, <1>3, <1>4, <1>5
      <4>2. "data" \in s.armed /\ s.handshakeStarted /\ ~s.finAcked
        <5>1. Timed(s) /\ Counted(s)
          BY DEF Sound, Well
        <5>2. s.handshakeStarted /\ ~s.finAcked
          BY <5>1, <3>2 DEF Counted
        <5> QED BY <4>1, <3>2, <1>1, <5>1, <5>2 DEF Timed
      <4> QED BY <3>2, <4>1, <4>2, <1>1, <1>2, <1>3, <1>4 DEF Timed
    <3> QED BY <3>1, <3>2, <1>6
  <2> QED BY <2>1, <2>2, <1>2, <1>4 DEF Sound, Kept
<1>7. CASE ~s.finSent /\ size # 0
  <2>1. s.handshakeCompleted
    BY <1>5, <1>7, <1>4
  <2>2. Ready(s)
    BY <2>1, <1>1, <1>7, SoundIsReady
  <2>3. Ready(r)
    BY <2>2, <1>2, <1>4 DEF Ready
  <2>4. /\ r.oldest = r.acknowledged + 1 /\ r.nextSend = Payload + 1 - r.unsent
        /\ r.oldest <= r.nextSend /\ r.nextReceive = (IF r.peerFIN THEN 2 ELSE 1)
    BY <2>3, <1>2, InFlight DEF Ready
  <2>5. /\ r.unsent \in 0 .. Payload /\ r.acknowledged \in 0 .. Payload /\ r.oldest \in Nat
        /\ r.nextSend \in 0 .. Payload + 2 /\ r.nextSend \in Nat
    BY <1>2, SenderFields DEF Well
  <2>6. size \in 1 .. Mss /\ size <= r.unsent
    BY <1>5, <1>7, <2>5
  <2> HIDE DEF size
  <2>7. /\ FromClient(p) /\ p.kind = "DATA" /\ p.seq = r.nextSend /\ p.size = size
    <3>1. p = [kind |-> "DATA", seq |-> r.nextSend, size |-> size, ack |-> r.nextReceive]
      BY DEF S!Data
    <3>2. r.nextReceive \in 0 .. Payload + 2
      <4>1. r.nextReceive \in {1, 2}
        BY <2>4
      <4> QED BY <4>1
    <3>3. r.nextSend >= 1 /\ r.nextSend + size <= Payload + 1
      BY <2>4, <2>5, <2>6
    <3>4. size \in 0 .. Mss
      BY <2>6
    <3> HIDE DEF p
    <3>5. p \in Segment
      BY <3>1, <3>2, <3>4, <2>5 DEF Segment
    <3>6. p.kind = "DATA" /\ p.seq = r.nextSend /\ p.size = size
      BY <3>1
    <3>7. p.seq >= 1 /\ p.size >= 1 /\ p.seq + p.size <= Payload + 1
      BY <3>3, <3>6, <2>6
    <3> QED BY <3>5, <3>6, <3>7 DEF FromClient
  <2> HIDE DEF p
  <2> DEFINE a == r.armed \cup {"data"}
             u == Sends(r, r.nextSend + size, r.unsent - size, Append(r.pending, p), a)
             v == S!Emit(u, p)
  <2>8. a \in SUBSET SenderEvent /\ "data" \in a /\ a \cap {"fin", "finSend"} = {}
    <3>1. r.armed \in SUBSET SenderEvent /\ FinTimed(r)
      BY <1>2 DEF Well, Sender
    <3> QED BY <3>1, <1>4, <1>7 DEF SenderEvent, FinTimed
  <2>9. S!SendNew(s, cwnd) = S!QueueSegment(v, cwnd)
    <3>1. S!SendNew(s, cwnd) =
            S!QueueSegment(S!Emit([r EXCEPT !.nextSend = r.nextSend + size,
              !.unsent = r.unsent - size, !.pending = Append(r.pending, p), !.armed = a], p), cwnd)
      BY <1>1, <1>7 DEF S!SendNew, r, size, p
    <3> QED BY <3>1 DEF Sends
  <2> HIDE DEF a
  <2>10. Well(u) /\ Ready(u) /\ Same(u, r)
    BY <1>2, <2>3, <2>6, <2>7, <2>8, SendsReady
  <2> HIDE DEF u
  <2>11. Well(v) /\ Ready(v) /\ Same(v, u)
    BY <2>7, <2>10, EmitKeeps
  <2> HIDE DEF v
  <2> DEFINE t == S!QueueSegment(v, cwnd)
  <2>12. /\ Sound(t) /\ t.acknowledged = v.acknowledged /\ ~t.terminated
         /\ t.finAcked = v.finAcked /\ t.outcome = "" /\ t.peerFIN = v.peerFIN
         /\ t.handshakeCompleted
    BY <2>11, QueueReady
  <2> HIDE DEF t
  <2>13. /\ t.acknowledged = s.acknowledged /\ t.finAcked = s.finAcked /\ t.peerFIN = s.peerFIN
    BY <2>10, <2>11, <2>12, <1>4 DEF Same
  <2>14. /\ s.terminated \in BOOLEAN /\ t.terminated \in BOOLEAN /\ s.outcome = ""
         /\ s.handshakeCompleted \in BOOLEAN /\ t.handshakeCompleted \in BOOLEAN
    BY <2>2, <2>12, <1>1 DEF Ready, Sound, Well, Sender
  <2> QED BY <2>1, <2>9, <2>12, <2>13, <2>14, <1>1 DEF Kept, t
<1> QED BY <1>1, <1>6, <1>7

(* What a step leaves of a sender that ends, if it ends.                   *)
Ended(t, s) ==
  /\ ~s.terminated /\ t.terminated
  /\ t.acknowledged = s.acknowledged
  /\ t.status = (IF s.status = "inProgress" THEN "failed" ELSE s.status)
  /\ t.outcome \in Outcomes
  /\ t.outcome = "graceful" => t.finAcked

(* A step on an acknowledgement of ack, or of 0 when it reads none.        *)
Moved(t, s, ack) ==
  /\ s.terminated => t = s
  /\ ~s.terminated =>
       \/ Ended(t, s)
       \/ ~t.terminated /\ s.acknowledged <= t.acknowledged
          /\ (t.acknowledged # s.acknowledged => t.acknowledged < ack)
  /\ t.finAcked => s.finAcked \/ ack = Payload + 2

(* A part of a handler that keeps what the peer can see is a legal step.   *)
LEMMA KeptMoves ==
  ASSUME NEW s \in Sender, NEW t, Kept(t, s), s.terminated => t = s, NEW ack
  PROVE  Moved(t, s, ack)
<1>1. s.acknowledged \in Nat
  BY SenderFields
<1> QED BY <1>1 DEF Kept, Moved

(* So is the end of a connection, a graceful one only after the FIN was    *)
(* acknowledged.                                                           *)
LEMMA OverMoves ==
  ASSUME NEW s, NEW t, NEW outcome \in Outcomes, Over(t, s, outcome),
         outcome = "graceful" => s.finAcked, NEW ack
  PROVE  Moved(t, s, ack)
BY DEF Over, Moved, Ended

(* What retransmitOldest does to the fields of a Sender.                   *)
Repeats(s, n, q) == [s EXCEPT !.retries = n, !.out = q]

(* The type of the result.                                                 *)
LEMMA RepeatsTyped ==
  ASSUME NEW s \in Sender, NEW n \in Nat, NEW q \in Seq(Segment)
  PROVE  LET t == Repeats(s, n, q) IN t \in Sender /\ t.out = q /\ t.retries = n
BY DEF Sender, Repeats

(* Repeating a segment changes neither the counters nor the timers.        *)
LEMMA RepeatsKeeps ==
  ASSUME NEW s \in Sender, NEW n \in Nat, NEW q \in Seq(Segment)
  PROVE  LET t == Repeats(s, n, q)
         IN  /\ Counted(s) => Counted(t)
             /\ Settled(s) => Settled(t)
             /\ Timed(s) => Timed(t)
             /\ Ready(s) => Ready(t)
             /\ Same(t, s) /\ t.status = s.status /\ t.pending = s.pending
             /\ t.handshakeStarted = s.handshakeStarted /\ t.armed = s.armed
             /\ t.nextSend = s.nextSend
             /\ FinTimed(s) => FinTimed(t)
<1> DEFINE t == Repeats(s, n, q)
<1>1. Counted(s) => Counted(t)
  BY DEF Sender, Repeats, Counted
<1>2. Settled(s) => Settled(t)
  BY DEF Sender, Repeats, Settled
<1>3. Timed(s) => Timed(t)
  BY DEF Sender, Repeats, Timed
<1>4. Ready(s) => Ready(t)
  BY DEF Sender, Repeats, Ready
<1>5. Same(t, s) /\ t.status = s.status /\ t.pending = s.pending
      /\ t.handshakeStarted = s.handshakeStarted /\ t.armed = s.armed
      /\ t.nextSend = s.nextSend
  BY DEF Sender, Repeats, Same
<1>6. FinTimed(s) => FinTimed(t)
  BY DEF Sender, Repeats, FinTimed
<1> QED BY <1>1, <1>2, <1>3, <1>4, <1>5, <1>6

(* The oldest segment of the queue is one the client may send.             *)
LEMMA OldestIsData ==
  ASSUME NEW s, Well(s), ~s.terminated, s.pending # << >>
  PROVE  FromClient(Head(s.pending))
<1>1. Counted(s) /\ s.pending \in Seq(Segment)
  BY DEF Well, Sender
<1>2. s.handshakeCompleted
  BY <1>1 DEF Counted
<1>3. Chain(s.pending, s.oldest, Payload + 1 - s.unsent)
  BY <1>1, <1>2 DEF Counted
<1>4. 1 \in DOMAIN s.pending /\ Head(s.pending) = s.pending[1]
  BY <1>1
<1> QED BY <1>3, <1>4 DEF Chain

(* The successor of a number is a number.                                  *)
LEMMA NextNat == \A x \in Nat : x + 1 \in Nat
OBVIOUS

(* Emitting a segment of the client keeps OutOk.                           *)
LEMMA OutGrows ==
  ASSUME NEW q \in Seq(Segment), \A i \in DOMAIN q : FromClient(q[i]), NEW p, FromClient(p)
  PROVE  LET r == Append(q, p) IN r \in Seq(Segment) /\ \A i \in DOMAIN r : FromClient(r[i])
<1>1. p \in Segment
  BY DEF FromClient
<1> DEFINE r == Append(q, p)
<1>2. r \in Seq(Segment) /\ DOMAIN r = 1 .. Len(q) + 1
  BY <1>1
<1>3. ASSUME NEW i \in DOMAIN r PROVE FromClient(r[i])
  <2>1. CASE i = Len(q) + 1
    BY <2>1, <1>1
  <2>2. CASE i \in 1 .. Len(q)
    BY <2>2, <1>1
  <2> QED BY <2>1, <2>2, <1>2, <1>3
<1> QED BY <1>2, <1>3

(* A retransmission repeats the oldest segment, or ends the connection     *)
(* when the limit is reached.                                              *)
LEMMA RetransmitCases ==
  ASSUME NEW s, Well(s), s.status # "failed", s.streamCompleted <=> s.status = "succeeded",
         ~s.terminated => s.outcome = ""
  PROVE  LET t == S!RetransmitOldest(s)
         IN  \/ t = s /\ (s.terminated \/ s.finSent \/ s.pending = << >>)
             \/ /\ s.retries >= MaxRetransmissions
                /\ Sound(t) /\ Over(t, s, "aborted")
             \/ /\ ~s.terminated /\ ~s.finSent /\ s.pending # << >>
                /\ Well(t) /\ Same(t, s) /\ t.status = s.status /\ t.retries = s.retries + 1
                /\ t.pending = s.pending /\ t.handshakeStarted = s.handshakeStarted
                /\ t.armed = s.armed
                /\ Settled(s) => Settled(t)
                /\ Timed(s) => Timed(t)
                /\ Ready(s) => Ready(t)
<1> DEFINE t == S!RetransmitOldest(s)
<1>1. CASE s.terminated \/ s.finSent \/ s.pending = << >>
  BY <1>1 DEF S!RetransmitOldest, S!HasPending
<1>2. CASE ~(s.terminated \/ s.finSent \/ s.pending = << >>) /\ s.retries >= MaxRetransmissions
  <2>1. t = S!ShutdownWithReason(s)
    BY <1>2 DEF S!RetransmitOldest, S!HasPending
  <2>2. Sound(t) /\ Over(t, s, IF s.outcome = "" THEN "aborted" ELSE s.outcome)
    BY <2>1, <1>2, ShutdownSound
  <2> QED BY <2>2, <1>2
<1>3. CASE ~(s.terminated \/ s.finSent \/ s.pending = << >>) /\ ~(s.retries >= MaxRetransmissions)
  <2> DEFINE p == Head(s.pending)
             q == Append(s.out, p)
             n == s.retries + 1
             u == Repeats(s, n, q)
  <2>1. s \in Sender /\ Counted(s) /\ OutOk(s) /\ FinTimed(s)
    BY DEF Well
  <2>2. s.out \in Seq(Segment) /\ s.retries \in Nat /\ n \in Nat
    <3>1. s.out \in Seq(Segment)
      BY <2>1 DEF Sender
    <3>2. s.retries \in Nat
      BY <2>1 DEF Sender
    <3>3. n \in Nat
      BY <3>2, NextNat, Zenon
    <3> QED BY <3>1, <3>2, <3>3, Zenon
  <2>3. FromClient(p)
    BY <1>3, OldestIsData
  <2> HIDE DEF p
  <2>4. p \in Segment
    BY <2>3 DEF FromClient
  <2>5. q \in Seq(Segment) /\ \A i \in DOMAIN q : FromClient(q[i])
    BY <2>1, <2>2, <2>3, OutGrows DEF OutOk
  <2>6. t = u
    <3>1. [s EXCEPT !.retries = n].terminated = s.terminated
      BY <2>1 DEF Sender
    <3>2. [s EXCEPT !.retries = n].out = s.out
      BY <2>1 DEF Sender
    <3>3. t = S!Emit([s EXCEPT !.retries = n], p)
      BY <1>3 DEF S!RetransmitOldest, S!HasPending, p
    <3>4. S!Emit([s EXCEPT !.retries = n], p) = [[s EXCEPT !.retries = n] EXCEPT !.out = Append(@, p)]
      BY <3>1, <1>3 DEF S!Emit
    <3> HIDE DEF n
    <3>5. [[s EXCEPT !.retries = n] EXCEPT !.out = Append(@, p)] = [s EXCEPT !.retries = n, !.out = Append(s.out, p)]
      BY <3>2
    <3> QED BY <3>3, <3>4, <3>5 DEF Repeats
  <2> HIDE DEF q, t, n
  <2>7. u \in Sender /\ u.out = q /\ u.retries = n
    BY <2>1, <2>2, <2>5, RepeatsTyped, ZenonT(30)
  <2>8. /\ Counted(s) => Counted(u)
        /\ Settled(s) => Settled(u)
        /\ Timed(s) => Timed(u)
        /\ Ready(s) => Ready(u)
        /\ Same(u, s) /\ u.status = s.status /\ u.pending = s.pending
        /\ u.handshakeStarted = s.handshakeStarted /\ u.armed = s.armed
        /\ FinTimed(s) => FinTimed(u)
    <3>1. s \in Sender /\ n \in Nat /\ q \in Seq(Segment)
      BY <2>1, <2>2, <2>5
    <3> QED BY <3>1, RepeatsKeeps
  <2> HIDE DEF u
  <2>9. OutOk(u)
    BY <2>5, <2>7 DEF OutOk
  <2> QED BY <1>3, <2>1, <2>6, <2>7, <2>8, <2>9 DEF Well, t, n
<1> QED BY <1>1, <1>2, <1>3

(* What counting duplicates and remembering a loss change.                 *)
Notes(s, d, u) == [s EXCEPT !.duplicateACKs = d, !.untilSeq = u]

(* Noting a duplicate acknowledgement changes nothing else.                *)
LEMMA NotesKeeps ==
  ASSUME NEW s, Well(s), NEW d \in Nat, NEW u \in Nat
  PROVE  LET t == Notes(s, d, u)
         IN  /\ Well(t) /\ Same(t, s) /\ t.status = s.status /\ t.pending = s.pending
             /\ t.handshakeStarted = s.handshakeStarted /\ t.armed = s.armed
             /\ t.state = s.state /\ t.retries = s.retries /\ t.nextSend = s.nextSend
             /\ t.streamCompleted = s.streamCompleted
             /\ Settled(s) => Settled(t)
             /\ Timed(s) => Timed(t)
             /\ Ready(s) => Ready(t)
<1> DEFINE t == Notes(s, d, u)
<1>1. s \in Sender /\ Counted(s) /\ OutOk(s) /\ FinTimed(s)
  BY DEF Well
<1>9. FinTimed(t)
  BY <1>1 DEF Sender, Notes, FinTimed
<1>2. t \in Sender
  BY <1>1 DEF Sender, Notes
<1>3. Counted(t)
  BY <1>1, ZenonT(30) DEF Sender, Notes, Counted
<1>4. Settled(s) => Settled(t)
  BY <1>1 DEF Sender, Notes, Settled
<1>5. Timed(s) => Timed(t)
  BY <1>1 DEF Sender, Notes, Timed
<1>6. Ready(s) => Ready(t)
  BY <1>1 DEF Sender, Notes, Ready
<1>7. Same(t, s) /\ t.status = s.status /\ t.pending = s.pending
      /\ t.handshakeStarted = s.handshakeStarted /\ t.armed = s.armed
      /\ t.state = s.state /\ t.retries = s.retries /\ t.nextSend = s.nextSend
      /\ t.streamCompleted = s.streamCompleted /\ t.out = s.out
  BY <1>1 DEF Sender, Notes, Same
<1> HIDE DEF t
<1>8. OutOk(t)
  BY <1>1, <1>7 DEF OutOk
<1> QED BY <1>2, <1>3, <1>4, <1>5, <1>6, <1>7, <1>8, <1>9 DEF Well, t

(* Arming the retransmission deadline.                                     *)
LEMMA ArmSound ==
  ASSUME NEW s, Sound(s), ~s.terminated, s.handshakeStarted, NEW e \in SenderEvent,
         s.finSent \/ e \notin {"fin", "finSend"}
  PROVE  LET t == S!Arm(s, e) IN Sound(t) /\ Same(t, s) /\ t.status = s.status
BY ArmKeeps DEF Sound

(* Restarting the idle limit, if there is one, keeps what a Sender         *)
(* promises inside a handler                                               *)
LEMMA ArmReadKeeps ==
  ASSUME NEW s, Well(s), Ready(s)
  PROVE  LET t == S!ArmRead(s) IN Well(t) /\ Ready(t) /\ Same(t, s)
<1>1. "read" \in SenderEvent /\ "read" \notin {"fin", "finSend"}
  BY DEF SenderEvent
<1>2. CASE ClientIdleLimit
  <2> DEFINE t == S!Arm(s, "read")
  <2>1. Well(t) /\ Ready(t) /\ Same(t, s)
    BY <1>1, ArmKeeps
  <2> HIDE DEF t
  <2>2. S!ArmRead(s) = t
    BY <1>2 DEF S!ArmRead, t
  <2> QED BY <2>1, <2>2
<1>3. CASE ~ClientIdleLimit
  <2>1. S!ArmRead(s) = s
    BY <1>3 DEF S!ArmRead
  <2>2. Same(s, s)
    BY DEF Same
  <2> QED BY <2>1, <2>2
<1> QED BY <1>2, <1>3

(* and between handlers.                                                   *)
LEMMA ArmReadSound ==
  ASSUME NEW s, Sound(s), ~s.terminated, s.handshakeStarted
  PROVE  LET t == S!ArmRead(s) IN Sound(t) /\ Same(t, s) /\ t.status = s.status
<1>1. "read" \in SenderEvent /\ "read" \notin {"fin", "finSend"}
  BY DEF SenderEvent
<1>2. CASE ClientIdleLimit
  <2> DEFINE t == S!Arm(s, "read")
  <2>1. Sound(t) /\ Same(t, s) /\ t.status = s.status
    BY <1>1, ArmSound
  <2> HIDE DEF t
  <2>2. S!ArmRead(s) = t
    BY <1>2 DEF S!ArmRead, t
  <2> QED BY <2>1, <2>2
<1>3. CASE ~ClientIdleLimit
  <2>1. S!ArmRead(s) = s
    BY <1>3 DEF S!ArmRead
  <2>2. Same(s, s)
    BY DEF Same
  <2> QED BY <2>1, <2>2
<1> QED BY <1>2, <1>3

(* What most parts leave alone includes what the peer can see.             *)
LEMMA SameIsKept ==
  ASSUME NEW s, NEW t, Same(t, s)
  PROVE  Kept(t, s)
BY DEF Same, Kept

(* What is known of a Sender between handlers, one by one.                 *)
LEMMA SoundFacts ==
  ASSUME NEW s, Sound(s)
  PROVE  /\ Well(s) /\ s \in Sender /\ Settled(s) /\ Timed(s) /\ Counted(s) /\ OutOk(s)
         /\ FinTimed(s)
         /\ ~s.terminated => /\ s.outcome = "" /\ s.status # "failed"
                             /\ s.streamCompleted <=> s.status = "succeeded"
         /\ s.finSent => s.handshakeCompleted
         /\ s.handshakeCompleted => s.handshakeStarted
         /\ s.finAcked => s.finSent
<1>1. Well(s) /\ s \in Sender /\ Settled(s) /\ Timed(s) /\ Counted(s) /\ OutOk(s)
      /\ FinTimed(s)
  BY DEF Sound, Well
<1>2. ~s.terminated => /\ s.outcome = "" /\ s.status # "failed"
                       /\ s.streamCompleted <=> s.status = "succeeded"
  BY <1>1 DEF Settled
<1>3. /\ s.finSent => s.handshakeCompleted
      /\ s.handshakeCompleted => s.handshakeStarted
      /\ s.finAcked => s.finSent
  BY <1>1 DEF Counted
<1> QED BY <1>1, <1>2, <1>3

(* The fast retransmission (fastRetransmit) is sound: it repeats the       *)
(* oldest segment or, when the retries are used up, ends the connection.   *)
LEMMA FastSound ==
  ASSUME NEW s, Sound(s), ~s.terminated
  PROVE  LET t == S!FastRetransmit(s)
         IN  Sound(t) /\ (Over(t, s, "aborted") \/ Same(t, s))
<1> DEFINE r == S!RetransmitOldest(s)
<1>1. Well(s) /\ s.outcome = "" /\ s.status # "failed" /\ (s.streamCompleted <=> s.status = "succeeded")
  BY SoundFacts
<1>2. \/ r = s /\ (s.terminated \/ s.finSent \/ s.pending = << >>)
      \/ /\ s.retries >= MaxRetransmissions
         /\ Sound(r) /\ Over(r, s, "aborted")
      \/ /\ ~s.terminated /\ ~s.finSent /\ s.pending # << >>
         /\ Well(r) /\ Same(r, s) /\ r.status = s.status /\ r.retries = s.retries + 1
         /\ r.pending = s.pending /\ r.handshakeStarted = s.handshakeStarted
         /\ r.armed = s.armed
         /\ Settled(s) => Settled(r)
         /\ Timed(s) => Timed(r)
         /\ Ready(s) => Ready(r)
  BY <1>1, RetransmitCases
<1>3. S!FastRetransmit(s) = IF r = s \/ r.terminated THEN r ELSE S!Arm(r, "data")
  BY DEF S!FastRetransmit
<1> HIDE DEF r
<1>4. CASE r = s
  BY <1>3, <1>4 DEF Same
<1>5. CASE r # s /\ Sound(r) /\ Over(r, s, "aborted")
  <2>1. r.terminated
    BY <1>5 DEF Over
  <2> QED BY <1>3, <1>5, <2>1
<1>6. CASE /\ r # s /\ ~s.finSent /\ s.pending # << >>
           /\ Well(r) /\ Same(r, s) /\ r.handshakeStarted = s.handshakeStarted
           /\ Settled(s) => Settled(r)
           /\ Timed(s) => Timed(r)
  <2>1. Sound(r)
    BY <1>6, SoundFacts DEF Sound
  <2>2. ~r.terminated
    BY <1>6 DEF Same
  <2>3. r.handshakeStarted
    <3>1. s.handshakeCompleted
      BY <1>6, SoundFacts DEF Counted
    <3> QED BY <3>1, <1>6, SoundFacts
  <2>4. "data" \in SenderEvent
    BY DEF SenderEvent
  <2> DEFINE t == S!Arm(r, "data")
  <2>5. Sound(t) /\ Same(t, r)
    BY <2>1, <2>2, <2>3, <2>4, ArmSound
  <2> HIDE DEF t
  <2>6. Same(t, s)
    BY <2>5, <1>6 DEF Same
  <2> QED BY <1>3, <1>6, <2>2, <2>5, <2>6 DEF t
<1> QED BY <1>2, <1>4, <1>5, <1>6

(* The smaller of two numbers is a number.                                 *)
LEMMA SmallerOfTwo ==
  ASSUME NEW a \in Nat, NEW b \in Nat
  PROVE  S!Min({a, b}) \in Nat
<1>1. CASE a <= b
  BY <1>1 DEF S!Min
<1>2. CASE ~(a <= b)
  BY <1>2 DEF S!Min
<1> QED BY <1>1, <1>2

(* With data in flight its timer is all that is needed.                    *)
LEMMA TimedByData ==
  ASSUME NEW s, Well(s), ~s.terminated, ~s.finSent, s.handshakeCompleted,
         s.pending # << >>, "data" \in s.armed
  PROVE  Timed(s)
<1>1. s.handshakeStarted /\ ~s.finAcked
  BY DEF Well, Counted
<1> QED BY <1>1 DEF Timed

(* The retransmission timeout is sound: it repeats the oldest segment and  *)
(* arms itself again, or ends the connection.                              *)
LEMMA DataTimeoutSound ==
  ASSUME NEW s, Sound(s), "data" \in s.armed
  PROVE  LET r == S!DataTimeout(s) IN Sound(r) /\ Moved(r, s, 0)
<1> DEFINE t == S!Cancel(s, "data")
           r == S!RetransmitOldest(t)
<1>1. /\ Well(s) /\ s \in Sender /\ Settled(s) /\ Timed(s) /\ Counted(s)
      /\ s.finSent => s.handshakeCompleted
      /\ s.handshakeCompleted => s.handshakeStarted
      /\ s.finAcked => s.finSent
  BY SoundFacts
<1>2. ~s.terminated
  BY <1>1 DEF Settled
<1>3. /\ Well(t) /\ Same(t, s) /\ t.status = s.status /\ t.state = s.state
      /\ t.armed = s.armed \ {"data"} /\ t.pending = s.pending
      /\ t.streamCompleted = s.streamCompleted
      /\ Settled(s) => Settled(t)
  <2>1. "data" \in SenderEvent
    BY DEF SenderEvent
  <2> QED BY <2>1, <1>1, CancelKeeps
<1>4. t.handshakeStarted = s.handshakeStarted
  BY <1>1 DEF S!Cancel, Sender
<1>5. /\ t.acknowledged = s.acknowledged /\ t.finAcked = s.finAcked /\ t.terminated = s.terminated
      /\ t.finSent = s.finSent /\ t.handshakeCompleted = s.handshakeCompleted
      /\ t.outcome = s.outcome
  BY <1>3 DEF Same
<1>6. S!DataTimeout(s) = IF r = t \/ r.terminated THEN r
                         ELSE S!Arm([r EXCEPT !.duplicateACKs = 0, !.untilSeq = s.nextSend], "data")
  BY DEF S!DataTimeout
<1> HIDE DEF t
<1>7. t.status # "failed" /\ (t.streamCompleted <=> t.status = "succeeded") /\ t.outcome = ""
  BY <1>2, <1>3, <1>5, SoundFacts
<1>8. \/ r = t /\ (t.terminated \/ t.finSent \/ t.pending = << >>)
      \/ /\ t.retries >= MaxRetransmissions
         /\ Sound(r) /\ Over(r, t, "aborted")
      \/ /\ ~t.terminated /\ ~t.finSent /\ t.pending # << >>
         /\ Well(r) /\ Same(r, t) /\ r.status = t.status /\ r.retries = t.retries + 1
         /\ r.pending = t.pending /\ r.handshakeStarted = t.handshakeStarted
         /\ r.armed = t.armed
         /\ Settled(t) => Settled(r)
         /\ Timed(t) => Timed(r)
         /\ Ready(t) => Ready(r)
  BY <1>3, <1>7, RetransmitCases
<1> HIDE DEF r
<1>9. CASE r = t /\ (t.terminated \/ t.finSent \/ t.pending = << >>)
  <2>1. Timed(t)
    BY <1>1, <1>2, <1>3, <1>4, <1>5, <1>9 DEF Timed
  <2>2. Sound(t)
    BY <2>1, <1>1, <1>3 DEF Sound
  <2>3. Moved(t, s, 0)
    BY <1>1, <1>2, <1>3, SameIsKept, KeptMoves
  <2> QED BY <2>2, <2>3, <1>6, <1>9
<1>10. CASE Sound(r) /\ Over(r, t, "aborted")
  <2>1. r.terminated /\ Over(r, s, "aborted")
    BY <1>3, <1>5, <1>10 DEF Over
  <2>2. "aborted" \in Outcomes
    BY DEF Outcomes
  <2>3. Moved(r, s, 0)
    BY <2>1, <2>2, OverMoves
  <2> QED BY <2>1, <2>3, <1>6, <1>10
<1>11. CASE /\ ~t.terminated /\ ~t.finSent /\ t.pending # << >>
            /\ Well(r) /\ Same(r, t) /\ r.retries = t.retries + 1
            /\ r.pending = t.pending
            /\ Settled(t) => Settled(r)
  <2>1. r # t
    <3>1. t.retries \in Nat
      BY <1>3 DEF Well, Sender
    <3> QED BY <3>1, <1>11
  <2>2. r.acknowledged = s.acknowledged /\ r.finAcked = s.finAcked /\ ~r.terminated
        /\ ~r.finSent
    BY <1>2, <1>5, <1>11 DEF Same
  <2> DEFINE n == Notes(r, 0, s.nextSend)
             u == S!Arm(n, "data")
  <2>3. S!DataTimeout(s) = u
    BY <2>1, <2>2, <1>6 DEF Notes
  <2>4. 0 \in Nat /\ s.nextSend \in Nat
    BY <1>1, SenderFields
  <2>5. Well(n) /\ Same(n, r) /\ n.pending = r.pending /\ (Settled(r) => Settled(n))
    BY <2>4, <1>11, NotesKeeps
  <2> HIDE DEF n
  <2>6. "data" \in SenderEvent
    BY DEF SenderEvent
  <2>7. /\ Well(u) /\ Same(u, n) /\ u.armed = n.armed \cup {"data"} /\ u.pending = n.pending
        /\ Settled(n) /\ ~n.terminated => Settled(u)
    BY <2>5, <2>6, ArmKeeps
  <2> HIDE DEF u
  <2>8. /\ u.acknowledged = s.acknowledged /\ u.finAcked = s.finAcked /\ ~u.terminated
        /\ ~u.finSent /\ ~n.terminated
    BY <2>2, <2>5, <2>7 DEF Same
  <2>9. Settled(u)
    BY <2>5, <2>7, <2>8, <1>1, <1>3, <1>11
  <2>10. u.handshakeCompleted
    <3>1. u.pending # << >>
      BY <2>5, <2>7, <1>11
    <3> QED BY <3>1, <2>7 DEF Well, Counted
  <2>11. Timed(u)
    BY <2>5, <2>7, <2>8, <2>10, <1>11, TimedByData
  <2>12. Moved(u, s, 0)
    <3>1. s.acknowledged \in Nat
      BY <1>1, SenderFields
    <3> QED BY <3>1, <2>8, <1>2 DEF Moved
  <2> QED BY <2>3, <2>7, <2>9, <2>11, <2>12 DEF Sound
<1> QED BY <1>8, <1>9, <1>10, <1>11

(* A duplicate acknowledgement is sound.                                   *)
LEMMA DuplicateSound ==
  ASSUME NEW s, Sound(s), ~s.terminated, NEW verdict
  PROVE  LET t == S!DuplicateACK(s, verdict)
         IN  Sound(t) /\ (Over(t, s, "aborted") \/ Same(t, s))
<1> DEFINE m == S!Min({s.duplicateACKs + 1, DuplicateThreshold})
           c == Notes(s, m, s.untilSeq)
           d == Notes(s, m, s.nextSend)
<1>1. s \in Sender /\ Well(s) /\ s.nextSend \in Nat
  BY SoundFacts, SenderFields
<1>2. s.untilSeq \in Nat /\ s.duplicateACKs \in Nat
  BY <1>1 DEF Sender
<1>3. m \in Nat
  <2>1. s.duplicateACKs + 1 \in Nat
    BY <1>2, NextNat, Zenon
  <2>2. DuplicateThreshold \in Nat
    BY TcpAssumption
  <2> QED BY <2>1, <2>2, SmallerOfTwo
<1>4. [s EXCEPT !.duplicateACKs = m] = c
  <2> HIDE DEF m
  <2> QED BY <1>1 DEF Notes, Sender
<1>5. S!DuplicateACK(s, verdict) =
        IF s.untilSeq = 0 /\ s.duplicateACKs + 1 = DuplicateThreshold /\ verdict.retransmit
        THEN S!FastRetransmit([c EXCEPT !.untilSeq = s.nextSend]) ELSE c
  BY <1>4 DEF S!DuplicateACK
<1>6. [c EXCEPT !.untilSeq = s.nextSend] = d
  <2> HIDE DEF m
  <2> QED BY <1>1 DEF Notes, Sender
<1> HIDE DEF m
<1>7. Well(c) /\ Same(c, s) /\ (Settled(s) => Settled(c)) /\ (Timed(s) => Timed(c))
  BY <1>1, <1>2, <1>3, NotesKeeps
<1>8. Well(d) /\ Same(d, s) /\ d.status = s.status
      /\ (Settled(s) => Settled(d)) /\ (Timed(s) => Timed(d))
  BY <1>1, <1>3, NotesKeeps
<1> HIDE DEF c, d
<1>9. Sound(c) /\ Sound(d) /\ ~d.terminated
  BY <1>7, <1>8, SoundFacts DEF Sound, Same
<1> DEFINE f == S!FastRetransmit(d)
<1>10. Sound(f) /\ (Over(f, d, "aborted") \/ Same(f, d))
  BY <1>9, FastSound
<1> HIDE DEF f
<1>11. Over(f, s, "aborted") \/ Same(f, s)
  BY <1>8, <1>10 DEF Over, Same
<1>12. S!DuplicateACK(s, verdict) \in {c, f}
  BY <1>5, <1>6 DEF f
<1> QED BY <1>7, <1>9, <1>10, <1>11, <1>12

(* What every acknowledgement does to a Sender: the window moves and       *)
(* reading goes on.                                                        *)
Hears(s, w, a) == [s EXCEPT !.windowEnd = w, !.armed = a]

(* The fields after it.                                                    *)
LEMMA HearsFields ==
  ASSUME NEW s \in Sender, NEW w \in Nat, NEW a \in SUBSET SenderEvent
  PROVE  LET t == Hears(s, w, a)
         IN  /\ t \in Sender /\ t.windowEnd = w /\ t.armed = a
             /\ Same(t, s) /\ t.status = s.status /\ t.state = s.state
             /\ t.pending = s.pending /\ t.unsent = s.unsent /\ t.nextSend = s.nextSend
             /\ t.toConfirm = s.toConfirm /\ t.out = s.out /\ t.untilSeq = s.untilSeq
             /\ t.handshakeStarted = s.handshakeStarted
             /\ t.streamCompleted = s.streamCompleted
BY DEF Sender, Hears, Same

(* What an acknowledgement of data does to the counters and the queue.     *)
Confirms(s, ack, left, bytes, q, u) ==
  [s EXCEPT !.oldest = ack, !.toConfirm = left, !.acknowledged = bytes, !.pending = q,
            !.duplicateACKs = 0, !.untilSeq = u, !.retries = 0]

(* The type of the result.                                                 *)
LEMMA ConfirmsTyped ==
  ASSUME NEW s \in Sender, NEW ack \in 0 .. Payload + 2, NEW left \in 0 .. Payload,
         NEW bytes \in 0 .. Payload, NEW q \in Seq(Segment), NEW u \in Nat
  PROVE  Confirms(s, ack, left, bytes, q, u) \in Sender
BY DEF Sender, Confirms

(* The fields after it.                                                    *)
LEMMA ConfirmsFields ==
  ASSUME NEW s \in Sender, NEW ack, NEW left, NEW bytes, NEW q, NEW u
  PROVE  LET t == Confirms(s, ack, left, bytes, q, u)
         IN  /\ t.oldest = ack /\ t.toConfirm = left /\ t.acknowledged = bytes
             /\ t.pending = q /\ t.retries = 0
             /\ t.windowEnd = s.windowEnd /\ t.armed = s.armed
             /\ t.status = s.status /\ t.state = s.state
             /\ t.unsent = s.unsent /\ t.nextSend = s.nextSend /\ t.out = s.out
             /\ t.handshakeStarted = s.handshakeStarted
             /\ t.streamCompleted = s.streamCompleted
             /\ t.terminated = s.terminated /\ t.outcome = s.outcome
             /\ t.finAcked = s.finAcked /\ t.peerFIN = s.peerFIN
             /\ t.nextReceive = s.nextReceive
             /\ t.handshakeCompleted = s.handshakeCompleted /\ t.finSent = s.finSent
BY DEF Sender, Confirms

(* An acknowledgement up to a position, all of it.                         *)
ConfirmedAt(s, ack, a, u) ==
  Confirms(Hears(s, ack + Window, a), ack, s.toConfirm - (ack - s.oldest),
           s.acknowledged + (ack - s.oldest), S!Unconfirmed(s.pending, ack), u)

(* What ConfirmPayload has before it looks at the deadline.                *)
LEMMA ConfirmedWell ==
  ASSUME NEW s, Well(s), ~s.terminated, ~s.finSent, s.handshakeCompleted,
         NEW ack \in Nat, s.oldest <= ack, ack <= s.nextSend,
         NEW a \in SUBSET SenderEvent, a \cap {"fin", "finSend"} = {}, NEW u \in Nat
  PROVE  LET t == ConfirmedAt(s, ack, a, u)
         IN  /\ Well(t) /\ t.acknowledged = ack - 1 /\ t.oldest = ack /\ t.retries = 0
             /\ t.terminated = s.terminated /\ t.outcome = s.outcome /\ t.finAcked = s.finAcked
             /\ t.peerFIN = s.peerFIN /\ t.nextReceive = s.nextReceive
             /\ t.handshakeCompleted = s.handshakeCompleted /\ t.finSent = s.finSent
             /\ t.status = s.status /\ t.streamCompleted = s.streamCompleted
             /\ t.state = s.state /\ t.nextSend = s.nextSend
<1>1. s \in Sender /\ Counted(s) /\ OutOk(s)
  BY DEF Well
<1>2. /\ s.oldest = s.acknowledged + 1 /\ s.nextSend = Payload + 1 - s.unsent
      /\ s.oldest <= s.nextSend /\ s.toConfirm = Payload - s.acknowledged
      /\ Chain(s.pending, s.oldest, s.nextSend) /\ s.pending \in Seq(Segment)
      /\ s.nextReceive = (IF s.peerFIN THEN 2 ELSE 1)
  BY InFlight
<1>3. /\ s.acknowledged \in 0 .. Payload /\ s.unsent \in 0 .. Payload /\ s.oldest \in Nat
      /\ s.nextSend \in Nat
  BY <1>1, SenderFields
<1> DEFINE w == ack + Window
           h == Hears(s, w, a)
           left == s.toConfirm - (ack - s.oldest)
           bytes == s.acknowledged + (ack - s.oldest)
           q == S!Unconfirmed(s.pending, ack)
           t == Confirms(h, ack, left, bytes, q, u)
<1>4. /\ bytes = ack - 1 /\ left = Payload - bytes /\ bytes \in 0 .. Payload /\ left \in 0 .. Payload
      /\ ack \in 0 .. Payload + 2 /\ ack = bytes + 1 /\ bytes + s.unsent <= Payload
  <2>1. s.oldest = s.acknowledged + 1 /\ s.toConfirm = Payload - s.acknowledged
    BY <1>2
  <2>2. s.nextSend = Payload + 1 - s.unsent
    BY <1>2
  <2>3. s.acknowledged \in Nat /\ s.unsent \in Nat /\ s.acknowledged <= Payload /\ s.unsent <= Payload
    BY <1>3
  <2>4. bytes = ack - 1
    BY <2>1, <2>3
  <2>5. ack >= s.acknowledged + 1 /\ ack <= Payload + 1 - s.unsent
    BY <2>1, <2>2
  <2>6. left = Payload - bytes
    BY <2>1, <2>3, <2>4
  <2> HIDE DEF left, bytes
  <2>7. bytes \in 0 .. Payload /\ bytes + s.unsent <= Payload /\ ack = bytes + 1
    BY <2>3, <2>4, <2>5
  <2>8. left \in 0 .. Payload /\ ack \in 0 .. Payload + 2
    BY <2>6, <2>7
  <2> QED BY <2>4, <2>6, <2>7, <2>8
<1>5. q \in Seq(Segment) /\ Chain(q, ack, s.nextSend)
  <2>1. s.oldest >= 1 /\ s.nextSend <= Payload + 1
    <3>1. s.oldest = s.acknowledged + 1 /\ s.nextSend = Payload + 1 - s.unsent
      BY <1>2
    <3> QED BY <3>1, <1>3
  <2> QED BY <2>1, <1>2, <1>3, ChainShrinks
<1>6. w \in Nat
  OBVIOUS
<1> HIDE DEF w, left, bytes, q
<1>7. /\ h \in Sender /\ h.windowEnd = w /\ h.armed = a
      /\ Same(h, s) /\ h.status = s.status /\ h.state = s.state
      /\ h.pending = s.pending /\ h.unsent = s.unsent /\ h.nextSend = s.nextSend
      /\ h.toConfirm = s.toConfirm /\ h.out = s.out
      /\ h.handshakeStarted = s.handshakeStarted
      /\ h.streamCompleted = s.streamCompleted
  BY <1>1, <1>6, HearsFields
<1> HIDE DEF h
<1>8. t \in Sender
  BY <1>4, <1>5, <1>7, ConfirmsTyped
<1>9. /\ t.oldest = ack /\ t.toConfirm = left /\ t.acknowledged = bytes
      /\ t.pending = q /\ t.retries = 0
      /\ t.windowEnd = h.windowEnd /\ t.armed = h.armed
      /\ t.status = h.status /\ t.state = h.state
      /\ t.unsent = h.unsent /\ t.nextSend = h.nextSend /\ t.out = h.out
      /\ t.handshakeStarted = h.handshakeStarted
      /\ t.streamCompleted = h.streamCompleted
      /\ t.terminated = h.terminated /\ t.outcome = h.outcome
      /\ t.finAcked = h.finAcked /\ t.peerFIN = h.peerFIN
      /\ t.nextReceive = h.nextReceive
      /\ t.handshakeCompleted = h.handshakeCompleted /\ t.finSent = h.finSent
  BY <1>7, ConfirmsFields
<1> HIDE DEF t
<1>10. /\ t.terminated = s.terminated /\ t.outcome = s.outcome
       /\ t.finAcked = s.finAcked /\ t.peerFIN = s.peerFIN
       /\ t.nextReceive = s.nextReceive
       /\ t.handshakeCompleted = s.handshakeCompleted /\ t.finSent = s.finSent
       /\ t.windowEnd = w /\ t.unsent = s.unsent /\ t.nextSend = s.nextSend
       /\ t.handshakeStarted = s.handshakeStarted /\ t.state = s.state /\ t.out = s.out
       /\ t.status = s.status /\ t.streamCompleted = s.streamCompleted
  BY <1>7, <1>9 DEF Same
<1>11. s.handshakeStarted /\ (s.finAcked => s.finSent) /\ (s.state = "timeWait" => s.finAcked)
  BY <1>1 DEF Counted
<1>12. Counted(t)
  <2>1. t.nextSend = Payload + 1 - t.unsent + (IF t.finSent THEN 1 ELSE 0)
    <3>1. (IF t.finSent THEN 1 ELSE 0) = 0
      BY <1>10
    <3>2. Payload + 1 - s.unsent + 0 = Payload + 1 - s.unsent
      BY <1>3
    <3>3. s.nextSend = Payload + 1 - s.unsent
      BY <1>2
    <3> QED BY <1>10, <3>1, <3>2, <3>3, Zenon
  <2>2. Chain(t.pending, t.oldest, Payload + 1 - t.unsent)
    <3>3. s.nextSend = Payload + 1 - s.unsent
      BY <1>2
    <3> QED BY <3>3, <1>5, <1>9, <1>10, Zenon
  <2>3. t.windowEnd = t.oldest + Window
    BY <1>9, <1>10 DEF w
  <2>4. t.oldest = t.acknowledged + 1 /\ t.acknowledged + t.unsent <= Payload
    BY <1>4, <1>9, <1>10, Zenon
  <2>5. t.toConfirm = Payload - t.acknowledged
    BY <1>4, <1>9, Zenon
  <2>6. t.nextReceive = (IF t.peerFIN THEN 2 ELSE 1)
    <3>1. s.nextReceive = (IF s.peerFIN THEN 2 ELSE 1)
      BY <1>2
    <3> QED BY <3>1, <1>10
  <2>7. t.handshakeCompleted /\ ~t.finSent /\ t.handshakeStarted /\ ~t.finAcked
        /\ ~(t.state = "timeWait")
    BY <1>10, <1>11
  <2> QED BY <2>1, <2>2, <2>3, <2>4, <2>5, <2>6, <2>7 DEF Counted
<1>13. OutOk(t)
  BY <1>1, <1>10 DEF OutOk
<1>14. t.acknowledged = ack - 1 /\ t.oldest = ack /\ t.retries = 0
  BY <1>4, <1>9, Zenon
<1>15. FinTimed(t)
  BY <1>7, <1>9 DEF FinTimed
<1> QED BY <1>8, <1>10, <1>12, <1>13, <1>14, <1>15 DEF Well, ConfirmedAt, t, h, w, left, bytes, q

(* The part of handleDataAck for data that is newly confirmed.             *)
Confirming(s, p, a, verdict) == S!ConfirmPayload(Hears(s, p.ack + Window, a), p, verdict)

(* What holds after it: sound, unless a FIN came with it, whose handler    *)
(* goes on from a state that is ready.                                     *)
ConfirmGives(t, s, p) ==
  /\ Well(t) /\ t.acknowledged = p.ack - 1 /\ ~t.terminated
  /\ t.finAcked = s.finAcked /\ t.outcome = "" /\ t.peerFIN = s.peerFIN
  /\ t.handshakeCompleted
  /\ p.kind # "FIN" => Sound(t)
  /\ p.kind = "FIN" =>
       Ready(t) /\ t.oldest = p.ack /\ t.nextReceive = s.nextReceive

(* Data that is newly confirmed is counted and dropped from the queue, the *)
(* timers follow, and a transfer that is now complete sends its FIN.       *)
LEMMA ConfirmSound ==
  ASSUME NEW s, Sound(s), ~s.terminated, ~s.finSent, s.handshakeCompleted,
         NEW p, p.ack \in Nat, s.oldest <= p.ack, p.ack <= s.nextSend,
         NEW verdict, verdict \in S!Verdicts,
         NEW a \in SUBSET SenderEvent, a \cap {"fin", "finSend"} = {}
  PROVE  ConfirmGives(Confirming(s, p, a, verdict), s, p)
<1> DEFINE ack == p.ack
           h == Hears(s, ack + Window, a)
           u == IF ack >= s.untilSeq THEN 0 ELSE s.untilSeq
           c == ConfirmedAt(s, ack, a, u)
           d == IF c.pending = << >> THEN S!Cancel(c, "data") ELSE S!Arm(c, "data")
           r == IF verdict.retransmit THEN S!RetransmitOldest(d) ELSE d
<1>1. Well(s) /\ s \in Sender /\ Ready(s)
  BY SoundFacts, SoundIsReady
<1>2. s.untilSeq \in Nat
  BY <1>1 DEF Sender
<1>3. u \in Nat
  BY <1>2
<1>4. /\ h.oldest = s.oldest /\ h.toConfirm = s.toConfirm /\ h.acknowledged = s.acknowledged
      /\ h.pending = s.pending /\ h.untilSeq = s.untilSeq
  BY <1>1 DEF Hears, Sender
<1>5. S!ConfirmPayload(h, p, verdict) =
        IF p.kind = "FIN" THEN r ELSE S!QueueSegment(r, verdict.cwnd)
  <2> DEFINE x == [h EXCEPT
        !.oldest = p.ack, !.toConfirm = @ - (p.ack - h.oldest), !.acknowledged = @ + (p.ack - h.oldest),
        !.pending = S!Unconfirmed(@, p.ack), !.duplicateACKs = 0,
        !.untilSeq = IF p.ack >= @ THEN 0 ELSE @, !.retries = 0]
  <2>1. x = c
    <3>1. c = Confirms(h, ack, s.toConfirm - (ack - s.oldest),
                       s.acknowledged + (ack - s.oldest), S!Unconfirmed(s.pending, ack), u)
      BY DEF ConfirmedAt
    <3> HIDE DEF h, c
    <3> QED BY <3>1, <1>4 DEF Confirms
  <2> HIDE DEF h
  <2>2. S!ConfirmPayload(h, p, verdict) =
         LET timed == IF ~S!HasPending(x) THEN S!Cancel(x, "data") ELSE S!Arm(x, "data")
             repaired == IF verdict.retransmit THEN S!RetransmitOldest(timed) ELSE timed
         IN  IF p.kind = "FIN" THEN repaired ELSE S!QueueSegment(repaired, verdict.cwnd)
    BY DEF S!ConfirmPayload
  <2> HIDE DEF x, c
  <2> QED BY <2>1, <2>2 DEF S!HasPending
<1>6. /\ Well(c) /\ c.acknowledged = ack - 1 /\ c.oldest = ack /\ c.retries = 0
      /\ c.terminated = s.terminated /\ c.outcome = s.outcome /\ c.finAcked = s.finAcked
      /\ c.peerFIN = s.peerFIN /\ c.nextReceive = s.nextReceive
      /\ c.handshakeCompleted = s.handshakeCompleted /\ c.finSent = s.finSent
      /\ c.status = s.status /\ c.streamCompleted = s.streamCompleted
  <2>1. ack \in Nat /\ s.oldest <= ack /\ ack <= s.nextSend
    OBVIOUS
  <2> HIDE DEF u, ack, d, r, h
  <2>2. Well(ConfirmedAt(s, ack, a, u))
    BY <2>1, <1>1, <1>3, ConfirmedWell
  <2>3. c.acknowledged = ack - 1 /\ c.oldest = ack /\ c.retries = 0
    BY <2>1, <1>1, <1>3, ConfirmedWell
  <2>4. c.terminated = s.terminated /\ c.outcome = s.outcome /\ c.finAcked = s.finAcked
    BY <2>1, <1>1, <1>3, ConfirmedWell
  <2>5. c.peerFIN = s.peerFIN /\ c.nextReceive = s.nextReceive
    BY <2>1, <1>1, <1>3, ConfirmedWell
  <2>6. c.handshakeCompleted = s.handshakeCompleted
    BY <2>1, <1>1, <1>3, ConfirmedWell
  <2>8. c.finSent = s.finSent
    BY <2>1, <1>1, <1>3, ConfirmedWell
  <2>7. c.status = s.status /\ c.streamCompleted = s.streamCompleted
    BY <2>1, <1>1, <1>3, ConfirmedWell
  <2> QED BY <2>2, <2>3, <2>4, <2>5, <2>6, <2>7, <2>8
<1> HIDE DEF c, h, u
<1>7. "data" \in SenderEvent
  BY DEF SenderEvent
<1> DEFINE x == S!Cancel(c, "data")
           y == S!Arm(c, "data")
<1>8. /\ Well(x) /\ Same(x, c) /\ x.status = c.status /\ x.pending = c.pending
      /\ x.streamCompleted = c.streamCompleted
  BY <1>6, <1>7, CancelKeeps
<1>9. /\ Well(y) /\ Same(y, c) /\ y.status = c.status /\ y.pending = c.pending
      /\ y.armed = c.armed \cup {"data"}
  BY <1>6, <1>7, ArmKeeps
<1>10. y.streamCompleted = c.streamCompleted /\ x.retries = c.retries /\ y.retries = c.retries
  BY <1>6, ZenonT(30) DEF Well, Sender, S!Arm, S!Cancel
<1> HIDE DEF x, y
<1>11. /\ Well(d) /\ Same(d, c) /\ d.status = c.status /\ d.streamCompleted = c.streamCompleted
       /\ d.retries = 0 /\ (d.pending # << >> => "data" \in d.armed)
  BY <1>6, <1>8, <1>9, <1>10 DEF x, y
<1> HIDE DEF d
<1>12. Ready(d)
  BY <1>1, <1>6, <1>11 DEF Ready, Same
<1>13. Well(r) /\ Ready(r) /\ Same(r, d)
  <2>1. CASE ~verdict.retransmit
    BY <2>1, <1>11, <1>12 DEF Same
  <2>2. CASE verdict.retransmit
    <3> DEFINE v == S!RetransmitOldest(d)
    <3>1. d.status # "failed" /\ (d.streamCompleted <=> d.status = "succeeded") /\ d.outcome = ""
      BY <1>12 DEF Ready
    <3>2. \/ v = d
          \/ d.retries >= MaxRetransmissions
          \/ Well(v) /\ Same(v, d) /\ (Ready(d) => Ready(v))
      BY <3>1, <1>11, RetransmitCases
    <3>3. ~(d.retries >= MaxRetransmissions)
      BY <1>11
    <3> QED BY <2>2, <3>2, <3>3, <1>11, <1>12 DEF Same
  <2> QED BY <2>1, <2>2
<1> HIDE DEF r
<1>14. /\ r.acknowledged = ack - 1 /\ r.oldest = ack /\ r.finAcked = s.finAcked
       /\ r.peerFIN = s.peerFIN /\ r.nextReceive = s.nextReceive
  BY <1>6, <1>11, <1>13 DEF Same
<1> HIDE DEF ack
<1>15. CASE p.kind = "FIN"
  <2>1. Confirming(s, p, a, verdict) = r
    BY <1>5, <1>15 DEF h, ack, Confirming
  <2>2. ConfirmGives(r, s, p)
    BY <1>13, <1>14, <1>15 DEF ConfirmGives, Ready, ack
  <2> QED BY <2>1, <2>2
<1>16. CASE p.kind # "FIN"
  <2> DEFINE t == S!QueueSegment(r, verdict.cwnd)
  <2>1. verdict.cwnd \in {Mss, MaxWindow}
    BY DEF S!Verdicts
  <2>2. /\ Sound(t) /\ t.acknowledged = r.acknowledged /\ ~t.terminated
        /\ t.finAcked = r.finAcked /\ t.outcome = "" /\ t.peerFIN = r.peerFIN
        /\ t.handshakeCompleted
    BY <2>1, <1>13, QueueReady
  <2>3. Confirming(s, p, a, verdict) = t
    BY <1>5, <1>16 DEF h, ack, Confirming
  <2> HIDE DEF t
  <2>4. ConfirmGives(t, s, p)
    BY <2>2, <1>14, <1>16 DEF ConfirmGives, Sound, ack
  <2> QED BY <2>3, <2>4
<1> QED BY <1>15, <1>16

(* An acknowledgement that confirms nothing new is sound.                  *)
LEMMA HeardAt ==
  ASSUME NEW s, Sound(s), ~s.terminated, s.handshakeCompleted, NEW w, w = s.windowEnd
  PROVE  LET t == S!ArmRead([s EXCEPT !.windowEnd = w])
         IN  Sound(t) /\ Same(t, s) /\ t.status = s.status
<1>1. s \in Sender /\ s.handshakeStarted
  BY SoundFacts
<1>2. [s EXCEPT !.windowEnd = w] = s
  BY <1>1 DEF Sender
<1>3. Sound(S!ArmRead(s)) /\ Same(S!ArmRead(s), s) /\ S!ArmRead(s).status = s.status
  BY <1>1, ArmReadSound
<1> QED BY <1>2, <1>3

(* handleDataAck is sound for an acknowledgement of anything that was      *)
(* sent: an old one, a duplicate and a new one.                            *)
LEMMA DataAckSound ==
  ASSUME NEW s, Sound(s), ~s.terminated, ~s.finSent, s.handshakeCompleted,
         NEW p, p.ack \in Nat, p.ack <= s.nextSend, NEW verdict, verdict \in S!Verdicts
  PROVE  LET t == S!HandleDataAck(s, p, verdict)
         IN  /\ p.kind # "FIN" => Sound(t) /\ Moved(t, s, p.ack)
             /\ p.kind = "FIN" =>
                  /\ Well(t) /\ Ready(t) /\ t.peerFIN = s.peerFIN /\ t.nextReceive = s.nextReceive
                  /\ t.finAcked = s.finAcked
                  /\ t.oldest = (IF s.oldest >= p.ack THEN s.oldest ELSE p.ack)
                  /\ s.acknowledged <= t.acknowledged
                  /\ t.acknowledged # s.acknowledged => t.acknowledged < p.ack
<1> DEFINE a == IF ClientIdleLimit THEN s.armed \cup {"read"} ELSE s.armed
           h == S!ArmRead([s EXCEPT !.windowEnd = p.ack + Window])
           t == S!HandleDataAck(s, p, verdict)
<1>1. Well(s) /\ s \in Sender /\ Ready(s)
  BY SoundFacts, SoundIsReady
<1>2. /\ s.oldest = s.acknowledged + 1 /\ s.windowEnd = s.oldest + Window
      /\ (s.pending = << >> <=> s.oldest = s.nextSend)
  BY <1>1, InFlight
<1>3. s.acknowledged \in Nat /\ s.oldest \in Nat /\ s.nextSend \in Nat
  BY <1>1, SenderFields
<1>4. verdict.cwnd \in {Mss, MaxWindow}
  BY DEF S!Verdicts
<1>5. CASE p.ack < s.oldest
  <2>1. t = s
    BY <1>5 DEF S!HandleDataAck
  <2>2. s.acknowledged <= s.acknowledged /\ s.oldest >= p.ack
    BY <1>3, <1>5
  <2>3. Kept(s, s)
    BY DEF Kept
  <2>4. Moved(s, s, p.ack)
    BY <2>3, <1>1, KeptMoves
  <2> HIDE DEF t
  <2> QED BY <2>1, <2>2, <2>4, <1>1 DEF t
<1>6. CASE p.ack = s.oldest
  <2>1. Sound(h) /\ Same(h, s) /\ ~h.terminated
    <3>1. p.ack + Window = s.windowEnd
      BY <1>2, <1>6
    <3>2. Sound(h) /\ Same(h, s)
      BY <3>1, HeardAt
    <3> HIDE DEF h
    <3> QED BY <3>2 DEF Same
  <2>2. t = IF p.kind = "FIN" THEN h
            ELSE S!QueueSegment(IF S!HasPending(s) THEN S!DuplicateACK(h, verdict) ELSE h,
                                verdict.cwnd)
    <3>1. ~(p.ack < s.oldest)
      BY <1>3, <1>6
    <3> QED BY <3>1, <1>6 DEF S!HandleDataAck
  <2> HIDE DEF h, t
  <2>3. ASSUME p.kind = "FIN"
        PROVE  /\ Well(t) /\ Ready(t) /\ t.peerFIN = s.peerFIN /\ t.nextReceive = s.nextReceive
               /\ t.finAcked = s.finAcked
               /\ t.oldest = (IF s.oldest >= p.ack THEN s.oldest ELSE p.ack)
               /\ s.acknowledged <= t.acknowledged
               /\ t.acknowledged = s.acknowledged
    <3>1. t = h
      BY <2>2, <2>3
    <3>2. ~h.finSent /\ h.handshakeCompleted
      BY <2>1 DEF Same
    <3>3. Well(h) /\ Ready(h)
      BY <3>2, <2>1, SoundFacts, SoundIsReady
    <3>4. s.oldest >= p.ack
      BY <1>3, <1>6
    <3>5. h.acknowledged = s.acknowledged /\ h.oldest = s.oldest /\ h.finAcked = s.finAcked
          /\ h.peerFIN = s.peerFIN /\ h.nextReceive = s.nextReceive
      BY <2>1 DEF Same
    <3>6. s.acknowledged <= s.acknowledged
      BY <1>3
    <3> QED BY <3>1, <3>3, <3>4, <3>5, <3>6
  <2>4. ASSUME p.kind # "FIN" PROVE Sound(t) /\ Moved(t, s, p.ack)
    <3> DEFINE d == IF S!HasPending(s) THEN S!DuplicateACK(h, verdict) ELSE h
               u == S!QueueSegment(d, verdict.cwnd)
    <3>1. t = u
      BY <2>2, <2>4
    <3>2. Sound(d) /\ (Over(d, h, "aborted") \/ Same(d, h))
      <4>1. Same(h, h)
        BY DEF Same
      <4> QED BY <4>1, <2>1, DuplicateSound
    <3> HIDE DEF d
    <3>3. Sound(u) /\ Kept(u, d) /\ (d.terminated => u = d)
      BY <3>2, <1>4, QueueSound
    <3> HIDE DEF u
    <3>4. CASE Over(d, h, "aborted")
      <4>1. h.status = s.status /\ h.acknowledged = s.acknowledged /\ h.finAcked = s.finAcked
        <5>1. p.ack + Window = s.windowEnd
          BY <1>2, <1>6
        <5>2. h.status = s.status
          BY <5>1, HeardAt DEF h
        <5> QED BY <5>2, <2>1 DEF Same
      <4>2. Over(d, s, "aborted") /\ u = d
        BY <3>3, <3>4, <4>1 DEF Over
      <4>3. "aborted" \in Outcomes
        BY DEF Outcomes
      <4> QED BY <4>2, <4>3, <3>1, <3>3, OverMoves
    <3>5. CASE Same(d, h)
      <4>1. Kept(u, s)
        BY <2>1, <3>3, <3>5 DEF Same, Kept
      <4> QED BY <4>1, <3>1, <3>3, <1>1, KeptMoves
    <3> QED BY <3>2, <3>4, <3>5
  <2> QED BY <2>3, <2>4 DEF t
<1>7. CASE p.ack > s.oldest
  <2> DEFINE g == Hears(s, p.ack + Window, a)
             u == Confirming(s, p, a, verdict)
  <2>1. s.pending # << >>
    BY <1>2, <1>3, <1>7
  <2>2. h = g
    <3>1. CASE ClientIdleLimit
      BY <1>1, <3>1 DEF S!ArmRead, S!Arm, Hears, Sender
    <3>2. CASE ~ClientIdleLimit
      BY <1>1, <3>2 DEF S!ArmRead, Hears, Sender
    <3> QED BY <3>1, <3>2
  <2>3. t = u
    <3>1. ~(p.ack < s.oldest) /\ ~(p.ack = s.oldest)
      BY <1>3, <1>7
    <3>2. t = S!ConfirmPayload(h, p, verdict)
      BY <3>1, <2>1 DEF S!HandleDataAck, S!HasPending
    <3>3. u = S!ConfirmPayload(g, p, verdict)
      BY DEF Confirming
    <3> QED BY <3>2, <3>3, <2>2
  <2>4. a \in SUBSET SenderEvent /\ a \cap {"fin", "finSend"} = {}
    BY <1>1 DEF Sender, SenderEvent, Well, FinTimed
  <2>5. s.oldest <= p.ack
    BY <1>3, <1>7
  <2> HIDE DEF a
  <2>6. /\ Well(u) /\ u.acknowledged = p.ack - 1 /\ ~u.terminated
        /\ u.finAcked = s.finAcked /\ u.outcome = "" /\ u.peerFIN = s.peerFIN
        /\ u.handshakeCompleted
        /\ p.kind # "FIN" => Sound(u)
        /\ p.kind = "FIN" =>
             Ready(u) /\ u.oldest = p.ack /\ u.nextReceive = s.nextReceive
    <3> HIDE DEF t, h, g
    <3>1. ConfirmGives(u, s, p)
      BY <2>4, <2>5, ConfirmSound
    <3> QED BY <3>1 DEF ConfirmGives
  <2> HIDE DEF u, t, g, h
  <2>7. ~(s.oldest >= p.ack) /\ s.acknowledged <= u.acknowledged /\ u.acknowledged < p.ack
    <3>1. u.acknowledged = p.ack - 1 /\ s.oldest = s.acknowledged + 1
      BY <1>2, <2>6
    <3> QED BY <3>1, <1>3, <1>7
  <2>8. Moved(u, s, p.ack)
    BY <2>6, <2>7 DEF Moved
  <2> QED BY <2>3, <2>6, <2>7, <2>8 DEF t
<1> QED BY <1>3, <1>5, <1>6, <1>7

(* What handleSynAck does to the fields of a Sender.                       *)
Opens(s, w, a) ==
  [s EXCEPT !.state = "established", !.armed = a, !.retrySyn = 0, !.nextReceive = 1,
            !.oldest = 1, !.windowEnd = w, !.handshakeCompleted = TRUE]

(* The fields after it.                                                    *)
OpensGives(t, s, w, a) ==
  /\ t \in Sender /\ t.windowEnd = w /\ t.nextReceive = 1 /\ t.oldest = 1 /\ t.armed = a
  /\ t.handshakeCompleted /\ t.state = "established"
  /\ t.status = s.status /\ t.outcome = s.outcome
  /\ t.pending = s.pending /\ t.unsent = s.unsent /\ t.nextSend = s.nextSend
  /\ t.toConfirm = s.toConfirm /\ t.out = s.out /\ t.acknowledged = s.acknowledged
  /\ t.handshakeStarted = s.handshakeStarted
  /\ t.terminated = s.terminated /\ t.finSent = s.finSent /\ t.finAcked = s.finAcked
  /\ t.peerFIN = s.peerFIN /\ t.streamCompleted = s.streamCompleted

(* The type of the result.                                                 *)
LEMMA OpensTyped ==
  ASSUME NEW s \in Sender, NEW w \in Nat, NEW a \in SUBSET SenderEvent,
         NEW state \in {"established"}, NEW n \in Nat, NEW r \in 0 .. 2,
         NEW o \in 0 .. Payload + 2, NEW b \in BOOLEAN
  PROVE  [s EXCEPT !.state = state, !.armed = a, !.retrySyn = n, !.nextReceive = r,
                   !.oldest = o, !.windowEnd = w, !.handshakeCompleted = b] \in Sender
BY DEF Sender

(* The result has those fields.                                            *)
LEMMA OpensFields ==
  ASSUME NEW s \in Sender, NEW w \in Nat, NEW a \in SUBSET SenderEvent
  PROVE  OpensGives(Opens(s, w, a), s, w, a)
<1> DEFINE t == Opens(s, w, a)
<1>1. t \in Sender
  <2>1. "established" \in {"established"} /\ 0 \in Nat /\ 1 \in 0 .. 2 /\ 1 \in 0 .. Payload + 2
        /\ TRUE \in BOOLEAN
    OBVIOUS
  <2> QED BY <2>1, OpensTyped, Zenon DEF Opens
<1>2. /\ t.windowEnd = w /\ t.nextReceive = 1 /\ t.oldest = 1 /\ t.armed = a
      /\ t.handshakeCompleted /\ t.state = "established"
      /\ t.status = s.status /\ t.outcome = s.outcome
      /\ t.pending = s.pending /\ t.unsent = s.unsent /\ t.nextSend = s.nextSend
      /\ t.toConfirm = s.toConfirm /\ t.out = s.out /\ t.acknowledged = s.acknowledged
      /\ t.handshakeStarted = s.handshakeStarted
      /\ t.terminated = s.terminated /\ t.finSent = s.finSent /\ t.finAcked = s.finAcked
      /\ t.peerFIN = s.peerFIN /\ t.streamCompleted = s.streamCompleted
  BY DEF Sender, Opens
<1> HIDE DEF t
<1>3. OpensGives(t, s, w, a)
  BY <1>1, <1>2 DEF OpensGives
<1> QED BY <1>3 DEF t

(* The handshake leaves a transfer that is ready to send.                  *)
LEMMA OpensReady ==
  ASSUME NEW s, Sound(s), ~s.terminated, s.handshakeStarted, ~s.handshakeCompleted,
         NEW a \in SUBSET SenderEvent, a \cap {"fin", "finSend"} = {}
  PROVE  LET t == Opens(s, 1 + Window, a)
         IN  /\ Well(t) /\ Ready(t) /\ t.acknowledged = s.acknowledged
             /\ t.finAcked = s.finAcked
<1> DEFINE w == 1 + Window
           t == Opens(s, w, a)
<1>1. s \in Sender /\ Counted(s) /\ OutOk(s) /\ Settled(s)
  BY SoundFacts
<1>2. /\ s.oldest = 0 /\ s.nextSend = 1
      /\ s.pending = << >> /\ s.unsent = Payload
      /\ s.acknowledged = 0 /\ ~s.finSent /\ ~s.peerFIN /\ ~s.finAcked
      /\ s.toConfirm = Payload - s.acknowledged
  BY <1>1 DEF Counted
<1>3. s.outcome = "" /\ s.status = "inProgress" /\ ~s.streamCompleted
  BY <1>1, <1>2 DEF Settled, Sender
<1>4. w \in Nat
  OBVIOUS
<1> HIDE DEF w
<1>5. /\ t \in Sender /\ t.windowEnd = w /\ t.nextReceive = 1 /\ t.oldest = 1 /\ t.armed = a
      /\ t.handshakeCompleted /\ t.state = "established"
      /\ t.status = s.status /\ t.outcome = s.outcome
      /\ t.pending = s.pending /\ t.unsent = s.unsent /\ t.nextSend = s.nextSend
      /\ t.toConfirm = s.toConfirm /\ t.out = s.out /\ t.acknowledged = s.acknowledged
      /\ t.handshakeStarted = s.handshakeStarted
      /\ t.terminated = s.terminated /\ t.finSent = s.finSent /\ t.finAcked = s.finAcked
      /\ t.peerFIN = s.peerFIN /\ t.streamCompleted = s.streamCompleted
  <2> SUFFICES ASSUME TRUE PROVE OpensGives(t, s, w, a)
    BY Zenon DEF OpensGives
  <2> QED BY <1>1, <1>4, OpensFields
<1> HIDE DEF t
<1>6. Counted(t)
  <2>1. t.unsent = Payload /\ t.acknowledged = 0 /\ t.nextSend = 1 /\ t.pending = << >>
        /\ t.oldest = 1
    BY <1>2, <1>5
  <2>2. ~t.finSent /\ ~t.finAcked /\ ~t.peerFIN /\ t.handshakeStarted /\ t.handshakeCompleted
    BY <1>2, <1>5
  <2>3. Payload + 1 - Payload = 1 /\ 1 + 0 = 1 /\ 0 + 1 = 1
    OBVIOUS
  <2>4. t.nextSend = Payload + 1 - t.unsent + (IF t.finSent THEN 1 ELSE 0)
    <3>1. (IF t.finSent THEN 1 ELSE 0) = 0
      BY <2>2
    <3> QED BY <2>1, <2>3, <3>1, Zenon
  <2>5. Chain(t.pending, t.oldest, Payload + 1 - t.unsent)
    <3>1. Chain(<< >>, 1, 1)
      BY DEF Chain
    <3> QED BY <2>1, <2>3, <3>1, Zenon
  <2>6. t.windowEnd = t.oldest + Window
    BY <1>5 DEF w
  <2>7. t.acknowledged + t.unsent <= Payload /\ t.oldest = t.acknowledged + 1
    <3>1. 0 + Payload <= Payload
      OBVIOUS
    <3> QED BY <2>1, <2>3, <3>1, Zenon
  <2>8. t.toConfirm = Payload - t.acknowledged
    BY <1>2, <1>5
  <2>9. t.nextReceive = (IF t.peerFIN THEN 2 ELSE 1)
    BY <2>2, <1>5
  <2>10. ~(t.state = "timeWait")
    BY <1>5
  <2> QED BY <2>2, <2>4, <2>5, <2>6, <2>7, <2>8, <2>9, <2>10 DEF Counted
<1>7. OutOk(t)
  BY <1>1, <1>5 DEF OutOk
<1>8. Ready(t)
  BY <1>2, <1>3, <1>5 DEF Ready
<1>9. FinTimed(t)
  BY <1>5 DEF FinTimed
<1> QED BY <1>5, <1>6, <1>7, <1>8, <1>9 DEF Well, t, w

(* An acknowledgement of the client is a segment of its.                   *)
LEMMA AcksAreFromClient ==
  ASSUME NEW s \in Sender
  PROVE  FromClient(S!Ack(s.nextSend, s.nextReceive))
<1>1. s.nextSend \in 0 .. Payload + 2 /\ s.nextReceive \in 0 .. 2
  BY DEF Sender
<1>2. s.nextReceive \in 0 .. Payload + 2 /\ 0 \in 0 .. Mss
  BY <1>1
<1> QED BY <1>1, <1>2 DEF FromClient, S!Ack, Segment

(* Sending one changes nothing else, inside a handler                      *)
LEMMA AckKeeps ==
  ASSUME NEW s, Well(s)
  PROVE  LET t == S!EmitCloseACK(s)
         IN  /\ Well(t) /\ Same(t, s) /\ t.status = s.status /\ t.state = s.state
             /\ Settled(s) => Settled(t)
             /\ Timed(s) => Timed(t)
             /\ Ready(s) => Ready(t)
<1>1. FromClient(S!Ack(s.nextSend, s.nextReceive))
  BY AcksAreFromClient DEF Well
<1> QED BY <1>1, EmitKeeps DEF S!EmitCloseACK

(* and between handlers.                                                   *)
LEMMA AckSound ==
  ASSUME NEW s, Sound(s)
  PROVE  LET t == S!EmitCloseACK(s)
         IN  Sound(t) /\ Same(t, s) /\ t.status = s.status /\ t.state = s.state
BY AckKeeps DEF Sound

(* handleSynAck is sound, for the first SYN-ACK and for a repeated one.    *)
LEMMA SynAckSound ==
  ASSUME NEW s, Sound(s), ~s.terminated, ~s.finSent, NEW cwnd \in {Mss, MaxWindow}, NEW ack
  PROVE  LET t == S!HandleSynAck(s, cwnd) IN Sound(t) /\ Moved(t, s, ack)
<1>1. s \in Sender /\ Well(s) /\ (s.handshakeCompleted => s.handshakeStarted)
  BY SoundFacts
<1> DEFINE a == s.armed \ {"syn"}
           o == Opens(s, 1 + Window, a)
           x == IF s.handshakeCompleted THEN s ELSE o
           y == S!ArmRead(x)
           z == S!EmitCloseACK(y)
           t == S!QueueSegment(z, cwnd)
<1>2. CASE ~s.handshakeStarted
  <2>1. S!HandleSynAck(s, cwnd) = s
    BY <1>2 DEF S!HandleSynAck
  <2>2. Kept(s, s)
    BY DEF Kept
  <2> QED BY <2>1, <2>2, <1>1, KeptMoves
<1>3. CASE s.handshakeStarted
  <2>1. S!HandleSynAck(s, cwnd) = t
    <3>1. S!SequenceEnd(S!SynAck) = 1 /\ S!SynAck.ack = 1
      BY DEF S!SequenceEnd, S!SynAck
    <3>2. [s EXCEPT
            !.state = "established", !.armed = @ \ {"syn"}, !.retrySyn = 0,
            !.nextReceive = S!SequenceEnd(S!SynAck), !.oldest = S!SynAck.ack,
            !.windowEnd = S!SynAck.ack + Window, !.handshakeCompleted = TRUE] = o
      BY <3>1 DEF Opens
    <3> HIDE DEF o
    <3>3. S!HandleSynAck(s, cwnd) =
            S!QueueSegment(S!Emit(y, S!Ack(y.nextSend, y.nextReceive)), cwnd)
      BY <3>2, <1>3 DEF S!HandleSynAck
    <3> HIDE DEF y
    <3> QED BY <3>3 DEF S!EmitCloseACK
  <2>2. a \in SUBSET SenderEvent /\ a \cap {"fin", "finSend"} = {}
    BY <1>1 DEF SenderEvent, Sender, Well, FinTimed
  <2> HIDE DEF a
  <2>3. CASE s.handshakeCompleted
    <3>1. x = s
      BY <2>3
    <3> HIDE DEF x
    <3>2. Sound(y) /\ Same(y, s)
      BY <3>1, <1>3, ArmReadSound
    <3> HIDE DEF y
    <3>3. Sound(z) /\ Same(z, y)
      BY <3>2, AckSound
    <3> HIDE DEF z
    <3>4. Sound(t) /\ Kept(t, z)
      BY <3>3, QueueSound
    <3> HIDE DEF t
    <3>5. Kept(t, s)
      BY <3>2, <3>3, <3>4 DEF Same, Kept
    <3> QED BY <3>4, <3>5, <2>1, <1>1, KeptMoves
  <2>4. CASE ~s.handshakeCompleted
    <3>1. x = o
      BY <2>4
    <3>2. Well(o) /\ Ready(o) /\ o.acknowledged = s.acknowledged /\ o.finAcked = s.finAcked
      BY <2>2, <2>4, <1>3, OpensReady
    <3> HIDE DEF x, o
    <3>3. Well(y) /\ Ready(y) /\ Same(y, x)
      BY <3>1, <3>2, ArmReadKeeps
    <3> HIDE DEF y
    <3>4. Well(z) /\ Ready(z) /\ Same(z, y)
      BY <3>3, AckKeeps
    <3> HIDE DEF z
    <3>5. /\ Sound(t) /\ t.acknowledged = z.acknowledged /\ ~t.terminated
          /\ t.finAcked = z.finAcked
      BY <3>4, QueueReady
    <3> HIDE DEF t
    <3>6. t.acknowledged = s.acknowledged /\ t.finAcked = s.finAcked
      BY <3>1, <3>2, <3>3, <3>4, <3>5 DEF Same
    <3>7. s.acknowledged \in Nat
      BY <1>1, SenderFields
    <3>8. Moved(t, s, ack)
      BY <3>5, <3>6, <3>7 DEF Moved
    <3> QED BY <3>5, <3>8, <2>1
  <2> QED BY <2>3, <2>4
<1> QED BY <1>2, <1>3

(* The peer's end is consumed.                                             *)
Consumes(s, next, state, requested) ==
  [s EXCEPT !.peerFIN = TRUE, !.nextReceive = next, !.state = state, !.requested = requested]

(* The type of the result.                                                 *)
LEMMA ConsumesTyped ==
  ASSUME NEW s \in Sender, NEW next \in 0 .. 2, NEW requested \in BOOLEAN,
         NEW state \in {"closed", "synSent", "established", "finWait1", "finWait2", "closing",
                        "timeWait", "closeWait", "lastAck"}
  PROVE  Consumes(s, next, state, requested) \in Sender
BY DEF Sender, Consumes

(* What holds after it.                                                    *)
ConsumesGives(t, s, state) ==
  /\ Well(t) /\ t.peerFIN /\ t.state = state
  /\ t.acknowledged = s.acknowledged /\ t.terminated = s.terminated
  /\ t.outcome = s.outcome /\ t.finAcked = s.finAcked /\ t.finSent = s.finSent
  /\ t.handshakeCompleted = s.handshakeCompleted
  /\ Settled(s) => Settled(t)
  /\ Timed(s) => Timed(t)
  /\ Ready(s) => Ready(t)

(* Consuming the peer's FIN keeps what a Sender promises.                  *)
LEMMA ConsumesKeeps ==
  ASSUME NEW s, Well(s), s.handshakeCompleted, NEW next, next = 2, NEW requested \in BOOLEAN,
         NEW state \in {"closed", "synSent", "established", "finWait1", "finWait2", "closing",
                        "timeWait", "closeWait", "lastAck"},
         state = "timeWait" => s.finAcked
  PROVE  ConsumesGives(Consumes(s, next, state, requested), s, state)
<1> DEFINE t == Consumes(s, next, state, requested)
<1>1. s \in Sender /\ Counted(s) /\ OutOk(s)
  BY DEF Well
<1>11. FinTimed(t)
  BY DEF Well, Sender, Consumes, FinTimed
<1>2. next \in 0 .. 2
  OBVIOUS
<1>3. t \in Sender
  BY <1>1, <1>2, ConsumesTyped
<1>4. Counted(t)
  BY <1>1 DEF Sender, Consumes, Counted
<1>5. /\ t.peerFIN /\ t.nextReceive = next /\ t.state = state /\ t.out = s.out
      /\ t.acknowledged = s.acknowledged /\ t.terminated = s.terminated
      /\ t.outcome = s.outcome /\ t.finAcked = s.finAcked /\ t.finSent = s.finSent
      /\ t.handshakeCompleted = s.handshakeCompleted
  BY <1>1 DEF Sender, Consumes
<1>8. Settled(s) => Settled(t)
  BY <1>1 DEF Sender, Consumes, Settled
<1>9. Timed(s) => Timed(t)
  BY <1>1 DEF Sender, Consumes, Timed
<1>10. Ready(s) => Ready(t)
  BY <1>1 DEF Sender, Consumes, Ready
<1> HIDE DEF t
<1>6. OutOk(t)
  BY <1>1, <1>5 DEF OutOk
<1>7. ConsumesGives(t, s, state)
  BY <1>3, <1>4, <1>5, <1>6, <1>8, <1>9, <1>10, <1>11 DEF Well, ConsumesGives
<1> QED BY <1>7 DEF t

(* The wait that ends an orderly close.                                    *)
Waits(s, state, a) == [s EXCEPT !.state = state, !.armed = a]

(* A connection whose FIN is acknowledged waits, and then it needs no      *)
(* other timer.                                                            *)
LEMMA WaitsSound ==
  ASSUME NEW s, Well(s), Settled(s), ~s.terminated, s.finAcked,
         NEW state \in {"timeWait", "finWait2"}, NEW a \in SUBSET SenderEvent, "wait" \in a
  PROVE  LET t == Waits(s, state, a) IN Sound(t) /\ Same(t, s)
<1> DEFINE t == Waits(s, state, a)
<1>1. s \in Sender /\ Counted(s) /\ OutOk(s)
  BY DEF Well
<1>2. t \in Sender
  BY <1>1 DEF Sender, Waits
<1>3. Counted(t)
  BY <1>1 DEF Sender, Waits, Counted
<1>4. Settled(t)
  BY <1>1 DEF Sender, Waits, Settled
<1>5. Same(t, s) /\ t.armed = a /\ t.out = s.out /\ t.handshakeStarted = s.handshakeStarted
  BY <1>1 DEF Sender, Waits, Same
<1> HIDE DEF t
<1>6. Timed(t)
  <2>1. s.finSent /\ s.handshakeCompleted /\ s.handshakeStarted
    BY <1>1 DEF Counted
  <2> QED BY <2>1, <1>5 DEF Timed, Same
<1>7. OutOk(t)
  BY <1>1, <1>5 DEF OutOk
<1>8. FinTimed(t)
  BY <1>1, <1>5 DEF FinTimed, Counted, Same
<1> QED BY <1>2, <1>3, <1>4, <1>5, <1>6, <1>7, <1>8 DEF Well, Sound, t

(* enterTimeWait is sound.                                                 *)
LEMMA TimeWaitSound ==
  ASSUME NEW s, Well(s), Settled(s), ~s.terminated, s.finAcked
  PROVE  LET t == S!EnterTimeWait(s) IN Sound(t) /\ Same(t, s)
<1> DEFINE a == (s.armed \ {"fin"}) \cup {"wait"}
<1>1. a \in SUBSET SenderEvent /\ "wait" \in a
  BY DEF Well, Sender, SenderEvent
<1>2. S!EnterTimeWait(s) = Waits(s, "timeWait", a)
  BY DEF S!EnterTimeWait, Waits
<1> HIDE DEF a
<1> QED BY <1>1, <1>2, WaitsSound

(* The peer's FIN while ours has not been sent.                            *)
LEMMA FinBeforeOurs ==
  ASSUME NEW s, Well(s), Ready(s), NEW p, p.kind = "FIN", p.seq = 1,
         NEW cwnd \in {Mss, MaxWindow}
  PROVE  LET t == S!HandleFin(s, p, cwnd)
         IN  /\ s.peerFIN => Well(t) /\ Ready(t) /\ Same(t, s)
             /\ ~s.peerFIN => /\ Sound(t) /\ ~t.terminated
                              /\ t.acknowledged = s.acknowledged /\ t.finAcked = s.finAcked
<1>1. s \in Sender /\ Counted(s) /\ ~s.terminated /\ ~s.finSent /\ s.handshakeCompleted
  BY DEF Well, Ready
<1>2. s.nextReceive = (IF s.peerFIN THEN 2 ELSE 1)
  BY <1>1, InFlight
<1>3. S!SequenceEnd(p) = 2
  <2>1. S!SequenceEnd(p) = p.seq + 1
    BY DEF S!SequenceEnd
  <2> QED BY <2>1
<1>4. CASE s.peerFIN
  <2>1. s.state # "timeWait"
    BY <1>1 DEF Counted
  <2>2. S!HandleFin(s, p, cwnd) = S!EmitCloseACK(s)
    BY <2>1, <1>2, <1>3, <1>4 DEF S!HandleFin
  <2> QED BY <2>2, <1>4, AckKeeps
<1>5. CASE ~s.peerFIN
  <2> DEFINE c == Consumes(s, S!SequenceEnd(p), "closeWait", TRUE)
             d == S!EmitCloseACK(c)
             t == S!QueueSegment(d, cwnd)
  <2>1. S!HandleFin(s, p, cwnd) = S!StartFINWhenDrained(t)
    <3>1. [[s EXCEPT !.peerFIN = TRUE, !.nextReceive = S!SequenceEnd(p)]
              EXCEPT !.state = "closeWait", !.requested = TRUE] = c
      BY DEF Consumes
    <3> HIDE DEF c
    <3> QED BY <3>1, <1>1, <1>2, <1>5 DEF S!HandleFin
  <2>2. ConsumesGives(c, s, "closeWait")
    BY <1>1, <1>3, ConsumesKeeps
  <2> HIDE DEF c
  <2>3. Well(c) /\ Ready(c) /\ c.acknowledged = s.acknowledged /\ c.finAcked = s.finAcked
    BY <2>2 DEF ConsumesGives
  <2>4. Well(d) /\ Ready(d) /\ Same(d, c)
    BY <2>3, AckKeeps
  <2> HIDE DEF d
  <2>5. /\ Sound(t) /\ t.acknowledged = d.acknowledged /\ ~t.terminated
        /\ t.finAcked = d.finAcked
    BY <2>4, QueueReady
  <2> HIDE DEF t
  <2>6. S!StartFINWhenDrained(t) = t
    BY <2>5, NotDrained
  <2> QED BY <2>1, <2>3, <2>4, <2>5, <2>6, <1>5 DEF Same
<1> QED BY <1>4, <1>5

(* The peer's FIN after ours.                                              *)
LEMMA FinAfterOurs ==
  ASSUME NEW s, Sound(s), ~s.terminated, s.finSent, NEW p, p.kind = "FIN", p.seq = 1, NEW cwnd
  PROVE  LET t == S!HandleFin(s, p, cwnd)
         IN  /\ Sound(t) /\ ~t.terminated
             /\ t.acknowledged = s.acknowledged /\ t.finAcked = s.finAcked
<1>1. Well(s) /\ s \in Sender /\ Counted(s) /\ Settled(s) /\ Timed(s) /\ s.handshakeCompleted
  BY SoundFacts
<1>2. s.nextReceive = (IF s.peerFIN THEN 2 ELSE 1)
  BY <1>1 DEF Counted
<1>3. S!SequenceEnd(p) = 2
  <2>1. S!SequenceEnd(p) = p.seq + 1
    BY DEF S!SequenceEnd
  <2> QED BY <2>1
<1>4. CASE s.peerFIN
  <2> DEFINE e == IF s.state = "timeWait" THEN S!EnterTimeWait(s) ELSE s
  <2>1. S!HandleFin(s, p, cwnd) = S!EmitCloseACK(e)
    BY <1>2, <1>3, <1>4 DEF S!HandleFin
  <2>2. Sound(e) /\ Same(e, s)
    <3>1. CASE s.state = "timeWait"
      <4>1. s.finAcked
        BY <3>1, <1>1 DEF Counted
      <4> QED BY <3>1, <4>1, <1>1, TimeWaitSound
    <3>2. CASE s.state # "timeWait"
      BY <3>2 DEF Same
    <3> QED BY <3>1, <3>2
  <2> HIDE DEF e
  <2> DEFINE t == S!EmitCloseACK(e)
  <2>3. Sound(t) /\ Same(t, e)
    BY <2>2, AckSound
  <2> HIDE DEF t
  <2> QED BY <2>1, <2>2, <2>3 DEF Same, t
<1>5. CASE ~s.peerFIN
  <2> DEFINE c == Consumes(s, S!SequenceEnd(p), s.state, s.requested)
             d == Consumes(s, S!SequenceEnd(p), "closing", s.requested)
             e == IF s.finAcked THEN S!EnterTimeWait(c) ELSE d
             t == S!EmitCloseACK(e)
  <2>1. S!HandleFin(s, p, cwnd) = t
    <3>1. [s EXCEPT !.peerFIN = TRUE, !.nextReceive = S!SequenceEnd(p)] = c
      BY <1>1 DEF Consumes, Sender
    <3>2. [[s EXCEPT !.peerFIN = TRUE, !.nextReceive = S!SequenceEnd(p)]
              EXCEPT !.state = "closing"] = d
      BY <1>1 DEF Consumes, Sender
    <3> HIDE DEF c, d
    <3> QED BY <3>1, <3>2, <1>2, <1>5 DEF S!HandleFin
  <2>2. s.requested \in BOOLEAN
        /\ s.state \in {"closed", "synSent", "established", "finWait1", "finWait2", "closing",
                        "timeWait", "closeWait", "lastAck"}
    BY <1>1 DEF Sender
  <2>3. s.state = "timeWait" => s.finAcked
    BY <1>1 DEF Counted
  <2>4. ConsumesGives(c, s, s.state)
    BY <2>2, <2>3, <1>1, <1>3, ConsumesKeeps
  <2>5. ConsumesGives(d, s, "closing")
    BY <2>2, <1>1, <1>3, ConsumesKeeps
  <2> HIDE DEF c, d
  <2>6. Sound(e) /\ ~e.terminated /\ e.acknowledged = s.acknowledged /\ e.finAcked = s.finAcked
    <3>1. CASE s.finAcked
      <4>1. Well(c) /\ Settled(c) /\ ~c.terminated /\ c.finAcked
        BY <2>4, <3>1, <1>1 DEF ConsumesGives
      <4> DEFINE w == S!EnterTimeWait(c)
      <4>2. Sound(w) /\ Same(w, c)
        BY <4>1, TimeWaitSound
      <4> HIDE DEF w
      <4>3. e = w
        BY <3>1 DEF w
      <4> HIDE DEF e
      <4> QED BY <4>2, <4>3, <2>4 DEF Same, ConsumesGives
    <3>2. CASE ~s.finAcked
      <4>1. e = d
        BY <3>2
      <4> HIDE DEF e
      <4> QED BY <4>1, <2>5, <1>1 DEF ConsumesGives, Sound
    <3> QED BY <3>1, <3>2
  <2> HIDE DEF e
  <2>7. Sound(t) /\ Same(t, e)
    BY <2>6, AckSound
  <2> HIDE DEF t
  <2> QED BY <2>1, <2>6, <2>7 DEF Same
<1> QED BY <1>4, <1>5

(* What the acknowledgement of the FIN does to a Sender.                   *)
Acked(s, a) == [s EXCEPT !.finAcked = TRUE, !.armed = a]

(* All but the timers hold after it.                                       *)
LEMMA AckedWell ==
  ASSUME NEW s, Well(s), Settled(s), s.finSent, ~s.terminated, NEW a \in SUBSET SenderEvent
  PROVE  LET t == Acked(s, a)
         IN  /\ Well(t) /\ Settled(t) /\ t.finAcked
             /\ t.acknowledged = s.acknowledged /\ t.terminated = s.terminated
             /\ t.status = s.status /\ t.finSent = s.finSent /\ t.streamCompleted = s.streamCompleted
<1> DEFINE t == Acked(s, a)
<1>1. s \in Sender /\ Counted(s) /\ OutOk(s)
  BY DEF Well
<1>2. t \in Sender
  BY <1>1 DEF Sender, Acked
<1>3. Counted(t)
  BY <1>1 DEF Sender, Acked, Counted
<1>4. Settled(t)
  BY <1>1 DEF Sender, Acked, Settled
<1>5. /\ t.finAcked /\ t.out = s.out
      /\ t.acknowledged = s.acknowledged /\ t.terminated = s.terminated
      /\ t.status = s.status /\ t.finSent = s.finSent /\ t.streamCompleted = s.streamCompleted
  BY <1>1 DEF Sender, Acked
<1> HIDE DEF t
<1>6. OutOk(t)
  BY <1>1, <1>5 DEF OutOk
<1>7. FinTimed(t)
  BY <1>5 DEF FinTimed
<1> QED BY <1>2, <1>3, <1>4, <1>5, <1>6, <1>7 DEF Well, t

(* acknowledgeFIN is sound, and it takes only the acknowledgement of the   *)
(* position after the FIN.                                                 *)
LEMMA AckFINSound ==
  ASSUME NEW s, Sound(s), ~s.terminated, s.finSent, NEW ack
  PROVE  LET t == S!AcknowledgeFIN(s, ack)
         IN  /\ Sound(t) /\ Moved(t, s, ack)
             /\ ~t.terminated => t.finSent /\ t.acknowledged = s.acknowledged
<1>1. /\ Well(s) /\ s \in Sender /\ Counted(s) /\ Settled(s) /\ s.status # "failed"
      /\ s.streamCompleted <=> s.status = "succeeded"
  BY SoundFacts
<1>2. s.finSeq = Payload + 1 /\ s.acknowledged \in Nat
  BY <1>1, SenderFields DEF Counted
<1> DEFINE a == s.armed \ {"fin"}
           r == Acked(s, a)
           t == S!AcknowledgeFIN(s, ack)
<1>3. CASE s.finAcked \/ ack # s.finSeq + 1
  <2>1. t = s
    BY <1>3 DEF S!AcknowledgeFIN
  <2>2. Kept(s, s)
    BY DEF Kept
  <2> QED BY <2>1, <2>2, <1>1, KeptMoves
<1>4. CASE ~s.finAcked /\ ack = s.finSeq + 1
  <2>1. ack = Payload + 2
    BY <1>2, <1>4
  <2>2. t = IF s.state = "lastAck" THEN S!FinishConnection(r, "graceful")
            ELSE IF s.peerFIN THEN S!EnterTimeWait(r)
            ELSE S!Arm([r EXCEPT !.state = "finWait2"], "wait")
    BY <1>4 DEF S!AcknowledgeFIN, Acked
  <2>3. a \in SUBSET SenderEvent
    BY <1>1 DEF Sender
  <2> HIDE DEF a
  <2>4. /\ Well(r) /\ Settled(r) /\ r.finAcked
        /\ r.acknowledged = s.acknowledged /\ r.terminated = s.terminated
        /\ r.status = s.status /\ r.finSent = s.finSent /\ r.streamCompleted = s.streamCompleted
    BY <2>3, <1>1, AckedWell
  <2> HIDE DEF r, t
  <2>5. CASE s.state = "lastAck"
    <3>1. "graceful" \in Outcomes
      BY DEF Outcomes
    <3> DEFINE f == S!FinishConnection(r, "graceful")
    <3>2. Sound(f) /\ Over(f, r, "graceful")
      BY <3>1, <2>4, <1>1, FinishSound
    <3> HIDE DEF f
    <3>3. Ended(f, s)
      BY <3>1, <3>2, <2>4 DEF Ended, Over
    <3>4. Moved(f, s, ack) /\ f.terminated
      BY <3>3, <2>1 DEF Moved, Ended
    <3> QED BY <3>2, <3>4, <2>2, <2>5 DEF f, t
  <2>6. ASSUME NEW state \in {"timeWait", "finWait2"}, NEW e \in SUBSET SenderEvent, "wait" \in e,
               t = Waits(r, state, e)
        PROVE  Sound(t) /\ Moved(t, s, ack) /\ t.finSent /\ t.acknowledged = s.acknowledged
    <3>1. Sound(t) /\ Same(t, r)
      BY <2>4, <2>6, WaitsSound
    <3>2. ~t.terminated /\ t.acknowledged = s.acknowledged /\ t.finSent
      BY <3>1, <2>4 DEF Same
    <3>3. s.acknowledged <= t.acknowledged
      BY <3>2, <1>2
    <3> QED BY <3>1, <3>2, <3>3, <2>1 DEF Moved
  <2>7. r.armed \in SUBSET SenderEvent /\ "wait" \in SenderEvent
    BY <2>4 DEF Well, Sender, SenderEvent
  <2>8. CASE s.state # "lastAck" /\ s.peerFIN
    <3> DEFINE e == (r.armed \ {"fin"}) \cup {"wait"}
    <3>1. t = Waits(r, "timeWait", e)
      BY <2>2, <2>8 DEF S!EnterTimeWait, Waits
    <3>2. e \in SUBSET SenderEvent /\ "wait" \in e
      BY <2>7
    <3> HIDE DEF e
    <3>3. Sound(t) /\ Moved(t, s, ack) /\ t.finSent /\ t.acknowledged = s.acknowledged
      BY <3>1, <3>2, <2>6
    <3> QED BY <3>3 DEF t
  <2>9. CASE s.state # "lastAck" /\ ~s.peerFIN
    <3> DEFINE e == r.armed \cup {"wait"}
    <3>1. t = Waits(r, "finWait2", e)
      <4>1. [r EXCEPT !.state = "finWait2"].armed = r.armed
        BY <2>4 DEF Well, Sender
      <4>2. t = [[r EXCEPT !.state = "finWait2"] EXCEPT !.armed = @ \cup {"wait"}]
        BY <2>2, <2>9 DEF S!Arm
      <4> QED BY <4>1, <4>2 DEF Waits
    <3>2. e \in SUBSET SenderEvent /\ "wait" \in e
      BY <2>7
    <3> HIDE DEF e
    <3>3. Sound(t) /\ Moved(t, s, ack) /\ t.finSent /\ t.acknowledged = s.acknowledged
      BY <3>1, <3>2, <2>6
    <3> QED BY <3>3 DEF t
  <2> QED BY <2>5, <2>8, <2>9
<1> QED BY <1>3, <1>4

(* An RST ends the connection.                                             *)
LEMMA ResetSound ==
  ASSUME NEW s, Sound(s), ~s.terminated, NEW p
  PROVE  LET t == S!HandleReset(s, p) IN Sound(t) /\ Moved(t, s, p.ack)
<1> DEFINE t == S!HandleReset(s, p)
           f == S!FinishConnection(s, "reset")
<1>1. Well(s) /\ s \in Sender /\ s.status # "failed" /\ (s.streamCompleted <=> s.status = "succeeded")
  BY SoundFacts
<1>2. t = s \/ t = f
  BY DEF S!HandleReset
<1> HIDE DEF t, f
<1>3. CASE t = s
  <2>1. Kept(s, s)
    BY DEF Kept
  <2> QED BY <2>1, <1>1, <1>3, KeptMoves DEF t
<1>4. CASE t = f
  <2>1. "reset" \in Outcomes
    BY DEF Outcomes
  <2>2. Sound(f) /\ Over(f, s, "reset")
    BY <2>1, <1>1, FinishSound DEF f
  <2>3. Moved(f, s, p.ack)
    BY <2>1, <2>2, OverMoves
  <2> QED BY <2>2, <2>3, <1>4 DEF t
<1> QED BY <1>2, <1>3, <1>4

(* The fields of a segment of the backend.                                 *)
LEMMA BackendFields ==
  ASSUME NEW p, FromBackend(p)
  PROVE  /\ p.ack \in Nat /\ p.seq \in Nat
         /\ p.kind = "FIN" => p.seq = 1
         /\ p.kind \in {"SYN-ACK", "ACK", "FIN", "RST"}
<1>1. p.ack \in 0 .. Payload + 2 /\ p.seq \in 0 .. Payload + 2
  BY DEF FromBackend, Segment
<1> QED BY <1>1 DEF FromBackend

(* Every segment other than a SYN-ACK is sound: the acknowledgement in it, *)
(* the FIN in it, and both together.                                       *)
LEMMA ControlSound ==
  ASSUME NEW s, Sound(s), ~s.terminated, NEW p, FromBackend(p), NEW verdict, verdict \in S!Verdicts
  PROVE  LET t == S!HandleControl(s, p, verdict) IN Sound(t) /\ Moved(t, s, p.ack)
<1> DEFINE dup == p.kind = "FIN" /\ s.peerFIN /\ S!SequenceEnd(p) = s.nextReceive
           a == IF s.finSent THEN S!AcknowledgeFIN(s, p.ack) ELSE S!HandleDataAck(s, p, verdict)
           u == IF p.kind = "FIN" /\ ~a.terminated THEN S!HandleFin(a, p, verdict.cwnd) ELSE a
           q == S!QueueSegment(u, verdict.cwnd)
           t == S!HandleControl(s, p, verdict)
<1>1. /\ Well(s) /\ s \in Sender /\ Counted(s)
      /\ s.finSent => s.handshakeCompleted
  BY SoundFacts
<1>2. p.ack \in Nat /\ (p.kind = "FIN" => p.seq = 1)
  BY BackendFields
<1>3. verdict.cwnd \in {Mss, MaxWindow}
  BY DEF S!Verdicts
<1>4. s.acknowledged \in Nat /\ s.oldest \in Nat /\ s.nextSend \in Nat
  BY <1>1, SenderFields
<1>5. CASE ~s.handshakeCompleted \/ p.ack \notin 1 .. s.nextSend \/ (p.seq # s.nextReceive /\ ~dup)
  <2>1. t = s
    BY <1>5 DEF S!HandleControl
  <2>2. Kept(s, s)
    BY DEF Kept
  <2> QED BY <2>1, <2>2, <1>1, KeptMoves
<1>6. CASE ~(~s.handshakeCompleted \/ p.ack \notin 1 .. s.nextSend \/ (p.seq # s.nextReceive /\ ~dup))
  <2>1. s.handshakeCompleted /\ p.ack <= s.nextSend
    BY <1>4, <1>6
  <2>2. t = IF ~s.finSent /\ dup /\ u.oldest = S!Max({s.oldest, p.ack}) THEN q ELSE u
    BY <1>6 DEF S!HandleControl
  <2> HIDE DEF t
  <2>3. CASE s.finSent
    <3>1. a = S!AcknowledgeFIN(s, p.ack)
      BY <2>3
    <3> HIDE DEF a
    <3>2. /\ Sound(a) /\ Moved(a, s, p.ack)
          /\ ~a.terminated => a.finSent /\ a.acknowledged = s.acknowledged
      BY <3>1, <2>3, AckFINSound
    <3>3. t = u
      BY <2>2, <2>3
    <3>4. CASE p.kind = "FIN" /\ ~a.terminated
      <4> DEFINE f == S!HandleFin(a, p, verdict.cwnd)
      <4>1. /\ Sound(f) /\ ~f.terminated
            /\ f.acknowledged = a.acknowledged /\ f.finAcked = a.finAcked
        BY <3>2, <3>4, <1>2, FinAfterOurs
      <4>2. t = f
        BY <3>3, <3>4
      <4> HIDE DEF f, u
      <4>3. Moved(f, s, p.ack)
        <5>1. f.acknowledged = s.acknowledged /\ s.acknowledged <= s.acknowledged
          BY <4>1, <3>2, <3>4, <1>4
        <5>2. f.finAcked => s.finAcked \/ p.ack = Payload + 2
          BY <4>1, <3>2 DEF Moved
        <5> QED BY <5>1, <5>2, <4>1 DEF Moved
      <4> QED BY <4>1, <4>2, <4>3 DEF t
    <3>5. CASE ~(p.kind = "FIN" /\ ~a.terminated)
      BY <3>2, <3>3, <3>5 DEF t
    <3> QED BY <3>4, <3>5
  <2>4. CASE ~s.finSent /\ p.kind # "FIN"
    <3>1. a = S!HandleDataAck(s, p, verdict) /\ t = a
      BY <2>2, <2>4
    <3>2. Sound(S!HandleDataAck(s, p, verdict)) /\ Moved(S!HandleDataAck(s, p, verdict), s, p.ack)
      BY <2>1, <2>4, <1>2, DataAckSound
    <3> QED BY <3>1, <3>2 DEF t
  <2>5. CASE ~s.finSent /\ p.kind = "FIN"
    <3>1. a = S!HandleDataAck(s, p, verdict)
      BY <2>5
    <3>2. /\ Well(a) /\ Ready(a) /\ a.peerFIN = s.peerFIN /\ a.nextReceive = s.nextReceive
          /\ a.finAcked = s.finAcked
          /\ a.oldest = (IF s.oldest >= p.ack THEN s.oldest ELSE p.ack)
          /\ s.acknowledged <= a.acknowledged
          /\ a.acknowledged # s.acknowledged => a.acknowledged < p.ack
      <4> HIDE DEF a
      <4>1. a = S!HandleDataAck(s, p, verdict)
        BY <3>1
      <4> QED BY <4>1, <2>1, <2>5, <1>2, DataAckSound
    <3> HIDE DEF a
    <3> DEFINE f == S!HandleFin(a, p, verdict.cwnd)
    <3>3. u = f
      BY <3>2, <2>5 DEF Ready
    <3>4. /\ a.peerFIN => Well(f) /\ Ready(f) /\ Same(f, a)
          /\ ~a.peerFIN => /\ Sound(f) /\ ~f.terminated
                           /\ f.acknowledged = a.acknowledged /\ f.finAcked = a.finAcked
      BY <3>2, <2>5, <1>2, <1>3, FinBeforeOurs
    <3> HIDE DEF f, u
    <3>5. CASE ~s.peerFIN
      <4>1. t = f
        BY <3>3, <3>5, <2>2
      <4>2. /\ Sound(f) /\ ~f.terminated
            /\ f.acknowledged = a.acknowledged /\ f.finAcked = a.finAcked
        BY <3>2, <3>4, <3>5
      <4>3. Moved(f, s, p.ack)
        BY <4>2, <3>2 DEF Moved
      <4> QED BY <4>1, <4>2, <4>3 DEF t
    <3>6. CASE s.peerFIN
      <4>1. Well(f) /\ Ready(f) /\ Same(f, a)
        BY <3>2, <3>4, <3>6
      <4>2. dup
        <5>1. s.nextReceive = 2
          <6>1. s.nextReceive = (IF s.peerFIN THEN 2 ELSE 1)
            BY <1>1, <2>1, <2>5, InFlight
          <6> QED BY <6>1, <3>6
        <5>2. S!SequenceEnd(p) = 2
          <6>1. S!SequenceEnd(p) = p.seq + 1
            BY <2>5 DEF S!SequenceEnd
          <6> QED BY <6>1, <1>2, <2>5
        <5> QED BY <5>1, <5>2, <2>5, <3>6
      <4>3. u.oldest = S!Max({s.oldest, p.ack})
        <5>1. S!Max({s.oldest, p.ack}) = (IF s.oldest >= p.ack THEN s.oldest ELSE p.ack)
          BY <1>2, <1>4, LargerOfTwo
        <5>2. u.oldest = a.oldest
          BY <4>1, <3>3 DEF Same
        <5> QED BY <5>1, <5>2, <3>2
      <4> DEFINE g == S!QueueSegment(f, verdict.cwnd)
      <4>4. t = g
        BY <4>2, <4>3, <2>2, <2>5, <3>3
      <4>5. /\ Sound(g) /\ g.acknowledged = f.acknowledged /\ ~g.terminated
            /\ g.finAcked = f.finAcked
        BY <4>1, <1>3, QueueReady
      <4> HIDE DEF g
      <4>6. g.acknowledged = a.acknowledged /\ g.finAcked = s.finAcked
        BY <4>1, <4>5, <3>2 DEF Same
      <4>7. Moved(g, s, p.ack)
        BY <4>5, <4>6, <3>2 DEF Moved
      <4> QED BY <4>4, <4>5, <4>7 DEF t
    <3> QED BY <3>5, <3>6
  <2> QED BY <2>3, <2>4, <2>5
<1> QED BY <1>5, <1>6

(* HandlePacket is sound for everything the backend can send.              *)
LEMMA PacketSound ==
  ASSUME NEW s, Sound(s), NEW p, FromBackend(p), NEW verdict, verdict \in S!Verdicts
  PROVE  LET t == S!HandlePacket(s, p, verdict) IN Sound(t) /\ Moved(t, s, p.ack)
<1> DEFINE t == S!HandlePacket(s, p, verdict)
<1>1. s \in Sender
  BY SoundFacts
<1>2. Sound(s) /\ Moved(s, s, p.ack)
  <2>1. Kept(s, s)
    BY DEF Kept
  <2> QED BY <2>1, <1>1, KeptMoves
<1>3. CASE s.terminated
  BY <1>2, <1>3 DEF S!HandlePacket
<1>4. CASE ~s.terminated /\ p.kind = "RST"
  <2>1. t = S!HandleReset(s, p)
    BY <1>4 DEF S!HandlePacket
  <2> QED BY <2>1, <1>4, ResetSound
<1>5. CASE ~s.terminated /\ p.kind = "SYN-ACK"
  <2>1. t = IF s.finSent THEN s ELSE S!HandleSynAck(s, verdict.cwnd)
    BY <1>5 DEF S!HandlePacket
  <2>2. verdict.cwnd \in {Mss, MaxWindow}
    BY DEF S!Verdicts
  <2>3. CASE s.finSent
    BY <2>1, <2>3, <1>2
  <2>4. CASE ~s.finSent
    <3>1. Sound(S!HandleSynAck(s, verdict.cwnd)) /\ Moved(S!HandleSynAck(s, verdict.cwnd), s, p.ack)
      BY <2>2, <2>4, <1>5, SynAckSound
    <3> QED BY <2>1, <2>4, <3>1
  <2> QED BY <2>3, <2>4
<1>6. CASE ~s.terminated /\ p.kind # "RST" /\ p.kind # "SYN-ACK"
  <2>1. t = S!HandleControl(s, p, verdict)
    BY <1>6 DEF S!HandlePacket
  <2> QED BY <2>1, <1>6, ControlSound
<1> QED BY <1>3, <1>4, <1>5, <1>6

(* A step of the sender, on an acknowledgement of ack or on none.          *)
Goes(s, t, ack) == Sound(t) /\ Moved(t, s, ack)

(* A Sender with a timer is open.                                          *)
LEMMA LiveWhileArmed ==
  ASSUME NEW s, Sound(s), s.armed # {}
  PROVE  ~s.terminated /\ s.handshakeStarted
BY SoundFacts DEF Timed, Settled

(* A sound state that the peer cannot tell from the one before is a step,  *)
LEMMA StaysIsStep ==
  ASSUME NEW s, Sound(s), NEW t, Sound(t), Kept(t, s), ~s.terminated, NEW ack
  PROVE  Goes(s, t, ack)
<1>1. s \in Sender
  BY SoundFacts
<1> QED BY <1>1, KeptMoves DEF Goes

(* and so is a shutdown,                                                   *)
LEMMA ShutdownIsStep ==
  ASSUME NEW s, Sound(s), ~s.terminated, NEW ack
  PROVE  Goes(s, S!ShutdownWithReason(s), ack)
<1>1. Well(s) /\ s.outcome = "" /\ s.status # "failed" /\ (s.streamCompleted <=> s.status = "succeeded")
  BY SoundFacts
<1>2. "aborted" \in Outcomes
  BY DEF Outcomes
<1> DEFINE t == S!ShutdownWithReason(s)
<1>3. Sound(t) /\ Over(t, s, IF s.outcome = "" THEN "aborted" ELSE s.outcome)
  BY <1>1, ShutdownSound
<1> HIDE DEF t
<1>4. Over(t, s, "aborted")
  BY <1>1, <1>3
<1> QED BY <1>2, <1>3, <1>4, OverMoves DEF Goes, t

(* and every other end of the connection.                                  *)
LEMMA FinishIsStep ==
  ASSUME NEW s, Sound(s), ~s.terminated, NEW outcome \in Outcomes,
         outcome = "graceful" => s.finAcked, NEW ack
  PROVE  Goes(s, S!FinishConnection(s, outcome), ack)
<1>1. Well(s) /\ s.outcome = "" /\ s.status # "failed" /\ (s.streamCompleted <=> s.status = "succeeded")
  BY SoundFacts
<1> DEFINE t == S!FinishConnection(s, outcome)
<1>3. Sound(t) /\ Over(t, s, outcome)
  BY <1>1, FinishSound
<1> HIDE DEF t
<1> QED BY <1>3, OverMoves DEF Goes, t

(* What EstablishConnection does to the fields of a Sender.                *)
Starts(s, next, a) ==
  [s EXCEPT !.handshakeStarted = TRUE, !.state = "synSent", !.nextSend = next, !.armed = a]

(* The type of the result.                                                 *)
LEMMA StartsTyped ==
  ASSUME NEW s \in Sender, NEW next \in 0 .. Payload + 2, NEW a \in SUBSET SenderEvent
  PROVE  Starts(s, next, a) \in Sender
BY DEF Sender, Starts

(* A handshake begins with a timer for its SYN.                            *)
LEMMA StartsSound ==
  ASSUME NEW s, Sound(s), ~s.terminated, ~s.handshakeStarted, NEW next, next = 1,
         NEW a \in SUBSET SenderEvent, "synSend" \in a, a \cap {"fin", "finSend"} = {}
  PROVE  LET t == Starts(s, next, a) IN Sound(t) /\ Kept(t, s)
<1> DEFINE t == Starts(s, next, a)
<1>1. s \in Sender /\ Counted(s) /\ OutOk(s) /\ Settled(s) /\ Timed(s) /\ ~s.handshakeCompleted
  BY SoundFacts
<1>2. next \in 0 .. Payload + 2
  OBVIOUS
<1>3. t \in Sender
  BY <1>1, <1>2, StartsTyped
<1>4. Counted(t)
  BY <1>1 DEF Sender, Starts, Counted
<1>5. Settled(t)
  BY <1>1 DEF Sender, Starts, Settled
<1>6. t.armed = a /\ t.out = s.out /\ ~t.handshakeCompleted /\ ~t.terminated /\ t.handshakeStarted
      /\ Kept(t, s) /\ t.finSent = s.finSent
  BY <1>1 DEF Sender, Starts, Kept
<1>7. ~s.finSent /\ ~s.finAcked
  BY <1>1 DEF Counted
<1> HIDE DEF t
<1>8. Timed(t)
  BY <1>6, <1>7 DEF Timed, Kept
<1>9. FinTimed(t) /\ OutOk(t)
  BY <1>1, <1>6 DEF FinTimed, OutOk
<1> QED BY <1>3, <1>4, <1>5, <1>6, <1>8, <1>9 DEF Sound, Well, t

(* EstablishConnection is a step.                                          *)
LEMMA EstablishIsStep ==
  ASSUME NEW s, Sound(s), ~s.terminated, ~s.handshakeStarted, NEW ack
  PROVE  Goes(s, S!ArmRead([s EXCEPT !.handshakeStarted = TRUE, !.state = "synSent",
                                     !.nextSend = 1, !.armed = @ \cup {"synSend"}]), ack)
<1> DEFINE a == IF ClientIdleLimit THEN s.armed \cup {"synSend", "read"}
                ELSE s.armed \cup {"synSend"}
           t == Starts(s, 1, a)
<1>1. a \in SUBSET SenderEvent /\ "synSend" \in a /\ a \cap {"fin", "finSend"} = {}
  <2>1. s.armed = {}
    BY SoundFacts DEF Timed
  <2> QED BY <2>1 DEF SenderEvent
<1>2. S!ArmRead([s EXCEPT !.handshakeStarted = TRUE, !.state = "synSent",
                          !.nextSend = 1, !.armed = @ \cup {"synSend"}]) = t
  <2>1. s \in Sender
    BY SoundFacts
  <2>2. CASE ClientIdleLimit
    BY <2>1, <2>2 DEF S!ArmRead, S!Arm, Starts, Sender
  <2>3. CASE ~ClientIdleLimit
    BY <2>1, <2>3 DEF S!ArmRead, Starts, Sender
  <2> QED BY <2>2, <2>3
<1> HIDE DEF a
<1>3. Sound(t) /\ Kept(t, s)
  BY <1>1, StartsSound
<1> HIDE DEF t
<1> QED BY <1>2, <1>3, StaysIsStep

(* Asking for the end of the stream changes nothing else.                  *)
LEMMA RequestedSound ==
  ASSUME NEW s, Sound(s)
  PROVE  LET t == [s EXCEPT !.requested = TRUE] IN Sound(t) /\ Kept(t, s)
<1> DEFINE t == [s EXCEPT !.requested = TRUE]
<1>1. s \in Sender /\ Counted(s) /\ OutOk(s) /\ Settled(s) /\ Timed(s) /\ FinTimed(s)
  BY SoundFacts
<1>2. t \in Sender
  BY <1>1 DEF Sender
<1>3. Counted(t)
  BY <1>1, ZenonT(30) DEF Sender, Counted
<1>4. Settled(t)
  BY <1>1 DEF Sender, Settled
<1>5. Timed(t)
  BY <1>1 DEF Sender, Timed
<1>6. FinTimed(t)
  BY <1>1 DEF Sender, FinTimed
<1>7. Kept(t, s) /\ t.out = s.out
  BY <1>1 DEF Sender, Kept
<1> HIDE DEF t
<1>8. OutOk(t)
  BY <1>1, <1>7 DEF OutOk
<1> QED BY <1>2, <1>3, <1>4, <1>5, <1>6, <1>7, <1>8 DEF Sound, Well, t

(* Close is a step, before the handshake and after it.                     *)
LEMMA CloseIsStep ==
  ASSUME NEW s, Sound(s), ~s.terminated, NEW verdict, verdict \in S!Verdicts, NEW ack
  PROVE  Goes(s, IF ~s.handshakeCompleted THEN S!ShutdownWithReason(s)
                 ELSE S!QueueSegment(S!StartFINWhenDrained([s EXCEPT !.requested = TRUE]),
                                     verdict.cwnd), ack)
<1> DEFINE r == [s EXCEPT !.requested = TRUE]
           q == S!QueueSegment(r, verdict.cwnd)
<1>1. verdict.cwnd \in {Mss, MaxWindow}
  BY DEF S!Verdicts
<1>2. Sound(r) /\ Kept(r, s)
  BY RequestedSound
<1> HIDE DEF r
<1>3. S!StartFINWhenDrained(r) = r
  BY <1>2, NotDrained
<1>4. Sound(q) /\ Kept(q, r)
  BY <1>1, <1>2, QueueSound
<1> HIDE DEF q
<1>5. Goes(s, q, ack)
  <2>1. Kept(q, s)
    BY <1>2, <1>4 DEF Kept
  <2> QED BY <2>1, <1>4, StaysIsStep
<1>6. Goes(s, S!ShutdownWithReason(s), ack)
  BY ShutdownIsStep
<1> QED BY <1>3, <1>5, <1>6 DEF q, r

(* A Sender with other timers.                                             *)
Rearms(s, a) == [s EXCEPT !.armed = a]

(* All but the timers hold after a change of timers,                       *)
LEMMA RearmsKeeps ==
  ASSUME NEW s, Sound(s), ~s.terminated, NEW a \in SUBSET SenderEvent,
         s.finSent \/ a \cap {"fin", "finSend"} = {}
  PROVE  LET t == Rearms(s, a)
         IN  /\ Well(t) /\ Settled(t) /\ Same(t, s) /\ t.armed = a /\ t.pending = s.pending
             /\ t.handshakeStarted = s.handshakeStarted
<1> DEFINE t == Rearms(s, a)
<1>1. s \in Sender /\ Counted(s) /\ OutOk(s) /\ Settled(s)
  BY SoundFacts
<1>2. t \in Sender
  BY <1>1 DEF Sender, Rearms
<1>3. Counted(t)
  BY <1>1 DEF Sender, Rearms, Counted
<1>4. Settled(t)
  BY <1>1 DEF Sender, Rearms, Settled
<1>5. /\ Same(t, s) /\ t.armed = a /\ t.pending = s.pending /\ t.out = s.out
      /\ t.handshakeStarted = s.handshakeStarted
  BY <1>1 DEF Sender, Rearms, Same
<1> HIDE DEF t
<1>6. FinTimed(t) /\ OutOk(t)
  BY <1>1, <1>5 DEF FinTimed, OutOk, Same
<1> QED BY <1>2, <1>3, <1>4, <1>5, <1>6 DEF Well, t

(* and the timers too when none that is needed is missing.                 *)
LEMMA RearmsSound ==
  ASSUME NEW s, Sound(s), ~s.terminated, s.handshakeStarted, NEW a \in SUBSET SenderEvent,
         s.finSent \/ a \cap {"fin", "finSend"} = {},
         ~s.handshakeCompleted => a \cap {"synSend", "syn"} # {},
         "data" \in s.armed => "data" \in a, "send" \in s.armed => "send" \in a,
         s.finSent /\ ~s.finAcked => a \cap {"finSend", "fin"} # {},
         "wait" \in s.armed => "wait" \in a
  PROVE  LET t == Rearms(s, a) IN Sound(t) /\ Kept(t, s)
<1> DEFINE t == Rearms(s, a)
<1>1. /\ Well(t) /\ Settled(t) /\ Same(t, s) /\ t.armed = a /\ t.pending = s.pending
      /\ t.handshakeStarted = s.handshakeStarted
  BY RearmsKeeps
<1> HIDE DEF t
<1>2. Timed(s)
  BY SoundFacts
<1>3. Timed(t)
  <2>1. /\ t.terminated = s.terminated /\ t.finAcked = s.finAcked /\ t.finSent = s.finSent
        /\ t.handshakeCompleted = s.handshakeCompleted
    BY <1>1 DEF Same
  <2> QED BY <2>1, <1>1, <1>2 DEF Timed
<1>4. Kept(t, s)
  BY <1>1, SameIsKept
<1> QED BY <1>1, <1>3, <1>4 DEF Sound, t

(* Emitting a segment is sound.                                            *)
LEMMA EmitSound ==
  ASSUME NEW s, Sound(s), NEW p, FromClient(p)
  PROVE  LET t == S!Emit(s, p) IN Sound(t) /\ Kept(t, s)
<1> DEFINE t == S!Emit(s, p)
<1>1. Well(t) /\ Same(t, s) /\ Settled(t) /\ Timed(t)
  BY SoundFacts, EmitKeeps
<1> HIDE DEF t
<1> QED BY <1>1, SameIsKept DEF Sound, t

(* A SYN is a segment of the client.                                       *)
LEMMA SynIsFromClient == FromClient(S!Syn)
<1>1. 0 \in 0 .. Payload + 2 /\ 0 \in 0 .. Mss
  OBVIOUS
<1> QED BY <1>1 DEF FromClient, S!Syn, Segment

(* The event that sends the SYN is a step: the SYN has a timer.            *)
LEMMA SendSynIsStep ==
  ASSUME NEW s, Sound(s), "synSend" \in s.armed, NEW ack
  PROVE  Goes(s, S!Emit(S!Arm(S!Cancel(s, "synSend"), "syn"), S!Syn), ack)
<1> DEFINE a == (s.armed \ {"synSend"}) \cup {"syn"}
           r == Rearms(s, a)
           t == S!Emit(r, S!Syn)
<1>1. ~s.terminated /\ s.handshakeStarted
  BY LiveWhileArmed
<1>2. s \in Sender /\ FinTimed(s) /\ Timed(s) /\ s.armed \in SUBSET SenderEvent
  <2>1. s \in Sender /\ FinTimed(s) /\ Timed(s)
    BY SoundFacts
  <2>2. s.armed \in SUBSET SenderEvent
    BY <2>1 DEF Sender
  <2> QED BY <2>1, <2>2
<1>3. S!Arm(S!Cancel(s, "synSend"), "syn") = r
  BY <1>2 DEF S!Arm, S!Cancel, Rearms, Sender
<1>4. /\ a \in SUBSET SenderEvent
      /\ s.finSent \/ a \cap {"fin", "finSend"} = {}
      /\ ~s.handshakeCompleted => a \cap {"synSend", "syn"} # {}
      /\ "data" \in s.armed => "data" \in a
      /\ "send" \in s.armed => "send" \in a
      /\ "wait" \in s.armed => "wait" \in a
  BY <1>2 DEF SenderEvent, FinTimed
<1>5. s.finSent /\ ~s.finAcked => a \cap {"finSend", "fin"} # {}
  <2>1. s.finSent /\ ~s.finAcked => s.armed \cap {"finSend", "fin"} # {}
    BY <1>1, <1>2 DEF Timed
  <2> QED BY <2>1
<1> HIDE DEF a
<1>6. Sound(r) /\ Kept(r, s)
  BY <1>1, <1>4, <1>5, RearmsSound
<1> HIDE DEF r
<1>7. Sound(t) /\ Kept(t, r)
  BY <1>6, SynIsFromClient, EmitSound
<1> HIDE DEF t
<1>8. Kept(t, s)
  BY <1>6, <1>7 DEF Kept
<1> QED BY <1>1, <1>3, <1>7, <1>8, StaysIsStep DEF t

(* Counting a retry changes nothing else.                                  *)
LEMMA RetriesKeeps ==
  ASSUME NEW s, Sound(s), NEW f \in {"retrySyn", "finRetries"}, NEW n \in Nat
  PROVE  LET t == IF f = "retrySyn" THEN [s EXCEPT !.retrySyn = n] ELSE [s EXCEPT !.finRetries = n]
         IN  Sound(t) /\ Kept(t, s)
<1>1. s \in Sender /\ Counted(s) /\ OutOk(s) /\ Settled(s) /\ Timed(s) /\ FinTimed(s)
  BY SoundFacts
<1>2. CASE f = "retrySyn"
  <2> DEFINE t == [s EXCEPT !.retrySyn = n]
  <2>1. t \in Sender
    BY <1>1 DEF Sender
  <2>2. Counted(t)
    BY <1>1 DEF Sender, Counted
  <2>3. Settled(t)
    BY <1>1 DEF Sender, Settled
  <2>4. Timed(t)
    BY <1>1 DEF Sender, Timed
  <2>5. FinTimed(t) /\ Kept(t, s) /\ t.out = s.out
    BY <1>1 DEF Sender, FinTimed, Kept
  <2> HIDE DEF t
  <2>6. OutOk(t)
    BY <1>1, <2>5 DEF OutOk
  <2> QED BY <2>1, <2>2, <2>3, <2>4, <2>5, <2>6, <1>2 DEF Sound, Well, t
<1>3. CASE f = "finRetries"
  <2> DEFINE t == [s EXCEPT !.finRetries = n]
  <2>1. t \in Sender
    BY <1>1 DEF Sender
  <2>2. Counted(t)
    BY <1>1 DEF Sender, Counted
  <2>3. Settled(t)
    BY <1>1 DEF Sender, Settled
  <2>4. Timed(t)
    BY <1>1 DEF Sender, Timed
  <2>5. FinTimed(t) /\ Kept(t, s) /\ t.out = s.out
    BY <1>1 DEF Sender, FinTimed, Kept
  <2> HIDE DEF t
  <2>6. OutOk(t)
    BY <1>1, <2>5 DEF OutOk
  <2> QED BY <2>1, <2>2, <2>3, <2>4, <2>5, <2>6, <1>3 DEF Sound, Well, t
<1> QED BY <1>2, <1>3

(* A SYN that was not answered is repeated or the connection ends.         *)
LEMMA RetrySynIsStep ==
  ASSUME NEW s, Sound(s), "syn" \in s.armed, NEW ack
  PROVE  Goes(s, IF s.retrySyn >= MaxRetransmissions THEN S!ShutdownWithReason(s)
                 ELSE S!Emit([s EXCEPT !.retrySyn = @ + 1], S!Syn), ack)
<1> DEFINE n == s.retrySyn + 1
           r == [s EXCEPT !.retrySyn = n]
           t == S!Emit(r, S!Syn)
<1>1. ~s.terminated
  BY LiveWhileArmed
<1>2. n \in Nat
  <2>1. s \in Sender
    BY SoundFacts
  <2>2. s.retrySyn \in Nat
    BY <2>1 DEF Sender
  <2> QED BY <2>2, NextNat, Zenon
<1>3. [s EXCEPT !.retrySyn = @ + 1] = r
  OBVIOUS
<1> HIDE DEF n
<1>4. Sound(r) /\ Kept(r, s)
  <2>1. "retrySyn" \in {"retrySyn", "finRetries"}
    OBVIOUS
  <2> QED BY <2>1, <1>2, RetriesKeeps
<1> HIDE DEF r
<1>5. Sound(t) /\ Kept(t, r)
  BY <1>4, SynIsFromClient, EmitSound
<1> HIDE DEF t
<1>6. Kept(t, s)
  BY <1>4, <1>5 DEF Kept
<1>7. Goes(s, t, ack)
  BY <1>1, <1>5, <1>6, StaysIsStep
<1>8. Goes(s, S!ShutdownWithReason(s), ack)
  BY <1>1, ShutdownIsStep
<1> QED BY <1>3, <1>7, <1>8 DEF t

(* A FIN is a segment of the client.                                       *)
LEMMA FinIsFromClient ==
  ASSUME NEW s, Sound(s), s.finSent
  PROVE  FromClient(S!Fin(s.finSeq, s.nextReceive))
<1>1. s \in Sender /\ Counted(s)
  BY SoundFacts
<1>2. s.finSeq = Payload + 1 /\ s.nextReceive \in 0 .. 2
  BY <1>1 DEF Counted, Sender
<1>3. s.finSeq \in 0 .. Payload + 2 /\ s.nextReceive \in 0 .. Payload + 2 /\ 0 \in 0 .. Mss
  BY <1>2
<1> QED BY <1>2, <1>3 DEF FromClient, S!Fin, Segment

(* The event that sends the FIN is a step: the FIN has a timer.            *)
LEMMA SendFINIsStep ==
  ASSUME NEW s, Sound(s), "finSend" \in s.armed, NEW ack
  PROVE  LET u == S!Cancel(s, "finSend")
         IN  Goes(s, IF u.finAcked THEN u
                     ELSE S!Emit(S!Arm(u, "fin"), S!Fin(u.finSeq, u.nextReceive)), ack)
<1> DEFINE a == s.armed \ {"finSend"}
           b == a \cup {"fin"}
           u == S!Cancel(s, "finSend")
           p == S!Fin(s.finSeq, s.nextReceive)
           r == Rearms(s, b)
           t == S!Emit(r, p)
<1>1. ~s.terminated /\ s.handshakeStarted
  BY LiveWhileArmed
<1>2. s \in Sender /\ FinTimed(s) /\ (s.finSent => s.handshakeCompleted)
  BY SoundFacts
<1>3. s.finSent /\ s.armed \in SUBSET SenderEvent
  BY <1>2 DEF Sender, FinTimed
<1>4. u = Rearms(s, a)
  BY DEF S!Cancel, Rearms
<1>5. u.finAcked = s.finAcked /\ u.finSeq = s.finSeq /\ u.nextReceive = s.nextReceive
  BY <1>2 DEF S!Cancel, Sender
<1>6. S!Arm(u, "fin") = r
  BY <1>2 DEF S!Arm, S!Cancel, Rearms, Sender
<1>7. /\ a \in SUBSET SenderEvent /\ b \in SUBSET SenderEvent /\ b \cap {"finSend", "fin"} # {}
      /\ "data" \in s.armed => "data" \in a
      /\ "send" \in s.armed => "send" \in a
      /\ "wait" \in s.armed => "wait" \in a
      /\ "data" \in s.armed => "data" \in b
      /\ "send" \in s.armed => "send" \in b
      /\ "wait" \in s.armed => "wait" \in b
  BY <1>3 DEF SenderEvent
<1> HIDE DEF a, b
<1>8. CASE s.finAcked
  <2> DEFINE v == Rearms(s, a)
  <2>1. Sound(v) /\ Kept(v, s)
    BY <1>1, <1>2, <1>3, <1>7, <1>8, RearmsSound
  <2> HIDE DEF v
  <2>2. Goes(s, v, ack)
    BY <1>1, <2>1, StaysIsStep
  <2> QED BY <2>2, <1>4, <1>5, <1>8 DEF v
<1>9. CASE ~s.finAcked
  <2>1. Sound(r) /\ Kept(r, s)
    BY <1>1, <1>2, <1>3, <1>7, RearmsSound
  <2>2. FromClient(p)
    BY <1>3, FinIsFromClient
  <2> HIDE DEF r, p, u
  <2>3. Sound(t) /\ Kept(t, r)
    BY <2>1, <2>2, EmitSound
  <2> HIDE DEF t
  <2>4. Kept(t, s)
    BY <2>1, <2>3 DEF Kept
  <2>5. Goes(s, t, ack)
    BY <1>1, <2>3, <2>4, StaysIsStep
  <2>6. (IF u.finAcked THEN u ELSE S!Emit(S!Arm(u, "fin"), S!Fin(u.finSeq, u.nextReceive))) = t
    BY <1>5, <1>6, <1>9 DEF t, p
  <2> QED BY <2>5, <2>6 DEF u
<1> QED BY <1>8, <1>9

(* A FIN that was not acknowledged is repeated or the connection ends.     *)
LEMMA RetryFINIsStep ==
  ASSUME NEW s, Sound(s), "fin" \in s.armed, NEW ack
  PROVE  Goes(s, IF s.finRetries >= MaxFINRetries THEN S!FinishConnection(s, "finRetryLimit")
                 ELSE S!Emit([s EXCEPT !.finRetries = @ + 1], S!Fin(s.finSeq, s.nextReceive)), ack)
<1> DEFINE n == s.finRetries + 1
           r == [s EXCEPT !.finRetries = n]
           p == S!Fin(s.finSeq, s.nextReceive)
           t == S!Emit(r, p)
<1>1. ~s.terminated /\ FinTimed(s)
  BY LiveWhileArmed, SoundFacts
<1>2. n \in Nat
  <2>1. s \in Sender
    BY SoundFacts
  <2>2. s.finRetries \in Nat
    BY <2>1 DEF Sender
  <2> QED BY <2>2, NextNat, Zenon
<1>3. [s EXCEPT !.finRetries = @ + 1] = r
  OBVIOUS
<1> HIDE DEF n
<1>4. Sound(r) /\ Kept(r, s)
  <2>1. "finRetries" \in {"retrySyn", "finRetries"} /\ "finRetries" # "retrySyn"
    OBVIOUS
  <2> QED BY <2>1, <1>2, RetriesKeeps
<1>9. FromClient(p)
  <2>1. s.finSent
    BY <1>1 DEF FinTimed
  <2> QED BY <2>1, FinIsFromClient
<1> HIDE DEF r, p
<1>5. Sound(t) /\ Kept(t, r)
  BY <1>4, <1>9, EmitSound
<1> HIDE DEF t
<1>6. Kept(t, s)
  BY <1>4, <1>5 DEF Kept
<1>7. Goes(s, t, ack)
  BY <1>1, <1>5, <1>6, StaysIsStep
<1>8. Goes(s, S!FinishConnection(s, "finRetryLimit"), ack)
  BY <1>1, FinishIsStep DEF Outcomes
<1> QED BY <1>3, <1>7, <1>8 DEF t, p

(* The end of a wait ends the connection, gracefully only in TIME-WAIT,    *)
(* where the FIN is acknowledged.                                          *)
LEMMA WaitEndsIsStep ==
  ASSUME NEW s, Sound(s), "wait" \in s.armed, NEW ack
  PROVE  Goes(s, S!FinishConnection(s, IF s.state = "timeWait" THEN "graceful"
                                       ELSE "waitTimeout"), ack)
<1>1. ~s.terminated /\ Counted(s)
  BY LiveWhileArmed, SoundFacts
<1>2. s.state = "timeWait" => s.finAcked
  BY <1>1 DEF Counted
<1>3. CASE s.state = "timeWait"
  BY <1>1, <1>2, <1>3, FinishIsStep DEF Outcomes
<1>4. CASE s.state # "timeWait"
  <2>1. Goes(s, S!FinishConnection(s, "waitTimeout"), ack)
    BY <1>1, FinishIsStep DEF Outcomes
  <2> QED BY <2>1, <1>4
<1> QED BY <1>3, <1>4

(* A Sender whose handler has returned.                                    *)
Emptied(r) == [r EXCEPT !.out = NoSegments]

(* A step of the client's end.                                             *)
ClientGoes(ack) ==
  \E r : /\ Goes(snd, r, ack) /\ snd' = Emptied(r)
         /\ toBackend' = S!Transmit(toBackend, r.out)

(* A handler of the model is such a step.                                  *)
LEMMA BecomesIsGoes ==
  ASSUME NEW r, NEW ack, Goes(snd, r, ack), S!Becomes(r)
  PROVE  ClientGoes(ack)
<1>1. snd' = Emptied(r) /\ toBackend' = S!Transmit(toBackend, r.out)
  BY DEF S!Becomes, Emptied, NoSegments
<1> QED BY <1>1 DEF ClientGoes

(* What was emitted is no part of what a Sender promises.                  *)
LEMMA EmptiedSound ==
  ASSUME NEW r, Sound(r)
  PROVE  /\ Sound(Emptied(r)) /\ Emptied(r).out = << >>
         /\ Kept(Emptied(r), r) /\ Emptied(r).status = r.status
<1> DEFINE t == Emptied(r)
<1>1. r \in Sender /\ Counted(r) /\ Settled(r) /\ Timed(r) /\ FinTimed(r)
  BY SoundFacts
<1>2. t = [r EXCEPT !.out = NoSegments]
  BY DEF Emptied
<1>3. t \in Sender /\ t.out = NoSegments
  BY <1>1, <1>2, OutTyped, Empty
<1>4. Counted(t) /\ Settled(t) /\ Timed(t)
  BY <1>1, <1>2, OutCounted, OutSettled, OutTimed
<1>5. Same(t, r) /\ t.status = r.status /\ FinTimed(t)
  BY <1>1, <1>2, OutSame
<1> HIDE DEF t
<1>6. OutOk(t) /\ t.out = << >>
  BY <1>3 DEF OutOk, NoSegments
<1>7. Kept(t, r)
  BY <1>5, SameIsKept
<1> QED BY <1>3, <1>4, <1>5, <1>6, <1>7 DEF Sound, Well, t

(* The client's invariant is soundness with nothing to emit.               *)
LEMMA SndInvIsSound ==
  ASSUME SndInv
  PROVE  Sound(snd) /\ snd.out = << >> /\ Emptied(snd) = snd
<1>1. snd.out = << >> /\ snd \in Sender
  BY DEF SndInv
<1>2. Sound(snd)
  BY <1>1 DEF SndInv, Sound, Well, OutOk
<1>3. Emptied(snd) = snd
  BY <1>1 DEF Emptied, NoSegments, Sender
<1> QED BY <1>1, <1>2, <1>3

(* A step of the client keeps its invariant and sends only what a client   *)
(* may send.                                                               *)
LEMMA ClientGives ==
  ASSUME SndInv, NEW ack, ClientGoes(ack)
  PROVE  /\ SndInv' /\ Moved(snd', snd, ack)
         /\ \E q \in Seq(Segment) :
              /\ toBackend' = S!Transmit(toBackend, q)
              /\ \A i \in DOMAIN q : FromClient(q[i])
<1>1. PICK r : Goes(snd, r, ack) /\ snd' = Emptied(r) /\ toBackend' = S!Transmit(toBackend, r.out)
  BY DEF ClientGoes
<1>2. Sound(r) /\ Moved(r, snd, ack)
  BY <1>1 DEF Goes
<1>3. /\ Sound(snd') /\ snd'.out = << >> /\ Kept(snd', r) /\ snd'.status = r.status
  BY <1>1, <1>2, EmptiedSound
<1>4. SndInv'
  <2>1. /\ snd' \in Sender /\ Counted(snd') /\ Settled(snd') /\ Timed(snd') /\ FinTimed(snd')
    BY <1>3, SoundFacts
  <2> QED BY <2>1, <1>3 DEF SndInv
<1>5. Moved(snd', snd, ack)
  <2>1. snd.terminated => snd' = snd
    BY <1>1, <1>2, SndInvIsSound DEF Moved
  <2> QED BY <2>1, <1>2, <1>3 DEF Moved, Ended, Kept
<1>6. r.out \in Seq(Segment) /\ \A i \in DOMAIN r.out : FromClient(r.out[i])
  <2>1. r \in Sender /\ OutOk(r)
    BY <1>2, SoundFacts
  <2> QED BY <2>1 DEF Sender, OutOk
<1> QED BY <1>1, <1>4, <1>5, <1>6

(* The calls a client's owner makes are such steps,                        *)
LEMMA CallsGo ==
  ASSUME SndInv, S!EstablishConnection \/ S!Close \/ S!Shutdown
  PROVE  ClientGoes(0)
<1>1. Sound(snd)
  BY SndInvIsSound
<1>2. CASE S!EstablishConnection
  <2> DEFINE r == S!ArmRead([snd EXCEPT !.handshakeStarted = TRUE, !.state = "synSent",
                                        !.nextSend = 1, !.armed = @ \cup {"synSend"}])
  <2>1. ~snd.terminated /\ ~snd.handshakeStarted /\ S!Becomes(r)
    BY <1>2 DEF S!EstablishConnection
  <2>2. Goes(snd, r, 0)
    BY <1>1, <2>1, EstablishIsStep
  <2> QED BY <2>1, <2>2, BecomesIsGoes
<1>3. CASE S!Close
  <2>1. PICK verdict \in S!Verdicts :
       S!Becomes(IF ~snd.handshakeCompleted THEN S!ShutdownWithReason(snd)
               ELSE S!QueueSegment(S!StartFINWhenDrained([snd EXCEPT !.requested = TRUE]),
                                   verdict.cwnd))
    BY <1>3 DEF S!Close
  <2>2. ~snd.terminated
    BY <1>3 DEF S!Close
  <2>3. Goes(snd, IF ~snd.handshakeCompleted THEN S!ShutdownWithReason(snd)
               ELSE S!QueueSegment(S!StartFINWhenDrained([snd EXCEPT !.requested = TRUE]),
                                   verdict.cwnd), 0)
    BY <1>1, <2>1, <2>2, CloseIsStep
  <2> QED BY <2>1, <2>3, BecomesIsGoes
<1>4. CASE S!Shutdown
  <2>1. ~snd.terminated /\ S!Becomes(S!ShutdownWithReason(snd))
    BY <1>4 DEF S!Shutdown
  <2>2. Goes(snd, S!ShutdownWithReason(snd), 0)
    BY <1>1, <2>1, ShutdownIsStep
  <2> QED BY <2>1, <2>2, BecomesIsGoes
<1> QED BY <1>2, <1>3, <1>4

(* so is every event of its timers,                                        *)
LEMMA EventsGo ==
  ASSUME SndInv, S!Events
  PROVE  ClientGoes(0)
<1>1. Sound(snd)
  BY SndInvIsSound
<1>2. CASE S!SendSyn
  <2> DEFINE r == S!Emit(S!Arm(S!Cancel(snd, "synSend"), "syn"), S!Syn)
  <2>1. "synSend" \in snd.armed /\ S!Becomes(r)
    BY <1>2 DEF S!SendSyn
  <2>2. Goes(snd, r, 0)
    BY <1>1, <2>1, SendSynIsStep
  <2> QED BY <2>1, <2>2, BecomesIsGoes
<1>3. CASE S!RetransmitSyn
  <2> DEFINE r == IF snd.retrySyn >= MaxRetransmissions THEN S!ShutdownWithReason(snd)
                  ELSE S!Emit([snd EXCEPT !.retrySyn = @ + 1], S!Syn)
  <2>1. "syn" \in snd.armed /\ S!Becomes(r)
    BY <1>3 DEF S!RetransmitSyn
  <2>2. Goes(snd, r, 0)
    BY <1>1, <2>1, RetrySynIsStep
  <2> QED BY <2>1, <2>2, BecomesIsGoes
<1>4. CASE S!SendSegment
  <2>1. PICK verdict \in S!Verdicts : S!Becomes(S!SendNew(snd, verdict.cwnd))
    BY <1>4 DEF S!SendSegment
  <2>2. "send" \in snd.armed /\ verdict.cwnd \in {Mss, MaxWindow}
    BY <1>4 DEF S!SendSegment, S!Verdicts
  <2> DEFINE r == S!SendNew(snd, verdict.cwnd)
  <2>3. Sound(r) /\ Kept(r, snd)
    BY <1>1, <2>2, SendNewSound
  <2>4. ~snd.terminated
    BY <1>1, <2>2, LiveWhileArmed
  <2>5. S!Becomes(r)
    BY <2>1
  <2> HIDE DEF r
  <2>6. Goes(snd, r, 0)
    BY <1>1, <2>3, <2>4, StaysIsStep
  <2> QED BY <2>5, <2>6, BecomesIsGoes
<1>5. CASE S!RetransmitData
  <2> DEFINE r == S!DataTimeout(snd)
  <2>1. "data" \in snd.armed /\ S!Becomes(r)
    BY <1>5 DEF S!RetransmitData
  <2>2. Goes(snd, r, 0)
    BY <1>1, <2>1, DataTimeoutSound DEF Goes
  <2> QED BY <2>1, <2>2, BecomesIsGoes
<1>6. CASE S!ReadTimeout
  <2> DEFINE r == S!ShutdownWithReason(snd)
  <2>1. "read" \in snd.armed /\ S!Becomes(r)
    BY <1>6 DEF S!ReadTimeout
  <2>2. Goes(snd, r, 0)
    BY <1>1, <2>1, LiveWhileArmed, ShutdownIsStep
  <2> QED BY <2>1, <2>2, BecomesIsGoes
<1>7. CASE S!SendFIN
  <2> DEFINE u == S!Cancel(snd, "finSend")
             r == IF u.finAcked THEN u
                  ELSE S!Emit(S!Arm(u, "fin"), S!Fin(u.finSeq, u.nextReceive))
  <2>1. "finSend" \in snd.armed /\ S!Becomes(r)
    BY <1>7 DEF S!SendFIN
  <2>2. Goes(snd, r, 0)
    BY <1>1, <2>1, SendFINIsStep
  <2> QED BY <2>1, <2>2, BecomesIsGoes
<1>8. CASE S!RetryFIN
  <2> DEFINE r == IF snd.finRetries >= MaxFINRetries THEN S!FinishConnection(snd, "finRetryLimit")
                  ELSE S!Emit([snd EXCEPT !.finRetries = @ + 1],
                              S!Fin(snd.finSeq, snd.nextReceive))
  <2>1. "fin" \in snd.armed /\ S!Becomes(r)
    BY <1>8 DEF S!RetryFIN
  <2>2. Goes(snd, r, 0)
    BY <1>1, <2>1, RetryFINIsStep
  <2> QED BY <2>1, <2>2, BecomesIsGoes
<1>9. CASE S!WaitEnds
  <2> DEFINE r == S!FinishConnection(snd, IF snd.state = "timeWait" THEN "graceful"
                                          ELSE "waitTimeout")
  <2>1. "wait" \in snd.armed /\ S!Becomes(r)
    BY <1>9 DEF S!WaitEnds
  <2>2. Goes(snd, r, 0)
    BY <1>1, <2>1, WaitEndsIsStep
  <2> QED BY <2>1, <2>2, BecomesIsGoes
<1> QED BY <1>2, <1>3, <1>4, <1>5, <1>6, <1>7, <1>8, <1>9 DEF S!Events

(* and so is every segment it receives.                                    *)
LEMMA ReceiveGoes ==
  ASSUME SndInv, NEW p, FromBackend(p), S!Receive(p)
  PROVE  ClientGoes(p.ack) /\ toClient' = S!Without(toClient, p)
<1>1. Sound(snd)
  BY SndInvIsSound
<1>2. PICK verdict \in S!Verdicts : S!Becomes(S!HandlePacket(snd, p, verdict))
  BY DEF S!Receive
<1> DEFINE r == S!HandlePacket(snd, p, verdict)
<1>3. Goes(snd, r, p.ack)
  BY <1>1, <1>2, PacketSound DEF Goes
<1>4. ClientGoes(p.ack)
  BY <1>2, <1>3, BecomesIsGoes
<1> QED BY <1>4 DEF S!Receive

-----------------------------------------------------------------------------
(* The receiver inside a handler.                                          *)

(* The connection of a backend, sound once the positions of g have arrived.*)
Conn(c, g) == c \in Connection /\ Held(c, g) /\ InState(c) /\ TimedConn(c)

(* What the backend sends acknowledges at most n positions and the SYN.    *)
OutAcks(r, n) == \A i \in DOMAIN r.out : FromBackend(r.out[i]) /\ r.out[i].ack <= n + 1

(* A Receiver inside a handler that has emitted something: sound, and what *)
(* it emitted acknowledges nothing that has not arrived.                   *)
Backed(r, g, n) ==
  /\ RcvSound(r, g) /\ OutAcks(r, n)
  /\ ~R!Open(r) => r.out = << >>

(* n is no less than any prefix of g.                                      *)
Covers(g, n) == n \in 0 .. Payload + 1 /\ \A k \in 0 .. Payload + 1 : 1 .. k \subseteq g => k <= n

(* A Receiver with another connection.                                     *)
Put(r, c) == [r EXCEPT !.conn = c]

(* A connection is not the absence of one.                                 *)
LEMMA ConnIsOpen ==
  ASSUME NEW c \in Connection
  PROVE  c # R!NoConnection
<1>1. c.state # "closed"
  BY DEF Connection
<1> QED BY <1>1 DEF R!NoConnection

(* The connection of a sound Receiver.                                     *)
LEMMA OpenConn ==
  ASSUME NEW r, NEW g, NEW n, Backed(r, g, n), R!Open(r)
  PROVE  Conn(r.conn, g) /\ ~r.stopped /\ r \in Receiver
<1>1. r \in Receiver
  BY DEF Backed, RcvSound
<1>2. r.conn \in Connection
  BY <1>1 DEF Receiver, R!Open
<1> QED BY <1>1, <1>2 DEF Backed, RcvSound, Conn

(* The fields after the connection has changed.                            *)
LEMMA PutTyped ==
  ASSUME NEW r \in Receiver, NEW c \in Connection
  PROVE  LET t == Put(r, c)
         IN  /\ t \in Receiver /\ t.conn = c /\ t.stopped = r.stopped /\ t.out = r.out
             /\ t.active = r.active /\ t.halfOpen = r.halfOpen
BY DEF Receiver, Put

(* A sound connection in the place of another keeps the Receiver sound, as *)
(* long as both count the same.                                            *)
LEMMA PutSound ==
  ASSUME NEW r, NEW g, NEW n, Backed(r, g, n), R!Open(r), NEW c, Conn(c, g),
         c.established = r.conn.established
  PROVE  LET t == Put(r, c)
         IN  /\ Backed(t, g, n) /\ R!Open(t) /\ t.conn = c
<1> DEFINE t == Put(r, c)
<1>1. c \in Connection /\ c # R!NoConnection /\ r \in Receiver /\ RcvSound(r, g)
  BY ConnIsOpen DEF Conn, Backed, RcvSound
<1>2. /\ t \in Receiver /\ t.conn = c /\ t.stopped = r.stopped /\ t.out = r.out
      /\ t.active = r.active /\ t.halfOpen = r.halfOpen
  BY <1>1, PutTyped
<1> HIDE DEF t
<1>3. R!Open(t)
  BY <1>1, <1>2 DEF R!Open
<1>4. RcvSound(t, g)
  BY <1>1, <1>2, <1>3 DEF RcvSound, Conn
<1>5. OutAcks(t, n)
  BY <1>2 DEF Backed, OutAcks
<1> QED BY <1>2, <1>3, <1>4, <1>5 DEF Backed, t

(* A connection acknowledges what it has, and the SYN.                     *)
LEMMA NextCovered ==
  ASSUME NEW c, NEW g, Conn(c, g), NEW n, Covers(g, n)
  PROVE  c.next \in 0 .. Payload + 2 /\ c.next <= n + 1 /\ c.sendNext \in 0 .. Payload + 2
<1>1. c.next \in 1 .. Payload + 2 /\ c.sendNext \in 1 .. 2
  BY DEF Conn, Connection
<1>2. 1 .. c.next - 1 \subseteq g
  BY DEF Conn, Held
<1>3. c.next - 1 \in 0 .. Payload + 1
  BY <1>1
<1>4. c.next - 1 <= n /\ n \in Int
  BY <1>2, <1>3 DEF Covers
<1> QED BY <1>1, <1>4

(* The segments the backend builds.                                        *)
LEMMA AckIsFromBackend ==
  ASSUME NEW x \in 0 .. Payload + 2, NEW y \in 0 .. Payload + 2
  PROVE  /\ FromBackend(R!Ack(x, y)) /\ R!Ack(x, y).ack = y
         /\ FromBackend(R!Rst(x, y)) /\ R!Rst(x, y).ack = y
         /\ FromBackend(R!Fin(1, y)) /\ R!Fin(1, y).ack = y
         /\ FromBackend(R!SynAck) /\ R!SynAck.ack = 1
<1>1. 0 \in 0 .. Mss /\ 1 \in 0 .. Payload + 2 /\ 0 \in 0 .. Payload + 2
  OBVIOUS
<1>2. FromBackend(R!Ack(x, y)) /\ R!Ack(x, y).ack = y
  BY <1>1 DEF FromBackend, Segment, R!Ack
<1>3. FromBackend(R!Rst(x, y)) /\ R!Rst(x, y).ack = y
  BY <1>1 DEF FromBackend, Segment, R!Rst
<1>4. FromBackend(R!Fin(1, y)) /\ R!Fin(1, y).ack = y
  BY <1>1 DEF FromBackend, Segment, R!Fin
<1>5. FromBackend(R!SynAck) /\ R!SynAck.ack = 1
  BY <1>1 DEF FromBackend, Segment, R!SynAck
<1> QED BY <1>2, <1>3, <1>4, <1>5

(* Only out changes.                                                       *)
LEMMA OutPut ==
  ASSUME NEW r \in Receiver, NEW q \in Seq(Segment)
  PROVE  LET t == [r EXCEPT !.out = q]
         IN  /\ t \in Receiver /\ t.conn = r.conn /\ t.stopped = r.stopped /\ t.out = q
             /\ t.active = r.active /\ t.halfOpen = r.halfOpen
BY DEF Receiver

(* Emitting a segment keeps a Receiver sound.                              *)
LEMMA BackendEmits ==
  ASSUME NEW r, NEW g, NEW n, Backed(r, g, n), R!Open(r), NEW p, FromBackend(p), p.ack <= n + 1
  PROVE  LET t == R!Emit(r, p) IN Backed(t, g, n) /\ R!Open(t) /\ t.conn = r.conn
<1> DEFINE q == Append(r.out, p)
           t == [r EXCEPT !.out = q]
<1>1. r \in Receiver /\ ~r.stopped /\ OutAcks(r, n) /\ RcvSound(r, g)
  BY OpenConn DEF Backed
<1>2. r.out \in Seq(Segment) /\ p \in Segment
  BY <1>1 DEF Receiver, FromBackend
<1>3. q \in Seq(Segment) /\ DOMAIN q = 1 .. Len(r.out) + 1
  BY <1>2
<1>4. \A i \in DOMAIN q : FromBackend(q[i]) /\ q[i].ack <= n + 1
  <2> TAKE i \in DOMAIN q
  <2>1. CASE i = Len(r.out) + 1
    BY <2>1, <1>2
  <2>2. CASE i \in 1 .. Len(r.out)
    BY <2>2, <1>1, <1>2 DEF OutAcks
  <2> QED BY <2>1, <2>2, <1>2, <1>3
<1>5. R!Emit(r, p) = t
  BY <1>1 DEF R!Emit
<1> HIDE DEF q
<1>6. /\ t \in Receiver /\ t.conn = r.conn /\ t.stopped = r.stopped /\ t.out = q
      /\ t.active = r.active /\ t.halfOpen = r.halfOpen
  BY <1>1, <1>3, OutPut
<1> HIDE DEF t
<1>7. R!Open(t)
  BY <1>6 DEF R!Open
<1>8. RcvSound(t, g)
  BY <1>1, <1>6, <1>7 DEF RcvSound
<1>9. OutAcks(t, n)
  BY <1>4, <1>6 DEF OutAcks
<1> QED BY <1>5, <1>6, <1>7, <1>8, <1>9 DEF Backed

(* Nothing of the stream has changed.                                      *)
SameStream(c, d) ==
  /\ c.next = d.next /\ c.buffered = d.buffered /\ c.peerFIN = d.peerFIN
  /\ c.pendingFIN = d.pendingFIN /\ c.pendingFINSeq = d.pendingFINSeq
  /\ c.peerFINSeq = d.peerFINSeq

(* What acknowledge does to the delayed acknowledgement.                   *)
Undelays(c) == [c EXCEPT !.armed = @ \ {"delayedACK"}, !.waitingACKs = 0]

(* The fields after it.                                                    *)
LEMMA UndelaysTyped ==
  ASSUME NEW c \in Connection
  PROVE  LET d == Undelays(c)
         IN  d \in Connection /\ SameStream(d, c) /\ d.state = c.state /\ d.established = c.established
             /\ d.sendNext = c.sendNext /\ d.finSent = c.finSent /\ d.finAcked = c.finAcked
             /\ d.finSeq = c.finSeq /\ d.armed = c.armed \ {"delayedACK"} /\ d.waitingACKs = 0
BY DEF Connection, Undelays, SameStream

(* A connection stays sound when nothing is owed any more.                 *)
LEMMA UndelaysSound ==
  ASSUME NEW c, NEW g, Conn(c, g)
  PROVE  Conn(Undelays(c), g)
<1> DEFINE d == Undelays(c)
<1>1. c \in Connection
  BY DEF Conn
<1>2. d \in Connection /\ SameStream(d, c) /\ d.state = c.state /\ d.established = c.established
             /\ d.sendNext = c.sendNext /\ d.finSent = c.finSent /\ d.finAcked = c.finAcked
             /\ d.finSeq = c.finSeq /\ d.armed = c.armed \ {"delayedACK"} /\ d.waitingACKs = 0
  BY <1>1, UndelaysTyped
<1> HIDE DEF d
<1>3. Held(d, g)
  BY <1>2 DEF Conn, Held, SameStream
<1>4. InState(d)
  BY <1>2 DEF Conn, InState, SameStream
<1>5. TimedConn(d)
  BY <1>2 DEF Conn, TimedConn
<1> QED BY <1>2, <1>3, <1>4, <1>5 DEF Conn, d

(* acknowledge is sound.                                                   *)
LEMMA AcknowledgeSound ==
  ASSUME NEW r, NEW g, NEW n, Backed(r, g, n), R!Open(r), Covers(g, n)
  PROVE  LET t == R!Acknowledge(r) IN Backed(t, g, n) /\ R!Open(t)
<1> DEFINE c == r.conn
           d == Undelays(c)
           u == Put(r, d)
           p == R!Ack(c.sendNext, c.next)
<1>1. Conn(c, g) /\ ~r.stopped /\ r \in Receiver
  BY OpenConn
<1>2. Conn(d, g) /\ d.established = c.established
  <2>1. c \in Connection
    BY <1>1 DEF Conn
  <2> QED BY <2>1, <1>1, UndelaysSound, UndelaysTyped
<1>3. R!CancelDelayedACK(r) = u
  <2>1. c \in Connection
    BY <1>1 DEF Conn
  <2> QED BY <2>1, <1>1 DEF R!CancelDelayedACK, Put, Undelays, Receiver, Connection
<1>4. R!Acknowledge(r) = R!Emit(u, p)
  BY <1>1, <1>3 DEF R!Acknowledge
<1>5. FromBackend(p) /\ p.ack <= n + 1
  <2>1. c.next \in 0 .. Payload + 2 /\ c.next <= n + 1 /\ c.sendNext \in 0 .. Payload + 2
    BY <1>1, NextCovered
  <2> HIDE DEF c
  <2> QED BY <2>1, AckIsFromBackend
<1> HIDE DEF d, p
<1>6. Backed(u, g, n) /\ R!Open(u)
  BY <1>2, PutSound
<1> HIDE DEF u
<1>7. Backed(R!Emit(u, p), g, n) /\ R!Open(R!Emit(u, p))
  BY <1>5, <1>6, BackendEmits
<1> QED BY <1>4, <1>7

(* emitFIN is sound.                                                       *)
LEMMA EmitFINSound ==
  ASSUME NEW r, NEW g, NEW n, Backed(r, g, n), R!Open(r), Covers(g, n), r.conn.finSent
  PROVE  LET t == R!EmitFIN(r) IN Backed(t, g, n) /\ R!Open(t)
<1> DEFINE c == r.conn
           d == Undelays(c)
           u == Put(r, d)
           p == R!Fin(c.finSeq, c.next)
<1>1. Conn(c, g) /\ ~r.stopped /\ r \in Receiver
  BY OpenConn
<1>2. Conn(d, g) /\ d.established = c.established
  <2>1. c \in Connection
    BY <1>1 DEF Conn
  <2> QED BY <2>1, <1>1, UndelaysSound, UndelaysTyped
<1>3. R!CancelDelayedACK(r) = u
  <2>1. c \in Connection
    BY <1>1 DEF Conn
  <2> QED BY <2>1, <1>1 DEF R!CancelDelayedACK, Put, Undelays, Receiver, Connection
<1>4. R!EmitFIN(r) = R!Emit(u, p)
  BY <1>1, <1>3 DEF R!EmitFIN
<1>5. FromBackend(p) /\ p.ack <= n + 1
  <2>1. c.next \in 0 .. Payload + 2 /\ c.next <= n + 1 /\ c.sendNext \in 0 .. Payload + 2
    BY <1>1, NextCovered
  <2>2. c.finSeq = 1
    BY <1>1 DEF Conn, InState
  <2> HIDE DEF c
  <2> QED BY <2>1, <2>2, AckIsFromBackend
<1> HIDE DEF d, p
<1>6. Backed(u, g, n) /\ R!Open(u)
  BY <1>2, PutSound
<1> HIDE DEF u
<1>7. Backed(R!Emit(u, p), g, n) /\ R!Open(R!Emit(u, p))
  BY <1>5, <1>6, BackendEmits
<1> QED BY <1>4, <1>7

(* The larger of two numbers.                                              *)
LEMMA BackendLarger ==
  ASSUME NEW a \in Int, NEW b \in Int
  PROVE  R!Max({a, b}) = (IF a >= b THEN a ELSE b)
<1>1. CASE a >= b
  BY <1>1 DEF R!Max
<1>2. CASE ~(a >= b)
  BY <1>2 DEF R!Max
<1> QED BY <1>1, <1>2

(* A Receiver that has let go of its connection.                           *)
Drops(r, a, h) == [r EXCEPT !.conn = R!NoConnection, !.active = a, !.halfOpen = h]

(* The fields after it.                                                    *)
LEMMA DropsTyped ==
  ASSUME NEW r \in Receiver, NEW a \in 0 .. 1, NEW h \in 0 .. 1
  PROVE  LET t == Drops(r, a, h)
         IN  /\ t \in Receiver /\ t.conn = R!NoConnection /\ t.active = a /\ t.halfOpen = h
             /\ t.stopped = r.stopped /\ t.out = r.out
BY DEF Receiver, Drops

(* finishConnection leaves no connection and no count: the counters fall   *)
(* to zero, never below.                                                   *)
LEMMA FinishIs ==
  ASSUME NEW r, NEW g, RcvSound(r, g)
  PROVE  R!FinishConnection(r) = Drops(r, 0, 0)
<1>1. r \in Receiver
  BY DEF RcvSound
<1>2. CASE ~R!Open(r)
  <2>1. r.conn = R!NoConnection /\ r.active = 0 /\ r.halfOpen = 0
    BY <1>2 DEF R!Open, RcvSound
  <2>2. Drops(r, 0, 0) = r
    BY <1>1, <2>1 DEF Drops, Receiver
  <2> QED BY <1>2, <2>2 DEF R!FinishConnection
<1>3. CASE R!Open(r) /\ r.conn.established
  <2>1. r.active = 1 /\ r.halfOpen = 0
    BY <1>3 DEF RcvSound
  <2>2. R!Max({r.active - 1, 0}) = 0
    BY <2>1, BackendLarger
  <2>3. [r EXCEPT !.conn = R!NoConnection, !.active = R!Max({@ - 1, 0})] = Drops(r, 0, 0)
    BY <1>1, <2>1, <2>2 DEF Drops, Receiver
  <2> QED BY <1>3, <2>3 DEF R!FinishConnection
<1>4. CASE R!Open(r) /\ ~r.conn.established
  <2>1. r.active = 0 /\ r.halfOpen = 1
    BY <1>4 DEF RcvSound
  <2>2. R!Max({r.halfOpen - 1, 0}) = 0
    BY <2>1, BackendLarger
  <2>3. [r EXCEPT !.conn = R!NoConnection, !.halfOpen = R!Max({@ - 1, 0})] = Drops(r, 0, 0)
    BY <1>1, <2>1, <2>2 DEF Drops, Receiver
  <2> QED BY <1>4, <2>3 DEF R!FinishConnection
<1> QED BY <1>2, <1>3, <1>4

(* A connection that ends leaves no slot behind.                           *)
LEMMA FinishGives ==
  ASSUME NEW r, NEW g, RcvSound(r, g)
  PROVE  LET t == R!FinishConnection(r)
         IN  RcvSound(t, g) /\ ~R!Open(t) /\ t.out = r.out /\ t.stopped = r.stopped
<1> DEFINE t == Drops(r, 0, 0)
<1>1. r \in Receiver
  BY DEF RcvSound
<1>2. /\ t \in Receiver /\ t.conn = R!NoConnection /\ t.active = 0 /\ t.halfOpen = 0
      /\ t.stopped = r.stopped /\ t.out = r.out
  BY <1>1, DropsTyped
<1> HIDE DEF t
<1>3. ~R!Open(t)
  BY <1>2 DEF R!Open
<1>4. RcvSound(t, g)
  BY <1>2, <1>3 DEF RcvSound
<1> QED BY <1>2, <1>3, <1>4, FinishIs DEF t

(* A handler that ends the connection is sound.                            *)
LEMMA FinishBacked ==
  ASSUME NEW r, NEW g, NEW n, Backed(r, g, n), r.out = << >>
  PROVE  LET t == R!FinishConnection(r) IN Backed(t, g, n) /\ ~R!Open(t) /\ t.out = << >>
<1> DEFINE t == R!FinishConnection(r)
<1>1. RcvSound(t, g) /\ ~R!Open(t) /\ t.out = r.out
  BY FinishGives DEF Backed
<1> HIDE DEF t
<1>2. OutAcks(t, n)
  BY <1>1 DEF OutAcks
<1> QED BY <1>1, <1>2 DEF Backed, t

(* A Receiver whose connection counts as established.                      *)
Admits(r, c) == [r EXCEPT !.conn = c, !.halfOpen = 0, !.active = 1]
(* What establish does to the connection,                                  *)
Establishes(c) ==
  [c EXCEPT !.established = TRUE, !.state = "established",
            !.armed = (@ \ {"idle"}) \cup R!IdleCheck("established")]

(* and what it does to the counters.                                       *)
Counts(r, h, a) == [r EXCEPT !.halfOpen = h, !.active = a]

(* The fields after the counters have changed.                             *)
LEMMA CountsTyped ==
  ASSUME NEW r \in Receiver, NEW a \in 0 .. 1, NEW h \in 0 .. 1
  PROVE  LET t == Counts(r, h, a)
         IN  /\ t \in Receiver /\ t.conn = r.conn /\ t.active = a /\ t.halfOpen = h
             /\ t.stopped = r.stopped /\ t.out = r.out
BY DEF Receiver, Counts

(* The fields after the connection was admitted.                           *)
LEMMA AdmitsTyped ==
  ASSUME NEW r \in Receiver, NEW c \in Connection
  PROVE  LET t == Admits(r, c)
         IN  /\ t \in Receiver /\ t.conn = c /\ t.active = 1 /\ t.halfOpen = 0
             /\ t.stopped = r.stopped /\ t.out = r.out
<1> DEFINE u == Put(r, c)
<1>1. u \in Receiver /\ u.conn = c /\ u.stopped = r.stopped /\ u.out = r.out
  BY PutTyped
<1>2. Admits(r, c) = Counts(u, 0, 1)
  BY DEF Admits, Put, Counts
<1> HIDE DEF u
<1>3. 0 \in 0 .. 1 /\ 1 \in 0 .. 1
  OBVIOUS
<1> QED BY <1>1, <1>2, <1>3, CountsTyped

(* The idle check of a state is there where the state has a limit.         *)
LEMMA IdleCheckIs ==
  ASSUME NEW state
  PROVE  /\ R!IdleCheck(state) \in SUBSET {"idle"}
         /\ "idle" \in R!IdleCheck(state) <=> state \in BackendIdleLimits
BY DEF R!IdleCheck

(* The states that may have one.                                           *)
LEMMA LimitedStates ==
  BackendIdleLimits \subseteq {"synReceived", "established"}
BY TcpAssumption

(* The fields of an established connection.                                *)
LEMMA EstablishesTyped ==
  ASSUME NEW c \in Connection
  PROVE  LET d == Establishes(c)
         IN  d \in Connection /\ SameStream(d, c) /\ d.state = "established" /\ d.established = TRUE
             /\ d.sendNext = c.sendNext /\ d.finSent = c.finSent /\ d.finAcked = c.finAcked
             /\ d.finSeq = c.finSeq /\ d.waitingACKs = c.waitingACKs
             /\ d.armed = (c.armed \ {"idle"}) \cup R!IdleCheck("established")
BY IdleCheckIs DEF Connection, Establishes, SameStream, RcvEvent

(* Such a connection is sound and has an idle check.                       *)
LEMMA EstablishesSound ==
  ASSUME NEW c, NEW g, Conn(c, g), ~c.established
  PROVE  Conn(Establishes(c), g) /\ SameStream(Establishes(c), c) /\ Establishes(c).established
<1> DEFINE d == Establishes(c)
<1>1. c \in Connection
  BY DEF Conn
<1>2. d \in Connection /\ SameStream(d, c) /\ d.state = "established" /\ d.established = TRUE
             /\ d.sendNext = c.sendNext /\ d.finSent = c.finSent /\ d.finAcked = c.finAcked
             /\ d.finSeq = c.finSeq /\ d.waitingACKs = c.waitingACKs
             /\ d.armed = (c.armed \ {"idle"}) \cup R!IdleCheck("established")
  BY <1>1, EstablishesTyped
<1> HIDE DEF d
<1>3. c.state = "synReceived"
  BY <1>1 DEF Conn, InState
<1>4. Held(d, g)
  BY <1>2 DEF Conn, Held, SameStream
<1>5. InState(d)
  BY <1>2, <1>3 DEF Conn, InState, SameStream
<1>6. TimedConn(d)
  <2>1. ~c.finSent
    BY <1>3 DEF Conn, InState
  <2>2. "idle" \in d.armed <=> d.state \in BackendIdleLimits
    BY <1>2, IdleCheckIs
  <2>3. d.armed \ {"idle"} = c.armed \ {"idle"}
    BY <1>2, IdleCheckIs
  <2>4. \A e \in {"delayedACK", "fin"} : e \in d.armed <=> e \in c.armed
    BY <2>3
  <2> QED BY <2>1, <2>2, <2>4, <1>2 DEF Conn, TimedConn
<1> QED BY <1>2, <1>4, <1>5, <1>6 DEF Conn, d

(* establish is sound: the host takes the connection, and both counters    *)
(* move, or it ends.                                                       *)
LEMMA EstablishSound ==
  ASSUME NEW r, NEW g, NEW n, Backed(r, g, n), r.out = << >>, R!Open(r), ~r.conn.established,
         NEW admit \in BOOLEAN
  PROVE  LET t == R!Establish(r, admit)
         IN  /\ Backed(t, g, n) /\ t.out = << >>
             /\ R!Open(t) => t.conn.established /\ SameStream(t.conn, r.conn)
<1> DEFINE c == r.conn
           d == Establishes(c)
           t == Admits(r, d)
<1>1. Conn(c, g) /\ r \in Receiver /\ RcvSound(r, g) /\ c \in Connection
  BY OpenConn DEF Conn, Backed
<1>2. CASE ~admit
  <2>1. R!Establish(r, admit) = R!FinishConnection(r)
    BY <1>2 DEF R!Establish
  <2> QED BY <2>1, FinishBacked
<1>3. CASE admit
  <2>1. r.active = 0 /\ r.halfOpen = 1
    BY <1>1 DEF RcvSound
  <2>2. R!Max({r.halfOpen - 1, 0}) = 0
    BY <2>1, BackendLarger
  <2>3. R!Establish(r, admit) = t
    <3> DEFINE h == R!Max({r.halfOpen - 1, 0})
               a == r.active + 1
    <3>1. R!Establish(r, admit) =
            [r EXCEPT !.conn.established = TRUE, !.conn.state = "established",
                 !.conn.armed = (@ \ {"idle"}) \cup R!IdleCheck("established"),
                 !.halfOpen = h, !.active = a]
      BY <1>3 DEF R!Establish
    <3>2. h = 0 /\ a = 1
      BY <2>1, <2>2
    <3> HIDE DEF h, a
    <3>3. R!Establish(r, admit) =
            [r EXCEPT !.conn.established = TRUE, !.conn.state = "established",
                 !.conn.armed = (@ \ {"idle"}) \cup R!IdleCheck("established"),
                 !.halfOpen = 0, !.active = 1]
      BY <3>1, <3>2
    <3>4. @ = t
      BY <1>1 DEF Admits, Establishes, Receiver, Connection
    <3> QED BY <3>3, <3>4
  <2>4. Conn(d, g) /\ SameStream(d, c) /\ d.established
    BY <1>1, EstablishesSound
  <2>5. d \in Connection /\ d # R!NoConnection
    BY <2>4, ConnIsOpen DEF Conn
  <2> HIDE DEF d
  <2>6. /\ t \in Receiver /\ t.conn = d /\ t.active = 1 /\ t.halfOpen = 0
        /\ t.stopped = r.stopped /\ t.out = r.out
    BY <1>1, <2>5, AdmitsTyped
  <2> HIDE DEF t
  <2>7. R!Open(t)
    BY <2>5, <2>6 DEF R!Open
  <2>8. RcvSound(t, g)
    <3>1. ~r.stopped
      BY OpenConn
    <3> QED BY <3>1, <2>4, <2>6, <2>7 DEF RcvSound, Conn
  <2>9. OutAcks(t, n)
    BY <2>6 DEF OutAcks
  <2> QED BY <2>3, <2>4, <2>6, <2>7, <2>8, <2>9 DEF Backed
<1> QED BY <1>2, <1>3

(* An idle check that is armed again keeps a connection sound.             *)
LEMMA IdlesSound ==
  ASSUME NEW c, NEW g, Conn(c, g), c.state = "established"
  PROVE  LET d == [c EXCEPT !.armed = @ \cup R!IdleCheck("established")]
         IN  Conn(d, g) /\ SameStream(d, c) /\ d.established = c.established
<1> DEFINE d == [c EXCEPT !.armed = @ \cup R!IdleCheck("established")]
<1>1. c \in Connection
  BY DEF Conn
<1>2. d \in Connection /\ SameStream(d, c) /\ d.state = c.state /\ d.established = c.established
             /\ d.sendNext = c.sendNext /\ d.finSent = c.finSent /\ d.finAcked = c.finAcked
             /\ d.finSeq = c.finSeq /\ d.waitingACKs = c.waitingACKs
             /\ d.armed = c.armed \cup R!IdleCheck("established")
  BY <1>1, IdleCheckIs DEF Connection, SameStream, RcvEvent
<1> HIDE DEF d
<1>3. Held(d, g)
  BY <1>2 DEF Conn, Held, SameStream
<1>4. InState(d)
  BY <1>2 DEF Conn, InState, SameStream
<1>5. TimedConn(d)
  <2>1. d.armed \ {"idle"} = c.armed \ {"idle"}
    BY <1>2, IdleCheckIs
  <2>2. \A e \in {"delayedACK", "fin", "wait"} : e \in d.armed <=> e \in c.armed
    BY <2>1
  <2>3. "idle" \in d.armed <=> d.state \in BackendIdleLimits
    BY <1>2, IdleCheckIs DEF Conn, TimedConn
  <2> QED BY <2>2, <2>3, <1>2 DEF Conn, TimedConn
<1> QED BY <1>2, <1>3, <1>4, <1>5 DEF Conn, d

(* recordActivity is sound.                                                *)
LEMMA ActivitySound ==
  ASSUME NEW r, NEW g, NEW n, Backed(r, g, n), R!Open(r)
  PROVE  LET t == R!RecordActivity(r)
         IN  /\ Backed(t, g, n) /\ R!Open(t) /\ SameStream(t.conn, r.conn)
             /\ t.conn.established = r.conn.established
<1>1. Conn(r.conn, g) /\ r \in Receiver
  BY OpenConn
<1>2. CASE r.conn.state = "established"
  <2> DEFINE d == [r.conn EXCEPT !.armed = @ \cup R!IdleCheck("established")]
             t == Put(r, d)
  <2>1. R!RecordActivity(r) = t
    BY <1>1, <1>2 DEF R!RecordActivity, Put, Receiver, Connection
  <2>2. Conn(d, g) /\ SameStream(d, r.conn) /\ d.established = r.conn.established
    BY <1>1, <1>2, IdlesSound
  <2> HIDE DEF d
  <2>3. Backed(t, g, n) /\ R!Open(t) /\ t.conn = d
    BY <2>2, PutSound
  <2> HIDE DEF t
  <2> QED BY <2>1, <2>2, <2>3
<1>3. CASE r.conn.state # "established"
  <2>1. R!RecordActivity(r) = r
    BY <1>3 DEF R!RecordActivity
  <2> QED BY <2>1 DEF SameStream
<1> QED BY <1>2, <1>3

(* A connection whose state is about to follow its FINs.                   *)
Loose(c, g) ==
  /\ c \in Connection /\ Held(c, g)
  /\ c.established <=> c.state # "synReceived"
  /\ c.sendNext = (IF c.finSent THEN 2 ELSE 1)
  /\ c.finSent => c.finSeq = 1
  /\ c.waitingACKs > 0 <=> "delayedACK" \in c.armed
  /\ "idle" \in c.armed <=> c.state \in BackendIdleLimits

(* A sound connection is sound inside a handler too.                       *)
LEMMA ConnIsLoose ==
  ASSUME NEW c, NEW g, Conn(c, g)
  PROVE  Loose(c, g)
BY DEF Conn, Loose, InState, TimedConn

(* A connection that waits after its FIN was acknowledged.                 *)
FinWaits(c, state, acked, a) == [c EXCEPT !.state = state, !.finAcked = acked, !.armed = a]

(* The fields after it.                                                    *)
WaitsGives(d, c, state, a) ==
  /\ d \in Connection /\ SameStream(d, c) /\ d.state = state
  /\ d.established = c.established /\ d.sendNext = c.sendNext
  /\ d.finSent = c.finSent /\ d.finAcked = TRUE
  /\ d.finSeq = c.finSeq /\ d.armed = a /\ d.waitingACKs = c.waitingACKs

(* The result has those fields.                                            *)
LEMMA FinWaitsTyped ==
  ASSUME NEW c \in Connection, NEW state \in {"finWait2", "timeWait"}, NEW a \in SUBSET RcvEvent
  PROVE  WaitsGives(FinWaits(c, state, TRUE, a), c, state, a)
BY DEF Connection, FinWaits, SameStream, WaitsGives

(* Such a connection is sound in FIN-WAIT-2 and TIME-WAIT.                 *)
LEMMA FinWaitsSound ==
  ASSUME NEW c, NEW g, Loose(c, g), c.finSent, c.state \notin {"synReceived", "established"},
         NEW state \in {"finWait2", "timeWait"}, state = "timeWait" <=> c.peerFIN
  PROVE  LET d == FinWaits(c, state, TRUE, (c.armed \ {"fin"}) \cup {"wait"})
         IN  Conn(d, g) /\ SameStream(d, c) /\ d.established /\ d.state = state
<1> DEFINE a == (c.armed \ {"fin"}) \cup {"wait"}
           d == FinWaits(c, state, TRUE, a)
<1>1. c \in Connection
  BY DEF Loose
<1>2. a \in SUBSET RcvEvent /\ "wait" \in a /\ ("delayedACK" \in a <=> "delayedACK" \in c.armed)
  BY <1>1 DEF Connection, RcvEvent
<1> HIDE DEF a
<1>9. WaitsGives(d, c, state, a)
  BY <1>1, <1>2, FinWaitsTyped
<1> HIDE DEF d
<1>3. /\ d \in Connection /\ SameStream(d, c) /\ d.state = state
      /\ d.established = c.established /\ d.sendNext = c.sendNext
      /\ d.finSent = c.finSent /\ d.finAcked = TRUE
      /\ d.finSeq = c.finSeq /\ d.armed = a /\ d.waitingACKs = c.waitingACKs
  BY <1>9 DEF WaitsGives
<1>4. Held(d, g)
  BY <1>3 DEF Loose, Held, SameStream
<1>5. InState(d)
  BY <1>3 DEF Loose, InState, SameStream
<1>6. TimedConn(d)
  <2>1. "idle" \notin c.armed /\ d.state \notin BackendIdleLimits
    BY <1>3, LimitedStates DEF Loose
  <2>2. "idle" \notin d.armed
    BY <2>1, <1>3 DEF a
  <2> QED BY <2>1, <2>2, <1>2, <1>3 DEF Loose, TimedConn
<1>7. d.established
  BY <1>3 DEF Loose
<1> QED BY <1>3, <1>4, <1>5, <1>6, <1>7 DEF Conn, d, a

(* What startFIN does to the connection.                                   *)
Closes(c, state, seq, next, a) ==
  [c EXCEPT !.state = state, !.finSent = TRUE, !.finSeq = seq, !.sendNext = next, !.armed = a]

(* The fields after it.                                                    *)
ClosesGives(d, c, state, seq, next, a) ==
  /\ d \in Connection /\ SameStream(d, c) /\ d.state = state
  /\ d.established = c.established /\ d.sendNext = next
  /\ d.finSent = TRUE /\ d.finAcked = c.finAcked
  /\ d.finSeq = seq /\ d.armed = a /\ d.waitingACKs = c.waitingACKs

(* The result has those fields.                                            *)
LEMMA ClosesTyped ==
  ASSUME NEW c \in Connection, NEW state \in {"finWait1", "lastAck"},
         NEW seq \in 0 .. 1, NEW next \in 1 .. 2, NEW a \in SUBSET RcvEvent
  PROVE  ClosesGives(Closes(c, state, seq, next, a), c, state, seq, next, a)
BY DEF Connection, Closes, SameStream, ClosesGives

(* A connection whose FIN is sent is sound: the FIN has a timer.           *)
LEMMA ClosesSound ==
  ASSUME NEW c, NEW g, Loose(c, g), ~c.finSent, ~c.finAcked, c.established,
         NEW state \in {"finWait1", "lastAck"}, state = "lastAck" <=> c.peerFIN
  PROVE  LET d == Closes(c, state, 1, 2, (c.armed \ {"idle"}) \cup {"fin"})
         IN  Conn(d, g) /\ SameStream(d, c) /\ d.established /\ d.finSent
<1> DEFINE a == (c.armed \ {"idle"}) \cup {"fin"}
           d == Closes(c, state, 1, 2, a)
<1>1. c \in Connection /\ c.sendNext = 1
  BY DEF Loose
<1>2. a \in SUBSET RcvEvent /\ "fin" \in a /\ ("delayedACK" \in a <=> "delayedACK" \in c.armed)
  BY <1>1 DEF Connection, RcvEvent
<1> HIDE DEF a
<1>8. 1 \in 0 .. 1 /\ 2 \in 1 .. 2
  OBVIOUS
<1>9. ClosesGives(d, c, state, 1, 2, a)
  BY <1>1, <1>2, <1>8, ClosesTyped
<1> HIDE DEF d
<1>3. /\ d \in Connection /\ SameStream(d, c) /\ d.state = state
      /\ d.established = c.established /\ d.sendNext = 2
      /\ d.finSent = TRUE /\ d.finAcked = c.finAcked
      /\ d.finSeq = 1 /\ d.armed = a /\ d.waitingACKs = c.waitingACKs
  BY <1>9 DEF ClosesGives
<1>4. Held(d, g)
  BY <1>3 DEF Loose, Held, SameStream
<1>5. InState(d)
  BY <1>3 DEF Loose, InState, SameStream
<1>6. TimedConn(d)
  <2>1. d.state \notin BackendIdleLimits
    BY <1>3, LimitedStates
  <2>2. "idle" \notin d.armed
    BY <1>3 DEF a
  <2> QED BY <2>1, <2>2, <1>2, <1>3 DEF Loose, TimedConn
<1> QED BY <1>3, <1>4, <1>5, <1>6 DEF Conn, d, a

(* So is one that has had the peer's FIN before the answer to its own.     *)
LEMMA ClosingSound ==
  ASSUME NEW c, NEW g, Loose(c, g), c.finSent, ~c.finAcked, "fin" \in c.armed, c.peerFIN,
         c.state \notin {"synReceived", "established"}
  PROVE  LET d == [c EXCEPT !.state = "closing"] IN Conn(d, g) /\ d.established
<1> DEFINE d == [c EXCEPT !.state = "closing"]
<1>1. c \in Connection
  BY DEF Loose
<1>3. /\ d \in Connection /\ SameStream(d, c) /\ d.state = "closing"
      /\ d.established = c.established /\ d.sendNext = c.sendNext
      /\ d.finSent = c.finSent /\ d.finAcked = c.finAcked
      /\ d.finSeq = c.finSeq /\ d.armed = c.armed /\ d.waitingACKs = c.waitingACKs
  BY <1>1 DEF Connection, SameStream
<1> HIDE DEF d
<1>4. Held(d, g)
  BY <1>3 DEF Loose, Held, SameStream
<1>5. InState(d)
  BY <1>3 DEF Loose, InState, SameStream
<1>6. TimedConn(d)
  <2>1. c.state \notin BackendIdleLimits /\ d.state \notin BackendIdleLimits
    BY <1>3, LimitedStates
  <2> QED BY <2>1, <1>3 DEF Loose, TimedConn
<1>7. d.established
  BY <1>3 DEF Loose
<1> QED BY <1>3, <1>4, <1>5, <1>6, <1>7 DEF Conn, d

(* A change of the connection takes effect in one step.                    *)
LEMMA StartFINIs ==
  ASSUME NEW r, NEW c \in Connection, NEW s \in Receiver, r = Put(s, c), c.sendNext = 1,
         NEW state
  PROVE  R!StartFIN(r, state) =
           R!EmitFIN(Put(s, Closes(c, state, 1, 2, (c.armed \ {"idle"}) \cup {"fin"})))
<1> DEFINE n == r.conn.sendNext + 1
           m == r.conn.sendNext
           a == (c.armed \ {"idle"}) \cup {"fin"}
           t == [r EXCEPT !.conn.state = state, !.conn.finSent = TRUE,
                    !.conn.finSeq = m, !.conn.sendNext = n,
                    !.conn.armed = (@ \ {"idle"}) \cup {"fin"}]
<1>1. r \in Receiver /\ r.conn = c
  BY PutTyped
<1>2. R!StartFIN(r, state) = R!EmitFIN(t)
  BY DEF R!StartFIN
<1>3. n = 2 /\ m = 1
  BY <1>1
<1> HIDE DEF n, m
<1>4. t = [s EXCEPT !.conn = Closes(c, state, m, n, a)]
  BY <1>1 DEF Put, Closes, Receiver, Connection
<1> QED BY <1>2, <1>3, <1>4 DEF Put

(* enterTimeWait, written out.                                             *)
LEMMA EnterTimeWaitIs ==
  ASSUME NEW r, NEW c \in Connection, NEW s \in Receiver, r = Put(s, c), c.finAcked = TRUE
  PROVE  R!EnterTimeWait(r) =
           Put(s, Undelays(FinWaits(c, "timeWait", TRUE, (c.armed \ {"fin"}) \cup {"wait"})))
<1> DEFINE t == [r EXCEPT !.conn.state = "timeWait",
                          !.conn.armed = (@ \ {"fin"}) \cup {"wait"}]
           d == FinWaits(c, "timeWait", TRUE, (c.armed \ {"fin"}) \cup {"wait"})
           b == c.finAcked
           e == FinWaits(c, "timeWait", b, (c.armed \ {"fin"}) \cup {"wait"})
<1>1. r \in Receiver /\ r.conn = c
  BY PutTyped
<1>2. R!EnterTimeWait(r) = R!CancelDelayedACK(t)
  BY DEF R!EnterTimeWait
<1>3. t = Put(s, d)
  <2>1. t = Put(s, e)
    BY <1>1, ZenonT(30) DEF Put, FinWaits, Receiver, Connection
  <2>2. b = TRUE
    OBVIOUS
  <2> HIDE DEF b, t
  <2>3. e = d
    BY <2>2, Zenon
  <2> QED BY <2>1, <2>3, Zenon
<1>4. d \in Connection
  <2>1. (c.armed \ {"fin"}) \cup {"wait"} \in SUBSET RcvEvent
    BY DEF Connection, RcvEvent
  <2>2. WaitsGives(d, c, "timeWait", (c.armed \ {"fin"}) \cup {"wait"})
    BY <2>1, FinWaitsTyped
  <2> QED BY <2>2 DEF WaitsGives
<1> HIDE DEF d, t
<1>5. R!CancelDelayedACK(Put(s, d)) = Put(s, Undelays(d))
  <2>1. Put(s, d).conn = d /\ Put(s, d) \in Receiver
    BY <1>4, PutTyped
  <2> QED BY <2>1, <1>4 DEF R!CancelDelayedACK, Put, Undelays, Receiver, Connection
<1> QED BY <1>2, <1>3, <1>5 DEF d

(* Putting back what is there changes nothing.                             *)
LEMMA PutSelf ==
  ASSUME NEW r \in Receiver
  PROVE  Put(r, r.conn) = r
BY DEF Put, Receiver

(* Only the last connection counts.                                        *)
LEMMA PutTwice ==
  ASSUME NEW r \in Receiver, NEW c, NEW d
  PROVE  Put(Put(r, c), d) = Put(r, d)
BY DEF Put, Receiver

(* CloseConnection.                                                        *)
LEMMA CloseSound ==
  ASSUME NEW r, NEW g, NEW n, Backed(r, g, n), R!Open(r), Covers(g, n),
         r.conn.state = "established"
  PROVE  LET t == R!StartFIN(r, "finWait1") IN Backed(t, g, n) /\ R!Open(t)
<1> DEFINE c == r.conn
           d == Closes(c, "finWait1", 1, 2, (c.armed \ {"idle"}) \cup {"fin"})
           u == Put(r, d)
<1>1. Conn(c, g) /\ r \in Receiver
  BY OpenConn
<1>2. Loose(c, g) /\ ~c.finSent /\ ~c.finAcked /\ c.established /\ ~c.peerFIN
  <2>1. Loose(c, g)
    BY <1>1, ConnIsLoose
  <2>2. ~c.finSent /\ ~c.finAcked /\ c.established /\ ~c.peerFIN
    BY <1>1 DEF Conn, InState
  <2> QED BY <2>1, <2>2
<1>3. Conn(d, g) /\ d.established /\ d.finSent
  BY <1>2, ClosesSound
<1>4. R!StartFIN(r, "finWait1") = R!EmitFIN(u)
  <2>1. c \in Connection /\ c.sendNext = 1
    BY <1>2 DEF Loose
  <2>2. r = Put(r, c)
    BY <1>1, PutSelf
  <2> QED BY <2>1, <2>2, <1>1, StartFINIs
<1>5. d.established = c.established
  <2>1. d \in Connection /\ c \in Connection
    BY <1>1, <1>3 DEF Conn
  <2>2. d.established \in BOOLEAN /\ c.established \in BOOLEAN
    BY <2>1 DEF Connection
  <2> QED BY <2>2, <1>2, <1>3
<1> HIDE DEF d
<1>6. Backed(u, g, n) /\ R!Open(u) /\ u.conn = d
  BY <1>3, <1>5, PutSound
<1> HIDE DEF u
<1>7. Backed(R!EmitFIN(u), g, n) /\ R!Open(R!EmitFIN(u))
  BY <1>3, <1>6, EmitFINSound
<1> QED BY <1>4, <1>7

(* The flags of a connection.                                              *)
LEMMA BooleanFields ==
  ASSUME NEW c \in Connection
  PROVE  c.established \in BOOLEAN /\ c.finSent \in BOOLEAN /\ c.finAcked \in BOOLEAN
         /\ c.peerFIN \in BOOLEAN /\ c.pendingFIN \in BOOLEAN
BY DEF Connection

(* A repeated FIN restarts the wait.                                       *)
LEMMA ReenterSound ==
  ASSUME NEW r, NEW g, NEW n, Backed(r, g, n), R!Open(r), r.conn.state = "timeWait"
  PROVE  LET t == R!EnterTimeWait(r)
         IN  Backed(t, g, n) /\ R!Open(t) /\ t.conn.state = "timeWait"
<1> DEFINE c == r.conn
           f == FinWaits(c, "timeWait", TRUE, (c.armed \ {"fin"}) \cup {"wait"})
           d == Undelays(f)
           u == Put(r, d)
<1>1. Conn(c, g) /\ r \in Receiver /\ c \in Connection
  BY OpenConn DEF Conn
<1>2. Loose(c, g) /\ c.finSent /\ c.finAcked = TRUE /\ c.established /\ c.peerFIN
  <2>1. Loose(c, g)
    BY <1>1, ConnIsLoose
  <2>2. c.finSent /\ c.finAcked /\ c.established /\ c.peerFIN
    BY <1>1 DEF Conn, InState
  <2> QED BY <2>1, <2>2, <1>1, BooleanFields
<1>3. Conn(f, g) /\ f.established /\ f.state = "timeWait"
  BY <1>2, FinWaitsSound
<1>4. R!EnterTimeWait(r) = u
  <2>1. r = Put(r, c)
    BY <1>1, PutSelf
  <2> QED BY <2>1, <1>1, <1>2, EnterTimeWaitIs
<1> HIDE DEF f
<1>5. Conn(d, g) /\ d.established = f.established /\ d.state = "timeWait"
  <2>1. f \in Connection
    BY <1>3 DEF Conn
  <2> QED BY <2>1, <1>3, UndelaysSound, UndelaysTyped
<1>6. d.established = c.established
  <2>1. f \in Connection
    BY <1>3 DEF Conn
  <2> QED BY <2>1, <1>1, <1>2, <1>3, <1>5, BooleanFields
<1> HIDE DEF d
<1>7. Backed(u, g, n) /\ R!Open(u) /\ u.conn = d
  BY <1>5, <1>6, PutSound
<1> HIDE DEF u
<1> QED BY <1>4, <1>5, <1>7

(* The states in which the backend waits for the acknowledgement of its    *)
(* FIN.                                                                    *)
LEMMA AckStates ==
  ASSUME NEW c, NEW g, Conn(c, g), c.finSent, ~c.finAcked
  PROVE  /\ c.state \in {"finWait1", "closing", "lastAck"} /\ c.established
         /\ c.state \in {"closing", "lastAck"} <=> c.peerFIN
         /\ Loose(c, g) /\ c \in Connection
<1>1. c \in Connection
  BY DEF Conn
<1>2. c.state \in {"synReceived", "established", "finWait1", "finWait2", "closing", "timeWait",
            "lastAck"}
  BY <1>1 DEF Connection
<1>3. c.state \in {"finWait1", "closing", "lastAck"} /\ c.established
  BY <1>2 DEF Conn, InState
<1>4. c.state \in {"closing", "lastAck"} <=> c.peerFIN
  BY <1>3 DEF Conn, InState
<1> QED BY <1>1, <1>3, <1>4, ConnIsLoose

(* acknowledgeFIN is sound in each of them: the connection waits for the   *)
(* peer's FIN, for TIME-WAIT to pass, or is gone.                          *)
LEMMA AcknowledgeFINSound ==
  ASSUME NEW r, NEW g, NEW n, Backed(r, g, n), r.out = << >>, R!Open(r), NEW ack
  PROVE  LET t == R!AcknowledgeFIN(r, ack)
         IN  /\ Backed(t, g, n) /\ t.out = << >>
             /\ ~r.conn.peerFIN => R!Open(t)
             /\ R!Open(t) => SameStream(t.conn, r.conn) /\ t.conn.established = r.conn.established
<1> DEFINE c == r.conn
           t == R!AcknowledgeFIN(r, ack)
           v == [R!Cancel(r, "fin") EXCEPT !.conn.finAcked = TRUE]
           e == [c EXCEPT !.armed = @ \ {"fin"}, !.finAcked = TRUE]
           a == (c.armed \ {"fin"}) \cup {"wait"}
<1>1. Conn(c, g) /\ r \in Receiver /\ c \in Connection
  BY OpenConn DEF Conn
<1>2. CASE ~c.finSent \/ c.finAcked \/ ack # c.sendNext
  <2>1. t = r
    BY <1>2 DEF R!AcknowledgeFIN
  <2> QED BY <2>1 DEF SameStream
<1>3. CASE ~(~c.finSent \/ c.finAcked \/ ack # c.sendNext)
  <2>1. /\ c.state \in {"finWait1", "closing", "lastAck"} /\ c.established
        /\ c.state \in {"closing", "lastAck"} <=> c.peerFIN
        /\ Loose(c, g)
    BY <1>1, <1>3, AckStates
  <2>2. v = Put(r, e)
    BY <1>1 DEF R!Cancel, Put, Receiver, Connection
  <2>3. /\ e \in Connection /\ e.finAcked = TRUE /\ e.armed = c.armed \ {"fin"}
    BY <1>1 DEF Connection
  <2>4. CASE c.state = "finWait1"
    <3> DEFINE d == FinWaits(c, "finWait2", TRUE, a)
               u == Put(r, d)
    <3>1. t = R!Arm([v EXCEPT !.conn.state = "finWait2"], "wait")
      BY <1>3, <2>4 DEF R!AcknowledgeFIN
    <3>2. @ = u
      BY <1>1, ZenonT(30) DEF R!Cancel, R!Arm, Put, FinWaits, Receiver, Connection
    <3>3. Conn(d, g) /\ SameStream(d, c) /\ d.established
      BY <1>3, <2>1, <2>4, FinWaitsSound
    <3>4. d.established = c.established
      <4>1. d \in Connection
        BY <3>3 DEF Conn
      <4> QED BY <4>1, <1>1, <2>1, <3>3, BooleanFields
    <3>7. u.out = << >>
      <4>1. d \in Connection
        BY <3>3 DEF Conn
      <4> HIDE DEF d
      <4> QED BY <4>1, <1>1, PutTyped
    <3> HIDE DEF d
    <3>5. Backed(u, g, n) /\ R!Open(u) /\ u.conn = d
      BY <3>3, <3>4, PutSound
    <3> HIDE DEF u, t
    <3>6. t = u
      BY <3>1, <3>2
    <3> QED BY <3>3, <3>4, <3>5, <3>6, <3>7 DEF t
  <2>5. CASE c.state = "closing"
    <3> DEFINE f == FinWaits(c, "timeWait", TRUE, a)
               d == Undelays(f)
               u == Put(r, d)
    <3>1. t = R!EnterTimeWait(v)
      BY <1>3, <2>5 DEF R!AcknowledgeFIN
    <3>2. t = Put(r, Undelays(FinWaits(e, "timeWait", TRUE, (e.armed \ {"fin"}) \cup {"wait"})))
        <4> HIDE DEF v, e, t
      <4>1. R!EnterTimeWait(v) =
              Put(r, Undelays(FinWaits(e, "timeWait", TRUE, (e.armed \ {"fin"}) \cup {"wait"})))
        BY <2>2, <2>3, <1>1, EnterTimeWaitIs
      <4> QED BY <3>1, <4>1
    <3>3. FinWaits(e, "timeWait", TRUE, (e.armed \ {"fin"}) \cup {"wait"}) = f
      <4>1. (e.armed \ {"fin"}) \cup {"wait"} = a
        BY <2>3
      <4> HIDE DEF a
      <4>2. FinWaits(e, "timeWait", TRUE, a) = f
        BY <1>1 DEF FinWaits, Connection
      <4> QED BY <4>1, <4>2
    <3>4. Conn(f, g) /\ SameStream(f, c) /\ f.established
      BY <1>3, <2>1, <2>5, FinWaitsSound
    <3>5. f \in Connection
      BY <3>4 DEF Conn
    <3> HIDE DEF f
    <3>6. Conn(d, g) /\ d.established = f.established /\ SameStream(d, f) /\ d \in Connection
      BY <3>4, <3>5, UndelaysSound, UndelaysTyped
    <3>7. d.established = c.established /\ SameStream(d, c)
      <4>1. d.established = c.established
        BY <3>4, <3>5, <3>6, <1>1, <2>1, BooleanFields
      <4>2. SameStream(d, c)
        BY <3>4, <3>6 DEF SameStream
      <4> QED BY <4>1, <4>2
    <3> HIDE DEF d
    <3>8. u.out = << >>
      BY <3>6, <1>1, PutTyped
    <3>9. Backed(u, g, n) /\ R!Open(u) /\ u.conn = d
      BY <3>6, <3>7, PutSound
    <3>10. t = u
      BY <3>2, <3>3 DEF d
    <3> HIDE DEF u, t
    <3> QED BY <3>7, <3>8, <3>9, <3>10 DEF t
  <2>6. CASE c.state = "lastAck"
    <3>1. t = R!FinishConnection(v)
      BY <1>3, <2>6 DEF R!AcknowledgeFIN
    <3>2. R!FinishConnection(v) = R!FinishConnection(r)
      <4>1. v.conn = e /\ v.active = r.active /\ v \in Receiver /\ v.stopped = r.stopped
        <5> HIDE DEF v, e
        <5> QED BY <2>2, <2>3, <1>1, PutTyped
      <4>2. e.established = c.established /\ e # R!NoConnection
        <5>1. e.established = c.established
          BY <1>1 DEF Connection
        <5> QED BY <5>1, <2>3, ConnIsOpen
      <4>3. R!Open(v)
        BY <4>1, <4>2 DEF R!Open
      <4> DEFINE x == R!Max({r.active - 1, 0})
      <4>4. R!FinishConnection(v) = [v EXCEPT !.conn = R!NoConnection, !.active = x]
        BY <4>1, <4>2, <4>3, <2>1 DEF R!FinishConnection
      <4>5. R!FinishConnection(r) = [r EXCEPT !.conn = R!NoConnection, !.active = x]
        BY <2>1 DEF R!FinishConnection
      <4> HIDE DEF x
      <4>6. [v EXCEPT !.conn = R!NoConnection, !.active = x]
             = [r EXCEPT !.conn = R!NoConnection, !.active = x]
        BY <2>2, <1>1 DEF Put, Receiver
      <4> QED BY <4>4, <4>5, <4>6
    <3>3. t = R!FinishConnection(r)
      BY <3>1, <3>2
    <3> HIDE DEF t
    <3>4. Backed(t, g, n) /\ ~R!Open(t) /\ t.out = << >>
      BY <3>3, FinishBacked
    <3>5. c.peerFIN
      BY <2>1, <2>6
    <3> QED BY <3>4, <3>5 DEF t
  <2> QED BY <2>1, <2>4, <2>5, <2>6
<1> QED BY <1>2, <1>3

(* What consumeFIN does to the stream.                                     *)
Ends(c, seq, next) ==
  [c EXCEPT !.pendingFIN = FALSE, !.peerFIN = TRUE, !.peerFINSeq = seq, !.next = next]

(* The fields after it.                                                    *)
EndsGives(d, c, seq, next) ==
  /\ d \in Connection /\ d.next = next /\ d.peerFIN = TRUE /\ d.pendingFIN = FALSE
  /\ d.buffered = c.buffered /\ d.state = c.state /\ d.established = c.established
  /\ d.sendNext = c.sendNext /\ d.finSent = c.finSent /\ d.finAcked = c.finAcked
  /\ d.finSeq = c.finSeq /\ d.armed = c.armed /\ d.waitingACKs = c.waitingACKs

(* The result has those fields.                                            *)
LEMMA EndsTyped ==
  ASSUME NEW c \in Connection, NEW seq \in Nat, NEW next \in 1 .. Payload + 2
  PROVE  EndsGives(Ends(c, seq, next), c, seq, next)
BY DEF Connection, Ends, EndsGives

(* The stream is complete; the state follows.                              *)
LEMMA EndsLoose ==
  ASSUME NEW c, NEW g, Conn(c, g), c.next = Payload + 1, Payload + 1 \in g, NEW seq \in Nat
  PROVE  LET d == Ends(c, seq, Payload + 2)
         IN  Loose(d, g) /\ EndsGives(d, c, seq, Payload + 2)
<1> DEFINE n == Payload + 2
           d == Ends(c, seq, n)
<1>1. c \in Connection
  BY DEF Conn
<1>2. n \in 1 .. Payload + 2
  OBVIOUS
<1>3. n = Payload + 2 /\ n = c.next + 1 /\ n \in Int
  OBVIOUS
<1> HIDE DEF n
<1>4. EndsGives(d, c, seq, n)
  BY <1>1, <1>2, EndsTyped
<1> HIDE DEF d
<1>5. 1 .. d.next - 1 \subseteq g
  <2>1. d.next = Payload + 2 /\ 1 .. Payload \subseteq g
    <3>1. 1 .. c.next - 1 \subseteq g /\ c.next - 1 = Payload
      BY DEF Conn, Held
    <3> QED BY <3>1, <1>3, <1>4 DEF EndsGives
  <2>2. ASSUME NEW x \in 1 .. d.next - 1 PROVE x \in g
    <3>1. x \in 1 .. Payload \/ x = Payload + 1
      BY <2>1, <2>2
    <3> QED BY <3>1, <2>1
  <2> QED BY <2>2
<1>6. \A b \in d.buffered : b <= d.next + Window - 1
  <2> TAKE b \in d.buffered
  <2>1. b \in 1 .. Payload
    BY <1>1, <1>4 DEF Connection, EndsGives
  <2> QED BY <2>1, <1>3, <1>4 DEF EndsGives
<1>7. Held(d, g)
  <2>1. d.buffered \subseteq g
    BY <1>4 DEF EndsGives, Conn, Held
  <2>2. d.peerFIN /\ d.next = Payload + 2 /\ ~d.pendingFIN
    BY <1>3, <1>4 DEF EndsGives
  <2> QED BY <2>1, <2>2, <1>5, <1>6 DEF Held
<1>8. Loose(d, g)
  <2>1. Loose(c, g)
    BY ConnIsLoose
  <2> QED BY <2>1, <1>4, <1>7 DEF Loose, EndsGives
<1> QED BY <1>3, <1>4, <1>8 DEF d, n

(* The peer's FIN is consumed in order, and answered.                      *)
LEMMA ConsumeSound ==
  ASSUME NEW r, NEW g, NEW n, Backed(r, g, n), R!Open(r), Covers(g, n), ~r.conn.peerFIN,
         r.conn.established,
         r.conn.next = Payload + 1, Payload + 1 \in g, NEW seq \in Nat
  PROVE  LET t == R!ConsumeFIN(r, seq) IN Backed(t, g, n) /\ R!Open(t)
<1> DEFINE c == r.conn
           k == c.next + 1
           d == Ends(c, seq, Payload + 2)
           v == [r EXCEPT !.conn.pendingFIN = FALSE, !.conn.peerFIN = TRUE,
                     !.conn.peerFINSeq = seq, !.conn.next = k]
           t == R!ConsumeFIN(r, seq)
<1>1. Conn(c, g) /\ r \in Receiver /\ c \in Connection
  BY OpenConn DEF Conn
<1>2. Loose(d, g) /\ EndsGives(d, c, seq, Payload + 2)
  BY <1>1, EndsLoose
<1>3. /\ d \in Connection /\ d.peerFIN /\ d.state = c.state /\ d.established = c.established
      /\ d.sendNext = c.sendNext /\ d.finSent = c.finSent /\ d.finAcked = c.finAcked
      /\ d.armed = c.armed
  BY <1>2 DEF EndsGives
<1>4. v = Put(r, d)
  <2>1. v = Put(r, Ends(c, seq, k))
    BY <1>1 DEF Put, Ends, Receiver, Connection
  <2>2. k = Payload + 2
    OBVIOUS
  <2> HIDE DEF k, v
  <2> QED BY <2>1, <2>2
<1>5. c.state \in {"established", "finWait1", "finWait2"}
  <2>1. c.state \in {"synReceived", "established", "finWait1", "finWait2", "closing",
                     "timeWait", "lastAck"}
    BY <1>1 DEF Connection
  <2> QED BY <2>1, <1>1 DEF Conn, InState
<1>6. CASE c.state = "established"
  <2> DEFINE e == Closes(d, "lastAck", 1, 2, (d.armed \ {"idle"}) \cup {"fin"})
             u == Put(r, e)
  <2>1. t = R!StartFIN(v, "lastAck")
    BY <1>6 DEF R!ConsumeFIN
  <2>2. ~c.finSent /\ ~c.finAcked /\ c.sendNext = 1
    BY <1>1, <1>6 DEF Conn, InState
  <2>3. R!StartFIN(v, "lastAck") = R!EmitFIN(u)
    <3> HIDE DEF v, d
    <3> QED BY <1>1, <1>3, <1>4, <2>2, StartFINIs
  <2>4. Conn(e, g) /\ e.established /\ e.finSent
    BY <1>2, <1>3, <2>2, ClosesSound
  <2>5. e.established = c.established
    <3>1. e \in Connection
      BY <2>4 DEF Conn
    <3> QED BY <3>1, <1>1, <2>4, BooleanFields
  <2> HIDE DEF e
  <2>6. Backed(u, g, n) /\ R!Open(u) /\ u.conn = e
    BY <2>4, <2>5, PutSound
  <2> HIDE DEF u, t
  <2>7. Backed(R!EmitFIN(u), g, n) /\ R!Open(R!EmitFIN(u))
    BY <2>4, <2>6, EmitFINSound
  <2> QED BY <2>1, <2>3, <2>7 DEF t
<1>7. CASE c.state = "finWait1"
  <2> DEFINE e == [d EXCEPT !.state = "closing"]
             u == Put(r, e)
  <2>1. t = R!Acknowledge([v EXCEPT !.conn.state = "closing"])
    BY <1>7 DEF R!ConsumeFIN
  <2>2. c.finSent /\ ~c.finAcked /\ "fin" \in c.armed
    BY <1>1, <1>7 DEF Conn, InState, TimedConn
  <2>3. [v EXCEPT !.conn.state = "closing"] = u
    <3> HIDE DEF v, d
    <3> QED BY <1>1, <1>3, <1>4 DEF Put, Receiver, Connection
  <2>4. Conn(e, g) /\ e.established
    <3>1. d.state \notin {"synReceived", "established"}
      BY <1>3, <1>7
    <3> HIDE DEF d
    <3> QED BY <3>1, <1>2, <1>3, <2>2, ClosingSound
  <2>5. e.established = c.established
    <3>1. e \in Connection
      BY <2>4 DEF Conn
    <3> QED BY <3>1, <1>1, <2>4, BooleanFields
  <2> HIDE DEF e
  <2>6. Backed(u, g, n) /\ R!Open(u) /\ u.conn = e
    BY <2>4, <2>5, PutSound
  <2> HIDE DEF u, t
  <2>7. Backed(R!Acknowledge(u), g, n) /\ R!Open(R!Acknowledge(u))
    BY <2>6, AcknowledgeSound
  <2> QED BY <2>1, <2>3, <2>7 DEF t
<1>8. CASE c.state = "finWait2"
  <2> DEFINE f == FinWaits(d, "timeWait", TRUE, (d.armed \ {"fin"}) \cup {"wait"})
             e == Undelays(f)
             u == Put(r, e)
  <2>1. t = R!Acknowledge(R!EnterTimeWait(v))
    BY <1>8 DEF R!ConsumeFIN
  <2>2. c.finSent /\ c.finAcked
    BY <1>1, <1>8 DEF Conn, InState
  <2>3. R!EnterTimeWait(v) = u
    <3>1. d.finAcked = TRUE
      BY <1>1, <1>3, <2>2, BooleanFields
    <3> HIDE DEF v, d
    <3> QED BY <3>1, <1>1, <1>3, <1>4, EnterTimeWaitIs
  <2>4. Conn(f, g) /\ f.established
    <3>1. d.state \notin {"synReceived", "established"}
      BY <1>3, <1>8
    <3> HIDE DEF d
    <3> QED BY <3>1, <1>2, <1>3, <2>2, FinWaitsSound
  <2>5. f \in Connection
    BY <2>4 DEF Conn
  <2> HIDE DEF f
  <2>6. Conn(e, g) /\ e.established = f.established
    BY <2>4, <2>5, UndelaysSound, UndelaysTyped
  <2>7. e.established = c.established
    BY <2>4, <2>5, <2>6, <1>1, BooleanFields
  <2> HIDE DEF e
  <2>8. Backed(u, g, n) /\ R!Open(u) /\ u.conn = e
    BY <2>6, <2>7, PutSound
  <2> HIDE DEF u, t
  <2>9. Backed(R!Acknowledge(u), g, n) /\ R!Open(R!Acknowledge(u))
    BY <2>8, AcknowledgeSound
  <2> QED BY <2>1, <2>3, <2>9 DEF t
<1> QED BY <1>5, <1>6, <1>7, <1>8

(* A packet reaches a connection that has emitted nothing yet.             *)
LEMMA RepeatAnswerSound ==
  ASSUME NEW r, NEW g, NEW n, Backed(r, g, n), r.out = << >>, R!Open(r), Covers(g, n), NEW p
  PROVE  Backed(R!RepeatAnswer(r, p), g, n)
<1> DEFINE t == R!AcknowledgeFIN(r, p.ack)
           u == IF t.conn.state = "timeWait" THEN R!EnterTimeWait(t) ELSE t
<1>1. R!RepeatAnswer(r, p) = IF p.seq # r.conn.peerFINSeq THEN r
        ELSE IF ~R!Open(t) THEN t
        ELSE IF u.conn.state = "lastAck" THEN R!EmitFIN(u)
        ELSE R!Acknowledge(u)
  BY DEF R!RepeatAnswer
<1>2. Backed(t, g, n)
  BY AcknowledgeFINSound
<1> HIDE DEF t
<1>3. CASE R!Open(t)
  <2>1. Backed(u, g, n) /\ R!Open(u)
    <3>1. CASE t.conn.state = "timeWait"
      BY <1>2, <1>3, <3>1, ReenterSound
    <3>2. CASE t.conn.state # "timeWait"
      BY <1>2, <1>3, <3>2
    <3> QED BY <3>1, <3>2
  <2> HIDE DEF u
  <2>2. Backed(R!Acknowledge(u), g, n)
    BY <2>1, AcknowledgeSound
  <2>3. u.conn.state = "lastAck" => Backed(R!EmitFIN(u), g, n)
    <3>1. Conn(u.conn, g)
      BY <2>1, OpenConn
    <3>2. u.conn.state = "lastAck" => u.conn.finSent
      BY <3>1 DEF Conn, InState
    <3> QED BY <2>1, <3>2, EmitFINSound
  <2> QED BY <1>1, <1>3, <2>2, <2>3
<1> QED BY <1>1, <1>2, <1>3

(* What acceptFIN does with a FIN that came too early.                     *)
Holds(c, seq) == [c EXCEPT !.pendingFIN = TRUE, !.pendingFINSeq = seq]

(* The fields after it.                                                    *)
HoldsGives(d, c, seq) ==
  /\ d \in Connection /\ d.next = c.next /\ d.peerFIN = c.peerFIN /\ d.pendingFINSeq = seq
  /\ d.buffered = c.buffered /\ d.state = c.state /\ d.established = c.established
  /\ d.sendNext = c.sendNext /\ d.finSent = c.finSent /\ d.finAcked = c.finAcked
  /\ d.finSeq = c.finSeq /\ d.armed = c.armed /\ d.waitingACKs = c.waitingACKs

(* The result has those fields.                                            *)
LEMMA HoldsTyped ==
  ASSUME NEW c \in Connection, NEW seq \in Nat
  PROVE  HoldsGives(Holds(c, seq), c, seq)
BY DEF Connection, Holds, HoldsGives

(* A FIN kept for later is one that did arrive.                            *)
LEMMA HoldsSound ==
  ASSUME NEW c, NEW g, Conn(c, g), NEW seq, seq = Payload + 1, seq \in g
  PROVE  LET d == Holds(c, seq) IN Conn(d, g) /\ d.established = c.established
<1> DEFINE d == Holds(c, seq)
<1>1. c \in Connection /\ seq \in Nat
  BY DEF Conn
<1>2. HoldsGives(d, c, seq)
  BY <1>1, HoldsTyped
<1> HIDE DEF d
<1>3. Held(d, g)
  BY <1>2 DEF Conn, Held, HoldsGives
<1>4. InState(d)
  BY <1>2 DEF Conn, InState, HoldsGives
<1>5. TimedConn(d)
  BY <1>2 DEF Conn, TimedConn, HoldsGives
<1> QED BY <1>2, <1>3, <1>4, <1>5 DEF Conn, HoldsGives, d

(* What arrives inside the window has arrived.                             *)
Arrived(p, next, g) ==
  \A x \in 1 .. Payload + 1 :
    p.seq <= x /\ x < R!SequenceEnd(p) /\ next <= x /\ x < next + Window => x \in g

(* acceptFIN is sound, for a FIN in its turn and for one that is early.    *)
LEMMA AcceptFINSound ==
  ASSUME NEW r, NEW g, NEW n, Backed(r, g, n), r.out = << >>, R!Open(r), Covers(g, n),
         NEW p, FromClient(p), p.kind = "FIN", ~r.conn.peerFIN, Arrived(p, r.conn.next, g),
         NEW admit \in BOOLEAN
  PROVE  Backed(R!AcceptFIN(r, p, admit), g, n)
<1> DEFINE c == r.conn
           early == p.seq < c.next \/ p.seq - c.next >= Window
           contradicts == \/ c.pendingFIN /\ p.seq # c.pendingFINSeq
                          \/ \E b \in c.buffered : b >= p.seq
           e == IF c.established THEN r ELSE R!Establish(r, admit)
           t == R!AcknowledgeFIN(e, p.ack)
           u == R!RecordActivity(t)
           v == [u EXCEPT !.conn.pendingFIN = TRUE, !.conn.pendingFINSeq = p.seq]
<1>1. R!AcceptFIN(r, p, admit) =
        IF early \/ contradicts THEN r
        ELSE IF ~R!Open(e) THEN e
        ELSE IF ~R!Open(t) THEN t
        ELSE IF p.seq = c.next THEN R!ConsumeFIN(u, p.seq)
        ELSE R!Acknowledge(v)
  BY DEF R!AcceptFIN
<1>2. Backed(e, g, n) /\ e.out = << >>
      /\ (R!Open(e) => e.conn.established /\ SameStream(e.conn, c))
  <2>1. CASE c.established
    BY <2>1 DEF SameStream
  <2>2. CASE ~c.established
    BY <2>2, EstablishSound
  <2> QED BY <2>1, <2>2
<1>3. p.seq = Payload + 1 /\ R!SequenceEnd(p) = Payload + 2
  BY DEF FromClient, R!SequenceEnd
<1>4. c.next \in 1 .. Payload + 2
  <2>1. Conn(c, g)
    BY OpenConn
  <2> QED BY <2>1 DEF Conn, Connection
<1>5. ~early => Payload + 1 \in g
  <2>1. SUFFICES ASSUME ~early PROVE Payload + 1 \in g
    OBVIOUS
  <2>2. Payload + 1 \in 1 .. Payload + 1 /\ p.seq <= Payload + 1 /\ Payload + 1 < R!SequenceEnd(p)
    BY <1>3
  <2>3. c.next <= Payload + 1 /\ Payload + 1 < c.next + Window
    BY <1>3, <1>4, <2>1
  <2> QED BY <2>2, <2>3 DEF Arrived
<1> HIDE DEF e, contradicts
<1>6. SUFFICES ASSUME ~early, R!Open(e)
               PROVE  /\ Backed(t, g, n)
                      /\ R!Open(t) => /\ p.seq = c.next => Backed(R!ConsumeFIN(u, p.seq), g, n)
                                      /\ Backed(R!Acknowledge(v), g, n)
  BY <1>1, <1>2
<1>7. Backed(t, g, n) /\ (R!Open(t) => /\ SameStream(t.conn, e.conn)
                                       /\ t.conn.established = e.conn.established)
  BY <1>2, <1>6, AcknowledgeFINSound
<1> HIDE DEF t, early
<1>8. SUFFICES ASSUME R!Open(t)
               PROVE  /\ p.seq = c.next => Backed(R!ConsumeFIN(u, p.seq), g, n)
                      /\ Backed(R!Acknowledge(v), g, n)
  BY <1>7
<1>9. Backed(u, g, n) /\ R!Open(u) /\ SameStream(u.conn, t.conn)
      /\ u.conn.established = t.conn.established
  BY <1>7, <1>8, ActivitySound
<1> HIDE DEF u
<1>10. SameStream(u.conn, c) /\ u.conn.established = e.conn.established
  BY <1>2, <1>6, <1>7, <1>8, <1>9 DEF SameStream
<1>11. ASSUME p.seq = c.next PROVE Backed(R!ConsumeFIN(u, p.seq), g, n)
  <2>1. u.conn.next = Payload + 1 /\ ~u.conn.peerFIN
    BY <1>3, <1>10, <1>11 DEF SameStream
  <2>2. u.conn.established
    BY <1>2, <1>6, <1>10
  <2>3. p.seq \in Nat
    BY <1>3
  <2> QED BY <1>5, <1>6, <1>9, <2>1, <2>2, <2>3, ConsumeSound
<1>12. Backed(R!Acknowledge(v), g, n)
  <2> DEFINE d == Holds(u.conn, p.seq)
  <2>1. Conn(u.conn, g) /\ u \in Receiver
    BY <1>9, OpenConn
  <2>2. v = Put(u, d)
    <3>1. u.conn \in Connection
      BY <2>1 DEF Conn
    <3> QED BY <3>1, <2>1 DEF Put, Holds, Receiver, Connection
  <2>3. Conn(d, g) /\ d.established = u.conn.established
    <3>1. p.seq \in g
      BY <1>3, <1>5, <1>6
    <3> QED BY <2>1, <1>3, <3>1, HoldsSound
  <2> HIDE DEF d, v
  <2>4. Backed(v, g, n) /\ R!Open(v)
    BY <2>2, <2>3, <1>9, PutSound
  <2> QED BY <2>4, AcknowledgeSound
<1> QED BY <1>11, <1>12

(* handleAck is sound.                                                     *)
LEMMA HandleAckSound ==
  ASSUME NEW r, NEW g, NEW n, Backed(r, g, n), r.out = << >>, R!Open(r), NEW p
  PROVE  Backed(R!HandleAck(r, p), g, n)
<1> DEFINE t == R!AcknowledgeFIN(r, p.ack)
<1>1. R!HandleAck(r, p) =
        IF p.seq # r.conn.next THEN r ELSE IF R!Open(t) THEN R!RecordActivity(t) ELSE t
  BY DEF R!HandleAck
<1>2. Backed(t, g, n)
  BY AcknowledgeFINSound
<1> HIDE DEF t
<1>3. R!Open(t) => Backed(R!RecordActivity(t), g, n)
  BY <1>2, ActivitySound
<1> QED BY <1>1, <1>2, <1>3

(* What acknowledgeData does when an acknowledgement may wait.             *)
Delays(c, waiting) == [c EXCEPT !.waitingACKs = waiting, !.armed = @ \cup {"delayedACK"}]

(* The fields after it.                                                    *)
DelaysGives(d, c, waiting) ==
  /\ d \in Connection /\ SameStream(d, c) /\ d.state = c.state /\ d.established = c.established
  /\ d.sendNext = c.sendNext /\ d.finSent = c.finSent /\ d.finAcked = c.finAcked
  /\ d.finSeq = c.finSeq /\ d.armed = c.armed \cup {"delayedACK"} /\ d.waitingACKs = waiting

(* The result has those fields.                                            *)
LEMMA DelaysTyped ==
  ASSUME NEW c \in Connection, NEW waiting \in Nat
  PROVE  DelaysGives(Delays(c, waiting), c, waiting)
BY DEF Connection, Delays, DelaysGives, SameStream, RcvEvent

(* An acknowledgement that is owed has a deadline.                         *)
LEMMA DelaysSound ==
  ASSUME NEW c, NEW g, Conn(c, g), NEW waiting \in Nat, waiting > 0
  PROVE  LET d == Delays(c, waiting) IN Conn(d, g) /\ d.established = c.established
<1> DEFINE d == Delays(c, waiting)
<1>1. c \in Connection
  BY DEF Conn
<1>2. DelaysGives(d, c, waiting)
  BY <1>1, DelaysTyped
<1> HIDE DEF d
<1>3. Held(d, g)
  BY <1>2 DEF Conn, Held, DelaysGives, SameStream
<1>4. InState(d)
  BY <1>2 DEF Conn, InState, DelaysGives, SameStream
<1>5. TimedConn(d)
  BY <1>2 DEF Conn, TimedConn, DelaysGives
<1> QED BY <1>2, <1>3, <1>4, <1>5 DEF Conn, DelaysGives, d

(* acknowledgeData is sound, at once or with a delay.                      *)
LEMMA AcknowledgeDataSound ==
  ASSUME NEW r, NEW g, NEW n, Backed(r, g, n), R!Open(r), Covers(g, n), NEW mayDelay \in BOOLEAN
  PROVE  Backed(R!AcknowledgeData(r, mayDelay), g, n)
<1> DEFINE waiting == r.conn.waitingACKs + 1
           d == Delays(r.conn, waiting)
           v == R!Arm([r EXCEPT !.conn.waitingACKs = waiting], "delayedACK")
           now == \/ ~mayDelay \/ r.conn.state # "established" \/ r.conn.pendingFIN
                  \/ waiting >= SegmentsPerACK
<1>1. R!AcknowledgeData(r, mayDelay) = IF now THEN R!Acknowledge(r) ELSE v
  BY DEF R!AcknowledgeData
<1>2. Conn(r.conn, g) /\ r \in Receiver /\ r.conn \in Connection
  BY OpenConn DEF Conn
<1>3. waiting \in Nat /\ waiting > 0
  <2>1. r.conn.waitingACKs \in Nat
    BY <1>2 DEF Connection
  <2> QED BY <2>1
<1> HIDE DEF waiting, now
<1>4. v = Put(r, d)
  BY <1>2 DEF R!Arm, Put, Delays, Receiver, Connection
<1>5. Conn(d, g) /\ d.established = r.conn.established
  BY <1>2, <1>3, DelaysSound
<1> HIDE DEF d, v
<1>6. Backed(v, g, n)
  BY <1>4, <1>5, PutSound
<1>7. Backed(R!Acknowledge(r), g, n)
  BY AcknowledgeSound
<1> QED BY <1>1, <1>6, <1>7

(* The smallest of a set of numbers is one of them.                        *)
LEMMA BackendSmallest ==
  ASSUME NEW set \in SUBSET Nat, set # {}
  PROVE  R!Min(set) \in set /\ \A y \in set : R!Min(set) <= y
<1>1. \E x \in set : \A y \in set : x <= y
  BY SmallestOf
<1> QED BY <1>1 DEF R!Min

(* What data does to the stream of a connection.                           *)
Takes(c, next, buffered) == [c EXCEPT !.next = next, !.buffered = buffered]

(* The fields after it.                                                    *)
TakesGives(d, c, next, buffered) ==
  /\ d \in Connection /\ d.next = next /\ d.buffered = buffered
  /\ d.peerFIN = c.peerFIN /\ d.pendingFIN = c.pendingFIN /\ d.pendingFINSeq = c.pendingFINSeq
  /\ d.state = c.state /\ d.established = c.established
  /\ d.sendNext = c.sendNext /\ d.finSent = c.finSent /\ d.finAcked = c.finAcked
  /\ d.finSeq = c.finSeq /\ d.armed = c.armed /\ d.waitingACKs = c.waitingACKs

(* The result has those fields.                                            *)
LEMMA TakesTyped ==
  ASSUME NEW c \in Connection, NEW next \in 1 .. Payload + 2, NEW b \in SUBSET (1 .. Payload)
  PROVE  TakesGives(Takes(c, next, b), c, next, b)
BY DEF Connection, Takes, TakesGives

(* A connection stays sound when all it counts as received has arrived.    *)
LEMMA TakesSound ==
  ASSUME NEW c, NEW g, Conn(c, g), ~c.peerFIN,
         NEW next \in 1 .. Payload + 1, NEW b \in SUBSET (1 .. Payload),
         1 .. next - 1 \subseteq g, b \subseteq g, \A x \in b : x <= next + Window - 1
  PROVE  LET d == Takes(c, next, b)
         IN  /\ Conn(d, g) /\ d.established = c.established /\ d.peerFIN = c.peerFIN
             /\ d.next = next
<1> DEFINE d == Takes(c, next, b)
<1>1. c \in Connection
  BY DEF Conn
<1>2. TakesGives(d, c, next, b)
  <2>1. next \in 1 .. Payload + 2
    OBVIOUS
  <2> QED BY <1>1, <2>1, TakesTyped
<1> HIDE DEF d
<1>3. Held(d, g)
  <2>1. ~d.peerFIN /\ d.next = next /\ next # Payload + 2
    BY <1>2 DEF TakesGives
  <2>2. d.pendingFIN => d.pendingFINSeq = Payload + 1 /\ Payload + 1 \in g
    BY <1>2 DEF TakesGives, Conn, Held
  <2>3. d.buffered = b
    BY <1>2 DEF TakesGives
  <2> QED BY <2>1, <2>2, <2>3 DEF Held
<1>4. InState(d)
  BY <1>2 DEF Conn, InState, TakesGives
<1>5. TimedConn(d)
  BY <1>2 DEF Conn, TimedConn, TakesGives
<1> QED BY <1>2, <1>3, <1>4, <1>5 DEF Conn, TakesGives, d

(* receiveBuffer.accept keeps what has arrived and passes nothing else.    *)
LEMMA AcceptedSound ==
  ASSUME NEW c, NEW g, Conn(c, g), ~c.peerFIN, NEW from \in Int, NEW end \in Int,
         end <= Payload + 1, from >= 1,
         \A x \in 1 .. Payload : from <= x /\ x < end /\ c.next <= x /\ x < c.next + Window
            => x \in g
  PROVE  LET d == R!Accepted(c, from, end)
         IN  Conn(d, g) /\ d.established = c.established /\ d.peerFIN = c.peerFIN
<1> DEFINE window == c.next .. c.next + Window - 1
           arrived == (from .. end - 1) \cap window
           held == c.buffered \cup arrived
           set == (c.next .. c.next + Window) \ held
           next == R!Min(set)
           b == {x \in held : x > next}
<1>1. c \in Connection /\ c.next \in 1 .. Payload + 1 /\ c.next \in Nat
  <2>1. c \in Connection /\ c.next # Payload + 2
    BY DEF Conn, Held
  <2>2. c.next \in 1 .. Payload + 2
    BY <2>1 DEF Connection
  <2> QED BY <2>1, <2>2
<1>2. arrived \subseteq 1 .. Payload /\ arrived \subseteq g
  <2> SUFFICES ASSUME NEW x \in arrived PROVE x \in 1 .. Payload /\ x \in g
    OBVIOUS
  <2>1. x \in Int /\ from <= x /\ x <= end - 1 /\ c.next <= x /\ x <= c.next + Window - 1
    BY <1>1
  <2>2. x \in 1 .. Payload /\ x < end /\ x < c.next + Window
    BY <2>1, <1>1
  <2> QED BY <2>1, <2>2
<1>3. held \subseteq 1 .. Payload /\ held \subseteq g /\ \A x \in held : x <= c.next + Window - 1
  <2>1. c.buffered \subseteq 1 .. Payload
    BY <1>1 DEF Connection
  <2>2. c.buffered \subseteq g /\ \A x \in c.buffered : x <= c.next + Window - 1
    BY DEF Conn, Held
  <2>3. \A x \in arrived : x <= c.next + Window - 1
    BY <1>1
  <2> QED BY <1>2, <2>1, <2>2, <2>3
<1> HIDE DEF arrived, held
<1>4. set \in SUBSET Nat /\ set # {}
  <2>1. c.next + Window \notin held
    BY <1>1, <1>3
  <2>2. c.next + Window \in set
    BY <1>1, <2>1
  <2> QED BY <1>1, <2>2
<1>5. next \in set /\ \A y \in set : next <= y
  BY <1>4, BackendSmallest
<1> HIDE DEF next
<1>6. next \in Nat /\ c.next <= next /\ next <= c.next + Window
  BY <1>1, <1>5
<1>7. \A x \in Int : c.next <= x /\ x < next => x \in held
  <2> SUFFICES ASSUME NEW x \in Int, c.next <= x, x < next, x \notin held PROVE FALSE
    OBVIOUS
  <2>1. x \in set
    BY <1>1, <1>6
  <2> QED BY <2>1, <1>5, <1>6
<1>8. next <= Payload + 1
  <2>1. CASE next = c.next
    BY <2>1, <1>1
  <2>2. CASE next # c.next
    <3>1. next - 1 \in Int /\ c.next <= next - 1 /\ next - 1 < next
      BY <2>2, <1>1, <1>6
    <3>2. next - 1 \in held
      BY <3>1, <1>7
    <3>3. next - 1 \in 1 .. Payload
      BY <3>2, <1>3
    <3> QED BY <3>3, <1>6
  <2> QED BY <2>1, <2>2
<1>9. 1 .. next - 1 \subseteq g
  <2> SUFFICES ASSUME NEW x \in 1 .. next - 1 PROVE x \in g
    OBVIOUS
  <2>1. CASE x < c.next
    <3>1. x \in 1 .. c.next - 1
      BY <2>1, <1>1, <1>6
    <3> QED BY <3>1 DEF Conn, Held
  <2>2. CASE c.next <= x
    <3>1. x \in held
      BY <2>2, <1>6, <1>7
    <3> QED BY <3>1, <1>3
  <2> QED BY <2>1, <2>2, <1>1, <1>6
<1>10. b \subseteq 1 .. Payload /\ b \subseteq g /\ \A x \in b : x <= next + Window - 1
  <2>1. b \subseteq held
    OBVIOUS
  <2>2. \A x \in b : x <= next + Window - 1
    <3> TAKE x \in b
    <3>1. x <= c.next + Window - 1 /\ x \in 1 .. Payload
      BY <2>1, <1>3
    <3> QED BY <3>1, <1>1, <1>6
  <2> QED BY <1>3, <2>1, <2>2
<1>11. next \in 1 .. Payload + 1
  BY <1>1, <1>6, <1>8
<1>12. R!Accepted(c, from, end) = Takes(c, next, b)
  BY DEF R!Accepted, Takes, next, held, arrived
<1> HIDE DEF b
<1>13. /\ Conn(Takes(c, next, b), g) /\ Takes(c, next, b).established = c.established
       /\ Takes(c, next, b).peerFIN = c.peerFIN
  BY <1>9, <1>10, <1>11, TakesSound
<1> QED BY <1>12, <1>13

(* handleData is sound: data in turn, early, late and in part, and a FIN   *)
(* that waited for it.                                                     *)
LEMMA HandleDataSound ==
  ASSUME NEW r, NEW g, NEW n, Backed(r, g, n), r.out = << >>, R!Open(r), Covers(g, n),
         r.conn.established,
         NEW p, FromClient(p), p.kind = "DATA", Arrived(p, r.conn.next, g)
  PROVE  Backed(R!HandleData(r, p), g, n)
<1> DEFINE c == r.conn
           a == R!AcknowledgeFIN(r, p.ack)
           t == IF R!OverlapsWindow(c, p) THEN R!RecordActivity(a) ELSE r
           end == IF c.pendingFIN THEN R!Min({R!SequenceEnd(p), c.pendingFINSeq})
                  ELSE R!SequenceEnd(p)
           u == [t EXCEPT !.conn = R!Accepted(@, p.seq, end)]
           mayDelay == p.seq = c.next /\ c.buffered = {} /\ R!NewBytes(c, p.seq, end) = p.size
<1>1. R!HandleData(r, p) =
        IF c.peerFIN THEN r
        ELSE IF u.conn.pendingFIN /\ u.conn.next = u.conn.pendingFINSeq
        THEN R!ConsumeFIN(u, u.conn.next)
        ELSE R!AcknowledgeData(u, mayDelay)
  BY DEF R!HandleData
<1>2. mayDelay \in BOOLEAN
  OBVIOUS
<1> HIDE DEF mayDelay
<1>3. SUFFICES ASSUME ~c.peerFIN
               PROVE  /\ u.conn.pendingFIN /\ u.conn.next = u.conn.pendingFINSeq
                           => Backed(R!ConsumeFIN(u, u.conn.next), g, n)
                      /\ Backed(R!AcknowledgeData(u, mayDelay), g, n)
  BY <1>1
<1>4. /\ Backed(t, g, n) /\ R!Open(t) /\ SameStream(t.conn, c)
      /\ t.conn.established = c.established
  <2>1. CASE R!OverlapsWindow(c, p)
    <3>1. Backed(a, g, n) /\ R!Open(a) /\ SameStream(a.conn, c)
          /\ a.conn.established = c.established
      BY <1>3, AcknowledgeFINSound
    <3> HIDE DEF a
    <3> DEFINE v == R!RecordActivity(a)
    <3>2. Backed(v, g, n) /\ R!Open(v) /\ SameStream(v.conn, a.conn)
          /\ v.conn.established = a.conn.established
      BY <3>1, ActivitySound
    <3>3. t = v
      BY <2>1
    <3> HIDE DEF v, t
    <3> QED BY <3>1, <3>2, <3>3 DEF SameStream
  <2>2. CASE ~R!OverlapsWindow(c, p)
    BY <2>2 DEF SameStream
  <2> QED BY <2>1, <2>2
<1> HIDE DEF t
<1>5. /\ p.seq >= 1 /\ R!SequenceEnd(p) <= Payload + 1
      /\ p.seq \in Int /\ R!SequenceEnd(p) \in Int
  <2>1. p.seq \in 0 .. Payload + 2 /\ p.size \in 0 .. Mss
    BY DEF FromClient, Segment
  <2>2. R!SequenceEnd(p) = p.seq + p.size
    BY DEF R!SequenceEnd
  <2>3. p.seq >= 1 /\ p.seq + p.size <= Payload + 1
    BY DEF FromClient
  <2> QED BY <2>1, <2>2, <2>3
<1>6. end \in Int /\ end <= R!SequenceEnd(p)
  <2>1. CASE ~c.pendingFIN
    BY <1>5, <2>1
  <2>2. CASE c.pendingFIN
    <3>1. c.pendingFINSeq = Payload + 1
      <4>1. Conn(c, g)
        BY OpenConn
      <4> QED BY <4>1, <2>2 DEF Conn, Held
    <3> DEFINE x == R!SequenceEnd(p)
    <3>2. R!Min({x, Payload + 1}) = x
      <4>1. x <= Payload + 1 /\ x \in Int
        BY <1>5
      <4> HIDE DEF x
      <4> QED BY <4>1 DEF R!Min
    <3> QED BY <2>2, <3>1, <3>2, <1>5
  <2> QED BY <2>1, <2>2
<1> HIDE DEF end
<1> DEFINE d == R!Accepted(t.conn, p.seq, end)
<1>7. Conn(t.conn, g) /\ t \in Receiver /\ t.conn.next = c.next /\ ~t.conn.peerFIN
  BY <1>3, <1>4, OpenConn DEF SameStream
<1>8. Conn(d, g) /\ d.established = t.conn.established /\ d.peerFIN = t.conn.peerFIN
  <2>1. \A x \in 1 .. Payload : p.seq <= x /\ x < end /\ t.conn.next <= x
                                /\ x < t.conn.next + Window => x \in g
    <3> TAKE x \in 1 .. Payload
    <3>1. x \in 1 .. Payload + 1 /\ (x < end => x < R!SequenceEnd(p))
      BY <1>5, <1>6
    <3> QED BY <3>1, <1>7 DEF Arrived
  <2>2. end <= Payload + 1
    BY <1>5, <1>6
  <2> QED BY <2>1, <2>2, <1>5, <1>6, <1>7, AcceptedSound
<1>9. u = Put(t, d)
  BY DEF Put
<1> HIDE DEF d, u
<1>10. Backed(u, g, n) /\ R!Open(u) /\ u.conn = d
  BY <1>4, <1>8, <1>9, PutSound
<1>11. Backed(R!AcknowledgeData(u, mayDelay), g, n)
  BY <1>2, <1>10, AcknowledgeDataSound
<1>12. ASSUME u.conn.pendingFIN, u.conn.next = u.conn.pendingFINSeq
       PROVE  Backed(R!ConsumeFIN(u, u.conn.next), g, n)
  <2>1. u.conn.next = Payload + 1 /\ Payload + 1 \in g
    BY <1>8, <1>10, <1>12 DEF Conn, Held
  <2>2. ~u.conn.peerFIN /\ u.conn.established
    BY <1>4, <1>7, <1>8, <1>10
  <2>3. u.conn.next \in Nat
    BY <2>1
  <2> QED BY <1>10, <2>1, <2>2, <2>3, ConsumeSound
<1> QED BY <1>11, <1>12

(* handleSegment is sound for every segment but a SYN and a FIN.           *)
LEMMA HandleSegmentSound ==
  ASSUME NEW r, NEW g, NEW n, Backed(r, g, n), r.out = << >>, R!Open(r), Covers(g, n),
         NEW p, FromClient(p), p.kind \notin {"SYN", "FIN"}, Arrived(p, r.conn.next, g),
         NEW admit \in BOOLEAN
  PROVE  Backed(R!HandleSegment(r, p, admit), g, n)
<1> DEFINE valid == IF p.size > 0 THEN R!OverlapsWindow(r.conn, p) ELSE p.seq = r.conn.next
           e == IF r.conn.established THEN r ELSE R!Establish(r, admit)
<1>1. R!HandleSegment(r, p, admit) =
        IF ~r.conn.established /\ ~valid THEN r
        ELSE IF ~R!Open(e) THEN e
        ELSE IF p.size = 0 THEN R!HandleAck(e, p)
        ELSE R!HandleData(e, p)
  BY DEF R!HandleSegment
<1>2. Backed(e, g, n) /\ e.out = << >>
      /\ (R!Open(e) => e.conn.established /\ SameStream(e.conn, r.conn))
  <2>1. CASE r.conn.established
    BY <2>1 DEF SameStream
  <2>2. CASE ~r.conn.established
    BY <2>2, EstablishSound
  <2> QED BY <2>1, <2>2
<1> HIDE DEF e, valid
<1>3. ASSUME R!Open(e) PROVE Backed(R!HandleAck(e, p), g, n)
  BY <1>2, <1>3, HandleAckSound
<1>4. ASSUME R!Open(e), p.size # 0 PROVE Backed(R!HandleData(e, p), g, n)
  <2>1. p.kind = "DATA"
    BY <1>4 DEF FromClient
  <2>2. Arrived(p, e.conn.next, g)
    BY <1>2, <1>4 DEF SameStream
  <2> QED BY <1>2, <1>4, <2>1, <2>2, HandleDataSound
<1> QED BY <1>1, <1>2, <1>3, <1>4

(* The connection a SYN opens.                                             *)
Fresh ==
  [state |-> "synReceived", established |-> FALSE,
   next |-> R!SequenceEnd(R!Syn), buffered |-> {}, sendNext |-> 1,
   waitingACKs |-> 0, finSent |-> FALSE, finAcked |-> FALSE, finSeq |-> 0,
   finTimeouts |-> 0, peerFIN |-> FALSE, peerFINSeq |-> 0,
   pendingFIN |-> FALSE, pendingFINSeq |-> 0, armed |-> R!IdleCheck("synReceived")]

(* It is sound and has received nothing but the SYN.                       *)
LEMMA FreshSound ==
  ASSUME NEW g
  PROVE  Conn(Fresh, g) /\ ~Fresh.established
<1>1. R!SequenceEnd(R!Syn) = 1
  BY DEF R!SequenceEnd, R!Syn
<1>2. Fresh \in Connection
  BY <1>1, IdleCheckIs DEF Fresh, Connection, RcvEvent
<1>3. Held(Fresh, g)
  <2>1. Fresh.next = 1 /\ Fresh.buffered = {} /\ ~Fresh.pendingFIN /\ ~Fresh.peerFIN
    BY <1>1 DEF Fresh
  <2>2. 1 .. Fresh.next - 1 = {}
    BY <2>1
  <2>3. Fresh.next # Payload + 2
    BY <2>1
  <2> QED BY <2>1, <2>2, <2>3 DEF Held
<1>4. InState(Fresh)
  BY DEF Fresh, InState
<1>5. TimedConn(Fresh)
  <2>1. Fresh.state = "synReceived" /\ Fresh.armed = R!IdleCheck("synReceived")
        /\ ~Fresh.finSent /\ Fresh.waitingACKs = 0
    BY DEF Fresh
  <2>2. \A e \in {"delayedACK", "fin"} : e \notin Fresh.armed
    BY <2>1, IdleCheckIs
  <2> QED BY <2>1, <2>2, IdleCheckIs DEF TimedConn
<1>6. ~Fresh.established
  BY DEF Fresh
<1> QED BY <1>2, <1>3, <1>4, <1>5, <1>6 DEF Conn

(* A Receiver whose connection counts as half open.                        *)
Reserves(r, c, h) == [r EXCEPT !.halfOpen = h, !.conn = c]

(* The fields after it.                                                    *)
LEMMA ReservesTyped ==
  ASSUME NEW r \in Receiver, NEW c \in Connection, NEW h \in 0 .. 1
  PROVE  LET t == Reserves(r, c, h)
         IN  /\ t \in Receiver /\ t.conn = c /\ t.active = r.active /\ t.halfOpen = h
             /\ t.stopped = r.stopped /\ t.out = r.out
<1> DEFINE u == Put(r, c)
           a == r.active
<1>1. u \in Receiver /\ u.conn = c /\ u.stopped = r.stopped /\ u.out = r.out /\ u.active = a
  BY PutTyped
<1>2. Reserves(r, c, h) = Counts(u, h, a)
  BY <1>1 DEF Reserves, Put, Counts, Receiver
<1>3. a \in 0 .. 1
  BY DEF Receiver
<1> HIDE DEF u, a
<1>4. /\ Counts(u, h, a) \in Receiver /\ Counts(u, h, a).conn = u.conn
      /\ Counts(u, h, a).active = a /\ Counts(u, h, a).halfOpen = h
      /\ Counts(u, h, a).stopped = u.stopped /\ Counts(u, h, a).out = u.out
  BY <1>1, <1>3, CountsTyped
<1> QED BY <1>1, <1>2, <1>4 DEF a

(* A SYN is given a place of its own.                                      *)
LEMMA ReserveSound ==
  ASSUME NEW r, NEW g, NEW n, Backed(r, g, n), ~R!Open(r), ~r.stopped
  PROVE  Backed(R!Reserve(r), g, n) /\ R!Open(R!Reserve(r))
<1> DEFINE h == r.halfOpen + 1
           t == Reserves(r, Fresh, h)
<1>1. r \in Receiver /\ r.active = 0 /\ r.halfOpen = 0 /\ r.out = << >>
  BY DEF Backed, RcvSound
<1>2. h = 1 /\ h \in 0 .. 1
  BY <1>1
<1>3. R!Reserve(r) = t
  BY DEF R!Reserve, Reserves, Fresh
<1>4. Conn(Fresh, g) /\ ~Fresh.established /\ Fresh \in Connection /\ Fresh # R!NoConnection
  BY FreshSound, ConnIsOpen DEF Conn
<1> HIDE DEF h
<1>5. /\ t \in Receiver /\ t.conn = Fresh /\ t.active = 0 /\ t.halfOpen = 1
      /\ t.stopped = r.stopped /\ t.out = r.out
  BY <1>1, <1>2, <1>4, ReservesTyped
<1> HIDE DEF t
<1>6. R!Open(t)
  BY <1>4, <1>5 DEF R!Open
<1>7. RcvSound(t, g)
  BY <1>4, <1>5, <1>6 DEF RcvSound, Conn
<1>8. OutAcks(t, n)
  BY <1>1, <1>5 DEF OutAcks
<1> QED BY <1>3, <1>6, <1>7, <1>8 DEF Backed

(* Answering it is sound.                                                  *)
LEMMA SynAckBacked ==
  ASSUME NEW r, NEW g, NEW n, Backed(r, g, n), R!Open(r), Covers(g, n)
  PROVE  Backed(R!Emit(r, R!SynAck), g, n)
<1>1. 0 \in 0 .. Payload + 2
  OBVIOUS
<1>2. FromBackend(R!SynAck) /\ R!SynAck.ack = 1
  BY <1>1, AckIsFromBackend
<1>3. n \in 0 .. Payload + 1
  BY DEF Covers
<1>4. R!SynAck.ack <= n + 1
  BY <1>2, <1>3
<1> QED BY <1>2, <1>4, BackendEmits

(* handleSYN is sound, for a new SYN and for one that was repeated.        *)
LEMMA HandleSYNSound ==
  ASSUME NEW r, NEW g, NEW n, Backed(r, g, n), r.out = << >>, ~r.stopped, Covers(g, n),
         NEW admit \in BOOLEAN
  PROVE  Backed(R!HandleSYN(r, admit), g, n)
<1>1. CASE R!Open(r)
  <2>1. Backed(R!Emit(r, R!SynAck), g, n)
    BY <1>1, SynAckBacked
  <2> QED BY <2>1, <1>1 DEF R!HandleSYN
<1>2. CASE ~R!Open(r)
  <2>1. Backed(R!Emit(R!Reserve(r), R!SynAck), g, n)
    BY <1>2, ReserveSound, SynAckBacked
  <2> QED BY <2>1, <1>2 DEF R!HandleSYN
<1> QED BY <1>1, <1>2

(* HandlePacket of the backend is sound for everything a client can send.  *)
LEMMA BackendPacketSound ==
  ASSUME NEW r, NEW g, NEW n, Backed(r, g, n), r.out = << >>, Covers(g, n),
         NEW p, FromClient(p), R!Open(r) => Arrived(p, r.conn.next, g),
         NEW admit \in BOOLEAN
  PROVE  Backed(R!HandlePacket(r, p, admit), g, n)
<1>1. CASE r.stopped \/ (p.kind # "SYN" /\ ~R!Open(r))
  BY <1>1 DEF R!HandlePacket
<1>2. CASE ~r.stopped /\ p.kind = "SYN"
  BY <1>2, HandleSYNSound DEF R!HandlePacket
<1>3. CASE ~r.stopped /\ p.kind # "SYN" /\ R!Open(r)
  <2>1. p.kind # "FIN" => Backed(R!HandleSegment(r, p, admit), g, n)
    BY <1>3, HandleSegmentSound
  <2>2. Backed(R!RepeatAnswer(r, p), g, n)
    BY <1>3, RepeatAnswerSound
  <2>3. p.kind = "FIN" /\ ~r.conn.peerFIN => Backed(R!AcceptFIN(r, p, admit), g, n)
    BY <1>3, AcceptFINSound
  <2> QED BY <1>3, <2>1, <2>2, <2>3 DEF R!HandlePacket
<1> QED BY <1>1, <1>2, <1>3

-----------------------------------------------------------------------------
(* The steps of the backend.                                               *)

(* The larger of two numbers.                                              *)
LEMMA LargerOf ==
  ASSUME NEW a \in Int, NEW b \in Int
  PROVE  Max({a, b}) = (IF a >= b THEN a ELSE b)
<1>1. CASE a >= b
  BY <1>1 DEF Max
<1>2. CASE ~(a >= b)
  BY <1>2 DEF Max
<1> QED BY <1>1, <1>2

(* The prefix of a set of positions is the longest.                        *)
LEMMA PrefixIs ==
  ASSUME NEW g \in SUBSET (1 .. Payload + 1)
  PROVE  Prefix(g) \in 0 .. Payload + 1 /\ 1 .. Prefix(g) \subseteq g /\ Covers(g, Prefix(g))
<1> DEFINE set == (1 .. Payload + 2) \ g
           m == Min(set)
<1>1. set \in SUBSET Nat /\ set # {}
  <2>1. Payload + 2 \in set
    OBVIOUS
  <2> QED BY <2>1
<1>2. m \in set /\ \A y \in set : m <= y
  <2>1. \E x \in set : \A y \in set : x <= y
    BY <1>1, SmallestOf
  <2> QED BY <2>1 DEF Min
<1>3. Prefix(g) = m - 1
  BY DEF Prefix
<1> HIDE DEF m
<1>4. m \in 1 .. Payload + 2 /\ m \notin g
  BY <1>2
<1>5. 1 .. m - 1 \subseteq g
  <2> SUFFICES ASSUME NEW x \in 1 .. m - 1, x \notin g PROVE FALSE
    OBVIOUS
  <2>1. x \in set
    BY <1>4
  <2> QED BY <2>1, <1>2, <1>4
<1>6. \A k \in 0 .. Payload + 1 : 1 .. k \subseteq g => k <= m - 1
  <2> SUFFICES ASSUME NEW k \in 0 .. Payload + 1, 1 .. k \subseteq g, ~(k <= m - 1) PROVE FALSE
    OBVIOUS
  <2>1. m \in 1 .. k
    BY <1>4
  <2> QED BY <2>1, <1>4
<1>7. m - 1 \in 0 .. Payload + 1
  BY <1>4
<1> QED BY <1>3, <1>5, <1>6, <1>7 DEF Covers

(* A longer prefix covers as well.                                         *)
LEMMA CoversMore ==
  ASSUME NEW g, NEW m, Covers(g, m), NEW n \in 0 .. Payload + 1, m <= n
  PROVE  Covers(g, n)
<1>1. m \in Int
  BY DEF Covers
<1> QED BY <1>1 DEF Covers

(* A Receiver stays sound when more has arrived.                           *)
LEMMA HeldMore ==
  ASSUME NEW r, NEW g, NEW n, Backed(r, g, n), NEW h, g \subseteq h, NEW k \in Int, n <= k,
         n \in Int
  PROVE  Backed(r, h, k)
<1>1. R!Open(r) => Held(r.conn, h)
  BY DEF Backed, RcvSound, Held
<1>2. RcvSound(r, h)
  BY <1>1 DEF Backed, RcvSound
<1>3. OutAcks(r, k)
  <2> SUFFICES ASSUME NEW i \in DOMAIN r.out PROVE FromBackend(r.out[i]) /\ r.out[i].ack <= k + 1
    BY DEF OutAcks
  <2>1. FromBackend(r.out[i]) /\ r.out[i].ack <= n + 1
    BY DEF Backed, OutAcks
  <2>2. r.out[i].ack \in Int
    BY <2>1 DEF FromBackend, Segment
  <2> QED BY <2>1, <2>2
<1> QED BY <1>2, <1>3 DEF Backed

(* The backend's invariant is soundness with nothing to emit.              *)
LEMMA RcvInvIsBacked ==
  ASSUME RcvInv, HistInv
  PROVE  /\ Backed(rcv, got, prefix) /\ rcv.out = << >> /\ RcvSound(rcv, got)
         /\ got \in SUBSET (1 .. Payload + 1) /\ Covers(got, prefix)
         /\ prefix \in 0 .. Payload + 1
<1>1. got \in SUBSET (1 .. Payload + 1) /\ prefix \in 0 .. Payload + 1 /\ Prefix(got) <= prefix
  BY DEF HistInv
<1>2. rcv.out = << >> /\ RcvSound(rcv, got)
  BY DEF RcvInv
<1>3. Backed(rcv, got, prefix)
  BY <1>2 DEF Backed, OutAcks
<1>4. Covers(got, prefix)
  BY <1>1, PrefixIs, CoversMore
<1> QED BY <1>1, <1>2, <1>3, <1>4

(* A Receiver whose handler has returned.                                  *)
BackendEmptied(r) == [r EXCEPT !.out = NoSegments]

(* What was emitted is no part of what a Receiver promises.                *)
LEMMA BackendEmptiedSound ==
  ASSUME NEW r, NEW g, RcvSound(r, g)
  PROVE  LET t == BackendEmptied(r)
         IN  RcvSound(t, g) /\ t.out = << >> /\ t.conn = r.conn
<1> DEFINE t == BackendEmptied(r)
<1>1. r \in Receiver
  BY DEF RcvSound
<1>2. /\ t \in Receiver /\ t.conn = r.conn /\ t.stopped = r.stopped /\ t.out = NoSegments
      /\ t.active = r.active /\ t.halfOpen = r.halfOpen
  BY <1>1, Empty, OutPut DEF BackendEmptied
<1> HIDE DEF t
<1>3. R!Open(t) <=> R!Open(r)
  BY <1>2 DEF R!Open
<1> QED BY <1>2, <1>3 DEF RcvSound, t, NoSegments

(* A step of the backend's end, which has had g.                           *)
BackendGoes(t, g, n) ==
  /\ RcvSound(t, g) /\ OutAcks(t, n)
  /\ rcv' = BackendEmptied(t) /\ toClient' = R!Transmit(toClient, t.out)

(* Such a step keeps the Receiver sound and sends only what a backend may  *)
(* send.                                                                   *)
LEMMA BackendGives ==
  ASSUME NEW t, NEW g, NEW n, BackendGoes(t, g, n)
  PROVE  /\ RcvSound(rcv', g) /\ rcv'.out = << >> /\ (R!Open(rcv') <=> R!Open(t))
         /\ t.out \in Seq(Segment) /\ toClient' = R!Transmit(toClient, t.out)
         /\ \A i \in DOMAIN t.out : FromBackend(t.out[i]) /\ t.out[i].ack <= n + 1
<1>1. RcvSound(rcv', g) /\ rcv'.out = << >> /\ rcv'.conn = t.conn
  BY BackendEmptiedSound DEF BackendGoes
<1>2. t.out \in Seq(Segment)
  BY DEF BackendGoes, RcvSound, Receiver
<1> QED BY <1>1, <1>2 DEF BackendGoes, OutAcks, R!Open

(* A handler of the model is such a step,                                  *)
LEMMA BackendBecomes ==
  ASSUME NEW t, R!Becomes(t), NEW g, RcvSound(t, g), NEW n, OutAcks(t, n)
  PROVE  BackendGoes(t, g, n)
<1>1. rcv' = BackendEmptied(t) /\ toClient' = R!Transmit(toClient, t.out)
  BY DEF R!Becomes, BackendEmptied, NoSegments
<1> QED BY <1>1 DEF BackendGoes

(* also when it leaves a sound Receiver that has emitted something.        *)
LEMMA BackedGoes ==
  ASSUME NEW t, R!Becomes(t), NEW g, NEW n, Backed(t, g, n)
  PROVE  BackendGoes(t, g, n)
BY BackendBecomes DEF Backed

(* A Receiver that was shut down.                                          *)
Stops(r) == [r EXCEPT !.stopped = TRUE]

(* It is sound, having no connection.                                      *)
LEMMA StopsSound ==
  ASSUME NEW r, NEW g, RcvSound(r, g), ~R!Open(r)
  PROVE  RcvSound(Stops(r), g) /\ Stops(r).out = r.out
<1> DEFINE t == Stops(r)
<1>1. r \in Receiver
  BY DEF RcvSound
<1>2. /\ t \in Receiver /\ t.conn = r.conn /\ t.out = r.out
      /\ t.active = r.active /\ t.halfOpen = r.halfOpen
  BY <1>1 DEF Receiver, Stops
<1> HIDE DEF t
<1>3. ~R!Open(t)
  BY <1>2 DEF R!Open
<1> QED BY <1>2, <1>3 DEF RcvSound, t

(* The calls a host makes are such steps.                                  *)
LEMMA HostGoes ==
  ASSUME RcvInv, HistInv,
         \/ R!CloseConnection \/ R!AbortConnection
         \/ R!ForgetConnection \/ R!Shutdown
  PROVE  \E t : BackendGoes(t, got, prefix)
<1>1. /\ Backed(rcv, got, prefix) /\ rcv.out = << >> /\ RcvSound(rcv, got)
      /\ Covers(got, prefix) /\ prefix \in 0 .. Payload + 1
  BY RcvInvIsBacked
<1> DEFINE f == R!FinishConnection(rcv)
<1>2. RcvSound(f, got) /\ ~R!Open(f) /\ f.out = << >>
  BY <1>1, FinishGives
<1>3. CASE R!CloseConnection
  <2> DEFINE t == R!StartFIN(rcv, "finWait1")
  <2>1. R!Open(rcv) /\ rcv.conn.state = "established" /\ R!Becomes(t)
    BY <1>3 DEF R!CloseConnection
  <2>2. Backed(t, got, prefix)
    BY <1>1, <2>1, CloseSound
  <2> QED BY <2>1, <2>2, BackedGoes
<1>4. CASE R!AbortConnection
  <2> DEFINE p == R!Rst(rcv.conn.sendNext, rcv.conn.next)
             u == R!Emit(rcv, p)
             t == R!FinishConnection(u)
  <2>1. R!Open(rcv) /\ R!Becomes(t)
    BY <1>4 DEF R!AbortConnection
  <2>2. FromBackend(p) /\ p.ack <= prefix + 1
    <3>1. Conn(rcv.conn, got)
      BY <1>1, <2>1, OpenConn
    <3> DEFINE c == rcv.conn
    <3>2. c.next \in 0 .. Payload + 2 /\ c.next <= prefix + 1 /\ c.sendNext \in 0 .. Payload + 2
      BY <1>1, <3>1, NextCovered
    <3> HIDE DEF c
    <3>3. FromBackend(R!Rst(c.sendNext, c.next)) /\ R!Rst(c.sendNext, c.next).ack = c.next
      BY <3>2, AckIsFromBackend
    <3> QED BY <3>2, <3>3 DEF c
  <2> HIDE DEF p
  <2>3. Backed(u, got, prefix)
    BY <1>1, <2>1, <2>2, BackendEmits
  <2> HIDE DEF u
  <2>4. RcvSound(t, got) /\ t.out = u.out
    BY <2>3, FinishGives DEF Backed
  <2> HIDE DEF t
  <2>5. OutAcks(t, prefix)
    BY <2>3, <2>4 DEF Backed, OutAcks
  <2>6. R!Becomes(t)
    BY <2>1 DEF t, u, p
  <2> QED BY <2>4, <2>5, <2>6, BackendBecomes
<1>5. CASE R!ForgetConnection
  <2>1. R!Becomes(f)
    BY <1>5 DEF R!ForgetConnection
  <2> HIDE DEF f
  <2>2. OutAcks(f, prefix)
    BY <1>2 DEF OutAcks
  <2> QED BY <1>2, <2>1, <2>2, BackendBecomes
<1>6. CASE R!Shutdown
  <2> DEFINE t == Stops(f)
  <2>1. R!Becomes(t)
    BY <1>6 DEF R!Shutdown, Stops
  <2> HIDE DEF f
  <2>2. RcvSound(t, got) /\ t.out = << >>
    BY <1>2, StopsSound
  <2> HIDE DEF t
  <2>3. OutAcks(t, prefix)
    BY <2>2 DEF OutAcks
  <2> QED BY <2>1, <2>2, <2>3, BackendBecomes
<1> QED BY <1>3, <1>4, <1>5, <1>6

(* A connection that counts one more retry of its FIN.                     *)
TimesOut(c, k) == [c EXCEPT !.finTimeouts = k]

(* The fields after it.                                                    *)
TimesOutGives(d, c) ==
  /\ d \in Connection /\ SameStream(d, c) /\ d.state = c.state /\ d.established = c.established
  /\ d.sendNext = c.sendNext /\ d.finSent = c.finSent /\ d.finAcked = c.finAcked
  /\ d.finSeq = c.finSeq /\ d.armed = c.armed /\ d.waitingACKs = c.waitingACKs

(* The result has those fields.                                            *)
LEMMA TimesOutTyped ==
  ASSUME NEW c \in Connection, NEW k \in Nat
  PROVE  TimesOutGives(TimesOut(c, k), c)
BY DEF Connection, TimesOut, TimesOutGives, SameStream

(* Counting a retry keeps a connection sound.                              *)
LEMMA TimesOutSound ==
  ASSUME NEW c, NEW g, Conn(c, g), NEW k \in Nat
  PROVE  LET d == TimesOut(c, k)
         IN  Conn(d, g) /\ d.established = c.established /\ d.finSent = c.finSent
<1> DEFINE d == TimesOut(c, k)
<1>1. c \in Connection
  BY DEF Conn
<1>2. TimesOutGives(d, c)
  BY <1>1, TimesOutTyped
<1> HIDE DEF d
<1>3. Held(d, g)
  BY <1>2 DEF Conn, Held, TimesOutGives, SameStream
<1>4. InState(d)
  BY <1>2 DEF Conn, InState, TimesOutGives, SameStream
<1>5. TimedConn(d)
  BY <1>2 DEF Conn, TimedConn, TimesOutGives
<1> QED BY <1>2, <1>3, <1>4, <1>5 DEF Conn, TimesOutGives, d

(* A FIN that was not acknowledged is repeated.                            *)
LEMMA RetryFINSound ==
  ASSUME NEW r, NEW g, NEW n, Backed(r, g, n), R!Open(r), Covers(g, n), "fin" \in r.conn.armed
  PROVE  Backed(R!EmitFIN([r EXCEPT !.conn.finTimeouts = @ + 1]), g, n)
<1> DEFINE k == r.conn.finTimeouts + 1
           d == TimesOut(r.conn, k)
           u == [r EXCEPT !.conn.finTimeouts = k]
<1>1. Conn(r.conn, g) /\ r \in Receiver /\ r.conn \in Connection
  BY OpenConn DEF Conn
<1>2. k \in Nat
  <2>1. r.conn.finTimeouts \in Nat
    BY <1>1 DEF Connection
  <2> QED BY <2>1, NextNat, Zenon
<1>3. [r EXCEPT !.conn.finTimeouts = @ + 1] = u
  OBVIOUS
<1> HIDE DEF k
<1>4. u = Put(r, d)
  BY <1>1 DEF Put, TimesOut, Receiver, Connection
<1>5. Conn(d, g) /\ d.established = r.conn.established /\ d.finSent = r.conn.finSent
  BY <1>1, <1>2, TimesOutSound
<1>6. r.conn.finSent
  BY <1>1 DEF Conn, TimedConn
<1> HIDE DEF d, u
<1>7. Backed(u, g, n) /\ R!Open(u) /\ u.conn = d
  BY <1>4, <1>5, PutSound
<1>8. Backed(R!EmitFIN(u), g, n)
  BY <1>5, <1>6, <1>7, EmitFINSound
<1> QED BY <1>3, <1>8

(* Every event of the backend's timers is a step.                          *)
LEMMA BackendEventsGo ==
  ASSUME RcvInv, HistInv, R!Events
  PROVE  \E t : BackendGoes(t, got, prefix)
<1>1. /\ Backed(rcv, got, prefix) /\ rcv.out = << >> /\ RcvSound(rcv, got)
      /\ Covers(got, prefix) /\ prefix \in 0 .. Payload + 1
  BY RcvInvIsBacked
<1> DEFINE f == R!FinishConnection(rcv)
<1>2. Backed(f, got, prefix)
  BY <1>1, FinishBacked
<1>3. CASE R!DelayedACK
  <2>1. R!Becomes(R!Acknowledge(rcv)) /\ R!Open(rcv)
    BY <1>3 DEF R!DelayedACK, R!Armed
  <2>2. Backed(R!Acknowledge(rcv), got, prefix)
    BY <1>1, <2>1, AcknowledgeSound
  <2> QED BY <2>1, <2>2, BackedGoes
<1>4. CASE R!IdleTimeout \/ R!WaitEnds
  <2>1. R!Becomes(f)
    BY <1>4 DEF R!IdleTimeout, R!WaitEnds
  <2> HIDE DEF f
  <2> QED BY <1>2, <2>1, BackedGoes
<1>5. CASE R!RetryFIN
  <2> DEFINE u == R!EmitFIN([rcv EXCEPT !.conn.finTimeouts = @ + 1])
             t == IF rcv.conn.finTimeouts >= MaxFINRetries THEN f ELSE u
  <2>1. R!Becomes(t) /\ R!Open(rcv) /\ "fin" \in rcv.conn.armed
    BY <1>5 DEF R!RetryFIN, R!Armed
  <2>2. Backed(u, got, prefix)
    BY <1>1, <2>1, RetryFINSound
  <2> HIDE DEF f, u
  <2>3. Backed(t, got, prefix)
    BY <1>2, <2>2
  <2> HIDE DEF t
  <2> QED BY <2>1, <2>3, BackedGoes
<1> QED BY <1>3, <1>4, <1>5 DEF R!Events

(* What the positions are once p has reached the connection.               *)
GotWith(p) ==
  got \cup ((p.seq .. SequenceEnd(p) - 1) \cap (Prefix(got) + 1 .. Prefix(got) + Window)
             \cap 1 .. Payload + 1)

(* What a segment carries inside the window has arrived by its being       *)
(* counted.                                                                *)
LEMMA HasArrived ==
  ASSUME RcvInv, HistInv, NEW p, FromClient(p), R!Open(rcv)
  PROVE  Arrived(p, rcv.conn.next, GotWith(p))
<1>1. /\ Backed(rcv, got, prefix) /\ got \in SUBSET (1 .. Payload + 1)
  BY RcvInvIsBacked
<1>2. Conn(rcv.conn, got)
  BY <1>1, OpenConn
<1> DEFINE next == rcv.conn.next
           k == Prefix(got)
<1>3. next \in 1 .. Payload + 2 /\ 1 .. next - 1 \subseteq got
  BY <1>2 DEF Conn, Connection, Held
<1>4. k \in 0 .. Payload + 1 /\ 1 .. k \subseteq got /\ Covers(got, k)
  BY <1>1, PrefixIs
<1>5. next - 1 <= k
  <2>1. next - 1 \in 0 .. Payload + 1
    BY <1>3
  <2> QED BY <2>1, <1>3, <1>4 DEF Covers
<1>6. p.seq \in Int /\ SequenceEnd(p) \in Int /\ R!SequenceEnd(p) = SequenceEnd(p)
  <2>1. p.seq \in 0 .. Payload + 2 /\ p.size \in 0 .. Mss
    BY DEF FromClient, Segment
  <2>2. p.seq \in Int /\ p.size \in Int
    BY <2>1
  <2> QED BY <2>2 DEF SequenceEnd, R!SequenceEnd
<1> HIDE DEF next, k
<1>7. ASSUME NEW x \in 1 .. Payload + 1, p.seq <= x, x < SequenceEnd(p), next <= x, x < next + Window
      PROVE  x \in GotWith(p)
  <2>1. x \in p.seq .. SequenceEnd(p) - 1
    BY <1>6, <1>7
  <2>2. CASE x <= k
    <3>1. x \in 1 .. k
      BY <2>2, <1>4
    <3> QED BY <3>1, <1>4 DEF GotWith
  <2>3. CASE k < x
    <3>1. x \in k + 1 .. k + Window
      BY <2>3, <1>3, <1>4, <1>5, <1>7
    <3> QED BY <2>1, <3>1 DEF GotWith, k
  <2> QED BY <2>2, <2>3, <1>4
<1> QED BY <1>6, <1>7 DEF Arrived, next

(* Every segment the backend receives is a step.                           *)
LEMMA BackendReceiveGoes ==
  ASSUME RcvInv, HistInv, NEW p, FromClient(p), R!Receive(p)
  PROVE  /\ \E t : /\ BackendGoes(t, GotWith(p), Max({prefix, Prefix(GotWith(p))}))
                   /\ ~R!Open(t) => t.out = << >>
         /\ toBackend' = R!Without(toBackend, p)
<1>1. /\ Backed(rcv, got, prefix) /\ rcv.out = << >>
      /\ got \in SUBSET (1 .. Payload + 1) /\ prefix \in 0 .. Payload + 1
  BY RcvInvIsBacked
<1> DEFINE g == GotWith(p)
           n == Max({prefix, Prefix(g)})
<1>2. g \in SUBSET (1 .. Payload + 1) /\ got \subseteq g
  BY <1>1 DEF GotWith
<1>3. R!Open(rcv) => Arrived(p, rcv.conn.next, g)
  BY HasArrived
<1> HIDE DEF g
<1>4. Prefix(g) \in 0 .. Payload + 1 /\ Covers(g, Prefix(g))
  BY <1>2, PrefixIs
<1>5. n \in 0 .. Payload + 1 /\ prefix <= n /\ Prefix(g) <= n
  <2> DEFINE m == Prefix(g)
  <2>1. m \in 0 .. Payload + 1
    BY <1>4
  <2> HIDE DEF m
  <2>2. Max({prefix, m}) = IF prefix >= m THEN prefix ELSE m
    BY <1>1, <2>1, LargerOf
  <2> QED BY <1>1, <2>1, <2>2 DEF m
<1> HIDE DEF n
<1>6. Covers(g, n)
  BY <1>4, <1>5, CoversMore
<1>7. Backed(rcv, g, n)
  <2>1. n \in Int /\ prefix \in Int
    BY <1>1, <1>5
  <2> QED BY <2>1, <1>1, <1>2, <1>5, HeldMore
<1>8. PICK admit \in BOOLEAN : R!Becomes(R!HandlePacket(rcv, p, admit))
  BY DEF R!Receive
<1> DEFINE t == R!HandlePacket(rcv, p, admit)
<1>9. Backed(t, g, n)
  BY <1>1, <1>3, <1>6, <1>7, BackendPacketSound
<1>10. R!Becomes(t)
  BY <1>8
<1> HIDE DEF t
<1>11. BackendGoes(t, g, n) /\ (~R!Open(t) => t.out = << >>)
  BY <1>9, <1>10, BackedGoes DEF Backed
<1> QED BY <1>11 DEF R!Receive, g, n

-----------------------------------------------------------------------------
(* The steps of the connection.                                            *)

(* What is on a way after a segment has been sent.                         *)
LEMMA OnWaySend ==
  ASSUME NEW way, NEW k, NEW p
  PROVE  /\ OnWay(S!Send(way, k, p)) \subseteq OnWay(way) \cup {p}
         /\ OnWay(R!Send(way, k, p)) \subseteq OnWay(way) \cup {p}
<1>1. OnWay(S!With(way, p)) \subseteq OnWay(way) \cup {p}
  BY DEF OnWay, S!With
<1>2. OnWay(R!With(way, p)) \subseteq OnWay(way) \cup {p}
  BY DEF OnWay, R!With
<1> QED BY <1>1, <1>2 DEF S!Send, R!Send

(* The first two places of a queue.                                        *)
LEMMA Places ==
  ASSUME NEW q \in Seq(Segment), q # << >>
  PROVE  1 \in DOMAIN q /\ (Len(q) # 1 => 2 \in DOMAIN q)
<1>1. DOMAIN q = 1 .. Len(q) /\ Len(q) \in Nat
  OBVIOUS
<1>2. Len(q) # 0
  OBVIOUS
<1> QED BY <1>1, <1>2

(* A handler's segments, and nothing else, are added to the way.           *)
LEMMA ClientTransmits ==
  ASSUME NEW way, NEW q \in Seq(Segment)
  PROVE  \A p \in OnWay(S!Transmit(way, q)) : p \in OnWay(way) \/ \E i \in DOMAIN q : p = q[i]
<1>1. CASE q = << >>
  BY <1>1 DEF S!Transmit
<1>2. CASE q # << >>
  <2> DEFINE u == S!UnderWay
             v == S!UnderWay + 1
             w == S!Send(way, u, q[1])
             x == S!Send(w, v, q[2])
  <2>1. S!Transmit(way, q) = IF Len(q) = 1 THEN w ELSE x
    BY <1>2 DEF S!Transmit
  <2> HIDE DEF u, v
  <2>2. OnWay(w) \subseteq OnWay(way) \cup {q[1]}
    BY OnWaySend
  <2> HIDE DEF w
  <2>3. OnWay(x) \subseteq OnWay(w) \cup {q[2]}
    BY OnWaySend
  <2> HIDE DEF x
  <2> QED BY <1>2, <2>1, <2>2, <2>3, Places
<1> QED BY <1>1, <1>2

(* The same of what the backend has emitted.                               *)
LEMMA BackendTransmits ==
  ASSUME NEW way, NEW q \in Seq(Segment)
  PROVE  \A p \in OnWay(R!Transmit(way, q)) : p \in OnWay(way) \/ \E i \in DOMAIN q : p = q[i]
<1>1. CASE q = << >>
  BY <1>1 DEF R!Transmit
<1>2. CASE q # << >>
  <2> DEFINE u == R!UnderWay
             v == R!UnderWay + 1
             w == R!Send(way, u, q[1])
             x == R!Send(w, v, q[2])
  <2>1. R!Transmit(way, q) = IF Len(q) = 1 THEN w ELSE x
    BY <1>2 DEF R!Transmit
  <2> HIDE DEF u, v
  <2>2. OnWay(w) \subseteq OnWay(way) \cup {q[1]}
    BY OnWaySend
  <2> HIDE DEF w
  <2>3. OnWay(x) \subseteq OnWay(w) \cup {q[2]}
    BY OnWaySend
  <2> HIDE DEF x
  <2> QED BY <1>2, <2>1, <2>2, <2>3, Places
<1> QED BY <1>1, <1>2

(* Taking a segment off a way adds nothing to it.                          *)
LEMMA OnWayWithout ==
  ASSUME NEW way, NEW p
  PROVE  /\ OnWay(Without(way, p)) \subseteq OnWay(way)
         /\ OnWay(S!Without(way, p)) \subseteq OnWay(way)
         /\ OnWay(R!Without(way, p)) \subseteq OnWay(way)
BY DEF OnWay, Without, S!Without, R!Without

(* A step of the client.                                                   *)
LEMMA ClientStep ==
  ASSUME IInv, NEW ack \in Int, ack <= prefix + 1, ClientGoes(ack), UNCHANGED <<rcv, got, prefix>>,
         OnWay(toClient') \subseteq OnWay(toClient)
  PROVE  IInv' /\ Moved(snd', snd, ack)
<1>1. PICK q \in Seq(Segment) :
              /\ toBackend' = S!Transmit(toBackend, q)
              /\ \A i \in DOMAIN q : FromClient(q[i])
  BY ClientGives DEF IInv
<1>2. SndInv' /\ Moved(snd', snd, ack)
  BY ClientGives DEF IInv
<1>3. RcvInv'
  BY DEF IInv, RcvInv
<1>4. WireInv'
  <2>2. ASSUME NEW p \in OnWay(toBackend') PROVE FromClient(p)
    <3>1. p \in OnWay(toBackend) \/ \E i \in DOMAIN q : p = q[i]
      <4>1. p \in OnWay(S!Transmit(toBackend, q))
        BY <1>1, <2>2
      <4> QED BY <4>1, ClientTransmits
    <3> QED BY <3>1, <1>1 DEF IInv, WireInv
  <2>3. \A p \in OnWay(toClient') : FromBackend(p) /\ p.ack <= prefix' + 1
    BY DEF IInv, WireInv
  <2> QED BY <2>2, <2>3 DEF WireInv
<1>5. HistInv'
  <2>1. prefix \in 0 .. Payload + 1 /\ HistInv /\ SndInv
    BY DEF IInv, HistInv
  <2>2. snd'.acknowledged \in Int /\ snd.acknowledged \in Int
    <3>1. snd' \in Sender /\ snd \in Sender
      BY <1>2 DEF IInv, SndInv
    <3> QED BY <3>1, SenderFields
  <2>3. snd'.acknowledged <= prefix
    <3>1. snd'.acknowledged = snd.acknowledged \/ snd'.acknowledged < ack
      BY <1>2 DEF Moved, Ended
    <3> QED BY <3>1, <2>1, <2>2 DEF HistInv
  <2>4. snd'.finAcked => prefix = Payload + 1
    <3>1. snd'.finAcked => snd.finAcked \/ ack = Payload + 2
      BY <1>2 DEF Moved
    <3> QED BY <3>1, <2>1 DEF HistInv
  <2> QED BY <2>1, <2>3, <2>4 DEF HistInv
<1> QED BY <1>2, <1>3, <1>4, <1>5 DEF IInv

(* A step of the backend, which has had what g and n say.                  *)
LEMMA BackendStep ==
  ASSUME IInv, NEW t, NEW g, NEW n \in Int, BackendGoes(t, g, n), UNCHANGED snd,
         OnWay(toBackend') \subseteq OnWay(toBackend),
         R!Open(t) => got' = g, ~R!Open(t) => got' = {},
         got' \in SUBSET (1 .. Payload + 1), prefix' \in 0 .. Payload + 1,
         prefix <= prefix', Prefix(got') <= prefix', t.out # << >> => n <= prefix'
  PROVE  IInv'
<1>1. /\ RcvSound(rcv', g) /\ rcv'.out = << >> /\ (R!Open(rcv') <=> R!Open(t))
      /\ t.out \in Seq(Segment) /\ toClient' = R!Transmit(toClient, t.out)
      /\ \A i \in DOMAIN t.out : FromBackend(t.out[i]) /\ t.out[i].ack <= n + 1
  BY BackendGives
<1>2. SndInv'
  BY DEF IInv, SndInv
<1>3. RcvInv'
  <2>1. RcvSound(rcv', got')
    BY <1>1 DEF RcvSound
  <2>2. ~R!Open(rcv') => got' = {}
    BY <1>1
  <2> QED BY <2>1, <2>2, <1>1 DEF RcvInv
<1>4. WireInv'
  <2>2. ASSUME NEW p \in OnWay(toClient') PROVE FromBackend(p) /\ p.ack <= prefix' + 1
    <3>1. prefix \in Int /\ prefix' \in Int
      BY DEF IInv, HistInv
    <3>2. CASE p \in OnWay(toClient)
      <4>1. FromBackend(p) /\ p.ack <= prefix + 1
        BY <3>2 DEF IInv, WireInv
      <4>2. p.ack \in Int
        BY <4>1 DEF FromBackend, Segment
      <4> QED BY <3>1, <4>1, <4>2
    <3>3. CASE \E i \in DOMAIN t.out : p = t.out[i]
      <4>1. FromBackend(p) /\ p.ack <= n + 1
        BY <3>3, <1>1
      <4>2. p.ack \in Int
        BY <4>1 DEF FromBackend, Segment
      <4>3. t.out # << >>
        BY <3>3
      <4> QED BY <3>1, <4>1, <4>2, <4>3
    <3>4. p \in OnWay(toClient) \/ \E i \in DOMAIN t.out : p = t.out[i]
      <4>1. p \in OnWay(R!Transmit(toClient, t.out))
        BY <1>1, <2>2
      <4> QED BY <4>1, <1>1, BackendTransmits
    <3> QED BY <3>2, <3>3, <3>4
  <2>3. \A p \in OnWay(toBackend') : FromClient(p)
    BY DEF IInv, WireInv
  <2> QED BY <2>2, <2>3 DEF WireInv
<1>5. HistInv'
  <2>1. prefix \in 0 .. Payload + 1 /\ HistInv /\ SndInv
    BY DEF IInv, HistInv
  <2>2. snd.acknowledged \in Int
    <3>1. snd \in Sender
      BY <2>1 DEF SndInv
    <3> QED BY <3>1, SenderFields
  <2>3. snd.acknowledged <= prefix'
    BY <2>1, <2>2 DEF HistInv
  <2>4. snd.finAcked => prefix' = Payload + 1
    BY <2>1 DEF HistInv
  <2> QED BY <2>3, <2>4 DEF HistInv
<1> QED BY <1>2, <1>3, <1>4, <1>5 DEF IInv

(* The invariant holds initially.                                          *)
LEMMA InitOK == Init => IInv
<1> SUFFICES ASSUME Init PROVE IInv
  OBVIOUS
<1>1. SndInv
  <2>0. S!Init
    BY DEF Init
  <2>1. snd \in Sender
    <3>1. /\ 0 \in 0 .. Payload + 2 /\ 0 \in 0 .. 2 /\ 0 \in Nat /\ Payload \in 0 .. Payload
          /\ 0 \in 0 .. Payload /\ 0 \in 0 .. Payload + 1
      OBVIOUS
    <3>2. snd = [state |-> "closed", outcome |-> "", status |-> "inProgress",
         terminated |-> FALSE, requested |-> FALSE, streamCompleted |-> FALSE,
         handshakeStarted |-> FALSE, handshakeCompleted |-> FALSE, retrySyn |-> 0,
         nextSend |-> 0, oldest |-> 0, nextReceive |-> 0, windowEnd |-> 0,
         pending |-> NoSegments, retries |-> 0,
         duplicateACKs |-> 0, untilSeq |-> 0,
         unsent |-> Payload, toConfirm |-> Payload, acknowledged |-> 0,
         finSent |-> FALSE, finAcked |-> FALSE, finSeq |-> 0, finRetries |-> 0,
         peerFIN |-> FALSE, armed |-> NoEvents, out |-> NoSegments]
      BY <2>0, Zenon DEF S!Init, NoSegments, NoEvents
    <3> QED BY <3>1, <3>2, Empty DEF Sender
  <2>5. /\ snd.handshakeCompleted = FALSE /\ snd.handshakeStarted = FALSE /\ snd.oldest = 0
        /\ snd.nextSend = 0 /\ snd.nextReceive = 0 /\ snd.windowEnd = 0 /\ snd.pending = << >>
    BY <2>0 DEF S!Init
  <2>6. /\ snd.unsent = Payload /\ snd.acknowledged = 0 /\ snd.finSent = FALSE
        /\ snd.peerFIN = FALSE /\ snd.toConfirm = Payload /\ snd.finAcked = FALSE
        /\ snd.state = "closed" /\ snd.out = << >>
    BY <2>0 DEF S!Init
  <2>7. /\ snd.outcome = "" /\ snd.status = "inProgress" /\ snd.terminated = FALSE
        /\ snd.streamCompleted = FALSE /\ snd.armed = {}
    BY <2>0 DEF S!Init
  <2>2. Counted(snd) /\ snd.out = << >>
    BY <2>5, <2>6 DEF Counted
  <2>3. Settled(snd)
    <3>1. ~snd.terminated /\ ~snd.streamCompleted
      BY <2>7
    <3>2. snd.acknowledged # Payload
      BY <2>6
    <3> QED BY <3>1, <3>2, <2>7 DEF Settled
  <2>4. Timed(snd) /\ FinTimed(snd)
    BY <2>5, <2>6, <2>7 DEF Timed, FinTimed
  <2> QED BY <2>1, <2>2, <2>3, <2>4 DEF SndInv
<1>2. RcvInv
  <2>1. rcv \in Receiver /\ ~R!Open(rcv) /\ rcv.out = << >>
    BY DEF Init, R!Init, Receiver, R!Open, R!NoConnection
  <2>2. RcvSound(rcv, got)
    BY <2>1 DEF Init, R!Init, RcvSound
  <2> QED BY <2>1, <2>2 DEF RcvInv, Init
<1>3. WireInv
  BY DEF Init, WireInit, WireInv, OnWay
<1>4. HistInv
  <2>1. got = {} /\ prefix = 0 /\ snd.acknowledged = 0 /\ ~snd.finAcked
    BY DEF Init, S!Init
  <2>2. got \in SUBSET (1 .. Payload + 1)
    BY <2>1
  <2>3. Prefix(got) = 0
    <3>1. Prefix(got) \in 0 .. Payload + 1 /\ 1 .. Prefix(got) \subseteq got
      BY <2>2, PrefixIs
    <3>2. Prefix(got) < 1
      <4>1. ASSUME Prefix(got) >= 1 PROVE FALSE
        <5>1. 1 \in 1 .. Prefix(got)
          BY <3>1, <4>1
        <5> QED BY <5>1, <3>1, <2>1
      <4> QED BY <4>1, <3>1
    <3> QED BY <3>1, <3>2
  <2> QED BY <2>1, <2>2, <2>3 DEF HistInv
<1> QED BY <1>1, <1>2, <1>3, <1>4 DEF IInv

(* Every step of the client keeps it.                                      *)
LEMMA ClientMoves ==
  ASSUME IInv, ClientCalls \/ ClientEvents \/ ClientReceives
  PROVE  IInv' /\ UNCHANGED prefix /\ \E ack \in Int : Moved(snd', snd, ack)
<1>0. SndInv /\ WireInv /\ prefix \in Int /\ 0 <= prefix + 1
  BY DEF IInv, HistInv
<1>1. CASE ClientCalls
  <2>1. ClientGoes(0)
    BY <1>0, <1>1, CallsGo DEF ClientCalls
  <2>2. UNCHANGED <<rcv, got, prefix>> /\ toClient' = toClient
    BY <1>1 DEF ClientCalls
  <2> QED BY <1>0, <2>1, <2>2, ClientStep
<1>2. CASE ClientEvents
  <2>1. ClientGoes(0)
    BY <1>0, <1>2, EventsGo DEF ClientEvents
  <2>2. UNCHANGED <<rcv, got, prefix>> /\ toClient' = toClient
    BY <1>2 DEF ClientEvents
  <2> QED BY <1>0, <2>1, <2>2, ClientStep
<1>3. CASE ClientReceives
  <2>1. PICK p \in OnWay(toClient) : S!Receive(p) /\ UNCHANGED <<rcv, got, prefix>>
    BY <1>3 DEF ClientReceives
  <2>2. FromBackend(p) /\ p.ack <= prefix + 1
    BY <1>0 DEF WireInv
  <2>3. p.ack \in Int
    BY <2>2 DEF FromBackend, Segment
  <2>4. ClientGoes(p.ack) /\ toClient' = S!Without(toClient, p)
    BY <1>0, <2>1, <2>2, ReceiveGoes
  <2>5. OnWay(toClient') \subseteq OnWay(toClient)
    BY <2>4, OnWayWithout
  <2> QED BY <2>1, <2>2, <2>3, <2>4, <2>5, ClientStep
<1> QED BY <1>1, <1>2, <1>3

(* Nothing has no prefix.                                                  *)
LEMMA EmptyPrefix == Prefix({}) = 0
<1>1. Prefix({}) \in 0 .. Payload + 1 /\ 1 .. Prefix({}) \subseteq {}
  <2>1. {} \in SUBSET (1 .. Payload + 1)
    OBVIOUS
  <2> QED BY <2>1, PrefixIs
<1> DEFINE k == Prefix({})
<1>2. k \in Nat /\ 1 .. k \subseteq {}
  BY <1>1
<1> HIDE DEF k
<1>3. ~(k >= 1)
  <2> SUFFICES ASSUME k >= 1 PROVE FALSE
    OBVIOUS
  <2>1. 1 \in 1 .. k
    BY <1>2
  <2> QED BY <2>1, <1>2
<1>4. k = 0
  BY <1>2, <1>3
<1> QED BY <1>4 DEF k

(* The prefix never shrinks and never exceeds the stream.                  *)
LEMMA LargerBounds ==
  ASSUME NEW a \in 0 .. Payload + 1, NEW b \in 0 .. Payload + 1
  PROVE  LET m == Max({a, b}) IN m \in 0 .. Payload + 1 /\ a <= m /\ b <= m
<1>1. Max({a, b}) = IF a >= b THEN a ELSE b
  BY LargerOf
<1> QED BY <1>1

(* Every step of the backend keeps it.                                     *)
LEMMA BackendMoves ==
  ASSUME IInv, HostCalls \/ BackendEvents \/ BackendReceives
  PROVE  IInv' /\ UNCHANGED snd /\ prefix <= prefix'
<1>0. /\ RcvInv /\ HistInv /\ WireInv /\ prefix \in 0 .. Payload + 1 /\ prefix \in Int
      /\ Prefix(got) <= prefix /\ got \in SUBSET (1 .. Payload + 1)
  BY DEF IInv, HistInv
<1>1. CASE HostCalls \/ BackendEvents
  <2>1. PICK t : BackendGoes(t, got, prefix)
    BY <1>0, <1>1, HostGoes, BackendEventsGo DEF HostCalls, BackendEvents
  <2>2. UNCHANGED <<snd, toBackend, prefix>> /\ got' = (IF R!Open(rcv') THEN got ELSE {})
    BY <1>1 DEF HostCalls, BackendEvents, Forget
  <2>3. R!Open(rcv') <=> R!Open(t)
    BY <2>1, BackendGives
  <2>4. got' \in SUBSET (1 .. Payload + 1) /\ Prefix(got') <= prefix
    <3>1. CASE R!Open(rcv')
      BY <3>1, <1>0, <2>2
    <3>2. CASE ~R!Open(rcv')
      <4>1. got' = {}
        BY <3>2, <2>2
      <4> QED BY <4>1, <1>0, EmptyPrefix
    <3> QED BY <3>1, <3>2
  <2>5. /\ UNCHANGED snd /\ OnWay(toBackend') \subseteq OnWay(toBackend)
        /\ R!Open(t) => got' = got
        /\ ~R!Open(t) => got' = {}
        /\ prefix' \in 0 .. Payload + 1 /\ prefix <= prefix' /\ Prefix(got') <= prefix'
    BY <1>0, <2>2, <2>3, <2>4
  <2>6. IInv'
    BY <1>0, <2>1, <2>4, <2>5, BackendStep
  <2> QED BY <2>5, <2>6
<1>2. CASE BackendReceives
  <2>1. PICK p \in OnWay(toBackend) : R!Receive(p) /\ Remember(p) /\ UNCHANGED snd
    BY <1>2 DEF BackendReceives
  <2> DEFINE g == GotWith(p)
             n == Max({prefix, Prefix(g)})
  <2>2. FromClient(p)
    BY <1>0 DEF WireInv
  <2>3. PICK t : BackendGoes(t, g, n) /\ (~R!Open(t) => t.out = << >>)
    BY <1>0, <2>1, <2>2, BackendReceiveGoes
  <2>4. toBackend' = R!Without(toBackend, p)
    BY <2>1 DEF R!Receive
  <2>5. OnWay(toBackend') \subseteq OnWay(toBackend)
    BY <2>4, OnWayWithout
  <2>6. got' = (IF R!Open(rcv') THEN g ELSE {}) /\ prefix' = Max({prefix, Prefix(got')})
    BY <2>1 DEF Remember, GotWith
  <2>7. g \in SUBSET (1 .. Payload + 1)
    BY <1>0 DEF GotWith
  <2>8. R!Open(rcv') <=> R!Open(t)
    BY <2>3, BackendGives
  <2> HIDE DEF g
  <2>9. Prefix(g) \in 0 .. Payload + 1
    BY <2>7, PrefixIs
  <2>11. got' \in SUBSET (1 .. Payload + 1) /\ Prefix(got') \in 0 .. Payload + 1
    <3>1. got' = g \/ got' = {}
      BY <2>6
    <3>2. CASE got' = g
      BY <3>2, <2>7, <2>9
    <3>3. CASE got' = {}
      <4>1. Prefix(got') = 0
        BY <3>3, EmptyPrefix
      <4> QED BY <3>3, <4>1
    <3> QED BY <3>1, <3>2, <3>3
  <2>12. /\ prefix' \in 0 .. Payload + 1 /\ prefix <= prefix' /\ Prefix(got') <= prefix'
    <3> DEFINE k == Prefix(got')
    <3>1. k \in 0 .. Payload + 1 /\ prefix' = Max({prefix, k})
      BY <2>6, <2>11
    <3> HIDE DEF k
    <3>2. prefix' \in 0 .. Payload + 1 /\ prefix <= prefix' /\ k <= prefix'
      BY <3>1, <1>0, LargerBounds
    <3> QED BY <3>2 DEF k
  <2>13. t.out # << >> => n <= prefix'
    <3> SUFFICES ASSUME t.out # << >> PROVE n <= prefix'
      OBVIOUS
    <3>1. got' = g
      BY <2>3, <2>6, <2>8
    <3>2. prefix' = n
      BY <2>6, <3>1
    <3> QED BY <3>2, <2>12
  <2>14. n \in Int
    <3>1. n \in 0 .. Payload + 1
      BY <2>9, <1>0, LargerBounds
    <3> QED BY <3>1
  <2> HIDE DEF n
  <2>15. (R!Open(t) => got' = g) /\ (~R!Open(t) => got' = {})
    BY <2>6, <2>8
  <2>16. IInv'
    BY <2>1, <2>3, <2>5, <2>11, <2>12, <2>13, <2>14, <2>15, BackendStep
  <2> QED BY <2>1, <2>12, <2>16
<1> QED BY <1>1, <1>2

(* Losing a segment keeps it.                                              *)
LEMMA LossKeeps ==
  ASSUME IInv, SegmentLost
  PROVE  IInv' /\ UNCHANGED <<snd, prefix>>
<1>1. UNCHANGED <<snd, rcv, got, prefix>>
  BY DEF SegmentLost
<1>2. OnWay(toBackend') \subseteq OnWay(toBackend) /\ OnWay(toClient') \subseteq OnWay(toClient)
  BY OnWayWithout DEF SegmentLost, Lose
<1>3. SndInv' /\ RcvInv' /\ HistInv'
  BY <1>1 DEF IInv, SndInv, RcvInv, HistInv
<1>4. WireInv'
  BY <1>1, <1>2 DEF IInv, WireInv
<1> QED BY <1>1, <1>3, <1>4 DEF IInv

(* Every step keeps it.                                                    *)
LEMMA NextKeeps == IInv /\ [Next]_vars => IInv'
<1> SUFFICES ASSUME IInv, [Next]_vars PROVE IInv'
  OBVIOUS
<1>1. CASE ClientCalls \/ ClientEvents \/ ClientReceives
  BY <1>1, ClientMoves
<1>2. CASE HostCalls \/ BackendEvents \/ BackendReceives
  BY <1>2, BackendMoves
<1>3. CASE SegmentLost
  BY <1>3, LossKeeps
<1>4. CASE UNCHANGED vars
  BY <1>4 DEF vars, IInv, SndInv, RcvInv, WireInv, HistInv
<1> QED BY <1>1, <1>2, <1>3, <1>4 DEF Next

(* The invariant holds of every connection, whatever the sizes of the      *)
(* payload, of a segment and of the window, whatever the limits of the     *)
(* retries, whichever idle limits are disabled (SetIdleTimeout,            *)
(* SetIdleTimeouts), and however segments are lost, repeated and reordered *)
(* (sender_*.go, receiver_*.go).                                           *)
THEOREM InvariantHolds == Spec => []IInv
BY InitOK, NextKeeps, PTL DEF Spec

(* It implies the types of the state                                       *)
LEMMA IInvTyped == IInv => TypeOK
<1> SUFFICES ASSUME IInv PROVE TypeOK
  OBVIOUS
<1>1. snd \in Sender /\ Counted(snd) /\ snd.out = << >>
  BY DEF IInv, SndInv
<1>2. /\ snd.nextSend \in 0 .. Payload + 2 /\ snd.oldest \in 0 .. Payload + 2
      /\ snd.unsent \in 0 .. Payload /\ snd.acknowledged \in 0 .. Payload
      /\ snd.toConfirm \in 0 .. Payload
  BY <1>1, SenderFields
<1>3. snd.oldest <= snd.nextSend
  <2>1. CASE ~snd.handshakeCompleted
    BY <1>1, <1>2, <2>1 DEF Counted
  <2>2. CASE snd.handshakeCompleted
    <3>1. /\ snd.oldest = snd.acknowledged + 1
          /\ snd.nextSend = Payload + 1 - snd.unsent + (IF snd.finSent THEN 1 ELSE 0)
          /\ snd.acknowledged + snd.unsent <= Payload
      BY <1>1, <2>2 DEF Counted
    <3> QED BY <1>2, <3>1
  <2> QED BY <2>1, <2>2
<1>4. rcv.out = << >> /\ (R!Open(rcv) => rcv.conn.next \in 1 .. Payload + 2)
  <2>1. rcv.out = << >> /\ rcv \in Receiver
    BY DEF IInv, RcvInv, RcvSound
  <2>2. R!Open(rcv) => rcv.conn \in Connection
    BY <2>1 DEF Receiver, R!Open
  <2> QED BY <2>1, <2>2 DEF Connection
<1>5. OnWay(toBackend) \subseteq Segment /\ OnWay(toClient) \subseteq Segment
  BY DEF IInv, WireInv, FromClient, FromBackend
<1>6. got \subseteq 1 .. Payload + 1 /\ prefix \in 0 .. Payload + 1
  BY DEF IInv, HistInv
<1>7. snd.oldest \in 0 .. snd.nextSend
  BY <1>2, <1>3
<1> QED BY <1>1, <1>2, <1>4, <1>5, <1>6, <1>7 DEF TypeOK

(* and that both sides are timed and counted.                              *)
LEMMA IInvTimed == IInv => ClientIsTimed /\ BackendIsTimed /\ CountsAreExact
<1> SUFFICES ASSUME IInv PROVE ClientIsTimed /\ BackendIsTimed /\ CountsAreExact
  OBVIOUS
<1>1. ClientIsTimed
  BY DEF IInv, SndInv, Timed, ClientIsTimed
<1>2. BackendIsTimed
  BY DEF IInv, RcvInv, RcvSound, TimedConn, BackendIsTimed
<1>3. CountsAreExact
  BY DEF IInv, RcvInv, RcvSound, CountsAreExact
<1> QED BY <1>1, <1>2, <1>3

(* No side of a connection is ever left without a timer for what it waits  *)
(* for, but for a backend in a state whose idle limit is disabled; no idle *)
(* check outlives the state it is for; and the host's counters are the     *)
(* connections that exist, whatever handlers and timers have raced         *)
(* (sender_retransmission.go, sender_closing.go, receiver_idle.go,         *)
(* receiver_closing.go).                                                   *)
THEOREM ConnectionIsSound == Spec => []EndsAreSound
<1>1. IInv => EndsAreSound
  BY IInvTyped, IInvTimed DEF EndsAreSound, Inv
<1> QED BY <1>1, InvariantHolds, PTL

(* The smaller of two numbers.                                             *)
LEMMA SmallerOf ==
  ASSUME NEW a \in Int, NEW b \in Int
  PROVE  Min({a, b}) = (IF a <= b THEN a ELSE b)
<1>1. CASE a <= b
  BY <1>1 DEF Min
<1>2. CASE ~(a <= b)
  BY <1>2 DEF Min
<1> QED BY <1>1, <1>2

(* What the backend has read is the payload without the FIN.               *)
LEMMA ReadIs ==
  ASSUME NEW k \in 0 .. Payload + 1
  PROVE  Min({k, Payload}) = (IF k = Payload + 1 THEN Payload ELSE k)
<1>1. Min({k, Payload}) = (IF k <= Payload THEN k ELSE Payload)
  BY SmallerOf
<1> QED BY <1>1

(* A step of the client is one of the transfer it promises, or none.       *)
LEMMA ClientImplements ==
  ASSUME IInv, IInv', UNCHANGED prefix, NEW ack, Moved(snd', snd, ack)
  PROVE  [T!Next]_T!vars
<1> DEFINE read == Min({prefix, Payload})
<1>1. /\ snd \in Sender /\ Counted(snd) /\ Settled(snd) /\ prefix \in 0 .. Payload + 1
      /\ snd.acknowledged <= prefix
  BY DEF IInv, SndInv, HistInv
<1>2. /\ snd' \in Sender /\ Counted(snd') /\ Settled(snd')
      /\ snd'.acknowledged <= prefix /\ (snd'.finAcked => prefix = Payload + 1)
  BY DEF IInv, SndInv, HistInv
<1>3. snd.acknowledged \in 0 .. Payload /\ snd'.acknowledged \in 0 .. Payload
  BY <1>1, <1>2, SenderFields
<1>4. read' = read /\ (prefix = Payload + 1)' = (prefix = Payload + 1)
      /\ read = (IF prefix = Payload + 1 THEN Payload ELSE prefix)
  BY <1>1, ReadIs
<1> HIDE DEF read
<1>5. CASE snd.terminated
  <2>1. snd' = snd
    BY <1>5 DEF Moved
  <2> QED BY <2>1, <1>4 DEF T!vars, read
<1>6. CASE Ended(snd', snd)
  <2>1. /\ snd.outcome = "" /\ snd'.acknowledged = snd.acknowledged
        /\ snd'.status = (IF snd.status = "inProgress" THEN "failed" ELSE snd.status)
        /\ snd'.outcome \in Outcomes /\ (snd'.outcome = "graceful" => snd'.finAcked)
    BY <1>1, <1>6 DEF Ended, Settled
  <2>2. CASE snd'.outcome = "graceful"
    <3>1. snd'.finAcked /\ snd'.finSent /\ snd'.acknowledged = Payload /\ prefix = Payload + 1
      BY <2>1, <2>2, <1>2 DEF Counted
    <3>2. snd.status = "succeeded"
      BY <2>1, <3>1, <1>1, <1>6 DEF Settled, Ended
    <3>3. snd'.status = snd.status
      BY <3>2, <2>1
    <3>4. T!Graceful
      BY <2>1, <2>2, <3>1, <3>2, <3>3, <1>4 DEF T!Graceful, read
    <3> QED BY <3>4 DEF T!Next
  <2>3. CASE snd'.outcome # "graceful"
    <3>1. snd'.outcome \in {"aborted", "reset", "finRetryLimit", "waitTimeout"}
      BY <2>1, <2>3 DEF Outcomes
    <3>2. T!Break
      BY <2>1, <3>1, <1>4 DEF T!Break, read
    <3> QED BY <3>2 DEF T!Next
  <2> QED BY <2>2, <2>3
<1>7. CASE ~snd.terminated /\ ~Ended(snd', snd)
  <2>1. ~snd'.terminated /\ snd.acknowledged <= snd'.acknowledged
    BY <1>7 DEF Moved
  <2>2. /\ snd.outcome = "" /\ snd'.outcome = ""
        /\ snd.status # "failed" /\ (snd.status = "succeeded" <=> snd.acknowledged = Payload)
        /\ snd'.status # "failed" /\ (snd'.status = "succeeded" <=> snd'.acknowledged = Payload)
        /\ snd.status \in {"inProgress", "succeeded", "failed"}
        /\ snd'.status \in {"inProgress", "succeeded", "failed"}
    BY <1>1, <1>2, <1>7, <2>1 DEF Settled, Sender
  <2>3. CASE snd'.acknowledged = snd.acknowledged
    <3>1. snd'.status = snd.status
      BY <2>2, <2>3
    <3> QED BY <3>1, <2>2, <2>3, <1>4 DEF T!vars, read
  <2>4. CASE snd'.acknowledged # snd.acknowledged
    <3>1. snd'.acknowledged \in snd.acknowledged + 1 .. read
      BY <2>1, <2>4, <1>1, <1>2, <1>3, <1>4
    <3>2. snd.status = "inProgress"
      <4>1. snd.acknowledged # Payload
        BY <2>1, <2>4, <1>3
      <4> QED BY <4>1, <2>2
    <3>3. snd'.status = IF snd'.acknowledged = Payload THEN "succeeded" ELSE "inProgress"
      BY <2>2
    <3>4. T!Confirm
      BY <3>1, <3>2, <3>3, <2>2, <1>4 DEF T!Confirm, read
    <3> QED BY <3>4 DEF T!Next
  <2> QED BY <2>3, <2>4
<1> QED BY <1>5, <1>6, <1>7

(* So is a step of the backend.                                            *)
LEMMA BackendImplements ==
  ASSUME IInv, IInv', UNCHANGED snd, prefix <= prefix'
  PROVE  [T!Next]_T!vars
<1>1. prefix \in 0 .. Payload + 1 /\ prefix' \in 0 .. Payload + 1
  BY DEF IInv, HistInv
<1> DEFINE read == Min({prefix, Payload})
<1>2. read = IF prefix = Payload + 1 THEN Payload ELSE prefix
  BY <1>1, ReadIs
<1>3. read' = IF prefix' = Payload + 1 THEN Payload ELSE prefix'
  BY <1>1, ReadIs
<1> HIDE DEF read
<1>4. CASE prefix' = prefix
  <2>1. read' = read
    BY <1>4 DEF read
  <2> QED BY <2>1, <1>4 DEF T!vars, read
<1>5. CASE prefix' = Payload + 1
  <2>1. read' = Payload /\ (prefix = Payload + 1)' = TRUE
    BY <1>5, <1>3
  <2>2. T!End
    BY <2>1 DEF T!End, read
  <2> QED BY <2>2 DEF T!Next
<1>6. CASE prefix' # prefix /\ prefix' # Payload + 1
  <2>1. prefix < prefix' /\ prefix' <= Payload
    BY <1>1, <1>6
  <2>2. read' \in read + 1 .. Payload
    BY <2>1, <1>1, <1>2, <1>3
  <2>3. (prefix = Payload + 1)' = (prefix = Payload + 1)
    BY <2>1, <1>1
  <2>4. T!Read
    BY <2>2, <2>3 DEF T!Read, read
  <2> QED BY <2>4 DEF T!Next
<1> QED BY <1>4, <1>5, <1>6

(* What the client confirms was read by the backend, a transfer succeeds   *)
(* when all of it was, and a connection ends gracefully only when its end  *)
(* was read too (recordTransferSuccess, acknowledgeFIN, finishConnection). *)
THEOREM TransferIsImplemented == Spec => ImplementsTransfer
<1>1. Init => T!Init
  <2> SUFFICES ASSUME Init PROVE T!Init
    OBVIOUS
  <2>1. prefix = 0 /\ snd.acknowledged = 0 /\ snd.status = "inProgress" /\ snd.outcome = ""
    BY DEF Init, S!Init
  <2>2. Min({prefix, Payload}) = 0 /\ (prefix = Payload + 1) = FALSE
    <3>1. prefix = 0
      BY <2>1
    <3>2. prefix \in 0 .. Payload + 1 /\ prefix # Payload + 1
      BY <3>1
    <3> QED BY <3>1, <3>2, ReadIs
  <2> QED BY <2>1, <2>2 DEF T!Init
<1>2. IInv /\ IInv' /\ [Next]_vars => [T!Next]_T!vars
  <2> SUFFICES ASSUME IInv, IInv', [Next]_vars PROVE [T!Next]_T!vars
    OBVIOUS
  <2>1. CASE ClientCalls \/ ClientEvents \/ ClientReceives
    BY <2>1, ClientMoves, ClientImplements
  <2>2. CASE HostCalls \/ BackendEvents \/ BackendReceives
    BY <2>2, BackendMoves, BackendImplements
  <2>3. CASE SegmentLost
    <3>1. UNCHANGED <<snd, prefix>>
      BY <2>3, LossKeeps
    <3> QED BY <3>1 DEF T!vars
  <2>4. CASE UNCHANGED vars
    BY <2>4 DEF vars, T!vars
  <2> QED BY <2>1, <2>2, <2>3, <2>4 DEF Next
<1> QED BY <1>1, <1>2, InvariantHolds, PTL DEF Spec, T!Spec, ImplementsTransfer
=============================================================================
