--------------------------------- MODULE Rto ---------------------------------
(***************************************************************************)
(* How long a Sender waits before it sends again (rto.go): the estimate of *)
(* the round trip (RFC 6298), the backoff of the retransmission timer, and *)
(* the two delays that start from it and back off on their own, those of a *)
(* FIN (sender_closing.go) and of new data held for ECN (ecn_sender.go).   *)
(*                                                                         *)
(* A time.Duration is a signed integer of fixed width: what an operation   *)
(* computes is wrapped.  exact is the same estimate in unlimited integers, *)
(* by the formulas of the RFC.                                             *)
(***************************************************************************)
EXTENDS RtoLimits

VARIABLES
  adaptive, exponential,  \* the configuration
  established, synRetried,
  measured,               \* Samples > 0
  srtt, rttvar, base, current,
  hold,                   \* ecn.holdRTO
  finDelay,               \* finRetryDelay, 0 before the FIN
  exact                   \* history: the unlimited estimate

config == <<adaptive, exponential>>
estimate == <<measured, srtt, rttvar, base>>
phase == <<established, synRetried>>
rtoVars == <<config, phase, estimate, current, hold, finDelay, exact>>

Shorter(a, b) == IF a < b THEN a ELSE b
Longer(a, b) == IF a > b THEN a ELSE b
Distance(a, b) == IF a > b THEN a - b ELSE b - a

(* newRTOEstimator.                                                        *)
RtoInit ==
  /\ adaptive \in BOOLEAN /\ exponential \in BOOLEAN
  /\ established = FALSE /\ synRetried = FALSE
  /\ measured = FALSE /\ srtt = 0 /\ rttvar = 0
  /\ base = InitialTimeout /\ current = InitialTimeout
  /\ hold = 0 /\ finDelay = 0
  /\ exact = [srtt |-> 0, rttvar |-> 0, timeout |-> InitialTimeout]

-----------------------------------------------------------------------------
(* Arithmetic of time.Duration.                                            *)

Wrap(n) ==
  IF n \in -MaxDuration - 1 .. MaxDuration THEN n
  ELSE ((n + MaxDuration + 1) % (2 * MaxDuration + 2)) - MaxDuration - 1

(* smoothDuration: Go's division rounds towards zero, which is corrected   *)
(* to rounding down.                                                       *)
Part(change, weight) ==
  IF change >= 0 THEN change \div weight
  ELSE LET size == -change
       IN  -(size \div weight) - (IF size % weight # 0 THEN 1 ELSE 0)

SmoothDuration(previous, sample, weight) ==
  Wrap(previous + Part(Wrap(sample - previous), weight))

MeasuredTimeout(smoothed, variation) ==
  LET margin == Longer(1, Wrap(4 * variation)) IN
  IF variation > MaximumTimeout \div 4 THEN MaximumTimeout
  ELSE IF smoothed >= MaximumTimeout \/ margin >= Wrap(MaximumTimeout - smoothed)
       THEN MaximumTimeout
  ELSE Longer(MinimumTimeout, Wrap(smoothed + margin))

(* What backOff, retryFIN and holdNewDataForECN do to a delay.             *)
Doubled(timeout) ==
  IF timeout >= Wrap(MaximumTimeout - timeout) THEN MaximumTimeout
  ELSE Wrap(timeout * 2)

-----------------------------------------------------------------------------
(* The exact estimate.  Beyond the maximum its timeout need not grow.      *)

ExactSample(sample) ==
  LET smoothed == IF measured THEN (7 * exact.srtt + sample) \div 8 ELSE sample
      variation == IF measured
                   THEN (3 * exact.rttvar + Distance(exact.srtt, sample)) \div 4
                   ELSE sample \div 2
  IN  [srtt |-> smoothed, rttvar |-> variation,
       timeout |-> IF adaptive
                   THEN Longer(MinimumTimeout, smoothed + Longer(1, 4 * variation))
                   ELSE InitialTimeout]

ExactBackOff ==
  [exact EXCEPT !.timeout = IF exponential /\ @ <= MaximumTimeout THEN 2 * @ ELSE @]

-----------------------------------------------------------------------------
(* The estimator.                                                          *)

ObserveNewAverage(sample) ==
  /\ srtt' = IF measured THEN SmoothDuration(srtt, sample, 8) ELSE sample
  /\ rttvar' = IF measured THEN SmoothDuration(rttvar, Distance(srtt', sample), 4)
               ELSE sample \div 2
  /\ measured' = TRUE
  /\ base' = IF adaptive THEN MeasuredTimeout(srtt', rttvar') ELSE InitialTimeout
  /\ current' = base'
  /\ exact' = ExactSample(sample)

(* observeRTT: the variation is measured against the average before this   *)
(* sample, and what the timer has backed off is forgotten.                 *)
ObserveRTT(sample) ==
  /\ srtt' = IF measured THEN SmoothDuration(srtt, sample, 8) ELSE sample
  /\ rttvar' = IF measured THEN SmoothDuration(rttvar, Distance(srtt, sample), 4)
               ELSE sample \div 2
  /\ measured' = TRUE
  /\ base' = IF adaptive THEN MeasuredTimeout(srtt', rttvar') ELSE InitialTimeout
  /\ current' = base'
  /\ exact' = ExactSample(sample)

BackOff ==
  /\ current' = IF exponential THEN Doubled(current) ELSE current
  /\ exact' = ExactBackOff
  /\ UNCHANGED estimate

(* afterSYNRetry: no sample, but no optimism either.                       *)
AfterSYNRetry ==
  /\ current' = IF adaptive
                THEN Longer(current, Shorter(Conservative, MaximumTimeout))
                ELSE current
  /\ exact' = IF adaptive
              THEN [exact EXCEPT !.timeout = Longer(@, Conservative)] ELSE exact
  /\ UNCHANGED estimate

-----------------------------------------------------------------------------
(* The Sender's use of it.                                                 *)

(* retransmitSyn.                                                          *)
SynTimerFires ==
  /\ ~established /\ synRetried' = TRUE
  /\ BackOff
  /\ UNCHANGED <<config, established, hold, finDelay>>

(* handleSynAck: the SYN is a sample unless it was repeated.               *)
Establish ==
  /\ ~established /\ established' = TRUE
  /\ \/ synRetried /\ AfterSYNRetry
     \/ ~synRetried /\ \E sample \in Samples : ObserveRTT(sample)
  /\ UNCHANGED <<config, synRetried, hold, finDelay>>

(* An acknowledgement of data that was sent once.                          *)
DataSample ==
  /\ established /\ finDelay = 0
  /\ \E sample \in Samples : ObserveRTT(sample)
  /\ UNCHANGED <<config, phase, hold, finDelay>>

(* retransmitData.                                                         *)
DataTimerFires ==
  /\ established /\ finDelay = 0
  /\ BackOff
  /\ UNCHANGED <<config, phase, hold, finDelay>>

(* holdNewDataForECN, for congestion that is new or was answered already;  *)
(* and an acknowledgement without ECE, which ends the series.              *)
HoldForECN ==
  /\ established /\ finDelay = 0
  /\ \/ hold = 0 /\ hold' = current
     \/ hold # 0 /\ hold' = Doubled(hold)
     \/ hold # 0 /\ hold' = 0
  /\ UNCHANGED <<config, phase, estimate, current, finDelay, exact>>

(* startFINWhenDrained: the FIN takes over the timeout of that moment.     *)
FinTimerStarts ==
  /\ established /\ finDelay = 0
  /\ finDelay' = current
  /\ UNCHANGED <<config, phase, estimate, current, hold, exact>>

(* retryFIN.                                                               *)
RetryFIN ==
  /\ finDelay # 0
  /\ finDelay' = IF exponential THEN Doubled(finDelay) ELSE finDelay
  /\ UNCHANGED <<config, phase, estimate, current, hold, exact>>

RtoNext ==
  \/ SynTimerFires \/ Establish
  \/ DataSample \/ DataTimerFires \/ HoldForECN
  \/ FinTimerStarts \/ RetryFIN

RtoSpec == RtoInit /\ [][RtoNext]_rtoVars

-----------------------------------------------------------------------------
(* The types of the state.                                                 *)
RtoTypeOK ==
  /\ adaptive \in BOOLEAN /\ exponential \in BOOLEAN
  /\ established \in BOOLEAN /\ synRetried \in BOOLEAN /\ measured \in BOOLEAN
  /\ srtt \in 0 .. MaxDuration /\ rttvar \in 0 .. MaxDuration
  /\ base \in MinimumTimeout .. MaximumTimeout
  /\ current \in base .. MaximumTimeout
  /\ hold \in {0} \cup MinimumTimeout .. MaximumTimeout
  /\ finDelay \in {0} \cup MinimumTimeout .. MaximumTimeout
  /\ exact \in [srtt : Nat, rttvar : Nat, timeout : Nat]

(* However long the round trips and the retries, the estimate is the one   *)
(* of RFC 6298 in exact arithmetic, only limited by the maximum: nothing   *)
(* overflows, and no rounding gets lost (rto.go:38-111).                   *)
EstimateIsExact ==
  /\ srtt = exact.srtt /\ rttvar = exact.rttvar
  /\ current = Shorter(exact.timeout, MaximumTimeout)

(* A measured timeout leaves room for the average round trip, unless the   *)
(* maximum does not allow it (rto.go:84-95).                               *)
NotTooEager == adaptive /\ measured => base > srtt \/ base = MaximumTimeout

(* No timer of a sender waits less than the minimum or longer than the     *)
(* maximum (RtoTypeOK), and the estimate is exact.                         *)
TimeoutIsSound == RtoTypeOK /\ EstimateIsExact /\ NotTooEager
=============================================================================
