------------------------------ MODULE RtoLimits ------------------------------
(***************************************************************************)
(* The limits of a retransmission timer, as normalizeRTO accepts them      *)
(* (src/simulator/scenario/tcp.go), and the width of a time.Duration.      *)
(***************************************************************************)
EXTENDS Integers

CONSTANTS
  MaxDuration,      \* the largest time.Duration, 2^63 - 1 in the code
  MinimumTimeout, InitialTimeout, MaximumTimeout,
  Conservative,     \* 3 s, the least timeout after a repeated SYN
  Samples           \* round trips the virtual clock can measure

ASSUME RtoAssumption ==
  /\ MaxDuration \in Nat
  /\ MinimumTimeout \in Nat \ {0}
  /\ InitialTimeout \in MinimumTimeout .. MaxDuration
  /\ MaximumTimeout \in InitialTimeout .. MaxDuration
  /\ Conservative \in 1 .. MaxDuration
  /\ Samples \subseteq 0 .. MaxDuration
=============================================================================
