----------------------------- MODULE LossyFifo -----------------------------
(***************************************************************************)
(* What a one-way path of the network promises: accepted packets arrive at *)
(* most once and in the order of their acceptance, though any of them may  *)
(* be lost, and all that is under way is gone when the world stops.        *)
(* A packet is the number of its acceptance.                               *)
(***************************************************************************)
EXTENDS Integers, Sequences

VARIABLES
  accepted,  \* number of packets accepted
  underway,  \* packets that have neither arrived nor been lost
  arrived,   \* packets in the order of their arrival
  open

vars == <<accepted, underway, arrived, open>>

Init == accepted = 0 /\ underway = {} /\ arrived = << >> /\ open = TRUE

Accept ==
  /\ open = TRUE
  /\ accepted' = accepted + 1 /\ underway' = underway \cup {accepted + 1}
  /\ UNCHANGED <<arrived, open>>

Lose ==
  /\ \E p \in underway : underway' = underway \ {p}
  /\ UNCHANGED <<accepted, arrived, open>>

Arrive ==
  /\ \E p \in underway :
       /\ \A q \in underway : p <= q
       /\ underway' = underway \ {p} /\ arrived' = Append(arrived, p)
  /\ UNCHANGED <<accepted, open>>

Close == open = TRUE /\ open' = FALSE /\ underway' = {} /\ UNCHANGED <<accepted, arrived>>

Next == Accept \/ Lose \/ Arrive \/ Close

Spec == Init /\ [][Next]_vars
=============================================================================
