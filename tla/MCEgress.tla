------------------------------ MODULE MCEgress ------------------------------
(* Model-checking instances of Egress.                                     *)
EXTENDS Egress, TLC

CONSTANTS o1, o2, o3

(* Three outputs, one of them without waiting places.                      *)
MCQueueCapacity == (o1 :> 1) @@ (o2 :> 1) @@ (o3 :> 0)
MCThreshold == (o1 :> 1) @@ (o2 :> 1) @@ (o3 :> 1)
(* A short and a long packet; the link of o1 is faster than the budget,    *)
(* those of o2 and o3 are slower.                                           *)
MCCost == [short |-> 1, long |-> 2]
MCSerialization == (o1 :> [short |-> 1, long |-> 1]) @@ (o2 :> [short |-> 2, long |-> 3])
                   @@ (o3 :> [short |-> 2, long |-> 3])
=============================================================================
