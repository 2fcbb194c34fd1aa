----------------------------- MODULE MCBalancer -----------------------------
(* Model-checking instances of Balancer.                                   *)
EXTENDS Balancer, TLC

CONSTANTS k1, k2, s1, s2

OneEach == [s \in Servers |-> 1]
ShortTimeouts == [f \in Phases |-> IF f = "established" THEN 2
                                   ELSE IF f = "reset" THEN 0 ELSE 1]
EqualTimeouts == [f \in Phases |-> 1]
Symmetry == Permutations({k1, k2})
BothChaos == {NoChaos, [drops |-> TRUE, latency |-> TRUE]}
Plain == {NoChaos}
=============================================================================
