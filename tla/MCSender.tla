------------------------------ MODULE MCSender ------------------------------
(***************************************************************************)
(* A model-checking instance of three parts of a sender that share no      *)
(* state: the window without SACK (Congestion), the recovery with SACK     *)
(* (Sack), and the estimate behind the timers (Rto).  One of them runs;    *)
(* the others stay where they start.                                       *)
(***************************************************************************)
EXTENDS Congestion, Sack, Rto

VARIABLE part

SenderInit ==
  /\ part \in {"window", "recovery", "timer"}
  /\ Init /\ SackInit /\ RtoInit
  /\ part # "window" => mode = "reno" /\ ~ecn
  /\ part # "timer" => adaptive /\ exponential

SenderNext ==
  /\ \/ part = "window" /\ Next /\ UNCHANGED <<sackVars, rtoVars>>
     \/ part = "recovery" /\ SackNext /\ UNCHANGED <<vars, rtoVars>>
     \/ part = "timer" /\ RtoNext /\ UNCHANGED <<vars, sackVars>>
  /\ UNCHANGED part

SenderSpec == SenderInit /\ [][SenderNext]_<<part, vars, sackVars, rtoVars>>

=============================================================================
