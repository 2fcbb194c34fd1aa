------------------------------- MODULE MCTcp -------------------------------
(* A model-checking instance of Tcp.                                       *)
EXTENDS TcpInvariant
=============================================================================
