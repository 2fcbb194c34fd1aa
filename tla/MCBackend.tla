----------------------------- MODULE MCBackend -----------------------------
(* Model-checking instances of Backend, with the CPU of Host and the       *)
(* checks of Health.                                                       *)
EXTENDS Backend
=============================================================================
