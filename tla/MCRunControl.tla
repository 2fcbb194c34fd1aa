---------------------------- MODULE MCRunControl ----------------------------
(* Model-checking instance of RunControl.                                  *)
EXTENDS RunControl
=============================================================================
