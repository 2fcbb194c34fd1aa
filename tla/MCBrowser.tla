------------------------------ MODULE MCBrowser ------------------------------
(* Two runs, one waiting frame, and one trouble that costs the second run. *)
EXTENDS Browser
=============================================================================
