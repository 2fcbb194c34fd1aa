------------------------------- MODULE MCHub -------------------------------
(* A model-checking instance of Hub: one browser. That several browsers do *)
(* not disturb each other is proved in HubProofs.                          *)
EXTENDS Hub
=============================================================================
