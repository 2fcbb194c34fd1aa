------------------------------ MODULE MCAccess ------------------------------
(* Model-checking instances of Access, with Link and Ingress.              *)
EXTENDS Access
=============================================================================
