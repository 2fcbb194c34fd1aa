------------------------------ MODULE Transfer ------------------------------
(***************************************************************************)
(* What a connection promises to the world that started it: the client     *)
(* counts a byte as confirmed only after the backend has read it and all   *)
(* before it, a transfer succeeds exactly when all are confirmed, and a    *)
(* connection that ends gracefully has told the backend where the stream   *)
(* ends.                                                                   *)
(***************************************************************************)
EXTENDS Integers

CONSTANT Payload

VARIABLES
  read,       \* longest prefix of the stream the backend has had
  ended,      \* the backend has read the end of the stream
  confirmed,  \* bytes the client was told of
  status,     \* of the transfer
  outcome     \* of the connection, "" while it is open

vars == <<read, ended, confirmed, status, outcome>>

Init == read = 0 /\ ended = FALSE /\ confirmed = 0 /\ status = "inProgress" /\ outcome = ""

Read ==
  /\ read' \in read + 1 .. Payload
  /\ UNCHANGED <<ended, confirmed, status, outcome>>

End ==
  /\ read' = Payload /\ ended' = TRUE
  /\ UNCHANGED <<confirmed, status, outcome>>

Confirm ==
  /\ status = "inProgress" /\ outcome = ""
  /\ confirmed' \in confirmed + 1 .. read
  /\ status' = IF confirmed' = Payload THEN "succeeded" ELSE "inProgress"
  /\ UNCHANGED <<read, ended, outcome>>

Graceful ==
  /\ outcome = "" /\ ended = TRUE /\ status = "succeeded"
  /\ outcome' = "graceful"
  /\ UNCHANGED <<read, ended, confirmed, status>>

Break ==
  /\ outcome = ""
  /\ outcome' \in {"aborted", "reset", "finRetryLimit", "waitTimeout"}
  /\ status' = IF status = "inProgress" THEN "failed" ELSE status
  /\ UNCHANGED <<read, ended, confirmed>>

Next == Read \/ End \/ Confirm \/ Graceful \/ Break

Spec == Init /\ [][Next]_vars
=============================================================================
