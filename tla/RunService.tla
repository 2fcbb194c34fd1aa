----------------------------- MODULE RunService -----------------------------
(***************************************************************************)
(* What the run control promises its users, without goroutines, channels   *)
(* or contexts: one experiment at a time, numbered in order of admission;  *)
(* a Stop that admits nothing new until the empty state has been shown;    *)
(* a record of the current run that is always ahead of the frames, never   *)
(* behind them; frames that only ever show the reserved run as running and *)
(* only end a run that was shown running.                                  *)
(***************************************************************************)
EXTENDS Naturals

CONSTANTS
  RunIDLimit,
  Ends          \* the states in which a run ends

VARIABLES
  admitted,      \* number of starts admitted so far
  slot,          \* the run that is reserved, 0 when the service is free
  stopRequested, \* Stop accepted, empty state not shown yet
  record,        \* the run GET current describes
  shown,         \* the last frame shown
  closed         \* the service is going away

vars == <<admitted, slot, stopRequested, record, shown, closed>>

NoRecord == [run |-> 0, status |-> "none"]
Idle     == [run |-> 0, status |-> "idle"]

Init ==
  /\ admitted = 0 /\ slot = 0
  /\ stopRequested = FALSE
  /\ record = NoRecord
  /\ shown = Idle
  /\ closed = FALSE

(* A WebSocket start is recorded when it begins, an HTTP start at once.    *)
Admit(document) ==
  /\ slot = 0 /\ ~stopRequested
  /\ admitted < RunIDLimit
  /\ admitted' = admitted + 1
  /\ slot' = admitted + 1
  /\ record' = IF document THEN [run |-> admitted + 1, status |-> "accepted"]
               ELSE record
  /\ UNCHANGED <<stopRequested, shown, closed>>

RequestStop ==
  /\ ~stopRequested
  /\ stopRequested' = TRUE
  /\ UNCHANGED <<admitted, slot, record, shown, closed>>

RecordRunning ==
  /\ slot # 0
  /\ record.run # slot \/ record.status = "accepted"
  /\ record' = [run |-> slot, status |-> "running"]
  /\ UNCHANGED <<admitted, slot, stopRequested, shown, closed>>

ShowRunning ==
  /\ slot # 0
  /\ record = [run |-> slot, status |-> "running"]
  /\ shown' = record
  /\ UNCHANGED <<admitted, slot, stopRequested, record, closed>>

RecordEnd ==
  /\ slot # 0
  /\ shown = [run |-> slot, status |-> "running"] /\ record = shown
  /\ \E s \in Ends : record' = [run |-> slot, status |-> s]
  /\ UNCHANGED <<admitted, slot, stopRequested, shown, closed>>

(* The last frame of a run may follow the release of its slot, and even    *)
(* the record of the next start.                                           *)
ShowEnd ==
  /\ shown.status = "running"
  /\ \/ record.run = shown.run /\ record.status \in Ends /\ shown' = record
     \/ /\ record.run > shown.run
        /\ \E s \in Ends : shown' = [run |-> shown.run, status |-> s]
  /\ UNCHANGED <<admitted, slot, stopRequested, record, closed>>

(* The slot is released by the end of its run, by a Stop that has already  *)
(* dropped the record, or because a start without a document was refused.  *)
Release ==
  /\ slot # 0
  /\ record.run = slot => record.status \in Ends
  /\ slot' = 0
  /\ UNCHANGED <<admitted, stopRequested, record, shown, closed>>

Forget ==
  /\ stopRequested \/ closed
  /\ record' = NoRecord
  /\ UNCHANGED <<admitted, slot, stopRequested, shown, closed>>

(* Nothing is reserved and nothing of the old run remains shown.           *)
Clear ==
  /\ stopRequested \/ closed
  /\ slot = 0 /\ record = NoRecord
  /\ stopRequested' = FALSE
  /\ shown' = Idle
  /\ UNCHANGED <<admitted, slot, record, closed>>

(* Shutting down may abandon a Stop.                                       *)
Close ==
  /\ closed' = TRUE
  /\ stopRequested' \in {stopRequested, FALSE}
  /\ UNCHANGED <<admitted, slot, record, shown>>

(* What the service does by itself.                                        *)
Work == RecordRunning \/ ShowRunning \/ RecordEnd \/ ShowEnd \/ Release
          \/ Forget \/ Clear

Next == Work \/ (\E document \in BOOLEAN : Admit(document)) \/ RequestStop \/ Close

Spec == Init /\ [][Next]_vars
=============================================================================
