------------------------------- MODULE Browser -------------------------------
(***************************************************************************)
(* The browser's half of a run (visualizer, useSimulation.ts): it starts   *)
(* a scenario over HTTP, stops it over the WebSocket, learns what became   *)
(* of both from frames that the hub may have coalesced, and reads the      *)
(* document of the current run over HTTP.  Answers, frames and the effects *)
(* of React arrive in any order; connections are lost and the server       *)
(* restarts, using the same run numbers again.                             *)
(*                                                                         *)
(* The server is the abstract RunService, which RunControl implements; the *)
(* hub is a pipe that may replace a waiting frame by a newer one.  Left    *)
(* out: documents, error texts, leaving the page, and the commands that    *)
(* change a running experiment.  simulationRef is the last view while      *)
(* connected, and startPending says whether httpStartRef is set.           *)
(***************************************************************************)
EXTENDS Naturals, Sequences

CONSTANTS
  RunIDLimit,   \* runs one server admits, less one for each trouble
  PipeCapacity, \* frames between the hub and the browser
  MaxTroubles   \* others' Stops, lost connections, restarts, failed
                \* requests and refreshes

ASSUME BrowserAssumption ==
  /\ RunIDLimit \in Nat
  /\ PipeCapacity \in Nat \ {0}
  /\ MaxTroubles \in Nat

VARIABLES
  (* the server *)
  admitted, slot, stopRequested, record, shown,
  (* the connection *)
  socket,       \* the browser's end: open, or closed until the retry timer
  alive,        \* the server still holds the other end
  pipe,         \* frames on their way
  stopSent,     \* a Stop command is on its way
  troubles,     \* how many of the bounded events have happened
  (* refs and state of the hook *)
  connected, view, start, stopPending, currentRun, runError,
  (* the effect that reads the current run *)
  ranWith,      \* its dependencies when it last ran
  bumped,       \* connectionEpoch or runRefresh has been raised since
  fetch         \* its request, none once answered or aborted

serverVars  == <<admitted, slot, stopRequested, record, shown>>
linkVars    == <<socket, alive, pipe, stopSent>>
hookVars    == <<connected, view, start, stopPending, currentRun, runError>>
effectVars  == <<ranWith, bumped, fetch>>
browserVars == <<serverVars, linkVars, troubles, hookVars, effectVars>>

(* A failed run is to the browser what a finished one is, and a process    *)
(* that ends takes its connections with it: nobody sees it close.          *)
Server == INSTANCE RunService WITH
  Ends <- {"finished"},
  closed <- RunIDLimit = 0

NoRecord == Server!NoRecord
NoView   == [run |-> 0, status |-> "none"]
NoStart  == [phase |-> "none", run |-> 0, observed |-> {}, lost |-> FALSE]
NoFetch  == [phase |-> "none", asked |-> 0, accepted |-> 0, answer |-> 0]

StartPending == start.phase # "none"

(* simulationRef.current?.runId                                            *)
LatestRun == IF connected THEN view.run ELSE 0

WithoutRun == [connected |-> connected, view |-> [view EXCEPT !.run = 0]]

Dependencies == [connected |-> connected, view |-> view]

BrowserInit ==
  /\ admitted = 0 /\ slot = 0 /\ stopRequested = FALSE
  /\ record = NoRecord /\ shown = Server!Idle
  /\ socket = "closed" /\ alive = FALSE /\ pipe = << >> /\ stopSent = FALSE
  /\ troubles = 0
  /\ connected = FALSE /\ view = NoView
  /\ start = NoStart /\ stopPending = FALSE
  /\ currentRun = 0 /\ runError = FALSE
  /\ ranWith = Dependencies /\ bumped = FALSE /\ fetch = NoFetch

-----------------------------------------------------------------------------
(* The server and its other users.                                         *)

(* The hub sends each frame, or replaces the one that still waits.         *)
Broadcast(frame) ==
  IF ~alive \/ socket = "closed" THEN UNCHANGED pipe
  ELSE \/ pipe # << >> /\ pipe' = [pipe EXCEPT ![Len(pipe)] = frame]
       \/ Len(pipe) < PipeCapacity /\ pipe' = Append(pipe, frame)

Trouble  == troubles < MaxTroubles /\ troubles' = troubles + 1
RunsLeft == admitted + troubles < RunIDLimit

ServiceWorks ==
  /\ UNCHANGED troubles
  /\ Server!Work
  /\ IF Server!ShowRunning \/ Server!ShowEnd \/ Server!Clear
     THEN Broadcast(shown') ELSE UNCHANGED pipe
  /\ UNCHANGED <<socket, alive, stopSent, hookVars, effectVars>>

OthersStart ==
  /\ UNCHANGED <<linkVars, troubles, hookVars, effectVars>>
  /\ RunsLeft
  /\ \E document \in BOOLEAN : Server!Admit(document)

OthersStop ==
  /\ Trouble
  /\ UNCHANGED <<linkVars, hookVars, effectVars>>
  /\ Server!RequestStop

-----------------------------------------------------------------------------
(* The connection.                                                         *)

Dies ==
  /\ Trouble
  /\ alive' = FALSE /\ stopSent' = FALSE
  /\ UNCHANGED <<socket, pipe, connected, view, stopPending, currentRun,
                 runError, effectVars>>

ConnectionLost ==
  /\ alive
  /\ Dies
  /\ UNCHANGED <<serverVars, start>>

(* An unanswered request fails; an answered one names a run of the past.   *)
Orphan(s) ==
  IF s.phase = "sent" THEN [s EXCEPT !.phase = "refused"]
  ELSE [s EXCEPT !.lost = StartPending]

(* A new process knows nothing of the old one and counts runs from 1.      *)
ServerRestarts ==
  /\ Dies
  /\ start' = Orphan(start)
  /\ admitted' = 0 /\ slot' = 0 /\ stopRequested' = FALSE
  /\ record' = NoRecord /\ shown' = Server!Idle

(* socket.onopen; the hub queues the latest frame when it registers.       *)
Open ==
  /\ socket = "closed"
  /\ socket' = "open" /\ alive' = TRUE /\ pipe' = <<shown>>
  /\ connected' = FALSE /\ bumped' = TRUE
  /\ currentRun' = 0 /\ runError' = FALSE
  /\ stopPending' = FALSE
  /\ UNCHANGED <<serverVars, stopSent, troubles, view, start, ranWith, fetch>>

(* socket.onclose                                                          *)
CloseEvent ==
  /\ socket = "open" /\ ~alive
  /\ socket' = "closed" /\ pipe' = << >>
  /\ connected' = FALSE /\ stopPending' = FALSE
  /\ UNCHANGED <<serverVars, alive, stopSent, troubles, view, start, currentRun,
                 runError, effectVars>>

-----------------------------------------------------------------------------
(* socket.onmessage: handleSnapshot.                                       *)

AckByAnyRun(frame) == start.phase = "accepted" /\ frame.run # 0

MatchesStart(frame) == start.phase = "accepted" /\ start.run = frame.run

(* Coalescing may have replaced the run by the idle state that followed.   *)
IdleRefreshes(frame) ==
  start.phase = "accepted" /\ ~MatchesStart(frame) /\ frame.status = "idle"

Observed(frame) ==
  IF start.phase \notin {"sent", "answered"} \/ frame.run = 0 THEN start
  ELSE [start EXCEPT !.observed = @ \cup {frame.run}]

Snapshot ==
  /\ socket = "open" /\ pipe # << >>
  /\ LET frame == Head(pipe) IN
       /\ view' = frame /\ connected' = TRUE
       /\ start' = IF MatchesStart(frame) THEN NoStart ELSE Observed(frame)
       /\ fetch' = IF MatchesStart(frame) THEN [fetch EXCEPT !.accepted = 0]
                   ELSE fetch
       /\ bumped' = (bumped \/ IdleRefreshes(frame))
       /\ stopPending' = (stopPending /\ frame.status # "idle")
  /\ pipe' = Tail(pipe)
  /\ UNCHANGED <<serverVars, socket, alive, stopSent, troubles, currentRun,
                 runError, ranWith>>

-----------------------------------------------------------------------------
(* startScenario.                                                          *)

ClickStart ==
  /\ socket = "open" /\ connected /\ view.status # "running"
  /\ ~StartPending /\ ~stopPending
  /\ start' = [NoStart EXCEPT !.phase = "sent", !.lost = ~alive]
  /\ UNCHANGED <<serverVars, linkVars, troubles, connected, view, stopPending,
                 currentRun, runError, effectVars>>

(* POST /api/simulations is admitted or refused.                           *)
StartServed ==
  /\ start.phase = "sent"
  /\ UNCHANGED <<linkVars, troubles, connected, view, stopPending, currentRun,
                 runError, effectVars>>
  /\ \/ /\ RunsLeft /\ Server!Admit(TRUE)
        /\ start' = [start EXCEPT !.phase = "answered", !.run = admitted']
     \/ /\ slot # 0 \/ stopRequested \/ ~RunsLeft
        /\ start' = [start EXCEPT !.phase = "refused"]
        /\ UNCHANGED serverVars

(* A short run may have come and gone before its receipt.                  *)
Received(s) ==
  IF s.run \in s.observed THEN NoStart
  ELSE [s EXCEPT !.phase = "accepted", !.observed = {}]

Receipt ==
  /\ start.phase = "answered"
  /\ start' = Received(start)
  /\ bumped' = TRUE
  /\ UNCHANGED <<serverVars, linkVars, troubles, connected, view, stopPending,
                 currentRun, runError, ranWith, fetch>>

StartRefused ==
  /\ start.phase = "refused"
  /\ start' = NoStart
  /\ UNCHANGED <<serverVars, linkVars, troubles, connected, view, stopPending,
                 currentRun, runError, effectVars>>

StartFails ==
  /\ start.phase \in {"sent", "answered"}
  /\ Trouble
  /\ start' = NoStart
  /\ UNCHANGED <<serverVars, linkVars, connected,
                 view, stopPending, currentRun, runError, effectVars>>

-----------------------------------------------------------------------------
(* sendMessage(StopSimulation).                                            *)

ClickStop ==
  /\ socket = "open" /\ connected /\ view.status # "idle"
  /\ ~StartPending /\ ~stopPending
  /\ stopPending' = TRUE
  /\ stopSent' = alive
  /\ UNCHANGED <<serverVars, socket, alive, pipe, troubles, connected, view,
                 start, currentRun, runError, effectVars>>

(* A second Stop before the acknowledgement changes nothing.               *)
StopArrives ==
  /\ stopSent /\ stopSent' = FALSE
  /\ UNCHANGED <<socket, alive, pipe, troubles, hookVars, effectVars>>
  /\ Server!RequestStop \/ (stopRequested /\ UNCHANGED serverVars)

-----------------------------------------------------------------------------
(* The effect that reads GET /api/simulations/current.                     *)

EffectDue == bumped \/ ranWith # Dependencies

AcceptedRun == IF start.phase = "accepted" THEN start.run ELSE 0

(* The clean-up of the previous effect aborts its request.                 *)
Effect ==
  /\ EffectDue
  /\ ranWith' = Dependencies /\ bumped' = FALSE
  /\ fetch' = IF connected
              THEN [phase |-> "sent", asked |-> LatestRun,
                    accepted |-> AcceptedRun, answer |-> 0]
              ELSE NoFetch
  /\ UNCHANGED <<serverVars, linkVars, troubles, hookVars>>

FetchServed ==
  /\ fetch.phase = "sent"
  /\ fetch' = [fetch EXCEPT !.phase = "answered", !.answer = record.run]
  /\ UNCHANGED <<serverVars, linkVars, troubles, hookVars, ranWith, bumped>>

FetchFails ==
  /\ fetch.phase # "none"
  /\ Trouble
  /\ fetch' = NoFetch /\ runError' = TRUE
  /\ UNCHANGED <<serverVars, linkVars, connected,
                 view, start, stopPending, currentRun, ranWith, bumped>>

(* The frame has moved on while the document was read, to another run.     *)
Stale == LatestRun # fetch.asked /\ fetch.answer # LatestRun

AcknowledgedByDocument(run) ==
  \/ connected /\ view.run = run
  \/ fetch.answer # 0 /\ fetch.answer # run

(* httpStartAcknowledged                                                   *)
Acknowledged(run) ==
  \/ connected /\ view.run = run
  \/ fetch.answer = 0 /\ connected /\ view.status = "idle"
  \/ fetch.answer # 0 /\ fetch.answer # run

FetchDone ==
  /\ fetch.phase = "answered"
  /\ fetch' = NoFetch
  /\ IF Stale THEN UNCHANGED <<start, currentRun, runError>>
     ELSE /\ currentRun' = fetch.answer /\ runError' = FALSE
          /\ start' = IF fetch.accepted # 0 /\ Acknowledged(fetch.accepted)
                      THEN NoStart ELSE start
  /\ UNCHANGED <<serverVars, linkVars, troubles, connected, view, stopPending,
                 ranWith, bumped>>

(* refreshCurrent                                                          *)
Refresh ==
  /\ Trouble
  /\ bumped' = TRUE
  /\ UNCHANGED <<serverVars, linkVars, hookVars,
                 ranWith, fetch>>

-----------------------------------------------------------------------------
(* What the network and the browser do by themselves.                      *)
Machinery ==
  \/ Open \/ CloseEvent \/ Snapshot \/ Effect
  \/ StartServed \/ Receipt \/ StartRefused \/ StopArrives
  \/ FetchServed \/ FetchDone

BrowserNext ==
  \/ ServiceWorks \/ OthersStart \/ OthersStop
  \/ ConnectionLost \/ ServerRestarts
  \/ Machinery
  \/ ClickStart \/ StartFails \/ ClickStop \/ FetchFails \/ Refresh

BrowserSpec == BrowserInit /\ [][BrowserNext]_browserVars

(* RunControl implements the service and completes every Stop (its         *)
(* StopCompletes), although it may record a run again in the meantime.     *)
BrowserFairness ==
  /\ WF_serverVars(ServiceWorks)
  /\ SF_serverVars(ServiceWorks /\ (Server!Release \/ Server!Clear))
  /\ WF_browserVars(Machinery)

BrowserFairSpec == BrowserSpec /\ BrowserFairness

-----------------------------------------------------------------------------
Numbers   == 0 .. RunIDLimit
RunFrames == [run : Numbers, status : {"idle", "running", "finished"}]
Views     == RunFrames \cup {NoView}
Reads     == [phase : {"none", "sent", "answered"}, asked : Numbers,
             accepted : Numbers, answer : Numbers]
Requests  == [phase : {"none", "sent", "answered", "refused", "accepted"},
             run : Numbers, observed : SUBSET (Numbers \ {0}), lost : BOOLEAN]

BrowserTypeOK ==
  /\ socket \in {"open", "closed"} /\ alive \in BOOLEAN /\ stopSent \in BOOLEAN
  /\ pipe \in Seq(RunFrames) /\ Len(pipe) <= PipeCapacity
  /\ connected \in BOOLEAN /\ stopPending \in BOOLEAN /\ runError \in BOOLEAN
  /\ view \in Views /\ start \in Requests /\ fetch \in Reads
  /\ currentRun \in Numbers /\ bumped \in BOOLEAN /\ troubles \in 0 .. MaxTroubles
  /\ ranWith \in [connected : BOOLEAN, view : Views]

(* The record is ahead of the frames, and apart from a Stop only a run     *)
(* that is reserved can be ahead of what is shown.                         *)
ServerInv ==
  /\ admitted \in Numbers /\ slot \in 0 .. admitted /\ stopRequested \in BOOLEAN
  /\ record \in [run : 0 .. admitted,
                 status : {"none", "accepted", "running", "finished"}]
  /\ shown \in RunFrames /\ shown.run <= admitted
  /\ record.run # 0 /\ record.run # shown.run => slot = record.run
  /\ record.status = "finished" => shown.run = record.run
  /\ record.run = 0 /\ shown.run # 0 => stopRequested
  /\ record.status = "accepted" =>
       record.run = admitted /\ slot = admitted /\ shown.run # admitted /\ admitted # 0

(* A number that has been shown names no run that is still to be shown.    *)
Known(run) == run <= admitted /\ (run # 0 /\ run # shown.run => run # slot)

(* What the browser holds comes from the server that runs now.             *)
SameServer ==
  alive \/ (start.phase \in {"sent", "answered", "accepted"} /\ ~start.lost)

FramesInv ==
  SameServer =>
    /\ \A i \in DOMAIN pipe : Known(pipe[i].run)
    /\ connected => Known(view.run)

(* Frames leave a run for good.                                            *)
Before(a, b) == a # 0 /\ a # b => a # shown.run

LinkInv ==
  alive =>
    /\ socket = "open"
    /\ IF pipe = << >> THEN connected /\ view = shown ELSE pipe[Len(pipe)] = shown
    /\ \A i, j \in DOMAIN pipe : i < j => Before(pipe[i].run, pipe[j].run)
    /\ connected => \A i \in DOMAIN pipe : Before(view.run, pipe[i].run)

(* The document of a run is read while that run is shown, or the service   *)
(* is about to show something else.                                        *)
AheadOfFrames == stopRequested \/ (slot # 0 /\ record.run = slot /\ slot # shown.run)
Fits(document, run) == document = run \/ run # shown.run \/ AheadOfFrames

ReadInv ==
  alive /\ ~bumped /\ ranWith.connected =>
    LET run == ranWith.view.run IN
    /\ connected /\ Known(run) /\ Before(run, view.run)
    /\ \A i \in DOMAIN pipe : Before(run, pipe[i].run)
    /\ run # 0 =>
         /\ fetch.phase # "none" => fetch.asked = run
         /\ fetch.phase = "answered" => Fits(fetch.answer, run)
         /\ fetch.phase = "none" => runError \/ Fits(currentRun, run)

(* The receipt names a run of this server, and a read that may acknowledge *)
(* it belongs to it.                                                       *)
StartInv ==
  /\ start.phase \in {"answered", "accepted"} /\ ~start.lost => start.run <= admitted
  /\ start.phase \in {"sent", "answered"} /\ ~start.lost =>
       \A run \in start.observed : Known(run)
  /\ fetch.accepted # 0 =>
       /\ start.phase = "accepted" /\ start.run = fetch.accepted
       /\ fetch.phase = "answered" /\ fetch.answer # fetch.accepted /\ ~start.lost =>
            record # [run |-> fetch.accepted, status |-> "accepted"]

BrowserInv ==
  /\ BrowserTypeOK /\ ServerInv /\ FramesInv /\ LinkInv /\ ReadInv /\ StartInv

AtRest ==
  /\ alive /\ socket = "open" /\ pipe = << >> /\ connected
  /\ ~EffectDue /\ fetch.phase = "none" /\ ~runError
  /\ slot = 0 /\ ~stopRequested /\ shown.status # "running"

(* Once everything has arrived, the document next to a shown run is that   *)
(* run's, whatever frames were coalesced and whatever answers were late or *)
(* aborted.  (No run is shown: the document of a run that was accepted,    *)
(* read, and stopped before its launch stays; nothing asks again.)         *)
DocumentFitsTheRun == AtRest /\ view.run # 0 => currentRun = view.run

BrowserIsSound == BrowserInv /\ DocumentFitsTheRun

(* Start stays pending until its own run was seen, replaced or removed: no *)
(* idle frame, frame of another run or document read before the receipt    *)
(* ends it while the accepted run still waits for its launch.              *)
NoFalseAck ==
  [][start.phase \in {"answered", "accepted"} /\ ~start.lost
       /\ troubles' = troubles /\ start'.phase = "none" =>
       record # [run |-> start.run, status |-> "accepted"]]_browserVars

(* A pending Start ends, although the frames of its run may all have been  *)
(* coalesced, unless the read that would have ended it failed and the page *)
(* shows that error with its button to read again.                         *)
StartEnds == StartPending ~> (~StartPending \/ runError)

(* Stop and clear ends: some frame acknowledges it.                        *)
StopEnds == stopPending ~> ~stopPending
=============================================================================
