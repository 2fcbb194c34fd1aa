----------------------------- MODULE RunControl -----------------------------
(***************************************************************************)
(* The run lifecycle of the interactive service: the admission control     *)
(* every transport shares (run_controller.go), the owner goroutine that    *)
(* alone holds the simulated world (session.go, runInteractive) and the    *)
(* pacing loop that advances it (runner.go, runWorld).                     *)
(*                                                                         *)
(* HTTP handlers and WebSocket readers call the controller concurrently    *)
(* with the owner.  Every critical section of the controller's mutex is    *)
(* one atomic step; between two of them, and between a read of a context   *)
(* and its use, any other goroutine may run.                               *)
(*                                                                         *)
(* Left out: the text of errors, the scenario documents and everything     *)
(* inside the world.  A command is represented by the run that was         *)
(* reserved when it was accepted, which is what isolation is about.        *)
(***************************************************************************)
EXTENDS Naturals, Sequences

CONSTANTS
  RunIDLimit,      \* largest run number (2^64 - 1 in the code)
  CommandCapacity, \* capacity of the runtime command channel (64)
  MaxBatches       \* batches after which a world has reached its end

ASSUME RunControlAssumption ==
  /\ RunIDLimit \in Nat
  /\ CommandCapacity \in Nat
  /\ MaxBatches \in Nat

VARIABLES
  (* runController, guarded by its mutex *)
  nextRunID,   \* last run number handed out
  runCtx,      \* run whose context and cancel function are set; 0 is nil
  cancelled,   \* runs whose context has been cancelled
  stopping,    \* Stop accepted and not yet acknowledged
  stops,       \* messages in the stops channel (capacity 1)
  starts,      \* the starts channel (capacity 1)
  commands,    \* the runtime command channel
  record,      \* the run GET /api/simulations/current returns
  (* the service context *)
  serviceDone,
  (* locals of the owner goroutine *)
  pc, request, ownerCtx, status, runID, world, scheduled, work, result,
  (* what observers see: the last frame and the last graph definition *)
  frame, topology

controllerVars == <<nextRunID, runCtx, cancelled, stopping, stops, starts,
                    commands, record>>
ownerVars      == <<request, ownerCtx, status, runID, world, scheduled, work,
                    result>>
publicVars     == <<frame, topology>>
vars           == <<controllerVars, serviceDone, pc, ownerVars, publicVars>>

NoRun    == 0
Runs     == 1 .. RunIDLimit
NoRecord == [run |-> NoRun, status |-> "none"]
Request  == [run : Runs \cup {NoRun}, legacy : BOOLEAN]
Idle     == [status |-> "idle", run |-> NoRun]

Statuses == {"idle", "running", "finished", "failed"}

(* The owner's program points, in the order runInteractive visits them.    *)
Points == {"boot", "select", "context", "check", "prepare", "reject",
           "publishReject", "recheck", "begin", "launch", "loop", "advance",
           "pace", "ended", "cancelCheck", "settle", "release", "publishEnd",
           "forget", "finish", "acknowledge", "exited"}

(* runCtx.Err() # nil: run contexts are children of the service context.   *)
Done(run) == serviceDone \/ run \in cancelled

Init ==
  /\ nextRunID = 0 /\ runCtx = NoRun /\ cancelled = {}
  /\ stopping = FALSE /\ stops = 0 /\ starts = << >> /\ commands = << >>
  /\ record = NoRecord
  /\ serviceDone = FALSE
  /\ pc = "boot"
  /\ request = [run |-> NoRun, legacy |-> FALSE]
  /\ ownerCtx = NoRun /\ status = "idle" /\ runID = NoRun
  /\ world = NoRun /\ scheduled = << >> /\ work = 0 /\ result = "idle"
  /\ frame = Idle /\ topology = NoRun

-----------------------------------------------------------------------------
(* Requests: each runs in an HTTP or WebSocket goroutine, under the mutex. *)

StartDuringStop(legacy) ==
  /\ ~serviceDone
  /\ runCtx = NoRun
  /\ nextRunID < RunIDLimit
  /\ starts = << >>
  /\ nextRunID' = nextRunID + 1
  /\ runCtx' = nextRunID + 1
  /\ starts' = <<[run |-> nextRunID + 1, legacy |-> legacy]>>
  /\ record' = IF legacy THEN record
               ELSE [run |-> nextRunID + 1, status |-> "accepted"]
  /\ UNCHANGED <<cancelled, stopping, stops, commands, serviceDone, pc,
                 ownerVars, publicVars>>

(* enqueueStart.  The send cannot meet a full channel (StartSlotIsFree).   *)
(* Only an HTTP start stores its document at admission.                    *)
Start(legacy) ==
  /\ ~serviceDone
  /\ runCtx = NoRun /\ ~stopping
  /\ nextRunID < RunIDLimit
  /\ starts = << >>
  /\ nextRunID' = nextRunID + 1
  /\ runCtx' = nextRunID + 1
  /\ starts' = <<[run |-> nextRunID + 1, legacy |-> legacy]>>
  /\ record' = IF legacy THEN record
               ELSE [run |-> nextRunID + 1, status |-> "accepted"]
  /\ UNCHANGED <<cancelled, stopping, stops, commands, serviceDone, pc,
                 ownerVars, publicVars>>

StopSignalsOnlyRuns ==
  /\ ~serviceDone
  /\ ~stopping
  /\ stops = 0
  /\ stopping' = TRUE
  /\ cancelled' = cancelled \cup ({runCtx} \ {NoRun})
  /\ stops' = IF runCtx = NoRun THEN 0 ELSE 1
  /\ UNCHANGED <<nextRunID, runCtx, starts, commands, record, serviceDone, pc,
                 ownerVars, publicVars>>

(* submit(Stop): a second Stop before the acknowledgement is a no-op.  The *)
(* send is made while the mutex is held, so it must never find stops full. *)
Stop ==
  /\ ~serviceDone
  /\ ~stopping
  /\ stops = 0
  /\ stopping' = TRUE
  /\ cancelled' = cancelled \cup ({runCtx} \ {NoRun})
  /\ stops' = 1
  /\ UNCHANGED <<nextRunID, runCtx, starts, commands, record, serviceDone, pc,
                 ownerVars, publicVars>>

(* submit(SetAlgorithm or SpawnClient).                                    *)
Command ==
  /\ ~serviceDone
  /\ runCtx # NoRun /\ ~stopping
  /\ Len(commands) < CommandCapacity
  /\ commands' = Append(commands, runCtx)
  /\ UNCHANGED <<nextRunID, runCtx, cancelled, stopping, stops, starts, record,
                 serviceDone, pc, ownerVars, publicVars>>

(* A signal, or a failed HTTP server, cancels the service context; so does *)
(* main's deferred stop() once the owner has returned.                     *)
ServiceShutdown ==
  /\ ~serviceDone
  /\ serviceDone' = TRUE
  /\ UNCHANGED <<controllerVars, pc, ownerVars, publicVars>>

-----------------------------------------------------------------------------
(* Steps the owner's actions are built from.                               *)

Goto(from, to) == pc = from /\ pc' = to

(* publish: graph definition first, then the frame; a nil world clears the *)
(* graph.                                                                  *)
Publish(s, r, w) ==
  /\ frame' = [status |-> s, run |-> r]
  /\ topology' = w

(* A failed publish leaves the last frame, with or without the new graph.  *)
PublishFails(w) ==
  /\ topology' \in {topology, w}
  /\ UNCHANGED frame

FinishRunKeepsCommands ==
  /\ cancelled' = cancelled \cup ({runCtx} \ {NoRun})
  /\ runCtx' = NoRun
  /\ starts' = << >>
  /\ UNCHANGED <<nextRunID, stopping, stops, record, commands>>

(* finishRun: release the slot and drop what was queued for the old run.   *)
FinishRun ==
  /\ cancelled' = cancelled \cup ({runCtx} \ {NoRun})
  /\ runCtx' = NoRun
  /\ commands' = << >>
  /\ starts' = << >>
  /\ UNCHANGED <<nextRunID, stopping, stops, record>>

(* Returning from runInteractive stops the world it still holds.           *)
Exit(from) ==
  /\ Goto(from, "exited")
  /\ world' = NoRun /\ scheduled' = << >>

-----------------------------------------------------------------------------
(* The owner's loop between runs.                                          *)

Boot ==
  /\ \/ /\ Goto("boot", "select") /\ Publish(status, runID, world)
        /\ UNCHANGED <<world, scheduled>>
     \/ /\ Exit("boot") /\ PublishFails(world)
  /\ UNCHANGED <<controllerVars, serviceDone, request, ownerCtx, status, runID,
                 work, result>>

(* The three cases of the select; Go picks any ready one.                  *)
SelectDone ==
  /\ serviceDone
  /\ Exit("select")
  /\ UNCHANGED <<controllerVars, serviceDone, request, ownerCtx, status, runID,
                 work, result, publicVars>>

SelectStop ==
  /\ stops = 1
  /\ Goto("select", "forget")
  /\ stops' = 0
  /\ UNCHANGED <<nextRunID, runCtx, cancelled, stopping, starts, commands,
                 record, serviceDone, ownerVars, publicVars>>

SelectStart ==
  /\ starts # << >>
  /\ Goto("select", "context")
  /\ request' = Head(starts)
  /\ starts' = Tail(starts)
  /\ UNCHANGED <<nextRunID, runCtx, cancelled, stopping, stops, commands,
                 record, serviceDone, ownerCtx, status, runID, world,
                 scheduled, work, result, publicVars>>

ContextForRun ==
  /\ Goto("context", "check")
  /\ ownerCtx' = runCtx
  /\ UNCHANGED <<controllerVars, serviceDone, request, status, runID, world,
                 scheduled, work, result, publicVars>>

CheckCancelled ==
  /\ \/ Goto("check", "forget") /\ Done(ownerCtx)
     \/ Goto("check", "prepare") /\ ~Done(ownerCtx)
  /\ UNCHANGED <<controllerVars, serviceDone, ownerVars, publicVars>>

(* Only the settings of a WebSocket start are decoded, and may be refused, *)
(* here; an HTTP scenario was normalised before its admission.             *)
PrepareStart ==
  /\ \/ Goto("prepare", "recheck")
     \/ Goto("prepare", "reject") /\ request.legacy
  /\ UNCHANGED <<controllerVars, serviceDone, ownerVars, publicVars>>

RejectKeepsSlot ==
  /\ Goto("reject", "publishReject")
  /\ UNCHANGED <<controllerVars, serviceDone, ownerVars, publicVars>>

RejectStart ==
  /\ Goto("reject", "publishReject")
  /\ FinishRun
  /\ UNCHANGED <<serviceDone, ownerVars, publicVars>>

PublishReject ==
  /\ \/ /\ Goto("publishReject", "select") /\ Publish(status, runID, world)
        /\ UNCHANGED <<world, scheduled>>
     \/ /\ Exit("publishReject") /\ PublishFails(world)
  /\ UNCHANGED <<controllerVars, serviceDone, request, ownerCtx, status, runID,
                 work, result>>

(* prepareStart takes time: the context is read again before the start.    *)
Recheck ==
  /\ \/ Goto("recheck", "forget") /\ Done(ownerCtx)
     \/ Goto("recheck", "begin") /\ ~Done(ownerCtx)
  /\ UNCHANGED <<controllerVars, serviceDone, ownerVars, publicVars>>

(* rememberRun stores a WebSocket start's document; setRunStatus updates   *)
(* the record an HTTP start left, if it is still this run's.               *)
Begin ==
  /\ Goto("begin", "launch")
  /\ status' = "running" /\ runID' = request.run
  /\ record' = IF request.legacy \/ record.run = request.run
               THEN [run |-> request.run, status |-> "running"] ELSE record
  /\ UNCHANGED <<nextRunID, runCtx, cancelled, stopping, stops, starts,
                 commands, serviceDone, request, ownerCtx, world, scheduled,
                 work, result, publicVars>>

(* Stop the previous world, build the new one, publish its first frame.    *)
Launch ==
  /\ work' = MaxBatches
  /\ \/ /\ Goto("launch", "loop") /\ Publish(status, runID, runID)
        /\ world' = runID /\ scheduled' = << >>
     \/ /\ Exit("launch") /\ PublishFails(runID)
  /\ UNCHANGED <<controllerVars, serviceDone, request, ownerCtx, status, runID,
                 result>>

-----------------------------------------------------------------------------
(* runWorld.                                                               *)

Return(from, r) == Goto(from, "ended") /\ result' = r

(* Top of the loop: return on cancellation, else hand every queued command *)
(* to the world's event queue.                                             *)
RunLoop ==
  /\ \/ /\ Done(ownerCtx)
        /\ Return("loop", "failed")
        /\ UNCHANGED <<commands, scheduled>>
     \/ /\ ~Done(ownerCtx)
        /\ Goto("loop", "advance")
        /\ scheduled' = scheduled \o commands
        /\ commands' = << >>
        /\ UNCHANGED result
  /\ UNCHANGED <<nextRunID, runCtx, cancelled, stopping, stops, starts, record,
                 serviceDone, request, ownerCtx, status, runID, world, work,
                 publicVars>>

(* A batch executes some of the scheduled commands, oldest first, all of   *)
(* them when it reaches its target time; each one publishes.               *)
Executed(n) == scheduled' = SubSeq(scheduled, n + 1, Len(scheduled))

AdvanceCancelled ==
  /\ Done(ownerCtx)
  /\ Return("advance", "failed")
  /\ UNCHANGED <<scheduled, work, publicVars>>

AdvanceToEnd ==
  /\ Executed(Len(scheduled))
  /\ \/ Return("advance", "finished") /\ Publish(status, runID, world)
     \/ Return("advance", "failed") /\ PublishFails(world)
  /\ UNCHANGED work

AdvanceToEventLimit ==
  /\ \E n \in 0 .. Len(scheduled) : Executed(n)
  /\ Return("advance", "failed")
  /\ UNCHANGED <<work, publicVars>>

(* A full batch returns to the loop at once, a paced one that caught up    *)
(* with the wall clock waits; a snapshot may be due after either.          *)
AdvancePartly ==
  /\ work > 0 /\ work' = work - 1
  /\ \/ /\ \/ /\ Goto("advance", "pace")
              /\ Executed(Len(scheduled))
           \/ /\ Goto("advance", "loop")
              /\ \E n \in 0 .. Len(scheduled) : Executed(n)
        /\ Publish(status, runID, world)
        /\ UNCHANGED result
     \/ /\ Return("advance", "failed")
        /\ \E n \in 0 .. Len(scheduled) : Executed(n)
        /\ PublishFails(world)

AdvanceBatch ==
  /\ \/ AdvanceCancelled
     \/ ~Done(ownerCtx) /\ (AdvanceToEnd \/ AdvanceToEventLimit \/ AdvancePartly)
  /\ UNCHANGED <<controllerVars, serviceDone, request, ownerCtx, status, runID,
                 world>>

(* The pacing select: Stop, a command or the timer, whichever is taken.    *)
Pace ==
  /\ \/ /\ Done(ownerCtx)
        /\ Return("pace", "failed")
        /\ UNCHANGED <<commands, scheduled>>
     \/ /\ commands # << >>
        /\ Goto("pace", "loop")
        /\ scheduled' = Append(scheduled, Head(commands))
        /\ commands' = Tail(commands)
        /\ UNCHANGED result
     \/ /\ Goto("pace", "loop")
        /\ UNCHANGED <<commands, scheduled, result>>
  /\ UNCHANGED <<nextRunID, runCtx, cancelled, stopping, stops, starts, record,
                 serviceDone, request, ownerCtx, status, runID, world, work,
                 publicVars>>

-----------------------------------------------------------------------------
(* After runWorld.                                                         *)

Ended ==
  /\ \/ serviceDone /\ Exit("ended")
     \/ ~serviceDone /\ Goto("ended", "cancelCheck") /\ UNCHANGED <<world, scheduled>>
  /\ UNCHANGED <<controllerVars, serviceDone, request, ownerCtx, status, runID,
                 work, result, publicVars>>

(* A run cancelled meanwhile is cleared; else its result is written to     *)
(* standard output, which may fail, and becomes the run's status.          *)
CancelCheck ==
  /\ \/ /\ Done(ownerCtx)
        /\ Goto("cancelCheck", "forget")
        /\ UNCHANGED <<status, world, scheduled>>
     \/ /\ ~Done(ownerCtx)
        /\ Exit("cancelCheck")
        /\ UNCHANGED status
     \/ /\ ~Done(ownerCtx)
        /\ Goto("cancelCheck", "settle")
        /\ status' = result
        /\ UNCHANGED <<world, scheduled>>
  /\ UNCHANGED <<controllerVars, serviceDone, request, ownerCtx, runID,
                 work, result, publicVars>>

(* setRunStatus with the final status.                                     *)
Settle ==
  /\ Goto("settle", "release")
  /\ record' = IF record.run = runID
               THEN [record EXCEPT !.status = status] ELSE record
  /\ UNCHANGED <<nextRunID, runCtx, cancelled, stopping, stops, starts,
                 commands, serviceDone, ownerVars, publicVars>>

Release ==
  /\ Goto("release", "publishEnd")
  /\ FinishRun
  /\ UNCHANGED <<serviceDone, ownerVars, publicVars>>

PublishEnd ==
  /\ \/ /\ Goto("publishEnd", "select") /\ Publish(status, runID, world)
        /\ UNCHANGED <<world, scheduled>>
     \/ /\ Exit("publishEnd") /\ PublishFails(world)
  /\ UNCHANGED <<controllerVars, serviceDone, request, ownerCtx, status, runID,
                 work, result>>

-----------------------------------------------------------------------------
(* clear: the owner's half of Stop, three critical sections long.          *)

ForgetRun ==
  /\ Goto("forget", "finish")
  /\ world' = NoRun /\ scheduled' = << >>
  /\ status' = "idle" /\ runID' = NoRun
  /\ record' = NoRecord
  /\ UNCHANGED <<nextRunID, runCtx, cancelled, stopping, stops, starts,
                 commands, serviceDone, request, ownerCtx, work, result,
                 publicVars>>

ClearFinish ==
  /\ Goto("finish", "acknowledge")
  /\ FinishRun
  /\ UNCHANGED <<serviceDone, ownerVars, publicVars>>

(* acknowledgeStop: take the signal back if the owner learned of Stop from *)
(* the context, publish the empty state, then admit starts again.          *)
AcknowledgeStop ==
  /\ stops' = 0
  /\ stopping' = FALSE
  /\ \/ /\ Goto("acknowledge", "select") /\ Publish(status, runID, world)
        /\ UNCHANGED <<world, scheduled>>
     \/ /\ Exit("acknowledge") /\ PublishFails(world)
  /\ UNCHANGED <<nextRunID, runCtx, cancelled, starts, commands, record,
                 serviceDone, request, ownerCtx, status, runID,
                 work, result>>

-----------------------------------------------------------------------------
Owner ==
  \/ Boot \/ SelectDone \/ SelectStop \/ SelectStart
  \/ ContextForRun \/ CheckCancelled \/ PrepareStart \/ RejectStart
  \/ PublishReject \/ Recheck \/ Begin \/ Launch
  \/ RunLoop \/ AdvanceBatch \/ Pace
  \/ Ended \/ CancelCheck \/ Settle \/ Release \/ PublishEnd
  \/ ForgetRun \/ ClearFinish \/ AcknowledgeStop

Environment ==
  \/ \E legacy \in BOOLEAN : Start(legacy)
  \/ Stop \/ Command \/ ServiceShutdown

Next == Owner \/ Environment

Spec == Init /\ [][Next]_vars

(* The owner goroutine is never blocked on anything but its own selects,   *)
(* so the Go scheduler runs it whenever it can run.  Requests and signals  *)
(* need never arrive.                                                      *)
Fairness == WF_vars(Owner)

FairSpec == Spec /\ Fairness

-----------------------------------------------------------------------------
TypeOK ==
  /\ nextRunID \in 0 .. RunIDLimit
  /\ runCtx \in 0 .. RunIDLimit
  /\ cancelled \subseteq Runs
  /\ stopping \in BOOLEAN /\ stops \in {0, 1}
  /\ starts \in Seq(Request) /\ commands \in Seq(0 .. RunIDLimit)
  /\ record \in [run : 0 .. RunIDLimit,
                 status : Statuses \cup {"none", "accepted"}]
  /\ serviceDone \in BOOLEAN
  /\ pc \in Points
  /\ request \in Request
  /\ ownerCtx \in 0 .. RunIDLimit
  /\ status \in Statuses /\ runID \in 0 .. RunIDLimit
  /\ world \in 0 .. RunIDLimit /\ scheduled \in Seq(0 .. RunIDLimit)
  /\ work \in 0 .. MaxBatches /\ result \in Statuses
  /\ frame \in [status : Statuses, run : 0 .. RunIDLimit]
  /\ topology \in 0 .. RunIDLimit

(* submit sends on stops while it holds the mutex (run_controller.go:90):  *)
(* whenever Stop would send, the channel is empty, however Stop, a run's   *)
(* end and the acknowledgement interleave.  A full channel would block     *)
(* every transport and the owner for ever.                                 *)
StopNeverBlocks == ~stopping => stops = 0

(* A Stop that was accepted is never forgotten: its signal is still in the *)
(* channel, or the owner is clearing, or the service has ended.            *)
StopIsNotLost ==
  stopping => \/ stops = 1
              \/ pc \in {"forget", "finish", "acknowledge", "exited"}

(* While no run is reserved the starts channel is empty, so the "queue     *)
(* full" branch of enqueueStart (run_controller.go:152) is dead code and a *)
(* start left from an old run is never taken with a nil context.           *)
StartSlotIsFree == runCtx = NoRun => starts = << >>

(* From taking a start until finishRun, the context the owner checks is    *)
(* the one reserved for that very request, and it is not nil               *)
(* (session.go:101-102 dereferences it).                                   *)
OwnerHoldsItsContext ==
  /\ pc \in {"context", "check", "prepare", "reject", "recheck", "begin",
            "launch", "loop", "advance", "pace", "ended", "cancelCheck",
            "settle", "release"}
       => runCtx = request.run /\ runCtx # NoRun
  /\ pc \in {"check", "prepare", "recheck", "begin", "launch", "loop",
            "advance", "pace", "ended", "cancelCheck", "settle", "release"}
       => ownerCtx = runCtx

(* "Old commands cannot enter the next run" (run_controller.go:211): every *)
(* queued command was accepted for the run that is reserved now, and every *)
(* command in the world's event queue was accepted for that world's run.   *)
CommandsStayInTheirRun ==
  /\ \A i \in 1 .. Len(commands) : commands[i] = runCtx
  /\ \A i \in 1 .. Len(scheduled) : scheduled[i] = world

(* While the owner advances a world, it is the reserved run's, and it is   *)
(* the run that GET current, the frames and the graph all name as running. *)
RunningIsWhatIsShown ==
  pc \in {"loop", "advance", "pace"} =>
    /\ world = runCtx
    /\ record = [run |-> world, status |-> "running"]
    /\ frame = [run |-> world, status |-> "running"]
    /\ topology = world

(* Between runs the three views agree: the record, the last frame and the  *)
(* graph name the same run with the same status, or all are empty.         *)
QuiescentAgreement ==
  pc = "select" /\ runCtx = NoRun =>
    /\ topology = frame.run
    /\ \/ record = NoRecord /\ frame = Idle
       \/ record = [run |-> frame.run, status |-> frame.status]

(* "Publishes the empty state before allowing new starts"                  *)
(* (run_controller.go:220): the step that ends a Stop leaves nothing of    *)
(* the old run anywhere, unless publishing failed and the service ends.    *)
StopLeavesNothing ==
  [][stopping /\ ~stopping' =>
       \/ pc' = "exited"
       \/ /\ frame' = Idle /\ topology' = NoRun /\ record' = NoRecord
          /\ world' = NoRun /\ scheduled' = << >> /\ runCtx' = NoRun
          /\ starts' = << >> /\ commands' = << >> /\ stops' = 0]_vars

(* The controller and the owner together implement the service's promise:  *)
(* admission one at a time, in order, never during a Stop; only the        *)
(* reserved run is shown running; Stop ends by showing the empty state.    *)
Service == INSTANCE RunService WITH
  Ends <- {"finished", "failed"},
  admitted <- nextRunID,
  slot <- runCtx,
  stopRequested <- stopping,
  record <- record,
  shown <- frame,
  closed <- serviceDone \/ pc = "exited"

ImplementsService == Service!Spec

(* Every accepted Stop is acknowledged, unless the service ends first.     *)
StopCompletes == stopping ~> (~stopping \/ pc = "exited")

(* Every admitted start gives its reservation back: it is rejected, runs   *)
(* to its end, fails or is stopped; the service never stays busy for ever. *)
StartResolves ==
  \A r \in Runs : runCtx = r ~> (runCtx # r \/ pc = "exited")

-----------------------------------------------------------------------------
(***************************************************************************)
(* The inductive invariant.  The properties of RunControl hold because of  *)
(* what is true at every program point of the owner, so the invariant says *)
(* that: which run is reserved, who holds its request, what the record,    *)
(* the frame and the graph show.                                           *)
(***************************************************************************)

(* A cancelled reservation, and a clear in progress, come from Stop or     *)
(* from the end of the service, so nothing can be admitted meanwhile.      *)
CancelInv ==
  /\ runCtx <= nextRunID
  /\ \A r \in cancelled : r <= nextRunID
  /\ runCtx \in cancelled => stopping
  /\ pc \in {"forget", "finish", "acknowledge"} => stopping \/ serviceDone

(* Points at which the owner holds neither a request nor a run.            *)
Free == {"boot", "select", "publishReject", "publishEnd"}

(* A queued start is the reserved one, and the owner has none in hand.     *)
SlotInv ==
  /\ starts # << >> =>
       /\ Len(starts) = 1 /\ starts[1].run = runCtx /\ runCtx # NoRun
       /\ pc \in Free \cup {"forget", "finish", "exited"}
  /\ pc \in Free /\ runCtx # NoRun => starts # << >>
  /\ pc = "acknowledge" => runCtx = NoRun
  /\ runCtx = NoRun => commands = << >>

(* The record that goes with the owner's own status.                       *)
OwnerRecord ==
  IF status = "idle" THEN NoRecord ELSE [run |-> runID, status |-> status]

(* Between two launches everything shows the last run, except that the     *)
(* record of an HTTP start is replaced at its admission.                   *)
WaitingInv ==
  /\ pc \in {"boot", "select", "context", "check", "prepare", "reject",
             "publishReject", "recheck", "begin"} =>
       /\ frame = [status |-> status, run |-> runID]
       /\ topology = runID /\ world = runID
       /\ status \in {"idle", "finished", "failed"}
       /\ status = "idle" <=> runID = NoRun
  /\ pc \in Free =>
       /\ runCtx = NoRun => record = OwnerRecord
       /\ starts # << >> =>
            record = IF starts[1].legacy THEN OwnerRecord
                     ELSE [run |-> runCtx, status |-> "accepted"]
  /\ pc \in {"context", "check", "prepare", "reject", "recheck", "begin"} =>
       record = IF request.legacy THEN OwnerRecord
                ELSE [run |-> request.run, status |-> "accepted"]
  /\ pc = "reject" => request.legacy

(* From its launch on, the run is the one that is shown.                   *)
LaunchedInv ==
  /\ pc \in {"launch", "loop", "advance", "pace", "ended", "cancelCheck"} =>
       /\ status = "running" /\ runID = request.run
       /\ record = [run |-> runID, status |-> "running"]
  /\ pc \in {"ended", "cancelCheck"} => result \in {"finished", "failed"}
  /\ pc \in {"loop", "advance", "pace", "ended", "cancelCheck", "settle",
             "release", "publishEnd"} =>
       /\ world = runID /\ topology = runID
       /\ frame = [status |-> "running", run |-> runID]
  /\ pc \in {"settle", "release", "publishEnd"} =>
       /\ status \in {"finished", "failed"} /\ runID # NoRun
  /\ pc = "settle" => record = [run |-> runID, status |-> "running"]
  /\ pc = "release" => record = [run |-> runID, status |-> status]

(* While it clears, the owner has already dropped the run.                 *)
ClearingInv ==
  pc \in {"finish", "acknowledge"} =>
    /\ record = NoRecord /\ world = NoRun /\ scheduled = << >>
    /\ status = "idle" /\ runID = NoRun

(* What is shown between two launches is older than what is reserved, so   *)
(* the record and the frames only ever move to later runs.                 *)
FreshInv ==
  /\ runID <= nextRunID
  /\ pc \in {"boot", "select", "context", "check", "prepare", "reject",
             "publishReject", "recheck", "begin", "publishEnd"} =>
       runCtx = NoRun \/ runID < runCtx
  /\ pc = "settle" => runID = runCtx

IInv ==
  /\ TypeOK
  /\ StopNeverBlocks /\ StopIsNotLost /\ CancelInv
  /\ SlotInv /\ OwnerHoldsItsContext
  /\ CommandsStayInTheirRun
  /\ WaitingInv /\ LaunchedInv /\ ClearingInv /\ FreshInv

=============================================================================
