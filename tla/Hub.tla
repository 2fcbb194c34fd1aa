-------------------------------- MODULE Hub --------------------------------
(***************************************************************************)
(* The WebSocket hub (http/hub.go) and the graph publication beside it     *)
(* (http/topology.go): one publisher, the hub goroutine that owns the set  *)
(* of connections, and for every connection a reader and a writer          *)
(* goroutine.                                                              *)
(*                                                                         *)
(* A frame is its sequence number; 0 stands for no frame.  A graph         *)
(* definition is the number of the frame that first needed it.  Commands   *)
(* that are accepted change nothing here, so only rejected ones are steps; *)
(* a ping that succeeds changes nothing either.                            *)
(***************************************************************************)
EXTENDS Integers, FiniteSets

CONSTANTS
  Clients,       \* connections, each used once
  Nobody,        \* stands for no connection
  MaxFrames,     \* bound on published frames
  ErrorCapacity, \* capacity of a connection's commandErrors channel (8)
  MaxRejections  \* bound on rejected commands per connection

ASSUME HubAssumption ==
  /\ Nobody \notin Clients
  /\ MaxFrames \in Nat
  /\ ErrorCapacity \in Nat
  /\ MaxRejections \in Nat

VARIABLES
  (* shared by the publisher, the hub and HTTP handlers *)
  latest,     \* the newest encoded frame
  wake,       \* messages in the wake channel (capacity 1)
  topology,   \* the newest graph definition
  needs,      \* the graph definition each frame was built for
  publisher,  \* program point of BroadcastState
  (* Hub.Run *)
  cancelled,  \* its context
  done,       \* the hub's done channel is closed
  hub, clients, todo, target, loaded,
  (* wsClient and its two goroutines, by connection *)
  serve, writer, stopped, outgoing, errors, holding,
  (* what reached the browser *)
  seen, rejected, told

publisherVars == <<latest, topology, needs, publisher>>
hubVars       == <<done, hub, clients, todo, target, loaded>>
errorVars     == <<errors, rejected, told>>
frameVars     == <<outgoing, holding, seen>>
clientVars    == <<serve, writer, stopped>>
vars == <<publisherVars, wake, cancelled, hubVars, clientVars, frameVars,
          errorVars>>

Frames  == 1 .. MaxFrames
Nothing == 0

Init ==
  /\ latest = Nothing /\ wake = 0 /\ topology = 0
  /\ needs = [f \in Frames |-> 0]
  /\ publisher = "idle"
  /\ cancelled = FALSE /\ done = FALSE
  /\ hub = "select" /\ clients = {} /\ todo = {} /\ target = Nobody
  /\ loaded = Nothing
  /\ serve = [c \in Clients |-> "new"]
  /\ writer = [c \in Clients |-> "none"]
  /\ stopped = [c \in Clients |-> FALSE]
  /\ outgoing = [c \in Clients |-> Nothing]
  /\ errors = [c \in Clients |-> 0]
  /\ holding = [c \in Clients |-> Nothing]
  /\ seen = [c \in Clients |-> Nothing]
  /\ rejected = [c \in Clients |-> 0]
  /\ told = [c \in Clients |-> 0]

-----------------------------------------------------------------------------
(* The publisher: runInteractive's publish stores the graph definition of  *)
(* a frame, if it changed, and then calls BroadcastState.                  *)

PublishTopology ==
  /\ publisher = "idle" /\ latest < MaxFrames
  /\ publisher' = "check"
  /\ topology' \in {topology, latest + 1}
  /\ UNCHANGED <<latest, needs, wake, cancelled, hubVars, clientVars, frameVars,
                 errorVars>>

(* errHubClosed ends the publisher's goroutine.                            *)
BroadcastCheck ==
  /\ publisher = "check"
  /\ publisher' = IF done THEN "failed" ELSE "store"
  /\ UNCHANGED <<latest, topology, needs, wake, cancelled, hubVars, clientVars,
                 frameVars, errorVars>>

StoreAfterWaking ==
  /\ publisher = "store"
  /\ publisher' = "idle"
  /\ latest' = latest + 1
  /\ needs' = [needs EXCEPT ![latest + 1] = topology]
  /\ UNCHANGED <<topology, wake, cancelled, hubVars, clientVars, frameVars,
                 errorVars>>

StoreLatest ==
  /\ publisher = "store"
  /\ publisher' = "wake"
  /\ latest' = latest + 1
  /\ needs' = [needs EXCEPT ![latest + 1] = topology]
  /\ UNCHANGED <<topology, wake, cancelled, hubVars, clientVars, frameVars,
                 errorVars>>

(* The send on wake is skipped when a wake is already pending.             *)
WakeHub ==
  /\ publisher = "wake"
  /\ publisher' = "idle"
  /\ wake' = 1
  /\ UNCHANGED <<latest, topology, needs, cancelled, hubVars, clientVars,
                 frameVars, errorVars>>

-----------------------------------------------------------------------------
(* Hub.Run: the four cases of its select.  register and unregister are     *)
(* unbuffered, so each is one step of the hub and of the handler.          *)

HubRegisters(c) ==
  /\ hub = "select" /\ serve[c] = "upgraded"
  /\ hub' = "load" /\ clients' = clients \cup {c} /\ todo' = {c}
  /\ serve' = [serve EXCEPT ![c] = "reading"]
  /\ writer' = [writer EXCEPT ![c] = "select"]
  /\ UNCHANGED <<publisherVars, wake, cancelled, done, target, loaded, stopped,
                 frameVars, errorVars>>

HubUnregisters(c) ==
  /\ hub = "select" /\ serve[c] = "leaving"
  /\ clients' = clients \ {c}
  /\ stopped' = [stopped EXCEPT ![c] = TRUE]
  /\ serve' = [serve EXCEPT ![c] = "gone"]
  /\ UNCHANGED <<publisherVars, wake, cancelled, done, hub, todo, target,
                 loaded, writer, frameVars, errorVars>>

HubWakes ==
  /\ hub = "select" /\ wake = 1
  /\ hub' = "load" /\ wake' = 0 /\ todo' = clients
  /\ UNCHANGED <<publisherVars, cancelled, done, clients, target, loaded,
                 clientVars, frameVars, errorVars>>

(* The deferred function closes done, then stops every connection.         *)
HubCancelled ==
  /\ hub = "select" /\ cancelled
  /\ hub' = "closing" /\ done' = TRUE /\ todo' = clients
  /\ UNCHANGED <<publisherVars, wake, cancelled, clients, target, loaded,
                 clientVars, frameVars, errorVars>>

LoadLatest ==
  /\ hub = "load"
  /\ loaded' = latest
  /\ \/ latest # Nothing /\ hub' = "queue" /\ UNCHANGED todo
     \/ latest = Nothing /\ hub' = "select" /\ todo' = {}
  /\ UNCHANGED <<publisherVars, wake, cancelled, done, clients, target,
                 clientVars, frameVars, errorVars>>

(* queueLatest: skip a stopped connection; else try to send, drain one     *)
(* frame if the channel was full, and try to send again.  The writer may   *)
(* empty the channel between any two of these steps.                       *)
QueueLatest(c) ==
  /\ hub = "queue" /\ c \in todo
  /\ todo' = todo \ {c} /\ target' = c
  /\ hub' = IF stopped[c] THEN "queue" ELSE "send"
  /\ UNCHANGED <<publisherVars, wake, cancelled, done, clients, loaded,
                 clientVars, frameVars, errorVars>>

QueueDone ==
  /\ hub = "queue" /\ todo = {}
  /\ hub' = "select"
  /\ UNCHANGED <<publisherVars, wake, cancelled, done, clients, todo, target,
                 loaded, clientVars, frameVars, errorVars>>

SendOrDrop ==
  /\ hub = "send"
  /\ hub' = "queue"
  /\ outgoing' = IF outgoing[target] = Nothing
                 THEN [outgoing EXCEPT ![target] = loaded] ELSE outgoing
  /\ UNCHANGED <<publisherVars, wake, cancelled, done, clients, todo, target,
                 loaded, clientVars, holding, seen, errorVars>>

SendFirst ==
  /\ hub = "send"
  /\ \/ /\ outgoing[target] = Nothing
        /\ outgoing' = [outgoing EXCEPT ![target] = loaded]
        /\ hub' = "queue"
     \/ /\ outgoing[target] # Nothing
        /\ hub' = "drain"
        /\ UNCHANGED outgoing
  /\ UNCHANGED <<publisherVars, wake, cancelled, done, clients, todo, target,
                 loaded, clientVars, holding, seen, errorVars>>

Drain ==
  /\ hub = "drain"
  /\ hub' = "resend"
  /\ outgoing' = [outgoing EXCEPT ![target] = Nothing]
  /\ UNCHANGED <<publisherVars, wake, cancelled, done, clients, todo, target,
                 loaded, clientVars, holding, seen, errorVars>>

Resend ==
  /\ hub = "resend"
  /\ hub' = "queue"
  /\ outgoing' = IF outgoing[target] = Nothing
                 THEN [outgoing EXCEPT ![target] = loaded] ELSE outgoing
  /\ UNCHANGED <<publisherVars, wake, cancelled, done, clients, todo, target,
                 loaded, clientVars, holding, seen, errorVars>>

HubStops(c) ==
  /\ hub = "closing" /\ c \in todo
  /\ todo' = todo \ {c}
  /\ stopped' = [stopped EXCEPT ![c] = TRUE]
  /\ UNCHANGED <<publisherVars, wake, cancelled, done, hub, clients, target,
                 loaded, serve, writer, frameVars, errorVars>>

HubReturns ==
  /\ hub = "closing" /\ todo = {}
  /\ hub' = "returned"
  /\ UNCHANGED <<publisherVars, wake, cancelled, done, clients, todo, target,
                 loaded, clientVars, frameVars, errorVars>>

-----------------------------------------------------------------------------
(* ServeWs and readCommands, in the HTTP handler's goroutine.              *)

(* c.stop() by the handler, which then is at program point p.              *)
HandlerStops(c, p) ==
  /\ stopped' = [stopped EXCEPT ![c] = TRUE]
  /\ serve' = [serve EXCEPT ![c] = p]
  /\ UNCHANGED <<publisherVars, wake, cancelled, hubVars, writer, frameVars>>

HandlerGoes(c, p) ==
  /\ serve' = [serve EXCEPT ![c] = p]
  /\ UNCHANGED <<publisherVars, wake, cancelled, hubVars, writer, stopped,
                 frameVars>>

Connect(c) ==
  /\ serve[c] = "new" /\ ~done
  /\ HandlerGoes(c, "upgraded")
  /\ UNCHANGED errorVars

(* The request is abandoned before the hub accepts the registration.       *)
AbandonRegister(c) ==
  /\ serve[c] = "upgraded"
  /\ HandlerStops(c, "gone")
  /\ UNCHANGED errorVars

RegisterAfterDone(c) ==
  /\ serve[c] = "upgraded" /\ done
  /\ HandlerStops(c, "gone")
  /\ UNCHANGED errorVars

(* The browser sends something the run control refuses.                    *)
RejectCommand(c) ==
  /\ serve[c] = "reading" /\ rejected[c] < MaxRejections
  /\ rejected' = [rejected EXCEPT ![c] = @ + 1]
  /\ HandlerGoes(c, "report")
  /\ UNCHANGED <<errors, told>>

(* A full error channel disconnects the browser.                           *)
ReportRejection(c) ==
  /\ serve[c] = "report"
  /\ \/ /\ errors[c] < ErrorCapacity
        /\ errors' = [errors EXCEPT ![c] = @ + 1]
        /\ HandlerGoes(c, "reading")
     \/ /\ errors[c] >= ErrorCapacity
        /\ HandlerStops(c, "leaving")
        /\ UNCHANGED errors
  /\ UNCHANGED <<rejected, told>>

(* The browser goes away, misses its pongs or sends what is not a command. *)
ReadFails(c) ==
  /\ serve[c] = "reading"
  /\ HandlerStops(c, "leaving")
  /\ UNCHANGED errorVars

(* A read on a connection that was stopped fails.                          *)
ReadClosed(c) ==
  /\ serve[c] = "reading" /\ stopped[c]
  /\ HandlerStops(c, "leaving")
  /\ UNCHANGED errorVars

LeaveOnlyThroughHub(c) ==
  /\ serve[c] = "leaving" /\ done /\ hub = "select"
  /\ HandlerGoes(c, "gone")
  /\ UNCHANGED errorVars

LeaveAfterDone(c) ==
  /\ serve[c] = "leaving" /\ done
  /\ HandlerGoes(c, "gone")
  /\ UNCHANGED errorVars

-----------------------------------------------------------------------------
(* writeFrames.  Every return runs the deferred c.stop().                  *)

WriterReturns(c) ==
  /\ writer' = [writer EXCEPT ![c] = "gone"]
  /\ stopped' = [stopped EXCEPT ![c] = TRUE]
  /\ UNCHANGED <<publisherVars, wake, cancelled, hubVars, serve, outgoing,
                 seen, errorVars>>

WriterGoes(c, p) ==
  /\ writer' = [writer EXCEPT ![c] = p]
  /\ UNCHANGED <<publisherVars, wake, cancelled, hubVars, serve, stopped,
                 rejected>>

WriterDone(c) ==
  /\ writer[c] = "select" /\ (done \/ stopped[c])
  /\ WriterReturns(c)
  /\ UNCHANGED holding

PingFails(c) ==
  /\ writer[c] = "select"
  /\ WriterReturns(c)
  /\ UNCHANGED holding

TakeError(c) ==
  /\ writer[c] = "select" /\ errors[c] > 0
  /\ WriterGoes(c, "writingError")
  /\ errors' = [errors EXCEPT ![c] = @ - 1]
  /\ UNCHANGED <<told, frameVars>>

TakeFrame(c) ==
  /\ writer[c] = "select" /\ outgoing[c] # Nothing
  /\ WriterGoes(c, "writingFrame")
  /\ holding' = [holding EXCEPT ![c] = outgoing[c]]
  /\ outgoing' = [outgoing EXCEPT ![c] = Nothing]
  /\ UNCHANGED <<seen, errors, told>>

WriteErrorFrame(c) ==
  /\ writer[c] = "writingError"
  /\ WriterGoes(c, "select")
  /\ told' = [told EXCEPT ![c] = @ + 1]
  /\ UNCHANGED <<errors, frameVars>>

WriteSnapshot(c) ==
  /\ writer[c] = "writingFrame"
  /\ WriterGoes(c, "select")
  /\ seen' = [seen EXCEPT ![c] = holding[c]]
  /\ holding' = [holding EXCEPT ![c] = Nothing]
  /\ UNCHANGED <<outgoing, errors, told>>

WriteFails(c) ==
  /\ writer[c] \in {"writingError", "writingFrame"}
  /\ WriterReturns(c)
  /\ holding' = [holding EXCEPT ![c] = Nothing]

-----------------------------------------------------------------------------
(* The service context ends.                                               *)
Cancel ==
  /\ ~cancelled
  /\ cancelled' = TRUE
  /\ UNCHANGED <<publisherVars, wake, hubVars, clientVars, frameVars, errorVars>>

Publisher == BroadcastCheck \/ StoreLatest \/ WakeHub

HubSteps ==
  \/ HubWakes \/ HubCancelled \/ LoadLatest \/ QueueDone
  \/ SendFirst \/ Drain \/ Resend \/ HubReturns
  \/ \E c \in Clients : HubRegisters(c) \/ HubUnregisters(c)
                        \/ QueueLatest(c) \/ HubStops(c)

Handler(c) == RegisterAfterDone(c) \/ ReportRejection(c) \/ ReadClosed(c)
              \/ LeaveAfterDone(c)

Writer(c) == WriterDone(c) \/ TakeError(c) \/ TakeFrame(c)
             \/ WriteErrorFrame(c) \/ WriteSnapshot(c) \/ WriteFails(c)

Environment(c) == Connect(c) \/ AbandonRegister(c) \/ RejectCommand(c)
                  \/ ReadFails(c) \/ PingFails(c)

Next ==
  \/ Publisher \/ PublishTopology \/ HubSteps \/ Cancel
  \/ \E c \in Clients : Handler(c) \/ Writer(c) \/ Environment(c)

Spec == Init /\ [][Next]_vars

(* Every goroutine that can run is scheduled: a write ends within its      *)
(* deadline, a read on a closed connection returns.  Browsers, the request *)
(* context, the ping timer and the end of the service are not obliged to   *)
(* do anything, and nobody is obliged to publish.                          *)
Fairness ==
  /\ WF_vars(Publisher) /\ WF_vars(HubSteps)
  /\ \A c \in Clients : WF_vars(Handler(c)) /\ WF_vars(Writer(c))

FairSpec == Spec /\ Fairness

-----------------------------------------------------------------------------
HubPoints    == {"select", "load", "queue", "send", "drain", "resend",
                 "closing", "returned"}
ServePoints  == {"new", "upgraded", "reading", "report", "leaving", "gone"}
WriterPoints == {"none", "select", "writingError", "writingFrame", "gone"}

TypeOK ==
  /\ latest \in 0 .. MaxFrames /\ wake \in {0, 1}
  /\ topology \in 0 .. MaxFrames
  /\ needs \in [Frames -> 0 .. MaxFrames]
  /\ publisher \in {"idle", "check", "store", "wake", "failed"}
  /\ cancelled \in BOOLEAN /\ done \in BOOLEAN
  /\ hub \in HubPoints
  /\ clients \subseteq Clients /\ todo \subseteq Clients
  /\ target \in Clients \cup {Nobody} /\ loaded \in 0 .. MaxFrames
  /\ serve \in [Clients -> ServePoints]
  /\ writer \in [Clients -> WriterPoints]
  /\ stopped \in [Clients -> BOOLEAN]
  /\ outgoing \in [Clients -> 0 .. MaxFrames]
  /\ errors \in [Clients -> 0 .. ErrorCapacity]
  /\ holding \in [Clients -> 0 .. MaxFrames]
  /\ seen \in [Clients -> 0 .. MaxFrames]
  /\ rejected \in [Clients -> 0 .. MaxRejections]
  /\ told \in [Clients -> 0 .. MaxRejections]

Queueing == {"send", "drain", "resend"}

(* The hub is about to give connection c the newest frame.                 *)
Carried(c) ==
  \/ hub = "load" /\ c \in todo
  \/ hub = "queue" /\ c \in todo /\ loaded = latest
  \/ hub \in Queueing /\ (c \in todo \/ c = target) /\ loaded = latest

(* No wake-up is lost: until the hub closes, every registered connection   *)
(* that is not stopped has the newest frame, or the frame is in its queue, *)
(* or the hub or the publisher is still going to bring it (hub.go:62-74,   *)
(* 116-130 and 145-149, run concurrently with the writer).                 *)
NewestIsOnItsWay ==
  ~done => \A c \in clients :
    \/ stopped[c]
    \/ latest \in {Nothing, seen[c], holding[c], outgoing[c]}
    \/ wake = 1 \/ publisher = "wake"
    \/ Carried(c)

(* "Disconnect rather than silently lose a command rejection"              *)
(* (hub.go:186): a live connection has been told of every rejection, or    *)
(* the report is in its queue or in the hands of its reader or writer.     *)
RejectionIsNotLost ==
  \A c \in Clients :
    ~stopped[c] =>
      rejected[c] = told[c] + errors[c]
                    + (IF serve[c] = "report" THEN 1 ELSE 0)
                    + (IF writer[c] = "writingError" THEN 1 ELSE 0)

(* "The simulation owner publishes a definition before broadcasting its    *)
(* first frame" (topology.go:16): a browser that has a frame can fetch the *)
(* graph the frame was built for, or a newer one.                          *)
SeenGraphIsPublished ==
  \A c \in Clients : seen[c] # Nothing => needs[seen[c]] <= topology

(* Superseded frames are skipped, and no browser is shown an older frame   *)
(* after a newer one.                                                      *)
FramesNeverGoBack == [][\A c \in Clients : seen[c] <= seen'[c]]_vars

(* A browser that stays connected is shown every frame or a newer one.     *)
NewestArrives ==
  \A c \in Clients, f \in Frames :
    (c \in clients /\ latest = f) ~> (seen[c] >= f \/ stopped[c] \/ done)

(* A connection that its reader, its writer or the hub stopped leaves the  *)
(* hub's set, unless the hub itself ends; and when the hub has closed, no  *)
(* reader or writer goroutine stays behind (hub.go:105-123, 153-160,       *)
(* 200-203, 237-249).                                                      *)
EveryoneLeaves ==
  \A c \in Clients :
    /\ (c \in clients /\ stopped[c]) ~> (c \notin clients \/ done)
    /\ done ~> (serve[c] \in {"new", "gone"} /\ writer[c] \in {"none", "gone"})

-----------------------------------------------------------------------------
(***************************************************************************)
(* The inductive invariant.                                                *)
(***************************************************************************)

(* Along the way from the publisher to the browser frames are in order:    *)
(* nothing behind is newer than what is in front of it.                    *)
FramesInOrder ==
  /\ loaded <= latest
  /\ \A c \in Clients :
       /\ seen[c] <= loaded /\ holding[c] <= loaded /\ outgoing[c] <= loaded
       /\ outgoing[c] # Nothing =>
            seen[c] <= outgoing[c] /\ holding[c] <= outgoing[c]
       /\ writer[c] = "writingFrame" =>
            holding[c] # Nothing /\ seen[c] <= holding[c]

(* Nobody but the hub sends on outgoing, so the second attempt of          *)
(* queueLatest finds room: the default branch of hub.go:73 is dead.        *)
ResendInv ==
  /\ hub \in Queueing => target \in Clients
  /\ hub = "resend" => outgoing[target] = Nothing

(* Definitions are published in order, each before its frame.              *)
GraphInv ==
  /\ \A f \in 1 .. latest : needs[f] <= topology
  /\ topology <= latest + 1
  /\ publisher = "idle" => topology <= latest
  /\ publisher = "store" => latest < MaxFrames
  /\ publisher = "check" => latest < MaxFrames
  /\ publisher = "wake" => topology <= latest

(* A stopped connection may lose reports of rejections, but none is made   *)
(* up; the writer starts with the registration.                            *)
ReportInv ==
  \A c \in Clients :
    /\ told[c] + errors[c]
       + (IF serve[c] = "report" THEN 1 ELSE 0)
       + (IF writer[c] = "writingError" THEN 1 ELSE 0) <= rejected[c]
    /\ serve[c] \in {"new", "upgraded"} => writer[c] = "none"

IInv ==
  /\ TypeOK
  /\ FramesInOrder /\ ResendInv /\ NewestIsOnItsWay
  /\ GraphInv
  /\ ReportInv /\ RejectionIsNotLost
=============================================================================
