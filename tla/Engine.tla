------------------------------- MODULE Engine -------------------------------
(***************************************************************************)
(* The discrete-event engine (engine/engine.go) and the batches in which   *)
(* the owner runs it (World.AdvanceBatch, World.Advance and World.Stop in  *)
(* internal/simulation/world.go).                                          *)
(*                                                                         *)
(* A callback is the interval between popping its event and returning: in  *)
(* it the model code schedules and cancels events or stops the world.      *)
(* What a callback computes is left out.  The heap is the set of pending   *)
(* events with the order Less gives them; byID is that set seen by id.     *)
(***************************************************************************)
EXTENDS Integers

CONSTANTS
  MaxDuration,  \* largest time.Duration (2^63 - 1)
  EndTime,      \* virtual end of the run
  EventLimit,   \* configured MaxEvents
  BatchSize,    \* events per batch (4096)
  EventIDBound  \* bound of the model: ids that may be handed out

ASSUME EngineAssumption ==
  /\ MaxDuration \in Nat
  /\ EndTime \in 0 .. MaxDuration
  /\ EventLimit \in Nat
  /\ BatchSize \in Nat \ {0}
  /\ EventIDBound \in Nat

VARIABLES
  now, nextID, pending, executed, maxEvents,
  stopped,            \* World.stopped
  panicked,           \* ScheduleAt was asked for the past
  pc,                 \* "idle", "loop" or "callback": where RunUntil is
  until, batchStart,  \* the running batch's target and executed at its start
  result,             \* what the last AdvanceBatch returned
  last,               \* history: time and id of the last event started
  ran, dropped        \* history: ids started, ids cancelled or cleared

engineVars  == <<now, nextID, pending, executed, maxEvents, stopped, panicked>>
runVars     == <<pc, until, batchStart, result>>
historyVars == <<last, ran, dropped>>
vars        == <<engineVars, runVars, historyVars>>

Ids == {e.id : e \in pending}

(* eventQueue.Less.                                                        *)
LessByTime(e, f) == e.at < f.at

Less(e, f) == e.at < f.at \/ (e.at = f.at /\ e.id < f.id)

IsHead(e) == e \in pending /\ \A f \in pending \ {e} : ~Less(f, e)

(* Two's complement addition of durations.                                 *)
Wrap(x) == IF x > MaxDuration THEN x - 2 * (MaxDuration + 1) ELSE x

Init ==
  /\ now = 0 /\ nextID = 0 /\ pending = {} /\ executed = 0
  /\ maxEvents = EventLimit
  /\ stopped = FALSE /\ panicked = FALSE
  /\ pc = "idle" /\ until = 0 /\ batchStart = 0 /\ result = "none"
  /\ last = [at |-> 0, id |-> 0] /\ ran = {} /\ dropped = {}

-----------------------------------------------------------------------------
(* Model code runs before the first batch, between batches (commands) and  *)
(* in callbacks.                                                           *)
ModelCode == pc \in {"idle", "callback"}

(* ScheduleAt(at): 0 is returned, and nothing stored, beyond the end.      *)
ScheduleAt(at) ==
  \/ /\ at < 0 \/ at < now
     /\ panicked' = TRUE
     /\ UNCHANGED <<now, nextID, pending, executed, maxEvents, stopped>>
  \/ /\ at >= now /\ at > EndTime
     /\ UNCHANGED engineVars
  \/ /\ at >= now /\ at <= EndTime
     /\ nextID < EventIDBound
     /\ nextID' = nextID + 1
     /\ pending' = pending \cup {[id |-> nextID + 1, at |-> at]}
     /\ UNCHANGED <<now, executed, maxEvents, stopped, panicked>>

ScheduleAfterUnguarded(delay) ==
  /\ ModelCode
  /\ ScheduleAt(Wrap(now + delay))
  /\ UNCHANGED <<runVars, historyVars>>

(* ScheduleAfter compares with the time that remains, so that the sum in   *)
(* the other branch cannot overflow.                                       *)
ScheduleAfter(delay) ==
  /\ ModelCode
  /\ \/ delay > EndTime - now /\ UNCHANGED engineVars
     \/ delay <= EndTime - now /\ ScheduleAt(Wrap(now + delay))
  /\ UNCHANGED <<runVars, historyVars>>

(* Callers with an absolute time (client arrivals) never name the past.    *)
Schedule(at) ==
  /\ ModelCode
  /\ at >= now
  /\ ScheduleAt(at)
  /\ UNCHANGED <<runVars, historyVars>>

(* Cancel of a pending event; of any other id it changes nothing.          *)
Cancel(e) ==
  /\ ModelCode
  /\ pending' = pending \ {e}
  /\ dropped' = dropped \cup {e.id}
  /\ UNCHANGED <<now, nextID, executed, maxEvents, stopped, panicked, runVars,
                 last, ran>>

(* World.Stop clears the engine, between batches or from a callback.       *)
Stop ==
  /\ ModelCode /\ ~stopped
  /\ stopped' = TRUE
  /\ pending' = {}
  /\ dropped' = dropped \cup Ids
  /\ UNCHANGED <<now, nextID, executed, maxEvents, panicked, runVars, last,
                 ran>>

-----------------------------------------------------------------------------
(* AdvanceBatch.                                                           *)

AdvanceStopped ==
  /\ pc = "idle" /\ stopped
  /\ result' = "reached"
  /\ UNCHANGED <<engineVars, pc, until, batchStart, historyVars>>

BatchLimitWithoutRoom ==
  IF executed < EventLimit /\ EventLimit - executed > BatchSize
  THEN executed ELSE maxEvents

(* The batch lowers the engine's limit when more than a batch remains.     *)
BatchLimit ==
  IF executed < EventLimit /\ EventLimit - executed > BatchSize
  THEN executed + BatchSize ELSE maxEvents

AdvanceBatch(u) ==
  /\ pc = "idle" /\ ~stopped
  /\ u >= now
  /\ maxEvents' = BatchLimit
  /\ pc' = "loop" /\ until' = u /\ batchStart' = executed
  /\ result' = "none"
  /\ UNCHANGED <<now, nextID, pending, executed, stopped, panicked,
                 historyVars>>

Due == {e \in pending : e.at <= until}

RunReturn(r) ==
  /\ pc' = "idle"
  /\ result' = r
  /\ maxEvents' = EventLimit
  /\ UNCHANGED <<nextID, pending, executed, stopped, panicked, until,
                 batchStart, historyVars>>

(* The loop ends when nothing is due; the clock moves to the target.       *)
RunReached ==
  /\ pc = "loop" /\ Due = {}
  /\ now' = until
  /\ RunReturn("reached")

RunLimitAlwaysFails ==
  /\ pc = "loop" /\ Due # {}
  /\ executed >= maxEvents
  /\ UNCHANGED now
  /\ RunReturn("limit")

(* ErrEventLimit; only the configured limit is an error to the caller.     *)
RunLimit ==
  /\ pc = "loop" /\ Due # {}
  /\ executed >= maxEvents
  /\ UNCHANGED now
  /\ RunReturn(IF executed < EventLimit THEN "more" ELSE "limit")

(* Pop the head, advance the clock, enter the callback.                    *)
RunEvent(e) ==
  /\ pc = "loop" /\ IsHead(e) /\ e.at <= until
  /\ executed < maxEvents
  /\ pending' = pending \ {e}
  /\ now' = e.at
  /\ executed' = executed + 1
  /\ pc' = "callback"
  /\ last' = [at |-> e.at, id |-> e.id]
  /\ ran' = ran \cup {e.id}
  /\ UNCHANGED <<nextID, maxEvents, stopped, panicked, until, batchStart,
                 result, dropped>>

CallbackReturns ==
  /\ pc = "callback"
  /\ pc' = "loop"
  /\ UNCHANGED <<engineVars, until, batchStart, result, historyVars>>

-----------------------------------------------------------------------------
Run == RunReached \/ RunLimit \/ CallbackReturns \/ \E e \in pending : RunEvent(e)

Next ==
  \/ \E delay \in 0 .. MaxDuration : ScheduleAfter(delay)
  \/ \E at \in 0 .. MaxDuration : Schedule(at)
  \/ \E e \in pending : Cancel(e)
  \/ Stop
  \/ AdvanceStopped
  \/ \E u \in 0 .. EndTime : AdvanceBatch(u)
  \/ Run

Spec == Init /\ [][Next]_vars

(* World.Advance repeats batches with the same target until one reaches it *)
(* or fails: its caller keeps the goroutine running, and every callback of *)
(* the model returns.                                                      *)
Repeat == result = "more" /\ AdvanceBatch(until)

FairSpec == Spec /\ WF_vars(Run) /\ WF_vars(Repeat)

-----------------------------------------------------------------------------
Event == [id : 1 .. EventIDBound, at : 0 .. EndTime]

TypeOK ==
  /\ now \in 0 .. EndTime /\ nextID \in 0 .. EventIDBound
  /\ pending \subseteq Event
  /\ executed \in Nat /\ maxEvents \in Nat
  /\ stopped \in BOOLEAN /\ panicked \in BOOLEAN
  /\ pc \in {"idle", "loop", "callback"}
  /\ until \in 0 .. EndTime /\ batchStart \in Nat
  /\ result \in {"none", "reached", "more", "limit"}
  /\ last \in [at : 0 .. EndTime, id : 0 .. EventIDBound]
  /\ ran \subseteq 1 .. EventIDBound /\ dropped \subseteq 1 .. EventIDBound

(* The order engine.go:20-21 documents, stated apart from the heap's Less. *)
Before(a, b) == a.at < b.at \/ (a.at = b.at /\ a.id < b.id)

(* No delay a caller may pass makes ScheduleAfter ask for the past, at any *)
(* clock value: the guard of engine.go:112 makes the sum safe.             *)
NeverSchedulesThePast == ~panicked

(* Events start in strictly increasing (time, id) order over the whole     *)
(* run: across batches, limits, cancellations and events scheduled at the  *)
(* current time by another callback (engine.go:20-21).                     *)
StartsInOrder == [][last' # last => Before(last, last')]_vars

(* What makes the order hold: nothing pending lies before the clock or     *)
(* before the last event started, and the clock has not passed the target. *)
PendingIsAhead ==
  /\ last.at <= now
  /\ last.id <= nextID
  /\ \A e \in pending :
       /\ now <= e.at /\ e.id <= nextID
       /\ Before(last, e)
       /\ \A f \in pending : f.id = e.id => f = e

(* Every id handed out is in exactly one place: still pending, started     *)
(* once, or dropped by Cancel or Stop; a dropped event never starts.       *)
EveryEventHasOneFate ==
  /\ Ids \cup ran \cup dropped = 1 .. nextID
  /\ Ids \cap ran = {} /\ Ids \cap dropped = {} /\ ran \cap dropped = {}

(* What AdvanceBatch tells its caller (world.go:123-124) is true when it   *)
(* returns: "more" only after a full batch with a due event left and below *)
(* the configured limit, so repeating makes progress; "reached" only with  *)
(* nothing due and the clock on target; "limit" only at the true limit.    *)
BatchResultIsTrue ==
  [][pc = "loop" /\ pc' = "idle" =>
       /\ result' = "more" => /\ executed = batchStart + BatchSize
                              /\ executed < EventLimit
                              /\ \E e \in pending' : e.at <= until
       /\ result' = "reached" => /\ now' = until
                                 /\ \A e \in pending' : e.at > until
       /\ result' = "limit" => executed >= EventLimit]_vars

(* The configured limit survives every batch that lowered it.              *)
LimitIsRestored == pc = "idle" => maxEvents = EventLimit

(* A running batch never executes beyond the limit it set, which lies      *)
(* below the configured one only by being one batch past its start; the    *)
(* clock stays at or before its target.                                    *)
BatchIsBounded ==
  /\ executed <= maxEvents /\ maxEvents <= EventLimit
  /\ maxEvents < EventLimit => maxEvents = batchStart + BatchSize
  /\ pc # "idle" => now <= until

(* Batches with one target end: each either reaches it or meets the limit. *)
AdvanceEnds == (pc = "loop") ~> (result \in {"reached", "limit"} \/ stopped)

(* The inductive invariant: the order of starts needs that everything      *)
(* pending is ahead of the clock and of the last start, which needs the    *)
(* clock to stay at or before a running batch's target.                    *)
IInv ==
  /\ TypeOK
  /\ NeverSchedulesThePast
  /\ PendingIsAhead
  /\ EveryEventHasOneFate
  /\ LimitIsRestored
  /\ BatchIsBounded
=============================================================================
