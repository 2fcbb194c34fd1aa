---------------------------- MODULE EngineProofs ----------------------------
(***************************************************************************)
(* Proofs about Engine, for every end time, limit and batch size: events   *)
(* start in order, each has one fate, and AdvanceBatch tells the truth.    *)
(* Proofs about World and Settings, for every set of scenarios: a world is *)
(* an engine, its traffic rates are true, accepted scenarios become sound  *)
(* settings, and exactly the clients whose time has come are created, each *)
(* with an address of its own.                                             *)
(***************************************************************************)
EXTENDS World, FiniteSetTheorems, SequenceTheorems, WellFoundedInduction, TLAPS

(* ScheduleAt, asked for a time that is not in the past, keeps the         *)
(* invariant: the new event has the largest id so far and is not early.    *)
LEMMA ScheduleAtKeeps ==
  ASSUME IInv, NEW at \in Int, at >= now, ScheduleAt(at),
         UNCHANGED <<runVars, historyVars>>
  PROVE  IInv'
<1> USE EngineAssumption DEF vars, runVars, historyVars, engineVars
<1>1. CASE UNCHANGED engineVars
  BY <1>1 DEF IInv, TypeOK, NeverSchedulesThePast, PendingIsAhead, Before,
     EveryEventHasOneFate, Ids, LimitIsRestored, BatchIsBounded
<1>2. CASE /\ at <= EndTime /\ nextID < EventIDBound
           /\ nextID' = nextID + 1
           /\ pending' = pending \cup {[id |-> nextID + 1, at |-> at]}
           /\ UNCHANGED <<now, executed, maxEvents, stopped, panicked>>
  <2> DEFINE new == [id |-> nextID + 1, at |-> at]
  <2>1. /\ nextID \in Nat /\ nextID' \in 0 .. EventIDBound
        /\ new \in Event
    BY <1>2 DEF IInv, TypeOK, Event
  <2>2. TypeOK'
    BY <1>2, <2>1 DEF IInv, TypeOK
  <2>3. PendingIsAhead'
    BY <1>2, <2>1 DEF IInv, TypeOK, PendingIsAhead, Before, Event
  <2>4. EveryEventHasOneFate'
    <3>1. Ids' = Ids \cup {nextID + 1}
      <4>1. new.id = nextID + 1 /\ pending' = pending \cup {new}
        BY <1>2
      <4>2. Ids' = {e.id : e \in pending \cup {new}}
        BY <4>1 DEF Ids
      <4> HIDE DEF new
      <4> QED BY <4>1, <4>2 DEF Ids
    <3>2. nextID + 1 \notin 1 .. nextID /\ 1 .. nextID' = (1 .. nextID) \cup {nextID + 1}
      BY <1>2, <2>1
    <3> QED BY <1>2, <3>1, <3>2 DEF IInv, EveryEventHasOneFate
  <2>5. NeverSchedulesThePast' /\ LimitIsRestored' /\ BatchIsBounded'
    BY <1>2 DEF IInv, NeverSchedulesThePast, LimitIsRestored, BatchIsBounded
  <2> QED BY <2>2, <2>3, <2>4, <2>5 DEF IInv
<1>3. now \in Int /\ 0 <= now
  BY DEF IInv, TypeOK
<1> QED BY <1>1, <1>2, <1>3 DEF ScheduleAt

(* Removing one pending event from the queue, to start it or to drop it.   *)
LEMMA RemovedEvent ==
  ASSUME IInv, NEW e \in pending, pending' = pending \ {e}
  PROVE  /\ Ids' = Ids \ {e.id}
         /\ e.id \in Ids /\ e.id \in 1 .. EventIDBound
         /\ e.at \in 0 .. EndTime
BY DEF IInv, TypeOK, PendingIsAhead, Ids, Event

(* Cancel and Stop only ever drop pending events.                          *)
LEMMA DropKeeps ==
  ASSUME IInv, (\E e \in pending : Cancel(e)) \/ Stop
  PROVE  IInv'
<1> USE EngineAssumption DEF runVars
<1>1. CASE \E e \in pending : Cancel(e)
  <2>1. PICK e \in pending : Cancel(e)
    BY <1>1
  <2>2. /\ Ids' = Ids \ {e.id} /\ e.id \in Ids /\ e.id \in 1 .. EventIDBound
    BY <2>1, RemovedEvent DEF Cancel
  <2>3. TypeOK' /\ PendingIsAhead'
    BY <2>1, <2>2 DEF Cancel, IInv, TypeOK, PendingIsAhead, Before
  <2>4. EveryEventHasOneFate'
    BY <2>1, <2>2 DEF Cancel, IInv, EveryEventHasOneFate
  <2>5. NeverSchedulesThePast' /\ LimitIsRestored' /\ BatchIsBounded'
    BY <2>1 DEF Cancel, IInv, NeverSchedulesThePast, LimitIsRestored, BatchIsBounded
  <2> QED BY <2>3, <2>4, <2>5 DEF IInv
<1>2. CASE Stop
  <2>1. Ids \subseteq 1 .. EventIDBound /\ Ids' = {}
    BY <1>2 DEF Stop, Ids, IInv, TypeOK, Event
  <2>2. TypeOK' /\ PendingIsAhead'
    BY <1>2, <2>1 DEF Stop, IInv, TypeOK, PendingIsAhead
  <2>3. EveryEventHasOneFate'
    BY <1>2, <2>1 DEF Stop, IInv, EveryEventHasOneFate
  <2>4. NeverSchedulesThePast' /\ LimitIsRestored' /\ BatchIsBounded'
    BY <1>2 DEF Stop, IInv, NeverSchedulesThePast, LimitIsRestored, BatchIsBounded
  <2> QED BY <2>2, <2>3, <2>4 DEF IInv
<1> QED BY <1>1, <1>2

(* Starting the head: it is the least pending event, so what remains is    *)
(* ahead of it.                                                            *)
LEMMA RunEventKeeps ==
  ASSUME IInv, NEW e \in pending, RunEvent(e)
  PROVE  IInv' /\ Before(last, last')
<1> USE EngineAssumption
<1>1. /\ Ids' = Ids \ {e.id} /\ e.id \in Ids /\ e.id \in 1 .. EventIDBound
      /\ e.at \in 0 .. EndTime
  BY RemovedEvent DEF RunEvent
<1>2. \A f \in pending \ {e} : Before(e, f)
  BY DEF RunEvent, IsHead, Less, Before, IInv, TypeOK, Event, PendingIsAhead
<1>3. TypeOK'
  <2>1. last' \in [at : 0 .. EndTime, id : 0 .. EventIDBound]
    BY <1>1 DEF RunEvent
  <2>2. pending' \subseteq Event /\ ran' \subseteq 1 .. EventIDBound
    BY <1>1 DEF RunEvent, IInv, TypeOK
  <2>3. now' \in 0 .. EndTime /\ executed' \in Nat /\ pc' = "callback"
    BY <1>1 DEF RunEvent, IInv, TypeOK
  <2> QED BY <2>1, <2>2, <2>3 DEF RunEvent, IInv, TypeOK
<1>4. PendingIsAhead'
  BY <1>1, <1>2 DEF RunEvent, IInv, TypeOK, Event, PendingIsAhead, Before
<1>5. EveryEventHasOneFate'
  BY <1>1 DEF RunEvent, IInv, EveryEventHasOneFate
<1>6. NeverSchedulesThePast' /\ LimitIsRestored' /\ BatchIsBounded'
  BY <1>1 DEF RunEvent, IInv, TypeOK, NeverSchedulesThePast, LimitIsRestored, BatchIsBounded
<1>7. Before(last, last')
  BY DEF RunEvent, IInv, PendingIsAhead, Before
<1> QED BY <1>3, <1>4, <1>5, <1>6, <1>7 DEF IInv

(* The steps that only move RunUntil along: beginning a batch, returning   *)
(* from it or from a callback.                                             *)
LEMMA ControlKeeps ==
  ASSUME IInv,
         \/ AdvanceStopped \/ \E u \in 0 .. EndTime : AdvanceBatch(u)
         \/ RunReached \/ RunLimit \/ CallbackReturns
  PROVE  IInv'
<1> USE EngineAssumption DEF engineVars, historyVars
<1>1. CASE AdvanceStopped
  BY <1>1 DEF AdvanceStopped, IInv, TypeOK, NeverSchedulesThePast,
     PendingIsAhead, Before, EveryEventHasOneFate, Ids, LimitIsRestored, BatchIsBounded
<1>2. CASE \E u \in 0 .. EndTime : AdvanceBatch(u)
  BY <1>2 DEF AdvanceBatch, BatchLimit, IInv, TypeOK, NeverSchedulesThePast,
     PendingIsAhead, Before, EveryEventHasOneFate, Ids, LimitIsRestored, BatchIsBounded
<1>3. CASE RunReached
  <2>1. PendingIsAhead'
    BY <1>3 DEF RunReached, RunReturn, Due, IInv, TypeOK, Event,
       PendingIsAhead, BatchIsBounded, Before
  <2> QED BY <1>3, <2>1 DEF RunReached, RunReturn, IInv, TypeOK,
       NeverSchedulesThePast, EveryEventHasOneFate, Ids, LimitIsRestored, BatchIsBounded
<1>4. CASE RunLimit
  BY <1>4 DEF RunLimit, RunReturn, IInv, TypeOK, NeverSchedulesThePast,
     PendingIsAhead, Before, EveryEventHasOneFate, Ids, LimitIsRestored, BatchIsBounded
<1>5. CASE CallbackReturns
  BY <1>5 DEF CallbackReturns, IInv, TypeOK, NeverSchedulesThePast,
     PendingIsAhead, Before, EveryEventHasOneFate, Ids, LimitIsRestored, BatchIsBounded
<1> QED BY <1>1, <1>2, <1>3, <1>4, <1>5

(* A delay that fits the time left cannot overflow, so ScheduleAfter never *)
(* reaches the panic of ScheduleAt.                                        *)
LEMMA ScheduleAfterKeeps ==
  ASSUME IInv, NEW delay \in 0 .. MaxDuration, ScheduleAfter(delay)
  PROVE  IInv'
<1> USE EngineAssumption DEF runVars, historyVars
<1>1. CASE UNCHANGED engineVars
  BY <1>1 DEF ScheduleAfter, engineVars, IInv, TypeOK, NeverSchedulesThePast,
     PendingIsAhead, Before, EveryEventHasOneFate, Ids, LimitIsRestored, BatchIsBounded
<1>2. CASE delay <= EndTime - now /\ ScheduleAt(Wrap(now + delay))
  <2>1. Wrap(now + delay) = now + delay /\ now + delay \in Int /\ now + delay >= now
    BY <1>2 DEF Wrap, IInv, TypeOK
  <2> QED BY <1>2, <2>1, ScheduleAtKeeps DEF ScheduleAfter
<1> QED BY <1>1, <1>2 DEF ScheduleAfter

(* Every step keeps the invariant, and starts at most the next event.      *)
LEMMA StepKeeps ==
  ASSUME IInv, [Next]_vars
  PROVE  IInv' /\ (last' # last => Before(last, last'))
<1>1. CASE \E delay \in 0 .. MaxDuration : ScheduleAfter(delay)
  BY <1>1, ScheduleAfterKeeps DEF ScheduleAfter, historyVars
<1>2. CASE \E at \in 0 .. MaxDuration : Schedule(at)
  BY <1>2, ScheduleAtKeeps, EngineAssumption DEF Schedule, historyVars
<1>3. CASE (\E e \in pending : Cancel(e)) \/ Stop
  BY <1>3, DropKeeps DEF Cancel, Stop
<1>4. CASE AdvanceStopped \/ (\E u \in 0 .. EndTime : AdvanceBatch(u))
           \/ RunReached \/ RunLimit \/ CallbackReturns
  BY <1>4, ControlKeeps DEF AdvanceStopped, AdvanceBatch, RunReached, RunLimit,
     CallbackReturns, RunReturn, historyVars
<1>5. CASE \E e \in pending : RunEvent(e)
  BY <1>5, RunEventKeeps
<1>6. CASE UNCHANGED vars
  BY <1>6 DEF vars, engineVars, runVars, historyVars, IInv, TypeOK,
     NeverSchedulesThePast, PendingIsAhead, Before, EveryEventHasOneFate, Ids,
     LimitIsRestored, BatchIsBounded
<1> QED BY <1>1, <1>2, <1>3, <1>4, <1>5, <1>6 DEF Next, Run

(* An engine starts with an empty queue.                                   *)
LEMMA EngineStarts ==
  ASSUME Init PROVE IInv
<1> USE EngineAssumption DEF Init
<1>1. TypeOK
  <2>1. last \in [at : 0 .. EndTime, id : 0 .. EventIDBound]
    OBVIOUS
  <2> QED BY <2>1 DEF TypeOK
<1>2. EveryEventHasOneFate
  <2>1. Ids = {} /\ 1 .. nextID = {}
    BY DEF Ids
  <2> QED BY <2>1 DEF EveryEventHasOneFate
<1>3. NeverSchedulesThePast /\ PendingIsAhead /\ LimitIsRestored /\ BatchIsBounded
  BY DEF NeverSchedulesThePast, PendingIsAhead, LimitIsRestored, BatchIsBounded
<1> QED BY <1>1, <1>2, <1>3 DEF IInv

(* The invariant of the engine: nothing pending is in the past, no         *)
(* schedule panics, every event has one fate, limits are respected.        *)
THEOREM EngineInvariant == Spec => []IInv
<1>1. Init => IInv
  BY EngineStarts
<1>2. IInv /\ [Next]_vars => IInv'
  BY StepKeeps
<1> QED BY <1>1, <1>2, PTL DEF Spec

(* Events start in strictly increasing (time, id) order over the whole run *)
(* (engine.go:20-21), whatever the callbacks schedule and cancel.          *)
THEOREM OrderedStarts == Spec => StartsInOrder
<1>1. IInv /\ [Next]_vars => [last' # last => Before(last, last')]_vars
  BY StepKeeps
<1> QED BY <1>1, EngineInvariant, PTL DEF Spec, StartsInOrder

(* No event is lost, started twice, or started after being cancelled.      *)
THEOREM OneFate == Spec => []EveryEventHasOneFate
<1>1. IInv => EveryEventHasOneFate
  BY DEF IInv
<1> QED BY <1>1, EngineInvariant, PTL

(* What AdvanceBatch returns is true (world.go:123-124).                   *)
THEOREM TrueBatchResults == Spec => BatchResultIsTrue
<1> DEFINE Truth ==
      pc = "loop" /\ pc' = "idle" =>
       /\ result' = "more" => /\ executed = batchStart + BatchSize
                              /\ executed < EventLimit
                              /\ \E e \in pending' : e.at <= until
       /\ result' = "reached" => /\ now' = until
                                 /\ \A e \in pending' : e.at > until
       /\ result' = "limit" => executed >= EventLimit
<1>1. ASSUME IInv, [Next]_vars PROVE [Truth]_vars
  <2>1. SUFFICES ASSUME pc = "loop", pc' = "idle" PROVE Truth
    OBVIOUS
  <2>2. RunReached \/ RunLimit
    BY <1>1, <2>1 DEF Next, Run, vars, runVars, ScheduleAfter, Schedule, Cancel,
       Stop, AdvanceStopped, AdvanceBatch, RunEvent, CallbackReturns
  <2>3. CASE RunReached
    BY <2>3, <1>1, EngineAssumption DEF RunReached, RunReturn, Due, IInv, TypeOK, Event
  <2>4. CASE RunLimit
    BY <2>4, <1>1, EngineAssumption
       DEF RunLimit, RunReturn, Due, IInv, TypeOK, BatchIsBounded
  <2> QED BY <2>2, <2>3, <2>4
<1> QED BY <1>1, EngineInvariant, PTL DEF Spec, BatchResultIsTrue

-----------------------------------------------------------------------------
(* World: arrivals, commands, transmissions and measurements are steps of  *)
(* the engine, so what holds of the engine holds in a world.               *)

(* Groups keep the durations Normalize has accepted.                       *)
GroupsAreTyped ==
  /\ unstarted \subseteq DOMAIN groups
  /\ \A i \in DOMAIN groups :
       /\ groups[i] = [config |-> groups[i].config, base |-> groups[i].base,
                       next |-> groups[i].next]
       /\ groups[i].config.startAt \in 0 .. MaxDuration
       /\ groups[i].config.gap \in 0 .. MaxDuration

(* What waits for an event has the id of one, and belongs to a group.      *)
TasksAreTyped ==
  /\ \A a \in arrivals :
       /\ a.id \in 1 .. nextID
       /\ a.batch.group \in DOMAIN groups
  /\ \A c \in commands : c.id \in 1 .. nextID

WorldTyped == GroupsAreTyped /\ TasksAreTyped

(* A world starts as its engine does, with typed groups.                   *)
LEMMA WorldStartsTyped ==
  ASSUME WorldInit
  PROVE  Init /\ WorldTyped
<1> DEFINE resolved == Normalize(input)
           settings == IF resolved = Rejected \/ input \notin Played THEN << >>
                       ELSE resolved.groups
<1>1. /\ Init /\ input \in Inputs
      /\ groups = [i \in DOMAIN settings |->
                     [config |-> settings[i], base |-> AddressBase(settings, i),
                      next |-> settings[i].count]]
      /\ unstarted = DOMAIN settings /\ arrivals = {} /\ commands = {}
  BY DEF WorldInit
<1>2. ASSUME NEW i \in DOMAIN settings
      PROVE  settings[i].startAt \in 0 .. MaxDuration /\ settings[i].gap \in 0 .. MaxDuration
  <2>1. CASE settings = << >>
    BY <2>1, <1>2
  <2>2. CASE resolved # Rejected /\ settings = resolved.groups
    <3>1. Accepted(input)
      BY <2>2 DEF Normalize
    <3>2. settings = [k \in DOMAIN input.groups |-> NormalizedGroup(input, input.groups[k])]
      BY <3>1, <2>2 DEF Normalize
    <3>3. /\ NormalizedGroup(input, input.groups[i]).startAt = input.groups[i].startAt
          /\ NormalizedGroup(input, input.groups[i]).gap = input.groups[i].gap
      BY DEF NormalizedGroup
    <3> HIDE DEF settings
    <3>4. /\ i \in DOMAIN input.groups
          /\ settings[i].startAt = input.groups[i].startAt
          /\ settings[i].gap = input.groups[i].gap
      BY <3>2, <3>3, <1>2
    <3>5. input.groups[i].startAt >= 0 /\ input.groups[i].gap >= 0
      BY <3>1, <3>4 DEF Accepted, GroupIsValid
    <3>6. /\ input.groups[i].startAt \in Int /\ input.groups[i].startAt <= MaxDuration
          /\ input.groups[i].gap \in Int /\ input.groups[i].gap <= MaxDuration
      BY <3>4, <1>1, WorldAssumption DEF ScenarioIsTyped, GroupIsTyped
    <3> QED BY <3>5, <3>4, <3>6, EngineAssumption
  <2> QED BY <2>1, <2>2
<1> HIDE DEF settings
<1>3. DOMAIN groups = DOMAIN settings
  BY <1>1
<1>4. GroupsAreTyped
  BY <1>1, <1>2, <1>3 DEF GroupsAreTyped
<1>5. TasksAreTyped
  BY <1>1 DEF TasksAreTyped
<1> QED BY <1>1, <1>4, <1>5 DEF WorldTyped

(* Handing a batch to the engine: at most one schedule, whose event is the *)
(* next arrival's.                                                         *)
LEMMA ScheduleClientBatchIsStep ==
  ASSUME IInv, WorldTyped, NEW i \in DOMAIN groups, NEW first, NEW count, NEW address,
         NEW startAt \in 0 .. MaxDuration,
         ScheduleClientBatch(i, first, count, address, startAt)
  PROVE  /\ [Next]_vars
         /\ nextID' >= nextID
         /\ \A a \in arrivals' :
              /\ a.id \in 1 .. nextID'
              /\ a.batch.group \in DOMAIN groups
<1> DEFINE batch == [group |-> i, first |-> first, count |-> count, address |-> address,
                     startAt |-> startAt]
<1> USE EngineAssumption
<1>1. nextID \in Nat
  BY DEF IInv, TypeOK
<1>2. CASE count = 0 /\ UNCHANGED <<vars, arrivals, batches>>
  BY <1>1, <1>2 DEF WorldTyped, TasksAreTyped, vars, engineVars
<1>3. CASE /\ Schedule(startAt)
           /\ arrivals' = IF Accepts
                          THEN arrivals \cup {[id |-> nextID', batch |-> batch, index |-> first]}
                          ELSE arrivals
  <2>1. Next
    BY <1>3 DEF Next
  <2>2. nextID' = nextID \/ nextID' = nextID + 1
    BY <1>3 DEF Schedule, ScheduleAt, engineVars
  <2>3. batch.group = i
    OBVIOUS
  <2> HIDE DEF batch
  <2> QED BY <1>1, <1>3, <2>1, <2>2, <2>3 DEF WorldTyped, TasksAreTyped, Accepts
<1> QED BY <1>2, <1>3 DEF ScheduleClientBatch

(* No step of a world does anything to the engine that Engine does not     *)
(* describe: delays and times stay within a duration.                      *)
LEMMA WorldStepIsEngineStep ==
  ASSUME IInv, WorldTyped, [WorldNext]_worldVars
  PROVE  [Next]_vars /\ WorldTyped'
<1> USE EngineAssumption
<1>1. nextID \in Nat /\ now \in 0 .. EndTime
  BY DEF IInv, TypeOK
<1>2. CASE StartGroup
  <2>1. PICK i \in unstarted :
          ScheduleClientBatch(i, 0, groups[i].config.count, groups[i].base,
                              groups[i].config.startAt)
    BY <1>2 DEF StartGroup
  <2>2. i \in DOMAIN groups /\ groups[i].config.startAt \in 0 .. MaxDuration
    BY <2>1 DEF WorldTyped, GroupsAreTyped
  <2>3. unstarted' \subseteq unstarted /\ UNCHANGED <<groups, commands>>
    BY <1>2 DEF StartGroup
  <2>4. /\ [Next]_vars /\ nextID' >= nextID
        /\ \A a \in arrivals' :
             /\ a.id \in 1 .. nextID'
             /\ a.batch.group \in DOMAIN groups
    BY <2>1, <2>2, ScheduleClientBatchIsStep
  <2>5. nextID' \in Int
    BY <1>1, <2>1 DEF ScheduleClientBatch, Schedule, ScheduleAt, vars, engineVars
  <2>6. TasksAreTyped'
    BY <1>1, <2>3, <2>4, <2>5 DEF WorldTyped, TasksAreTyped
  <2>7. GroupsAreTyped'
    BY <2>3 DEF WorldTyped, GroupsAreTyped
  <2> QED BY <2>4, <2>6, <2>7 DEF WorldTyped
<1>3. CASE Arrive
  <2>1. PICK a \in arrivals :
          /\ UNCHANGED <<groups, unstarted, commands>>
          /\ \/ /\ ScheduleAfter(groups[a.batch.group].config.gap)
                /\ arrivals' = (arrivals \ {a}) \cup
                     (IF Accepts
                      THEN {[id |-> nextID', batch |-> a.batch, index |-> a.index + 1]}
                      ELSE {})
             \/ /\ arrivals' = arrivals \ {a}
                /\ UNCHANGED vars
    BY <1>3 DEF Arrive
  <2>2. GroupsAreTyped'
    BY <2>1 DEF WorldTyped, GroupsAreTyped
  <2>3. CASE arrivals' = arrivals \ {a} /\ UNCHANGED vars
    BY <2>1, <2>2, <2>3 DEF WorldTyped, TasksAreTyped, vars, engineVars
  <2>4. CASE /\ ScheduleAfter(groups[a.batch.group].config.gap)
             /\ arrivals' = (arrivals \ {a}) \cup
                  (IF Accepts
                   THEN {[id |-> nextID', batch |-> a.batch, index |-> a.index + 1]}
                   ELSE {})
    <3>1. groups[a.batch.group].config.gap \in 0 .. MaxDuration
      BY <2>1 DEF WorldTyped, GroupsAreTyped, TasksAreTyped
    <3>2. Next
      BY <2>4, <3>1 DEF Next
    <3>3. nextID' = nextID \/ nextID' = nextID + 1
      BY <2>4 DEF ScheduleAfter, ScheduleAt, engineVars
    <3> DEFINE b == [id |-> nextID', batch |-> a.batch, index |-> a.index + 1]
    <3>4. b.id = nextID' /\ b.batch = a.batch
      OBVIOUS
    <3>5. arrivals' = (arrivals \ {a}) \cup (IF Accepts THEN {b} ELSE {})
      BY <2>4
    <3> HIDE DEF b
    <3>6. TasksAreTyped'
      <4>1. ASSUME NEW c \in arrivals'
            PROVE  /\ c.id \in 1 .. nextID'
                   /\ c.batch.group \in DOMAIN groups'
        <5>1. c \in arrivals \/ (Accepts /\ c = b)
          BY <3>5, <4>1
        <5>2. CASE c \in arrivals
          BY <1>1, <2>1, <3>3, <5>2 DEF WorldTyped, TasksAreTyped
        <5>3. CASE Accepts /\ c = b
          BY <1>1, <2>1, <3>3, <3>4, <5>3 DEF WorldTyped, TasksAreTyped, Accepts
        <5> QED BY <5>1, <5>2, <5>3
      <4> QED BY <1>1, <2>1, <3>3, <4>1 DEF WorldTyped, TasksAreTyped
    <3> QED BY <2>2, <3>2, <3>6 DEF WorldTyped
  <2> QED BY <2>1, <2>3, <2>4
<1>4. CASE Ask
  <2>1. PICK s \in Spawns :
          /\ ScheduleAfter(0)
          /\ commands' = IF Accepts THEN commands \cup {[id |-> nextID', spawn |-> s]}
                         ELSE commands
    BY <1>4 DEF Ask
  <2>2. UNCHANGED <<groups, unstarted, arrivals>>
    BY <1>4 DEF Ask
  <2>3. Next
    BY <2>1 DEF Next
  <2>4. nextID' = nextID \/ nextID' = nextID + 1
    BY <2>1 DEF ScheduleAfter, ScheduleAt, engineVars
  <2>5. TasksAreTyped'
    BY <1>1, <2>1, <2>2, <2>4 DEF WorldTyped, TasksAreTyped, Accepts
  <2> QED BY <2>2, <2>3, <2>5 DEF WorldTyped, GroupsAreTyped
<1>5. CASE SpawnClients
  <2>1. PICK c \in commands :
          /\ commands' = commands \ {c}
          /\ UNCHANGED unstarted
          /\ \/ \E i \in DOMAIN groups :
                  /\ ScheduleClientBatch(i, groups[i].next, c.spawn.count, FirstAddress, now)
                  /\ groups' = [groups EXCEPT ![i].next = @ + c.spawn.count]
             \/ UNCHANGED <<vars, groups, arrivals>>
    BY <1>5 DEF SpawnClients
  <2>2. CASE UNCHANGED <<vars, groups, arrivals>>
    BY <2>1, <2>2 DEF WorldTyped, GroupsAreTyped, TasksAreTyped, vars, engineVars
  <2>3. CASE \E i \in DOMAIN groups :
               /\ ScheduleClientBatch(i, groups[i].next, c.spawn.count, FirstAddress, now)
               /\ groups' = [groups EXCEPT ![i].next = @ + c.spawn.count]
    <3>1. PICK i \in DOMAIN groups :
            /\ ScheduleClientBatch(i, groups[i].next, c.spawn.count, FirstAddress, now)
            /\ groups' = [groups EXCEPT ![i].next = @ + c.spawn.count]
      BY <2>3
    <3>2. now \in 0 .. MaxDuration
      BY <1>1
    <3>3. /\ [Next]_vars /\ nextID' >= nextID
          /\ \A a \in arrivals' :
               /\ a.id \in 1 .. nextID'
               /\ a.batch.group \in DOMAIN groups
      BY <3>1, <3>2, ScheduleClientBatchIsStep
    <3>4. DOMAIN groups' = DOMAIN groups
      BY <3>1
    <3>5. nextID' \in Int
      BY <1>1, <3>1 DEF ScheduleClientBatch, Schedule, ScheduleAt, vars, engineVars
    <3>6. TasksAreTyped'
      BY <1>1, <2>1, <3>3, <3>4, <3>5 DEF WorldTyped, TasksAreTyped
    <3>7. ASSUME NEW k \in DOMAIN groups'
          PROVE  /\ groups'[k] = [config |-> groups'[k].config, base |-> groups'[k].base,
                                  next |-> groups'[k].next]
                 /\ groups'[k].config = groups[k].config
      <4>1. groups[k] = [config |-> groups[k].config, base |-> groups[k].base,
                         next |-> groups[k].next]
        BY <3>4, <3>7 DEF WorldTyped, GroupsAreTyped
      <4>2. groups'[k] = groups[k]
              \/ groups'[k] = [groups[k] EXCEPT !.next = @ + c.spawn.count]
        BY <3>1, <3>4, <3>7
      <4> QED BY <4>1, <4>2
    <3>8. GroupsAreTyped'
      BY <2>1, <3>4, <3>7 DEF WorldTyped, GroupsAreTyped
    <3> QED BY <3>3, <3>6, <3>8 DEF WorldTyped
  <2> QED BY <2>1, <2>2, <2>3
<1>6. CASE Transmit
  <2>1. (\E delay \in 0 .. MaxDuration : ScheduleAfter(delay)) \/ (\E e \in pending : Cancel(e))
    BY <1>6 DEF Transmit, Others
  <2>2. nextID' = nextID \/ nextID' = nextID + 1
    BY <2>1 DEF ScheduleAfter, ScheduleAt, Cancel, engineVars
  <2>3. UNCHANGED <<groups, unstarted, arrivals, commands>>
    BY <1>6 DEF Transmit, workload
  <2> QED BY <1>1, <2>1, <2>2, <2>3 DEF Next, WorldTyped, GroupsAreTyped, TasksAreTyped
<1>7. ASSUME RunWorld \/ Advance \/ Snapshot \/ Late \/ UNCHANGED worldVars,
             UNCHANGED <<groups, unstarted, arrivals, commands, nextID>>
      PROVE  WorldTyped'
  BY <1>7 DEF WorldTyped, GroupsAreTyped, TasksAreTyped
<1>8. CASE Return \/ Continue \/ \E e \in pending : RunCallback(e)
  <2>1. Run
    BY <1>8 DEF Return, Continue, RunCallback, Run
  <2>2. UNCHANGED <<groups, unstarted, arrivals, commands, nextID>>
    BY <1>8 DEF Return, Continue, RunCallback, RunEvent, RunReached, RunLimit, RunReturn,
       CallbackReturns, workload, engineVars
  <2> QED BY <1>7, <1>8, <2>1, <2>2 DEF RunWorld, Next
<1>9. CASE Advance
  <2>1. PICK u \in until .. EndTime : AdvanceBatch(u)
    BY <1>9 DEF Advance
  <2>2. u \in 0 .. EndTime
    BY <2>1 DEF IInv, TypeOK
  <2>3. UNCHANGED <<groups, unstarted, arrivals, commands, nextID>>
    BY <1>9, <2>1 DEF Advance, AdvanceBatch, workload
  <2> QED BY <1>7, <1>9, <2>1, <2>2, <2>3 DEF Next
<1>10. CASE Snapshot \/ UNCHANGED worldVars
  BY <1>7, <1>10 DEF Snapshot, worldVars, workload, vars, engineVars
<1>11. CASE StopWorld
  BY <1>1, <1>11 DEF StopWorld, Stop, Next, WorldTyped, GroupsAreTyped, TasksAreTyped
<1>12. CASE Late
  BY <1>7, <1>12 DEF Late, AdvanceStopped, Next, workload, engineVars
<1> QED BY <1>2, <1>3, <1>4, <1>5, <1>6, <1>8, <1>9, <1>10, <1>11, <1>12
        DEF WorldNext, RunWorld

(* The types hold in every world, and the engine's invariant with them.    *)
LEMMA WorldIsTyped == WorldSpec => [](IInv /\ WorldTyped)
<1>1. WorldInit => IInv /\ WorldTyped
  BY WorldStartsTyped, EngineStarts
<1>2. IInv /\ WorldTyped /\ [WorldNext]_worldVars => IInv' /\ WorldTyped'
  BY WorldStepIsEngineStep, StepKeeps
<1> QED BY <1>1, <1>2, PTL DEF WorldSpec

(* A world with its workload and its measurements runs on an engine that   *)
(* behaves as Engine says (world.go, clients.go, engine.go).               *)
THEOREM WorldRunsOnEngine == WorldSpec => Spec
<1>1. WorldInit => Init
  BY WorldStartsTyped
<1>2. IInv /\ WorldTyped /\ [WorldNext]_worldVars => [Next]_vars
  BY WorldStepIsEngineStep
<1> QED BY <1>1, <1>2, WorldIsTyped, PTL DEF WorldSpec, Spec

(* So its clients, commands and transmissions start in order, and its      *)
(* batches return the truth to runWorld (engine.go:20-21, world.go:123).   *)
THEOREM WorldKeepsOrder == WorldSpec => StartsInOrder /\ BatchResultIsTrue
BY WorldRunsOnEngine, OrderedStarts, TrueBatchResults

-----------------------------------------------------------------------------
(* The rate of traffic.                                                    *)

(* The transmissions that have ended are counted once each, and none is    *)
(* still to end in a window that was closed: at its time nothing is        *)
(* pending, or the event limit keeps the rest from running.                *)
Counted ==
  /\ IsFiniteSet(ended) /\ sent = Cardinality(ended)
  /\ \A r \in ended : r.id \in ran /\ r.at \in 0 .. now
  /\ last.id \in ran \cup {0}

WindowIsClosed ==
  /\ sampler.at \in 0 .. now
  /\ executed >= EventLimit \/ \A e \in Others : e.at > sampler.at

RateInv == Counted /\ WindowIsClosed /\ RateIsTrue

(* What a step hands to the engine.                                        *)
LEMMA Handed ==
  ASSUME NEW at, ScheduleAt(at), IInv, NEW e \in pending', e \notin pending
  PROVE  Accepts /\ e.id = nextID' /\ e.at = at
<1>1. CASE UNCHANGED engineVars
  BY <1>1 DEF engineVars
<1>2. CASE nextID' = nextID + 1 /\ pending' = pending \cup {[id |-> nextID + 1, at |-> at]}
  <2>1. e = [id |-> nextID + 1, at |-> at]
    BY <1>2
  <2>2. nextID' # nextID
    BY <1>2 DEF IInv, TypeOK
  <2> QED BY <1>2, <2>1, <2>2 DEF Accepts
<1>3. CASE UNCHANGED pending
  BY <1>3
<1> QED BY <1>1, <1>2, <1>3 DEF ScheduleAt

(* An event that is neither an arrival nor a command becomes so only when  *)
(* it is scheduled, and then it lies ahead.                                *)
LEMMA OthersLieAhead ==
  ASSUME IInv, WorldTyped, [WorldNext]_worldVars, last.id \in ran \cup {0},
         NEW e \in Others'
  PROVE  e \in Others \/ e.at > now
<1> USE EngineAssumption
<1>1. e \in pending' /\ \A t \in arrivals' \cup commands' : t.id # e.id
  BY DEF Others, IsOther
<1>2. \A f \in pending : \A t \in arrivals \cup commands : t.id = last.id => f.id # t.id
  BY DEF IInv, EveryEventHasOneFate, Ids, WorldTyped, TasksAreTyped
<1>3. ASSUME pending' \subseteq pending, arrivals \subseteq arrivals', commands \subseteq commands'
      PROVE  e \in Others
  BY <1>1, <1>3 DEF Others, IsOther
<1>4. ASSUME NEW i, NEW first, NEW count, NEW address, NEW startAt,
             ScheduleClientBatch(i, first, count, address, startAt)
      PROVE  arrivals \subseteq arrivals' /\ e \in pending
  <2>1. CASE UNCHANGED <<vars, arrivals>>
    BY <1>1, <2>1 DEF vars, engineVars
  <2>2. CASE Schedule(startAt)
    <3> DEFINE batch == [group |-> i, first |-> first, count |-> count,
                         address |-> address, startAt |-> startAt]
               new == [id |-> nextID', batch |-> batch, index |-> first]
    <3>1. ScheduleAt(startAt)
      BY <2>2 DEF Schedule
    <3>2. count # 0 => arrivals' = IF Accepts THEN arrivals \cup {new} ELSE arrivals
      BY <1>4 DEF ScheduleClientBatch
    <3>3. new.id = nextID'
      OBVIOUS
    <3> HIDE DEF new
    <3>4. CASE count = 0
      BY <1>1, <1>4, <3>4 DEF ScheduleClientBatch, vars, engineVars
    <3>5. CASE count # 0
      <4>1. e \in pending
        BY <1>1, <3>1, <3>2, <3>3, <3>5, Handed
      <4> QED BY <3>2, <3>5, <4>1
    <3> QED BY <3>4, <3>5
  <2> QED BY <1>4, <2>1, <2>2 DEF ScheduleClientBatch
<1>5. CASE StartGroup
  <2>1. arrivals \subseteq arrivals' /\ e \in pending /\ UNCHANGED commands
    BY <1>4, <1>5 DEF StartGroup
  <2> QED BY <1>1, <2>1 DEF Others, IsOther
<1>6. CASE Arrive
  <2>1. PICK a \in arrivals :
          /\ a.id = last.id /\ UNCHANGED commands
          /\ \/ /\ ScheduleAfter(groups[a.batch.group].config.gap)
                /\ arrivals' = (arrivals \ {a}) \cup
                     (IF Accepts
                      THEN {[id |-> nextID', batch |-> a.batch, index |-> a.index + 1]}
                      ELSE {})
             \/ /\ arrivals' = arrivals \ {a}
                /\ UNCHANGED vars
    BY <1>6 DEF Arrive
  <2>2. e \in pending
    <3>1. CASE UNCHANGED vars
      BY <1>1, <3>1 DEF vars, engineVars
    <3>2. CASE UNCHANGED engineVars
      BY <1>1, <3>2 DEF engineVars
    <3>3. CASE /\ ScheduleAt(Wrap(now + groups[a.batch.group].config.gap))
               /\ Accepts => [id |-> nextID', batch |-> a.batch, index |-> a.index + 1]
                               \in arrivals'
      BY <1>1, <3>3, Handed
    <3> QED BY <2>1, <3>1, <3>2, <3>3 DEF ScheduleAfter
  <2>3. \A t \in arrivals \cup commands : t # a => t \in arrivals' \cup commands'
    BY <2>1
  <2> QED BY <1>1, <1>2, <2>1, <2>2, <2>3 DEF Others, IsOther
<1>7. CASE Ask
  <2>1. PICK s \in Spawns :
          /\ ScheduleAfter(0)
          /\ commands' = IF Accepts THEN commands \cup {[id |-> nextID', spawn |-> s]}
                         ELSE commands
    BY <1>7 DEF Ask
  <2>2. e \in pending
    <3>1. CASE UNCHANGED engineVars
      BY <1>1, <3>1 DEF engineVars
    <3>2. CASE /\ ScheduleAt(Wrap(now + 0))
               /\ Accepts => [id |-> nextID', spawn |-> s] \in commands'
      BY <1>1, <3>2, Handed
    <3> QED BY <2>1, <3>1, <3>2 DEF ScheduleAfter
  <2> QED BY <1>1, <1>7, <2>1, <2>2 DEF Ask, Others, IsOther
<1>8. CASE SpawnClients
  <2>1. PICK c \in commands :
          /\ c.id = last.id /\ commands' = commands \ {c}
          /\ \/ \E i \in DOMAIN groups :
                  ScheduleClientBatch(i, groups[i].next, c.spawn.count, FirstAddress, now)
             \/ UNCHANGED <<vars, arrivals>>
    BY <1>8 DEF SpawnClients
  <2>2. arrivals \subseteq arrivals' /\ e \in pending
    BY <1>1, <1>4, <2>1 DEF vars, engineVars
  <2>3. \A t \in arrivals \cup commands : t # c => t \in arrivals' \cup commands'
    BY <2>1, <2>2
  <2> QED BY <1>1, <1>2, <2>1, <2>2, <2>3 DEF Others, IsOther
<1>9. CASE Transmit
  <2>1. UNCHANGED <<arrivals, commands>>
    BY <1>9 DEF Transmit, workload
  <2>2. CASE \E f \in Others : Cancel(f)
    BY <1>3, <2>1, <2>2 DEF Cancel
  <2>3. CASE \E delay \in 1 .. MaxDuration : ScheduleAfter(delay)
    <3>1. PICK delay \in 1 .. MaxDuration : ScheduleAfter(delay)
      BY <2>3
    <3>2. CASE UNCHANGED engineVars
      BY <1>3, <2>1, <3>2 DEF engineVars
    <3>3. CASE delay <= EndTime - now /\ ScheduleAt(Wrap(now + delay))
      <4>1. Wrap(now + delay) = now + delay /\ now + delay > now
        BY <3>3 DEF Wrap, IInv, TypeOK
      <4>2. CASE e \in pending
        BY <1>1, <2>1, <4>2 DEF Others, IsOther
      <4>3. CASE e \notin pending
        BY <1>1, <3>3, <4>1, <4>3, Handed
      <4> QED BY <4>2, <4>3
    <3> QED BY <3>1, <3>2, <3>3 DEF ScheduleAfter
  <2> QED BY <1>9, <2>2, <2>3 DEF Transmit
<1>10. CASE Return \/ Continue \/ (\E f \in pending : RunCallback(f)) \/ Advance
            \/ Snapshot \/ Late \/ UNCHANGED worldVars
  BY <1>3, <1>10 DEF Return, Continue, RunCallback, RunEvent, RunReached, RunLimit, RunReturn,
     CallbackReturns, Advance, AdvanceBatch, Snapshot, Late, AdvanceStopped, worldVars,
     workload, vars, engineVars
<1>11. CASE StopWorld
  BY <1>1, <1>11 DEF StopWorld, Stop
<1> QED BY <1>5, <1>6, <1>7, <1>8, <1>9, <1>10, <1>11 DEF WorldNext, RunWorld

(* Steps other than the start of a transmission's end leave the counters   *)
(* alone.                                                                  *)
LEMMA OnlyEndsCount ==
  ASSUME [WorldNext]_worldVars
  PROVE  \/ UNCHANGED <<sent, ended, ran, last, executed>>
         \/ \E e \in pending :
              /\ RunEvent(e) /\ UNCHANGED sampler
              /\ \/ /\ e \in Others /\ sent' = sent + 1
                    /\ ended' = ended \cup {[id |-> e.id, at |-> e.at]}
                 \/ e \notin Others /\ UNCHANGED <<sent, ended>>
<1>1. CASE StartGroup
  BY <1>1 DEF StartGroup, ScheduleClientBatch, Schedule, ScheduleAt, vars, engineVars,
     historyVars, traffic
<1>2. CASE Arrive
  BY <1>2 DEF Arrive, ScheduleAfter, ScheduleAt, vars, engineVars, historyVars, traffic
<1>3. CASE Ask
  BY <1>3 DEF Ask, ScheduleAfter, ScheduleAt, engineVars, historyVars, traffic
<1>4. CASE SpawnClients
  BY <1>4 DEF SpawnClients, ScheduleClientBatch, Schedule, ScheduleAt, vars, engineVars,
     historyVars, traffic
<1>5. CASE Transmit
  BY <1>5 DEF Transmit, ScheduleAfter, ScheduleAt, Cancel, engineVars, historyVars
<1>6. CASE \E e \in pending : RunCallback(e)
  BY <1>6 DEF RunCallback
<1>7. CASE Return \/ Continue \/ Advance \/ Snapshot \/ Late \/ UNCHANGED worldVars
  BY <1>7 DEF Return, Continue, RunReached, RunLimit, RunReturn, CallbackReturns, Advance,
     AdvanceBatch, Snapshot, Late, AdvanceStopped, worldVars, vars, engineVars,
     historyVars, traffic
<1>8. CASE StopWorld
  BY <1>8 DEF StopWorld, Stop, traffic
<1> QED BY <1>1, <1>2, <1>3, <1>4, <1>5, <1>6, <1>7, <1>8 DEF WorldNext, RunWorld

(* The clock never goes back.                                              *)
LEMMA ClockAdvances ==
  ASSUME IInv, [Next]_vars
  PROVE  now \in 0 .. now' /\ now' \in Nat
<1> USE EngineAssumption
<1>1. IInv'
  BY StepKeeps
<1>2. now \in Nat /\ now' \in Nat
  BY <1>1 DEF IInv, TypeOK
<1>3. CASE RunReached
  BY <1>2, <1>3 DEF RunReached, IInv, TypeOK, BatchIsBounded
<1>4. CASE \E e \in pending : RunEvent(e)
  BY <1>2, <1>4 DEF RunEvent, IInv, PendingIsAhead
<1>5. CASE UNCHANGED now
  BY <1>2, <1>5
<1> QED BY <1>3, <1>4, <1>5 DEF Next, Run, ScheduleAfter, Schedule, ScheduleAt, Cancel, Stop,
        AdvanceStopped, AdvanceBatch, RunLimit, RunReturn, CallbackReturns, vars, engineVars

(* Every step counts the transmissions that end with it, once.             *)
LEMMA CountedKeeps ==
  ASSUME IInv, WorldTyped, Counted, [WorldNext]_worldVars
  PROVE  Counted'
<1>1. now \in 0 .. now' /\ now' \in Nat
  BY WorldStepIsEngineStep, ClockAdvances
<1>2. CASE UNCHANGED <<sent, ended, ran, last>>
  BY <1>1, <1>2 DEF Counted
<1>3. CASE \E e \in pending :
              /\ RunEvent(e)
              /\ \/ /\ sent' = sent + 1
                    /\ ended' = ended \cup {[id |-> e.id, at |-> e.at]}
                 \/ UNCHANGED <<sent, ended>>
  <2>1. PICK e \in pending :
              /\ RunEvent(e)
              /\ \/ /\ sent' = sent + 1
                    /\ ended' = ended \cup {[id |-> e.id, at |-> e.at]}
                 \/ UNCHANGED <<sent, ended>>
    BY <1>3
  <2>2. /\ ran' = ran \cup {e.id} /\ last'.id = e.id /\ now' = e.at
        /\ e.id \notin ran
    BY <2>1 DEF RunEvent, IInv, EveryEventHasOneFate, Ids
  <2>3. CASE UNCHANGED <<sent, ended>>
    BY <1>1, <2>2, <2>3 DEF Counted
  <2>4. CASE sent' = sent + 1 /\ ended' = ended \cup {[id |-> e.id, at |-> e.at]}
    <3> DEFINE new == [id |-> e.id, at |-> e.at]
    <3>1. new.id = e.id /\ new.at = e.at
      OBVIOUS
    <3> HIDE DEF new
    <3>2. new \notin ended
      BY <2>2, <3>1 DEF Counted
    <3>3. IsFiniteSet(ended') /\ Cardinality(ended') = Cardinality(ended) + 1
      BY <2>4, <3>2, FS_AddElement DEF Counted, new
    <3>4. \A r \in ended' : r.id \in ran' /\ r.at \in 0 .. now'
      BY <1>1, <2>2, <2>4, <3>1 DEF Counted, new
    <3> QED BY <2>2, <2>4, <3>3, <3>4 DEF Counted
  <2> QED BY <2>1, <2>3, <2>4
<1> QED BY <1>2, <1>3, OnlyEndsCount

(* What ends later lies outside the windows that were closed.              *)
LEMMA WindowStaysClosed ==
  ASSUME IInv, WorldTyped, Counted, WindowIsClosed, [WorldNext]_worldVars
  PROVE  WindowIsClosed'
<1> USE EngineAssumption
<1>1. now \in 0 .. now' /\ now' \in Nat
  BY WorldStepIsEngineStep, ClockAdvances
<1>2. executed \in Nat /\ (executed' = executed \/ executed' = executed + 1)
  BY OnlyEndsCount DEF RunEvent, IInv, TypeOK
<1>3. \A e \in Others' : e.at \in Nat
  <2>1. IInv'
    BY WorldStepIsEngineStep, StepKeeps
  <2> QED BY <2>1 DEF IInv, TypeOK, Event, Others
<1>4. CASE UNCHANGED sampler
  BY <1>1, <1>2, <1>3, <1>4, OthersLieAhead DEF WindowIsClosed, Counted
<1>5. CASE Snapshot
  <2>1. UNCHANGED <<now, pending, executed, arrivals, commands>>
    BY <1>5 DEF Snapshot, workload, vars, engineVars
  <2>2. Others' = Others
    BY <2>1 DEF Others, IsOther
  <2>3. CASE sampler' # sampler
    <3>1. /\ ~MoreAtCurrentTime
          /\ sampler' = [at |-> now, sent |-> sent, rate |-> sent - sampler.sent,
                         window |-> now - sampler.at]
      BY <1>5, <2>3 DEF Snapshot, SampleTraffic
    <3>2. sampler'.at = now
      BY <3>1
    <3>3. executed >= EventLimit \/ \A e \in Others : e.at > now
      BY <1>2, <3>1 DEF MoreAtCurrentTime, Others, IInv, TypeOK, PendingIsAhead, Event
    <3> QED BY <1>1, <2>1, <2>2, <3>2, <3>3 DEF WindowIsClosed
  <2> QED BY <1>4, <2>3
<1> QED BY <1>4, <1>5 DEF WorldNext, RunWorld, StartGroup, Arrive, Ask, SpawnClients, Transmit,
        Return, Continue, RunCallback, Advance, StopWorld, Late, traffic, worldVars

(* A new window has the transmissions that ended in it.                    *)
LEMMA RateStaysTrue ==
  ASSUME IInv, WorldTyped, RateInv, [WorldNext]_worldVars
  PROVE  RateIsTrue'
<1> USE EngineAssumption
<1>1. CASE UNCHANGED <<ended, sampler>>
  BY <1>1 DEF RateInv, RateIsTrue
<1>2. CASE \E e \in pending :
              /\ RunEvent(e) /\ UNCHANGED sampler /\ e \in Others
              /\ ended' = ended \cup {[id |-> e.id, at |-> e.at]}
  <2>1. PICK e \in pending :
              /\ RunEvent(e) /\ UNCHANGED sampler /\ e \in Others
              /\ ended' = ended \cup {[id |-> e.id, at |-> e.at]}
    BY <1>2
  <2>2. executed < EventLimit
    BY <2>1 DEF RunEvent, IInv, TypeOK, BatchIsBounded
  <2>3. e.at > sampler.at /\ e.at \in Nat /\ sampler.at \in Nat
    BY <2>1, <2>2 DEF RateInv, WindowIsClosed, IInv, TypeOK, Event
  <2> DEFINE new == [id |-> e.id, at |-> e.at]
  <2>4. ended' = ended \cup {new} /\ new.at = e.at
    BY <2>1
  <2> HIDE DEF new
  <2>5. {r \in ended' : r.at <= sampler.at} = {r \in ended : r.at <= sampler.at}
    BY <2>3, <2>4
  <2>6. {r \in ended' : r.at > sampler.at - sampler.window /\ r.at <= sampler.at}
          = {r \in ended : r.at > sampler.at - sampler.window /\ r.at <= sampler.at}
    BY <2>3, <2>4
  <2> QED BY <2>1, <2>5, <2>6 DEF RateInv, RateIsTrue
<1>3. CASE Snapshot
  <2>1. UNCHANGED ended
    BY <1>3 DEF Snapshot
  <2>2. CASE sampler' # sampler
    <3> DEFINE before == {r \in ended : r.at <= sampler.at}
               after == {r \in ended : r.at > sampler.at}
    <3>1. sampler' = [at |-> now, sent |-> sent, rate |-> sent - sampler.sent,
                      window |-> now - sampler.at]
      BY <1>3, <2>2 DEF Snapshot, SampleTraffic
    <3>2. /\ sampler.at \in Nat /\ now \in Nat
          /\ \A r \in ended : r.at \in 0 .. now
      BY DEF RateInv, Counted, WindowIsClosed, IInv, TypeOK
    <3>3. /\ sampler'.at = now /\ sampler'.sent = sent
          /\ sampler'.rate = sent - sampler.sent /\ sampler'.window = now - sampler.at
      BY <3>1
    <3>4. Cardinality(ended) = Cardinality(before) + Cardinality(after)
          /\ Cardinality(before) \in Nat /\ Cardinality(after) \in Nat
      <4>1. IsFiniteSet(before) /\ IsFiniteSet(after)
        BY FS_Subset DEF RateInv, Counted
      <4>2. before \cup after = ended /\ before \cap after = {}
        BY <3>2
      <4> HIDE DEF before, after
      <4>3. /\ Cardinality(before \cup after)
                 = Cardinality(before) + Cardinality(after) - Cardinality(before \cap after)
            /\ Cardinality(before) \in Nat /\ Cardinality(after) \in Nat
        BY <4>1, FS_Union, FS_CardinalityType
      <4>4. Cardinality(before \cap after) = 0
        BY <4>2, FS_EmptySet
      <4>5. Cardinality(before \cup after) = Cardinality(ended)
        BY <4>2
      <4> QED BY <4>3, <4>4, <4>5
    <3>5. {r \in ended : r.at <= now} = ended
      BY <3>2
    <3>6. {r \in ended : r.at > now - (now - sampler.at) /\ r.at <= now} = after
      BY <3>2
    <3>7. sent = Cardinality(ended) /\ sampler.sent = Cardinality(before)
      BY DEF RateInv, Counted, RateIsTrue
    <3> HIDE DEF before, after
    <3>8. sent - sampler.sent = Cardinality(after)
      BY <3>4, <3>7
    <3> QED BY <2>1, <3>3, <3>5, <3>6, <3>7, <3>8 DEF RateIsTrue
  <2> QED BY <1>1, <2>1, <2>2
<1>4. CASE UNCHANGED sampler
  BY <1>1, <1>2, <1>4, OnlyEndsCount
<1> QED BY <1>3, <1>4 DEF WorldNext, RunWorld, StartGroup, Arrive, Ask, SpawnClients, Transmit,
        Return, Continue, RunCallback, Advance, StopWorld, Late, traffic, worldVars

(* The rate a browser or a report sees is that of the transmissions which  *)
(* ended in its window, wherever batches, limits and commands cut the run  *)
(* (measurements.go:63-75).                                                *)
THEOREM TrueRates == WorldSpec => []RateIsTrue
<1>1. WorldInit => RateInv
  <2> SUFFICES ASSUME WorldInit PROVE RateInv
    OBVIOUS
  <2>1. /\ Init /\ sent = 0 /\ ended = {}
        /\ sampler = [at |-> 0, sent |-> 0, rate |-> 0, window |-> 0]
    BY DEF WorldInit
  <2>2. Counted
    BY <2>1, FS_EmptySet DEF Counted, Init
  <2>3. WindowIsClosed
    BY <2>1 DEF WindowIsClosed, Others, Init
  <2>4. sampler.sent = 0 /\ sampler.rate = 0
    BY <2>1
  <2>5. RateIsTrue
    <3>1. /\ {e \in ended : e.at > sampler.at - sampler.window /\ e.at <= sampler.at} = {}
          /\ {e \in ended : e.at <= sampler.at} = {}
      BY <2>1
    <3> QED BY <2>4, <3>1, FS_EmptySet DEF RateIsTrue
  <2> QED BY <2>2, <2>3, <2>5 DEF RateInv
<1>2. IInv /\ WorldTyped /\ RateInv /\ [WorldNext]_worldVars => RateInv'
  BY CountedKeeps, WindowStaysClosed, RateStaysTrue DEF RateInv
<1>3. RateInv => RateIsTrue
  BY DEF RateInv
<1> QED BY <1>1, <1>2, <1>3, WorldIsTyped, PTL DEF WorldSpec

-----------------------------------------------------------------------------
(* Settings: what is accepted fits what computes with it.                  *)

(* A product that was checked by a division fits.                          *)
LEMMA ProductFits ==
  ASSUME NEW M \in Nat, NEW a \in Int, NEW b \in Nat \ {0}, a <= M \div b
  PROVE  a * b <= M
<1>1. /\ M \div b \in Int /\ M % b \in 0 .. b - 1
      /\ M = b * (M \div b) + (M % b)
  OBVIOUS
<1>2. a * b <= (M \div b) * b
  <2>1. \A q \in Int : a <= q => a * b <= q * b
    OBVIOUS
  <2> QED BY <1>1, <2>1
<1>3. (M \div b) * b = b * (M \div b) /\ b * (M \div b) \in Int /\ a * b \in Int
  BY <1>1
<1>4. b * (M \div b) <= M
  BY <1>1
<1> QED BY <1>2, <1>3, <1>4

(* A scenario that Normalize accepts keeps what the transport, the window  *)
(* and the CPUs assume, and no product they start from overflows, for      *)
(* every width of an integer (congestion.go:53, host/types.go:43).         *)
THEOREM AcceptedSettingsFit ==
  ASSUME NEW scenario, NumbersAreTyped(scenario), Accepted(scenario)
  PROVE  PartsCanRely(scenario)
<1> USE SettingsAssumption
<1> DEFINE t == ResolvedTransport(scenario.tcp)
           h == Patched(DefaultHost, scenario.host)
           w == NewWindow(t)
<1>1. TimersAreValid(t) /\ WindowIsValid(t) /\ FeaturesAreValid(t)
  BY DEF Accepted, TransportIsValid
<1>2. HostIsValid(scenario.host, scenario.duration) /\ scenario.duration >= 0
  BY DEF Accepted
<1>3. /\ t.minimum \in Int /\ t.initial \in Int /\ t.maximum \in Int /\ t.msl \in Int
      /\ t.mss \in Int /\ t.maximumSegments \in Int /\ t.initialSegments \in Int
      /\ t.threshold \in Int
      /\ h.cores \in Int /\ h.cost \in Int /\ h.queue \in Int /\ scenario.duration \in Int
  BY DEF NumbersAreTyped
<1>4. /\ h.cores \in 1 .. MaxCores /\ h.queue \in 0 .. MaxHostQueue
      /\ \/ h.cost = 0 \/ scenario.duration = 0
         \/ Largest(h.cores, h.queue) <= MaxInt \div scenario.duration
  BY <1>2 DEF HostIsValid
<1> HIDE DEF t, h
<1>5. t.minimum >= 1 /\ t.initial \in t.minimum .. t.maximum /\ 2 * t.msl \in 1 .. MaxInt
  BY <1>1, <1>3 DEF TimersAreValid
<1>6. /\ t.mss \in 1 .. MaxMSS
      /\ t.maximumSegments \in 0 .. MaxInt \div t.mss
      /\ t.initialSegments \in 1 .. MaxInt \div t.mss
      /\ t.threshold \in 2 * t.mss .. MaxInt
  BY <1>1 DEF WindowIsValid
<1>7. t.initialSegments * t.mss <= MaxInt /\ t.maximumSegments * t.mss <= MaxInt
  <2>1. t.mss \in Nat \ {0}
    BY <1>3, <1>6
  <2> QED BY <1>3, <1>6, <2>1, ProductFits
<1>8. t.mss <= w.cwnd /\ w.cwnd <= w.maximum /\ w.maximum <= MaxInt
  <2> DEFINE initial == t.initialSegments * t.mss
             maximum == IF t.maximumSegments > 0 THEN t.maximumSegments * t.mss ELSE MaxInt
  <2>1. initial \in Int /\ t.mss <= initial
    BY <1>3, <1>6
  <2>2. maximum \in Int /\ t.mss <= maximum /\ maximum <= MaxInt
    <3>1. t.mss <= MaxInt
      BY <1>3, <1>6
    <3>2. t.maximumSegments > 0 => t.mss <= t.maximumSegments * t.mss
      BY <1>3, <1>6
    <3> QED BY <1>3, <1>7, <3>1, <3>2
  <2>3. w.maximum = maximum /\ w.cwnd = Smallest(initial, maximum)
    BY DEF NewWindow
  <2> HIDE DEF initial, maximum, w
  <2> QED BY <1>3, <2>1, <2>2, <2>3 DEF Smallest
<1>9. t.sack => t.mode # "none" /\ t.fastRetransmit
  BY <1>1 DEF FeaturesAreValid
<1>10. h.cost > 0 => /\ h.cores * scenario.duration <= MaxInt
                     /\ h.queue * scenario.duration <= MaxInt
  <2> SUFFICES ASSUME h.cost > 0
               PROVE  /\ h.cores * scenario.duration <= MaxInt
                      /\ h.queue * scenario.duration <= MaxInt
    OBVIOUS
  <2>1. CASE scenario.duration = 0
    BY <1>3, <2>1
  <2>2. CASE scenario.duration # 0
    <3>1. scenario.duration \in Nat \ {0}
      BY <1>2, <1>3, <2>2
    <3>2. h.cores <= MaxInt \div scenario.duration /\ h.queue <= MaxInt \div scenario.duration
      BY <1>3, <1>4, <3>1 DEF Largest
    <3> QED BY <1>3, <3>1, <3>2, ProductFits
  <2> QED BY <2>1, <2>2
<1> HIDE DEF w
<1>11. t.threshold >= 2 * t.mss
  BY <1>3, <1>6
<1> QED BY <1>5, <1>7, <1>8, <1>9, <1>10, <1>11 DEF PartsCanRely, t, h, w

-----------------------------------------------------------------------------
(* Sorting, for the exceptions of a group and the order of addresses.      *)

(* The places of the positions are numbers up to how many there are, and a *)
(* later position has a later place.                                       *)
LEMMA PlacesAreOrdered ==
  ASSUME NEW I, IsFiniteSet(I), I \subseteq Nat, NEW i \in I
  PROVE  /\ PlaceIn(I, i) \in 1 .. Cardinality(I)
         /\ \A j \in I : i < j => PlaceIn(I, i) < PlaceIn(I, j)
<1> DEFINE U(k) == {n \in I : n <= k}
<1>1. \A k \in I : U(k) \in SUBSET I /\ k \in U(k) /\ PlaceIn(I, k) = Cardinality(U(k))
  BY DEF PlaceIn
<1>2. \A k \in I : IsFiniteSet(U(k)) /\ Cardinality(U(k)) <= Cardinality(I)
  BY <1>1, FS_Subset
<1>3. \A k \in I : Cardinality(U(k)) \in Nat /\ Cardinality(I) \in Nat
  BY <1>2, FS_CardinalityType
<1>4. \A k \in I : Cardinality(U(k)) # 0
  BY <1>1, <1>2, FS_EmptySet
<1>5. ASSUME NEW j \in I, i < j
      PROVE  Cardinality(U(i)) < Cardinality(U(j))
  <2>0. \A m \in Nat : m <= i => m <= j /\ m # j
    BY <1>5
  <2>1. U(i) \in SUBSET (U(j) \ {j})
    BY <2>0
  <2>2. IsFiniteSet(U(j) \ {j}) /\ Cardinality(U(j) \ {j}) = Cardinality(U(j)) - 1
    BY <1>1, <1>2, FS_RemoveElement
  <2>3. Cardinality(U(i)) <= Cardinality(U(j) \ {j})
    BY <2>1, <2>2, FS_Subset
  <2> HIDE DEF U
  <2> QED BY <1>3, <2>2, <2>3
<1>6. Cardinality(U(i)) \in 1 .. Cardinality(I)
  <2> HIDE DEF U
  <2> QED BY <1>2, <1>3, <1>4
<1> HIDE DEF U
<1> QED BY <1>1, <1>5, <1>6

(* Every place up to the number of positions is taken, by exactly one.     *)
LEMMA EveryPlaceIsTaken ==
  ASSUME NEW I, IsFiniteSet(I), I \subseteq Nat
  PROVE  /\ Cardinality(I) \in Nat
         /\ \A i, j \in I : PlaceIn(I, i) = PlaceIn(I, j) => i = j
         /\ \A k \in 1 .. Cardinality(I) : \E i \in I : PlaceIn(I, i) = k
<1> DEFINE n == Cardinality(I)
           f == [i \in I |-> PlaceIn(I, i)]
           T == {f[i] : i \in I}
<1>1. n \in Nat
  BY FS_CardinalityType
<1>2. \A i \in I : PlaceIn(I, i) \in 1 .. n
  BY PlacesAreOrdered
<1>3. ASSUME NEW i \in I, NEW j \in I, PlaceIn(I, i) = PlaceIn(I, j)
      PROVE  i = j
  <2>1. ~(i < j)
    <3>1. i < j => PlaceIn(I, i) < PlaceIn(I, j)
      BY PlacesAreOrdered
    <3>2. PlaceIn(I, i) \in Nat
      BY <1>1, <1>2
    <3> QED BY <1>3, <3>1, <3>2
  <2>2. ~(j < i)
    <3>1. j < i => PlaceIn(I, j) < PlaceIn(I, i)
      BY PlacesAreOrdered
    <3>2. PlaceIn(I, i) \in Nat
      BY <1>1, <1>2
    <3> QED BY <1>3, <3>1, <3>2
  <2>3. i \in Nat /\ j \in Nat
    OBVIOUS
  <2> QED BY <2>1, <2>2, <2>3
<1>4. f \in Bijection(I, T)
  <2>1. f \in [I -> T] /\ \A t \in T : \E i \in I : f[i] = t
    OBVIOUS
  <2>2. \A i, j \in I : f[i] = f[j] => i = j
    BY <1>3
  <2>3. DOMAIN f = I
    OBVIOUS
  <2> HIDE DEF T, f
  <2> QED BY <2>1, <2>2, <2>3 DEF Bijection, Injection, Surjection, IsInjective
<1>5. IsFiniteSet(T) /\ Cardinality(T) = n
  BY <1>4, FS_Bijection DEF ExistsBijection
<1>6. T \in SUBSET (1 .. n)
  BY <1>2
<1>7. IsFiniteSet(1 .. n) /\ Cardinality(1 .. n) = n
  BY <1>1, FS_Interval
<1>8. T = 1 .. n
  BY <1>5, <1>6, <1>7, FS_Subset
<1>9. \A k \in 1 .. n : \E i \in I : PlaceIn(I, i) = k
  BY <1>8
<1> HIDE DEF n, f, T
<1> QED BY <1>1, <1>3, <1>9 DEF n

(* What SortedBy returns: at says where each place is taken from.          *)
IsSorting(T, s, n, key, at) ==
  /\ at \in [1 .. n -> 1 .. n]
  /\ DOMAIN T = 1 .. n
  /\ \A k \in 1 .. n : T[k] = s[at[k]]
  /\ \A k, l \in 1 .. n : k < l => key[at[k]] < key[at[l]]
  /\ \A i \in 1 .. n : \E k \in 1 .. n : at[k] = i

(* SortedBy arranges a sequence by its keys.                               *)
LEMMA SortedByIsSorting ==
  ASSUME NEW n \in Nat, NEW s, DOMAIN s = 1 .. n, NEW key \in [1 .. n -> Nat],
         \A i, j \in 1 .. n : key[i] = key[j] => i = j
  PROVE  \E at : IsSorting(SortedBy(s, key), s, n, key, at)
<1> DEFINE keys == {key[i] : i \in 1 .. n}
           place == [i \in 1 .. n |-> PlaceIn(keys, key[i])]
           at == [k \in 1 .. n |-> CHOOSE i \in 1 .. n : PlaceIn(keys, key[i]) = k]
           T == SortedBy(s, key)
<1>1. IsFiniteSet(keys) /\ Cardinality(keys) = n /\ keys \subseteq Nat
  <2>1. key \in Bijection(1 .. n, keys)
    <3>1. key \in [1 .. n -> keys] /\ \A t \in keys : \E i \in 1 .. n : key[i] = t
      OBVIOUS
    <3> HIDE DEF keys
    <3> QED BY <3>1 DEF Bijection, Injection, Surjection, IsInjective
  <2>2. IsFiniteSet(1 .. n) /\ Cardinality(1 .. n) = n
    BY FS_Interval
  <2>3. keys \subseteq Nat
    OBVIOUS
  <2> HIDE DEF keys
  <2> QED BY <2>1, <2>2, <2>3, FS_Bijection DEF ExistsBijection
<1>2. \A k \in 1 .. n : \E i \in 1 .. n : PlaceIn(keys, key[i]) = k
  <2>1. \A k \in 1 .. n : \E m \in keys : PlaceIn(keys, m) = k
    <3> HIDE DEF keys
    <3> QED BY <1>1, EveryPlaceIsTaken
  <2> TAKE k \in 1 .. n
  <2>2. PICK m \in keys : PlaceIn(keys, m) = k
    BY <2>1
  <2>3. PICK i \in 1 .. n : key[i] = m
    BY <2>2
  <2> HIDE DEF keys
  <2> QED BY <2>2, <2>3
<1>3. \A i \in 1 .. n : PlaceIn(keys, key[i]) \in 1 .. n
  <2>1. \A m \in keys : PlaceIn(keys, m) \in 1 .. n
    <3> HIDE DEF keys
    <3> QED BY <1>1, PlacesAreOrdered
  <2> QED BY <2>1
<1>4. \A i, j \in 1 .. n : key[i] < key[j] => PlaceIn(keys, key[i]) < PlaceIn(keys, key[j])
  <2>1. \A l, m \in keys : l < m => PlaceIn(keys, l) < PlaceIn(keys, m)
    <3> HIDE DEF keys
    <3> QED BY <1>1, PlacesAreOrdered
  <2> QED BY <2>1
<1>5. \A k \in 1 .. n : at[k] \in 1 .. n /\ PlaceIn(keys, key[at[k]]) = k
  BY <1>2
<1>6. DOMAIN T = 1 .. n /\ \A k \in 1 .. n : T[k] = s[at[k]]
  BY DEF SortedBy
<1>7. at \in [1 .. n -> 1 .. n]
  BY <1>5
<1> HIDE DEF at, T, keys
<1>8. ASSUME NEW k \in 1 .. n, NEW l \in 1 .. n, k < l
      PROVE  key[at[k]] < key[at[l]]
  <2>1. key[at[k]] \in Nat /\ key[at[l]] \in Nat
    BY <1>5
  <2>2. ~(key[at[l]] < key[at[k]])
    BY <1>4, <1>5, <1>8
  <2>3. key[at[k]] # key[at[l]]
    BY <1>5, <1>8
  <2> QED BY <2>1, <2>2, <2>3
<1>9. ASSUME NEW i \in 1 .. n
      PROVE  \E k \in 1 .. n : at[k] = i
  <2>1. PICK k \in 1 .. n : PlaceIn(keys, key[i]) = k
    BY <1>3
  <2>2. at[k] \in 1 .. n /\ PlaceIn(keys, key[at[k]]) = k
    BY <1>5
  <2>3. key[i] \in Nat /\ key[at[k]] \in Nat
    BY <2>2
  <2>4. key[i] = key[at[k]]
    BY <1>4, <2>1, <2>2, <2>3
  <2> QED BY <2>2, <2>4
<1> QED BY <1>6, <1>7, <1>8, <1>9 DEF IsSorting, T

-----------------------------------------------------------------------------
(* The settings of one client.                                             *)

(* A patch on top of nothing, or nothing on top of a patch.                *)
LEMMA PatchOfNothing ==
  ASSUME NEW config, NEW patch
  PROVE  Patched(Patched(config, patch), NoPatch) = Patched(config, patch)
BY DEF Patched, NoPatch

(* The fields of a patched configuration are still all of them, and typed. *)
LEMMA PatchIsTyped ==
  ASSUME NEW config, NEW patch, Fields(config), IsPatch(patch, config)
  PROVE  Fields(Patched(config, patch)) /\ DOMAIN Patched(config, patch) = DOMAIN config
BY DEF Patched, Fields, IsPatch

(* Patching one after the other is taking the highest layer that states a  *)
(* field.                                                                  *)
LEMMA HighestOfThree ==
  ASSUME NEW a, NEW b, NEW c,
         DOMAIN b \subseteq DOMAIN a, DOMAIN c \subseteq DOMAIN a
  PROVE  Highest(<<a, b, c>>) = Patched(Patched(a, b), c)
<1> DEFINE layers == <<a, b, c>>
           stated(f) == {i \in DOMAIN layers : f \in DOMAIN layers[i]}
           top(f) == CHOOSE i \in stated(f) : \A j \in stated(f) : j <= i
<1>1. /\ DOMAIN layers = 1 .. 3
      /\ layers[1] = a /\ layers[2] = b /\ layers[3] = c
  OBVIOUS
<1>2. ASSUME NEW f, NEW i \in stated(f), \A j \in stated(f) : j <= i
      PROVE  top(f) = i
  <2>1. \A j \in stated(f) : j \in 1 .. 3
    BY <1>1
  <2>2. top(f) \in stated(f) /\ \A j \in stated(f) : j <= top(f)
    BY <1>2
  <2> HIDE DEF stated, top
  <2> QED BY <1>2, <2>1, <2>2
<1>3. \A f : \A i \in 1 .. 3 : i \in stated(f) <=> f \in DOMAIN layers[i]
  BY <1>1
<1>4. \A f : \A i \in stated(f) : i \in 1 .. 3
  BY <1>1
<1>5. Highest(layers) = [f \in DOMAIN a |-> layers[top(f)][f]]
  BY <1>1 DEF Highest
<1> HIDE DEF stated, top, layers
<1>6. ASSUME NEW f \in DOMAIN a
      PROVE  layers[top(f)][f] = Patched(Patched(a, b), c)[f]
  <2>1. CASE f \in DOMAIN c
    <3>1. top(f) = 3
      BY <1>1, <1>2, <1>3, <1>4, <2>1
    <3> QED BY <1>1, <2>1, <3>1 DEF Patched
  <2>2. CASE f \notin DOMAIN c /\ f \in DOMAIN b
    <3>1. top(f) = 2
      BY <1>1, <1>2, <1>3, <1>4, <2>2
    <3> QED BY <1>1, <2>2, <3>1 DEF Patched
  <2>3. CASE f \notin DOMAIN c /\ f \notin DOMAIN b
    <3>1. top(f) = 1
      BY <1>1, <1>2, <1>3, <1>4, <1>6, <2>3
    <3> QED BY <1>1, <1>6, <2>3, <3>1 DEF Patched
  <2> QED BY <2>1, <2>2, <2>3
<1>7. Patched(Patched(a, b), c) = [f \in DOMAIN a |-> Patched(Patched(a, b), c)[f]]
  BY DEF Patched
<1> QED BY <1>5, <1>6, <1>7 DEF layers

(* The highest of five layers, one patch over the other.                   *)
LEMMA HighestOfFive ==
  ASSUME NEW a, NEW b, NEW c, NEW d, NEW e,
         DOMAIN b \subseteq DOMAIN a, DOMAIN c \subseteq DOMAIN a,
         DOMAIN d \subseteq DOMAIN a, DOMAIN e \subseteq DOMAIN a
  PROVE  Highest(<<a, b, c, d, e>>) = Patched(Patched(Patched(Patched(a, b), c), d), e)
<1> DEFINE layers == <<a, b, c, d, e>>
           stated(f) == {i \in DOMAIN layers : f \in DOMAIN layers[i]}
           top(f) == CHOOSE i \in stated(f) : \A j \in stated(f) : j <= i
           patched == Patched(Patched(Patched(Patched(a, b), c), d), e)
<1>1. /\ DOMAIN layers = 1 .. 5
      /\ layers[1] = a /\ layers[2] = b /\ layers[3] = c /\ layers[4] = d /\ layers[5] = e
  OBVIOUS
<1>2. ASSUME NEW f, NEW i \in stated(f), \A j \in stated(f) : j <= i
      PROVE  top(f) = i
  <2>1. \A j \in stated(f) : j \in 1 .. 5
    BY <1>1
  <2>2. top(f) \in stated(f) /\ \A j \in stated(f) : j <= top(f)
    BY <1>2
  <2> HIDE DEF stated, top
  <2> QED BY <1>2, <2>1, <2>2
<1>3. \A f : \A i \in 1 .. 5 : i \in stated(f) <=> f \in DOMAIN layers[i]
  BY <1>1
<1>4. \A f : \A i \in stated(f) : i \in 1 .. 5
  BY <1>1
<1>5. Highest(layers) = [f \in DOMAIN a |-> layers[top(f)][f]]
  BY <1>1 DEF Highest
<1>6. /\ DOMAIN patched = DOMAIN a
      /\ patched = [f \in DOMAIN a |-> patched[f]]
      /\ \A f \in DOMAIN a :
           patched[f] = IF f \in DOMAIN e THEN e[f] ELSE IF f \in DOMAIN d THEN d[f]
                       ELSE IF f \in DOMAIN c THEN c[f] ELSE IF f \in DOMAIN b THEN b[f]
                       ELSE a[f]
  BY DEF Patched
<1> HIDE DEF stated, top, layers, patched
<1>7. ASSUME NEW f \in DOMAIN a
      PROVE  layers[top(f)][f] = patched[f]
  <2>1. CASE f \in DOMAIN e
    <3>1. top(f) = 5
      BY <1>1, <1>2, <1>3, <1>4, <2>1
    <3> QED BY <1>1, <1>6, <2>1, <3>1
  <2>2. CASE f \notin DOMAIN e /\ f \in DOMAIN d
    <3>1. top(f) = 4
      BY <1>1, <1>2, <1>3, <1>4, <2>2
    <3> QED BY <1>1, <1>6, <2>2, <3>1
  <2>3. CASE f \notin DOMAIN e /\ f \notin DOMAIN d /\ f \in DOMAIN c
    <3>1. top(f) = 3
      BY <1>1, <1>2, <1>3, <1>4, <2>3
    <3> QED BY <1>1, <1>6, <2>3, <3>1
  <2>4. CASE f \notin DOMAIN e /\ f \notin DOMAIN d /\ f \notin DOMAIN c /\ f \in DOMAIN b
    <3>1. top(f) = 2
      BY <1>1, <1>2, <1>3, <1>4, <2>4
    <3> QED BY <1>1, <1>6, <2>4, <3>1
  <2>5. CASE f \notin DOMAIN e /\ f \notin DOMAIN d /\ f \notin DOMAIN c /\ f \notin DOMAIN b
    <3>1. top(f) = 1
      BY <1>1, <1>2, <1>3, <1>4, <1>7, <2>5
    <3> QED BY <1>1, <1>6, <2>5, <3>1
  <2> QED BY <2>1, <2>2, <2>3, <2>4, <2>5
<1> QED BY <1>5, <1>6, <1>7 DEF layers, patched

(* The exceptions of a group, in any order but one for each client.        *)
OverridesAreDistinct(group) ==
  /\ IsSeq(group.overrides)
  /\ \A i \in DOMAIN group.overrides : group.overrides[i].index \in Nat
  /\ \A i, j \in DOMAIN group.overrides :
       group.overrides[i].index = group.overrides[j].index => i = j

(* The search of Client finds the exception of a client exactly if the     *)
(* scenario has one.                                                       *)
LEMMA ClientFindsItsOverride ==
  ASSUME NEW scenario, NEW group, OverridesAreDistinct(group), NEW index \in Nat
  PROVE  /\ \A o \in OwnOverrides(group, index) :
              LET resolved == ResolvedOverride(scenario, group, group.overrides[o])
              IN  Client(NormalizedGroup(scenario, group), index)
                    = [network |-> resolved.network, stream |-> resolved.stream]
         /\ OwnOverrides(group, index) = {} =>
              Client(NormalizedGroup(scenario, group), index)
                = [network |-> GroupNetwork(scenario, group),
                   stream |-> ResolvedStream(GroupStream(scenario, group))]
<1> DEFINE list == group.overrides
           Resolved(o) == ResolvedOverride(scenario, group, o)
           s == [i \in DOMAIN list |-> Resolved(list[i])]
           key == [i \in DOMAIN list |-> list[i].index]
           T == SortedBy(s, key)
           G == NormalizedGroup(scenario, group)
           after == {k \in DOMAIN T : T[k].index >= index}
           first == CHOOSE k \in after : \A j \in after : k <= j
<1>1. PICK n \in Nat : DOMAIN list = 1 .. n
  BY DEF OverridesAreDistinct, IsSeq
<1>2. /\ DOMAIN s = 1 .. n /\ key \in [1 .. n -> Nat]
      /\ \A i, j \in 1 .. n : key[i] = key[j] => i = j
  BY <1>1 DEF OverridesAreDistinct
<1>3. PICK at : IsSorting(T, s, n, key, at)
  <2> HIDE DEF s, key
  <2> QED BY <1>2, SortedByIsSorting
<1>4. /\ G.overrides = T /\ G.network = GroupNetwork(scenario, group)
      /\ G.stream = ResolvedStream(GroupStream(scenario, group))
  <2>1. s = [i \in DOMAIN group.overrides |-> ResolvedOverride(scenario, group, group.overrides[i])]
    OBVIOUS
  <2> QED BY <2>1 DEF NormalizedGroup
<1>5. \A o : Resolved(o).index = o.index
  BY DEF ResolvedOverride
<1>6. /\ DOMAIN T = 1 .. n /\ at \in [1 .. n -> 1 .. n]
      /\ \A k \in 1 .. n : T[k] = Resolved(list[at[k]]) /\ T[k].index = key[at[k]]
      /\ \A k, l \in 1 .. n : k < l => T[k].index < T[l].index
      /\ \A i \in 1 .. n : \E k \in 1 .. n : at[k] = i
  <2>1. \A i \in 1 .. n : s[i] = Resolved(list[i]) /\ s[i].index = key[i]
    BY <1>1, <1>5
  <2> HIDE DEF T, s, key
  <2>2. /\ DOMAIN T = 1 .. n /\ at \in [1 .. n -> 1 .. n]
        /\ \A k \in 1 .. n : T[k] = s[at[k]]
        /\ \A k, l \in 1 .. n : k < l => key[at[k]] < key[at[l]]
        /\ \A i \in 1 .. n : \E k \in 1 .. n : at[k] = i
    BY <1>3 DEF IsSorting
  <2>3. \A k \in 1 .. n : at[k] \in 1 .. n
    BY <2>2
  <2> HIDE DEF Resolved
  <2>4. \A k \in 1 .. n : T[k] = Resolved(list[at[k]]) /\ T[k].index = key[at[k]]
    BY <2>1, <2>2, <2>3
  <2> QED BY <2>2, <2>4
<1>7. \A k \in 1 .. n : T[k].index \in Nat
  <2> HIDE DEF T, s, key, Resolved
  <2> TAKE k \in 1 .. n
  <2>1. at[k] \in 1 .. n
    BY <1>6
  <2>2. T[k].index = key[at[k]]
    BY <1>6
  <2>3. key[at[k]] \in Nat
    BY <1>2, <2>1
  <2> QED BY <2>2, <2>3
<1>8. \A i \in 1 .. n : key[i] = list[i].index
  BY <1>1
<1>9. Client(G, index) =
        IF after # {} /\ T[first].index = index
        THEN [network |-> T[first].network, stream |-> T[first].stream]
        ELSE [network |-> GroupNetwork(scenario, group),
              stream |-> ResolvedStream(GroupStream(scenario, group))]
  <2> HIDE DEF T, G
  <2> QED BY <1>4 DEF Client
<1> HIDE DEF T, s, G
<1>10. ASSUME NEW o \in OwnOverrides(group, index)
       PROVE  Client(G, index) = [network |-> Resolved(list[o]).network,
                                  stream |-> Resolved(list[o]).stream]
  <2>1. o \in 1 .. n /\ key[o] = index
    BY <1>1, <1>8, <1>10 DEF OwnOverrides
  <2>2. PICK k \in 1 .. n : at[k] = o
    BY <1>6, <2>1
  <2>3. T[k].index = index /\ T[k] = Resolved(list[o])
    BY <1>6, <2>1, <2>2
  <2>4. k \in after
    <3>1. k \in DOMAIN T
      BY <1>6
    <3>2. T[k].index >= index
      BY <2>3
    <3> HIDE DEF T
    <3> QED BY <3>1, <3>2
  <2>5. \A j \in after : k <= j
    <3> SUFFICES ASSUME NEW j \in after, ~(k <= j) PROVE FALSE
      OBVIOUS
    <3>1. j \in 1 .. n /\ T[j].index >= index
      BY <1>6
    <3>2. j < k
      BY <3>1
    <3>3. T[j].index < T[k].index
      BY <1>6, <3>1, <3>2
    <3> QED BY <1>7, <2>3, <3>1, <3>3
  <2>6. first = k
    <3>1. \A j \in after : j \in 1 .. n
      BY <1>6
    <3>2. first \in after /\ \A j \in after : first <= j
      BY <2>4, <2>5
    <3> HIDE DEF first, after
    <3> QED BY <2>4, <2>5, <3>1, <3>2
  <2> HIDE DEF first, after, Resolved, key
  <2> QED BY <1>9, <2>3, <2>4, <2>6
<1>11. ASSUME OwnOverrides(group, index) = {}
       PROVE  ~(after # {} /\ T[first].index = index)
  <2> SUFFICES ASSUME after # {} PROVE T[first].index # index
    OBVIOUS
  <2>1. \E k \in after : \A j \in after : k <= j
    <3>1. after \subseteq Nat /\ \A k, j \in Nat : k <= j \/ j < k
      BY <1>6
    <3>2. PICK k \in after : \A j \in after : ~(j < k)
      <4>1. IsWellFoundedOn(OpToRel(<, Nat), Nat)
        BY NatLessThanWellFounded
      <4>2. PICK k \in after : \A j \in after : ~(<<j, k>> \in OpToRel(<, Nat))
        <5> HIDE DEF after
        <5> QED BY <3>1, <4>1, WFMin
      <4> QED BY <3>1, <4>2 DEF OpToRel
    <3> HIDE DEF after
    <3> QED BY <3>1, <3>2
  <2>2. first \in after
    <3> HIDE DEF after
    <3> QED BY <2>1
  <2>3. first \in 1 .. n
    BY <1>6, <2>2
  <2>4. at[first] \in 1 .. n /\ T[first].index = list[at[first]].index
    <3> HIDE DEF first, key
    <3> QED BY <1>6, <1>8, <2>3
  <2> HIDE DEF first
  <2> QED BY <1>1, <1>11, <2>4 DEF OwnOverrides
<1> HIDE DEF after, first
<1>12. OwnOverrides(group, index) = {} =>
         Client(G, index) = [network |-> GroupNetwork(scenario, group),
                             stream |-> ResolvedStream(GroupStream(scenario, group))]
  BY <1>9, <1>11
<1> QED BY <1>10, <1>12 DEF G

(* A patch may state nothing.                                              *)
LEMMA NothingIsStated == DOMAIN NoPatch = {}
BY DEF NoPatch

(* A profile that is named by a valid network is a patch of the link.      *)
LEMMA ProfileIsPatch ==
  ASSUME NEW scenario, ScenarioIsTyped(scenario), NEW network,
         network.profile \in {""} \cup DOMAIN Profiles(scenario)
  PROVE  IsPatch(ProfileOf(scenario, network), scenario.link)
<1>1. CASE network.profile = ""
  <2>1. ProfileOf(scenario, network) = NoPatch
    BY <1>1 DEF ProfileOf
  <2> QED BY <2>1, NothingIsStated DEF IsPatch, Fields
<1>2. CASE network.profile # ""
  <2> DEFINE id == network.profile
             i == CHOOSE k \in DOMAIN scenario.profiles : scenario.profiles[k].id = id
  <2>1. \E k \in DOMAIN scenario.profiles : scenario.profiles[k].id = id
    BY <1>2 DEF Profiles
  <2>2. i \in DOMAIN scenario.profiles
    BY <2>1
  <2>3. ProfileOf(scenario, network) = scenario.profiles[i].config
    BY <1>2, <2>1 DEF ProfileOf, Profiles
  <2>4. IsPatch(scenario.profiles[i].config, scenario.link)
    <3> HIDE DEF i
    <3> QED BY <2>2 DEF ScenarioIsTyped
  <2> HIDE DEF i
  <2> QED BY <2>3, <2>4
<1> QED BY <1>1, <1>2

(* The layers of a link, resolved one by one.                              *)
LEMMA NetworkIsExpected ==
  ASSUME NEW scenario, ScenarioIsTyped(scenario),
         NEW group, NEW own, NEW way \in Ways,
         IsNetwork(group.network, scenario.link), IsNetwork(own.network, scenario.link),
         group.network.profile \in {""} \cup DOMAIN Profiles(scenario),
         own.network.profile \in {""} \cup DOMAIN Profiles(scenario)
  PROVE  ResolvedNetwork(GroupNetwork(scenario, group), own.network, Profiles(scenario))[way]
           = ExpectedLink(scenario, group, own, way)
<1> DEFINE a == scenario.link
           b == ProfileOf(scenario, group.network)
           c == group.network[way]
           d == ProfileOf(scenario, own.network)
           e == own.network[way]
<1>1. /\ DOMAIN b \subseteq DOMAIN a /\ DOMAIN c \subseteq DOMAIN a
      /\ DOMAIN d \subseteq DOMAIN a /\ DOMAIN e \subseteq DOMAIN a
  BY ProfileIsPatch DEF IsNetwork, IsPatch
<1>2. ResolvedNetwork(GroupNetwork(scenario, group), own.network, Profiles(scenario))[way]
        = Patched(Patched(GroupNetwork(scenario, group)[way], d), e)
  BY DEF ResolvedNetwork, ProfileOf
<1>3. GroupNetwork(scenario, group)[way] = Patched(Patched(a, b), c)
  BY DEF GroupNetwork, ResolvedNetwork, ProfileOf, Uniform
<1>4. ExpectedLink(scenario, group, own, way) = Highest(<<a, b, c, d, e>>)
  BY DEF ExpectedLink
<1>5. Highest(<<a, b, c, d, e>>) = Patched(Patched(Patched(Patched(a, b), c), d), e)
  <2> HIDE DEF a, b, c, d, e
  <2> QED BY ONLY <1>1, HighestOfFive
<1> HIDE DEF a, b, c, d, e
<1> QED BY <1>2, <1>3, <1>4, <1>5

(* Streams: bytes that are stated, or those of the packets.                *)
StreamLayers(scenario, group, own) ==
  Patched(Patched(scenario.stream, group.stream), own.stream)

ExpectedStream(stream) ==
  [stream EXCEPT !.bytes = IF @ >= 0 THEN @ ELSE PayloadUnit * stream.packets]

(* The stream of a client, with the bytes its packets make.                *)
LEMMA StreamIsExpected ==
  ASSUME NEW stream, DOMAIN stream = {"packets", "bytes", "gap"}, Fields(stream),
         StreamIsValid(stream)
  PROVE  /\ ResolvedStream(stream) = ExpectedStream(stream)
         /\ ResolvedStream(stream).bytes \in 0 .. MaxInt - HeaderBytes
<1> USE SettingsAssumption
<1>1. /\ stream.packets \in Int /\ stream.bytes \in Int
      /\ stream.packets >= 0 /\ stream.bytes >= -1
      /\ ResolvedStream(stream).bytes <= MaxInt - HeaderBytes
  BY DEF Fields, StreamIsValid
<1>2. stream.packets * PayloadUnit = PayloadUnit * stream.packets
  BY <1>1
<1>3. (IF stream.bytes = -1 THEN stream.packets * PayloadUnit ELSE stream.bytes)
        = IF stream.bytes >= 0 THEN stream.bytes ELSE PayloadUnit * stream.packets
  BY <1>1, <1>2
<1>4. ResolvedStream(stream) = ExpectedStream(stream)
  BY <1>3 DEF ResolvedStream, ExpectedStream
<1>5. ResolvedStream(stream).bytes
        = IF stream.bytes = -1 THEN stream.packets * PayloadUnit ELSE stream.bytes
  BY DEF ResolvedStream
<1>6. stream.packets * PayloadUnit \in Nat
  BY <1>1
<1>7. ResolvedStream(stream).bytes \in Nat
  <2> HIDE DEF ResolvedStream
  <2> QED BY <1>1, <1>5, <1>6
<1> HIDE DEF ResolvedStream
<1>8. MaxInt - HeaderBytes \in Int
  OBVIOUS
<1>9. ResolvedStream(stream).bytes \in 0 .. MaxInt - HeaderBytes
  BY <1>1, <1>7, <1>8
<1> QED BY <1>4, <1>9

(* What Client returns for one index of an accepted group.                 *)
ClientIsSound(scenario, group, index) ==
  LET client == Client(NormalizedGroup(scenario, group), index)
  IN  /\ client = ExpectedClient(scenario, group, index)
      /\ \A way \in Ways : ValidLink(client.network[way])
      /\ client.stream.bytes \in 0 .. MaxInt - HeaderBytes

(* The layers of a client, when its exception states own or nothing.       *)
LEMMA LayersAreSound ==
  ASSUME NEW scenario, ScenarioIsTyped(scenario), NEW group, NEW own, NEW client,
         NEW index, GroupIsTyped(scenario, group),
         NetworkIsValid(Uniform(scenario.link), group.network, Profiles(scenario)),
         IsNetwork(own.network, scenario.link), IsPatch(own.stream, scenario.stream),
         NetworkIsValid(GroupNetwork(scenario, group), own.network, Profiles(scenario)),
         StreamIsValid(StreamLayers(scenario, group, own)),
         own = OwnOverride(group, index),
         client = [network |-> ResolvedNetwork(GroupNetwork(scenario, group), own.network,
                                               Profiles(scenario)),
                   stream |-> ResolvedStream(StreamLayers(scenario, group, own))]
  PROVE  /\ client = ExpectedClient(scenario, group, index)
         /\ \A way \in Ways : ValidLink(client.network[way])
         /\ client.stream.bytes \in 0 .. MaxInt - HeaderBytes
<1> DEFINE network == ResolvedNetwork(GroupNetwork(scenario, group), own.network,
                                      Profiles(scenario))
           stream == StreamLayers(scenario, group, own)
<1>1. /\ group.network.profile \in {""} \cup DOMAIN Profiles(scenario)
      /\ own.network.profile \in {""} \cup DOMAIN Profiles(scenario)
      /\ \A way \in Ways : ValidLink(network[way])
  BY DEF NetworkIsValid
<1>2. network = [way \in Ways |-> ExpectedLink(scenario, group, own, way)]
  <2>1. network = [way \in Ways |-> network[way]]
    BY DEF ResolvedNetwork
  <2>2. \A way \in Ways : network[way] = ExpectedLink(scenario, group, own, way)
    BY <1>1, NetworkIsExpected DEF GroupIsTyped
  <2> HIDE DEF network
  <2> QED BY <2>1, <2>2
<1>3. DOMAIN stream = {"packets", "bytes", "gap"} /\ Fields(stream)
  <2>1. /\ IsPatch(group.stream, scenario.stream) /\ Fields(scenario.stream)
        /\ DOMAIN scenario.stream = {"packets", "bytes", "gap"}
    BY DEF GroupIsTyped, ScenarioIsTyped
  <2>2. /\ Fields(Patched(scenario.stream, group.stream))
        /\ DOMAIN Patched(scenario.stream, group.stream) = DOMAIN scenario.stream
    BY <2>1, PatchIsTyped
  <2>3. IsPatch(own.stream, Patched(scenario.stream, group.stream))
    BY <2>2 DEF IsPatch
  <2> QED BY <2>1, <2>2, <2>3, PatchIsTyped DEF StreamLayers
<1>4. /\ ResolvedStream(stream) = ExpectedStream(stream)
      /\ ResolvedStream(stream).bytes \in 0 .. MaxInt - HeaderBytes
  <2>1. StreamIsValid(stream)
    OBVIOUS
  <2> HIDE DEF stream
  <2> QED BY <1>3, <2>1, StreamIsExpected
<1>5. Highest(<<scenario.stream, group.stream, own.stream>>) = stream
  <2>1. DOMAIN group.stream \subseteq DOMAIN scenario.stream
    BY DEF GroupIsTyped, IsPatch
  <2>2. DOMAIN own.stream \subseteq DOMAIN scenario.stream
    BY DEF IsPatch
  <2> QED BY <2>1, <2>2, HighestOfThree DEF StreamLayers
<1>6. ExpectedClient(scenario, group, index)
        = [network |-> [way \in Ways |-> ExpectedLink(scenario, group, own, way)],
           stream |-> ExpectedStream(stream)]
  <2> HIDE DEF stream
  <2> QED BY <1>5 DEF ExpectedClient, ExpectedStream
<1>7. client.network = network /\ client.stream = ResolvedStream(stream)
  OBVIOUS
<1> HIDE DEF network, stream
<1> QED BY <1>1, <1>2, <1>4, <1>6, <1>7

(* The exception of a client that has none states nothing.                 *)
LEMMA NothingIsOverridden ==
  /\ NoOverride.network.profile = "" /\ NoOverride.stream = NoPatch
  /\ \A way \in Ways : NoOverride.network[way] = NoPatch
<1>1. NoOverride.network.profile = ""
  BY DEF NoOverride
<1>2. NoOverride.stream = NoPatch
  BY DEF NoOverride
<1>3. NoOverride.network["toLoadBalancer"] = NoPatch
  BY DEF NoOverride
<1>4. NoOverride.network["fromLoadBalancer"] = NoPatch
  BY DEF NoOverride
<1> QED BY <1>1, <1>2, <1>3, <1>4 DEF Ways

(* Every client of an accepted group has the settings of the most specific *)
(* layer that states them.                                                 *)
LEMMA AcceptedClientsAreSound ==
  ASSUME NEW scenario, ScenarioIsTyped(scenario), NEW group,
         GroupIsTyped(scenario, group), GroupIsValid(scenario, group), NEW index \in Nat
  PROVE  ClientIsSound(scenario, group, index)
<1> DEFINE client == Client(NormalizedGroup(scenario, group), index)
<1>1. /\ NetworkIsValid(Uniform(scenario.link), group.network, Profiles(scenario))
      /\ StreamIsValid(GroupStream(scenario, group))
  BY DEF GroupIsValid
<1>2. OverridesAreDistinct(group)
  <2>1. /\ \A i \in DOMAIN group.overrides :
             /\ group.overrides[i].index \in Int
             /\ group.overrides[i].index \in 0 .. group.count - 1
    BY DEF GroupIsTyped, GroupIsValid
  <2>2. \A i, j \in DOMAIN group.overrides :
          group.overrides[i].index = group.overrides[j].index => i = j
    BY DEF GroupIsValid, Distinct
  <2>3. \A i \in DOMAIN group.overrides : group.overrides[i].index \in Nat
    BY <2>1 DEF GroupIsTyped
  <2> QED BY <2>2, <2>3 DEF OverridesAreDistinct, GroupIsTyped
<1>3. CASE OwnOverrides(group, index) # {}
  <2> DEFINE o == CHOOSE i \in OwnOverrides(group, index) : TRUE
             own == group.overrides[o]
             resolved == ResolvedOverride(scenario, group, own)
  <2>1. o \in OwnOverrides(group, index) /\ o \in DOMAIN group.overrides
    BY <1>3 DEF OwnOverrides
  <2>2. own = OwnOverride(group, index)
    BY <1>3 DEF OwnOverride
  <2> HIDE DEF o
  <2>3. client = [network |-> resolved.network, stream |-> resolved.stream]
    BY <1>2, <2>1, ClientFindsItsOverride
  <2>4. /\ resolved.network = ResolvedNetwork(GroupNetwork(scenario, group), own.network,
                                               Profiles(scenario))
        /\ resolved.stream = ResolvedStream(StreamLayers(scenario, group, own))
    BY DEF ResolvedOverride, OverrideStream, GroupStream, StreamLayers
  <2>5. /\ IsNetwork(own.network, scenario.link) /\ IsPatch(own.stream, scenario.stream)
        /\ NetworkIsValid(GroupNetwork(scenario, group), own.network, Profiles(scenario))
    BY <2>1 DEF GroupIsTyped, GroupIsValid
  <2>6. StreamIsValid(StreamLayers(scenario, group, own))
    <3>1. StreamIsValid(Patched(GroupStream(scenario, group), own.stream))
      BY <2>1 DEF GroupIsValid
    <3> QED BY <3>1 DEF GroupStream, StreamLayers
  <2> HIDE DEF own, resolved, client
  <2>7. client = [network |-> ResolvedNetwork(GroupNetwork(scenario, group), own.network,
                                              Profiles(scenario)),
                  stream |-> ResolvedStream(StreamLayers(scenario, group, own))]
    BY <2>3, <2>4
  <2>8. /\ client = ExpectedClient(scenario, group, index)
        /\ \A way \in Ways : ValidLink(client.network[way])
        /\ client.stream.bytes \in 0 .. MaxInt - HeaderBytes
    BY <1>1, <2>2, <2>5, <2>6, <2>7, LayersAreSound
  <2> QED BY <2>8 DEF ClientIsSound, client
<1>4. CASE OwnOverrides(group, index) = {}
  <2> DEFINE own == NoOverride
  <2>1. client = [network |-> GroupNetwork(scenario, group),
                  stream |-> ResolvedStream(GroupStream(scenario, group))]
    BY <1>2, <1>4, ClientFindsItsOverride
  <2>2. own = OwnOverride(group, index)
    BY <1>4 DEF OwnOverride
  <2>3. /\ own.network.profile = "" /\ own.stream = NoPatch
        /\ \A way \in Ways : own.network[way] = NoPatch
    BY NothingIsOverridden
  <2> HIDE DEF own
  <2>4. ResolvedNetwork(GroupNetwork(scenario, group), own.network, Profiles(scenario))
          = GroupNetwork(scenario, group)
    <3>1. \A way \in Ways : \E config, patch :
            GroupNetwork(scenario, group)[way] = Patched(config, patch)
      BY DEF GroupNetwork, ResolvedNetwork
    <3>2. \A way \in Ways :
            Patched(Patched(GroupNetwork(scenario, group)[way], NoPatch), NoPatch)
              = GroupNetwork(scenario, group)[way]
      BY <3>1, PatchOfNothing
    <3>3. ResolvedNetwork(GroupNetwork(scenario, group), own.network, Profiles(scenario))
            = [way \in Ways |->
                 Patched(Patched(GroupNetwork(scenario, group)[way], NoPatch), NoPatch)]
      BY <2>3 DEF ResolvedNetwork
    <3>4. GroupNetwork(scenario, group)
            = [way \in Ways |-> GroupNetwork(scenario, group)[way]]
      BY DEF GroupNetwork, ResolvedNetwork
    <3> QED BY <3>2, <3>3, <3>4
  <2>5. StreamLayers(scenario, group, own) = GroupStream(scenario, group)
    BY <2>3, PatchOfNothing DEF StreamLayers, GroupStream
  <2>6. client = [network |-> ResolvedNetwork(GroupNetwork(scenario, group), own.network,
                                              Profiles(scenario)),
                  stream |-> ResolvedStream(StreamLayers(scenario, group, own))]
    BY <2>1, <2>4, <2>5
  <2>7. IsNetwork(own.network, scenario.link) /\ IsPatch(own.stream, scenario.stream)
    BY <2>3, NothingIsStated DEF IsNetwork, IsPatch, Fields
  <2>8. NetworkIsValid(GroupNetwork(scenario, group), own.network, Profiles(scenario))
    <3>1. \A way \in Ways : ValidLink(GroupNetwork(scenario, group)[way])
      BY <1>1 DEF NetworkIsValid, GroupNetwork
    <3> QED BY <2>3, <2>4, <3>1 DEF NetworkIsValid
  <2>9. StreamIsValid(StreamLayers(scenario, group, own))
    BY <1>1, <2>5
  <2> HIDE DEF client
  <2>10. /\ client = ExpectedClient(scenario, group, index)
         /\ \A way \in Ways : ValidLink(client.network[way])
         /\ client.stream.bytes \in 0 .. MaxInt - HeaderBytes
    BY <1>1, <2>2, <2>6, <2>7, <2>8, <2>9, LayersAreSound
  <2> QED BY <2>10 DEF ClientIsSound, client
<1> QED BY <1>3, <1>4

-----------------------------------------------------------------------------
(* Identities and the sum of clients.                                      *)

(* The clients of one group.                                               *)
LEMMA PartIsFinite ==
  ASSUME NEW i, NEW c \in Nat
  PROVE  /\ IsFiniteSet(1 .. c) /\ IsFiniteSet({i} \X (1 .. c))
         /\ Cardinality({i} \X (1 .. c)) = c
<1>1. IsFiniteSet(1 .. c) /\ Cardinality(1 .. c) = c
  BY FS_Interval
<1>2. IsFiniteSet({i}) /\ Cardinality({i}) = 1
  BY FS_Singleton
<1>3. IsFiniteSet({i} \X (1 .. c)) /\ Cardinality({i} \X (1 .. c)) = 1 * c
  BY <1>1, <1>2, FS_Product
<1>4. 1 * c = c
  OBVIOUS
<1> QED BY <1>1, <1>3, <1>4, Zenon

(* The clients of the first groups, one group after the other.             *)
LEMMA ClientsAreFinite ==
  ASSUME NEW groupsOf, NEW n \in Nat, \A i \in 1 .. n : groupsOf[i].count \in Nat,
         NEW k \in 0 .. n
  PROVE  IsFiniteSet(ClientsOf(groupsOf, 1 .. k)) /\ ClientsUpTo(groupsOf, k) \in Nat
<1> DEFINE part(i) == {i} \X (1 .. groupsOf[i].count)
           parts == {part(i) : i \in 1 .. k}
<1>1. \A i \in 1 .. k : IsFiniteSet(part(i))
  <2> TAKE i \in 1 .. k
  <2>1. PICK c \in Nat : c = groupsOf[i].count
    OBVIOUS
  <2>2. IsFiniteSet({i} \X (1 .. c))
    BY PartIsFinite
  <2> QED BY <2>1, <2>2
<1>2. ClientsOf(groupsOf, 1 .. k) = UNION parts
  BY DEF ClientsOf
<1>3. IsFiniteSet(parts)
  <2>1. [i \in 1 .. k |-> part(i)] \in Surjection(1 .. k, parts)
    BY DEF Surjection
  <2>2. IsFiniteSet(1 .. k)
    <3>1. PICK m \in Nat : m = k
      OBVIOUS
    <3> QED BY <3>1, FS_Interval
  <2> HIDE DEF parts, part
  <2> QED BY <2>1, <2>2, FS_Surjection
<1>4. \A P \in parts : IsFiniteSet(P)
  <2> HIDE DEF part
  <2> QED BY <1>1
<1> HIDE DEF parts, part
<1>5. IsFiniteSet(ClientsOf(groupsOf, 1 .. k))
  BY <1>2, <1>3, <1>4, FS_UNION
<1> QED BY <1>5, FS_CardinalityType DEF ClientsUpTo

(* With a group come its clients.                                          *)
LEMMA ClientsAddUp ==
  ASSUME NEW groupsOf, NEW n \in Nat, DOMAIN groupsOf = 1 .. n,
         \A i \in 1 .. n : groupsOf[i].count \in Nat, NEW k \in 1 .. n
  PROVE  /\ ClientsUpTo(groupsOf, k - 1) \in Nat
         /\ ClientsUpTo(groupsOf, k) = ClientsUpTo(groupsOf, k - 1) + groupsOf[k].count
<1> DEFINE part(i) == {i} \X (1 .. groupsOf[i].count)
           before == ClientsOf(groupsOf, 1 .. k - 1)
<1>1. IsFiniteSet(part(k)) /\ Cardinality(part(k)) = groupsOf[k].count
  <2>1. PICK c \in Nat : c = groupsOf[k].count
    OBVIOUS
  <2>2. IsFiniteSet({k} \X (1 .. c)) /\ Cardinality({k} \X (1 .. c)) = c
    BY PartIsFinite
  <2> QED BY <2>1, <2>2
<1>2. IsFiniteSet(before)
  <2>1. k - 1 \in 0 .. n
    OBVIOUS
  <2> HIDE DEF before
  <2> QED BY <2>1, ClientsAreFinite DEF before
<1>3. ClientsOf(groupsOf, 1 .. k) = before \cup part(k)
  <2>1. 1 .. k = (1 .. k - 1) \cup {k}
    OBVIOUS
  <2> QED BY <2>1 DEF ClientsOf
<1>4. before \cap part(k) = {}
  <2>1. \A x \in before : x[1] \in 1 .. k - 1
    BY DEF ClientsOf
  <2>2. \A x \in part(k) : x[1] = k
    OBVIOUS
  <2> HIDE DEF before, part
  <2> QED BY <2>1, <2>2
<1>5. Cardinality(before \cup part(k)) = Cardinality(before) + Cardinality(part(k))
  <2> HIDE DEF before, part
  <2>1. Cardinality(before \cup part(k))
          = Cardinality(before) + Cardinality(part(k)) - Cardinality(before \cap part(k))
    BY <1>1, <1>2, FS_Union
  <2>2. Cardinality(before) \in Nat /\ Cardinality(part(k)) \in Nat
    BY <1>1, <1>2, FS_CardinalityType
  <2>3. Cardinality(before \cap part(k)) = 0
    BY <1>4, FS_EmptySet
  <2> QED BY <2>1, <2>2, <2>3
<1>6. Cardinality(before) \in Nat
  BY <1>2, FS_CardinalityType
<1> HIDE DEF before, part
<1> QED BY <1>1, <1>3, <1>5, <1>6 DEF ClientsUpTo, before

(* The identities are a sequence without repetition, so that there are as  *)
(* many as their number says, and a group is accepted only while there are *)
(* addresses left for all its clients.                                     *)
LEMMA AcceptedIdentitiesAreDistinct ==
  ASSUME NEW scenario, ScenarioIsTyped(scenario), Accepted(scenario)
  PROVE  IdentitiesAreDistinct(scenario)
<1> USE SettingsAssumption
<1>1. Cardinality({IDs(scenario)[i] : i \in DOMAIN IDs(scenario)}) = Len(IDs(scenario))
  <2> DEFINE ids == IDs(scenario)
             named == {ids[i] : i \in DOMAIN ids}
  <2>1. PICK n \in Nat : n = Len(ids) /\ DOMAIN ids = 1 .. n
    <3> DEFINE x == [i \in DOMAIN scenario.backends |-> scenario.backends[i].id]
               y == [i \in DOMAIN scenario.groups |-> scenario.groups[i].id]
               S == {scenario.balancer} \cup {x[i] : i \in DOMAIN x} \cup {y[i] : i \in DOMAIN y}
    <3>1. x \in Seq(S) /\ y \in Seq(S) /\ <<scenario.balancer>> \in Seq(S)
      <4>1. PICK m \in Nat : DOMAIN scenario.backends = 1 .. m
        BY DEF ScenarioIsTyped, IsSeq
      <4>2. PICK k \in Nat : DOMAIN scenario.groups = 1 .. k
        BY DEF ScenarioIsTyped, IsSeq
      <4>3. x \in [1 .. m -> S]
        BY <4>1
      <4>4. y \in [1 .. k -> S]
        BY <4>2
      <4> HIDE DEF x, y
      <4>5. <<scenario.balancer>> \in Seq(S)
        OBVIOUS
      <4> HIDE DEF S
      <4> QED BY <4>3, <4>4, <4>5, SeqDef
    <3>2. ids = (<<scenario.balancer>> \o x) \o y
      BY DEF IDs
    <3> HIDE DEF ids, x, y, S
    <3>3. <<scenario.balancer>> \o x \in Seq(S)
      BY <3>1
    <3>4. ids \in Seq(S)
      BY <3>1, <3>2, <3>3
    <3> QED BY <3>4
  <2>2. \A i, j \in DOMAIN ids : ids[i] = ids[j] => i = j
    BY DEF Accepted, Distinct
  <2> DEFINE f == [i \in 1 .. n |-> ids[i]]
  <2>3. f \in Bijection(1 .. n, named)
    <3>1. f \in [1 .. n -> named] /\ \A t \in named : \E i \in 1 .. n : f[i] = t
      BY <2>1
    <3>2. \A i, j \in 1 .. n : f[i] = f[j] => i = j
      BY <2>1, <2>2
    <3>3. DOMAIN f = 1 .. n
      OBVIOUS
    <3> HIDE DEF f, named
    <3> QED BY <3>1, <3>2, <3>3 DEF Bijection, Injection, Surjection, IsInjective
  <2>4. IsFiniteSet(1 .. n) /\ Cardinality(1 .. n) = n
    BY FS_Interval
  <2> HIDE DEF f, named
  <2>5. Cardinality(named) = n
    BY <2>3, <2>4, FS_Bijection DEF ExistsBijection
  <2> QED BY <2>1, <2>5 DEF named
<1>2. \A i, j \in DOMAIN scenario.backends :
        i # j => \/ scenario.backends[i].host # scenario.backends[j].host
                 \/ scenario.backends[i].port # scenario.backends[j].port
  <2> DEFINE list == scenario.backends
             ends == [i \in DOMAIN list |-> Endpoint(list[i])]
  <2>1. \A i, j \in DOMAIN list : ends[i] = ends[j] => i = j
    BY DEF Accepted, Distinct
  <2>2. \A i, j \in DOMAIN list :
          list[i].host = list[j].host /\ list[i].port = list[j].port => ends[i] = ends[j]
    BY DEF Endpoint
  <2> HIDE DEF ends
  <2> QED BY <2>1, <2>2
<1>3. Normalize(scenario).totalClients \in 0 .. MaxClients
  <2> DEFINE list == scenario.groups
  <2>1. PICK n \in Nat : n = Len(list) /\ DOMAIN list = 1 .. n
    BY DEF ScenarioIsTyped, IsSeq
  <2>2. Normalize(scenario).totalClients = ClientsUpTo(list, n)
    BY <2>1 DEF Normalize
  <2>3. \A i \in 1 .. n : list[i].count \in 0 .. MaxClients - ClientsUpTo(list, i - 1)
    BY <2>1 DEF Accepted
  <2>4. \A i \in 1 .. n : list[i].count \in Nat
    BY <2>1, <2>3 DEF ScenarioIsTyped, GroupIsTyped
  <2>5. CASE n = 0
    <3>1. ClientsOf(list, 1 .. n) = {}
      BY <2>5 DEF ClientsOf
    <3> QED BY <2>2, <3>1, FS_EmptySet DEF ClientsUpTo
  <2>6. CASE n # 0
    <3>1. n \in 1 .. n
      BY <2>6
    <3>2. /\ ClientsUpTo(list, n - 1) \in Nat
          /\ ClientsUpTo(list, n) = ClientsUpTo(list, n - 1) + list[n].count
      BY <2>1, <2>4, <3>1, ClientsAddUp
    <3>3. list[n].count \in 0 .. MaxClients - ClientsUpTo(list, n - 1) /\ list[n].count \in Nat
      BY <2>3, <2>4, <3>1
    <3> HIDE DEF list
    <3> QED BY <2>2, <3>2, <3>3
  <2> QED BY <2>5, <2>6
<1> QED BY <1>1, <1>2, <1>3 DEF IdentitiesAreDistinct

(* A scenario of the right types becomes sound settings, or none.          *)
LEMMA TypedScenariosAreSound ==
  ASSUME NEW scenario, ScenarioIsTyped(scenario)
  PROVE  Sound(scenario)
<1> SUFFICES ASSUME Normalize(scenario) # Rejected PROVE Sound(scenario)
  BY DEF Sound
<1>1. Accepted(scenario)
  BY DEF Normalize
<1>2. PartsCanRely(scenario)
  BY <1>1, AcceptedSettingsFit DEF ScenarioIsTyped
<1>3. IdentitiesAreDistinct(scenario)
  BY <1>1, AcceptedIdentitiesAreDistinct
<1>4. ClientsAreAsSpecified(scenario)
  <2> DEFINE list == scenario.groups
  <2>1. ASSUME NEW i \in DOMAIN list, NEW index \in 0 .. list[i].count - 1
        PROVE  ClientIsSound(scenario, list[i], index)
    <3>1. GroupIsTyped(scenario, list[i]) /\ GroupIsValid(scenario, list[i])
      BY <1>1, <2>1 DEF ScenarioIsTyped, Accepted
    <3>2. index \in Nat
      BY <2>1
    <3> HIDE DEF list
    <3> QED BY <3>1, <3>2, AcceptedClientsAreSound
  <2>2. \A i \in DOMAIN list : Normalize(scenario).groups[i] = NormalizedGroup(scenario, list[i])
    BY <1>1 DEF Normalize
  <2>3. \A i \in DOMAIN list : \A index \in 0 .. list[i].count - 1 :
          LET client == Client(Normalize(scenario).groups[i], index)
          IN  /\ client = ExpectedClient(scenario, list[i], index)
              /\ \A way \in Ways : ValidLink(client.network[way])
              /\ client.stream.bytes \in 0 .. MaxInt - HeaderBytes
    BY <2>1, <2>2 DEF ClientIsSound
  <2> QED BY <2>3 DEF ClientsAreAsSpecified
<1> QED BY <1>2, <1>3, <1>4 DEF Sound

InputIsGiven == input \in Inputs

(* Whatever scenario is given, of any number of groups, exceptions and     *)
(* profiles: if Normalize accepts it, every client has the settings of the *)
(* most specific layer that states them, the parts can rely on what they   *)
(* assume, and no two parts have one identity (normalize.go:14-506).       *)
THEOREM ScenariosBecomeSettings == WorldSpec => []SettingsAreSound
<1>1. WorldInit => InputIsGiven
  BY DEF WorldInit, InputIsGiven
<1>2. InputIsGiven /\ [WorldNext]_worldVars => InputIsGiven'
  BY DEF InputIsGiven, WorldNext, worldVars, StartGroup, Ask, Transmit, RunWorld, Arrive,
     SpawnClients, Return, Continue, RunCallback, Advance, Snapshot, StopWorld, Late
<1>3. InputIsGiven => SettingsAreSound
  BY WorldAssumption, TypedScenariosAreSound DEF InputIsGiven, SettingsAreSound
<1> QED BY <1>1, <1>2, <1>3, PTL DEF WorldSpec

-----------------------------------------------------------------------------
(* The workload: addresses and arrivals.                                   *)

(* The groups in the scenario, their first addresses, and their clients.   *)
Given(i) == input.groups[i]
Base(i) == AddressBase(Normalize(input).groups, i)
Total == ClientsUpTo(input.groups, Len(input.groups))
Ran == Accepted(input) /\ input \in Played /\ input \in Inputs

(* A world that runs has the groups of its scenario; one that was stopped  *)
(* has none.                                                               *)
GroupsFollow ==
  /\ groups # << >> =>
       /\ Ran /\ ~stopped /\ Total <= scheduledClients
       /\ DOMAIN groups = DOMAIN input.groups
       /\ \A i \in DOMAIN groups :
            /\ groups[i].config = NormalizedGroup(input, Given(i))
            /\ groups[i].base = Base(i)
            /\ groups[i].next \in Nat /\ groups[i].next >= Given(i).count
  /\ groups = << >> => unstarted = {} /\ arrivals = {} /\ commands = {}
  /\ unstarted # {} => pc = "idle" /\ result = "none"
  /\ scheduledClients \in 0 .. MaxClients

(* The first batch of a group has its share of the addresses; those of     *)
(* commands lie beyond them, and have indices the group did not have.      *)
IsFirstBatch(b) ==
  /\ b.group \notin unstarted
  /\ b = [group |-> b.group, first |-> 0, count |-> Given(b.group).count,
          address |-> Base(b.group), startAt |-> Given(b.group).startAt]

IsSpawned(b) == b.first >= Given(b.group).count /\ b.address > Total

BatchIsTyped(b) ==
  /\ b.group \in DOMAIN input.groups /\ b.first \in Nat /\ b.count \in Nat \ {0}
  /\ b.address \in Nat \ {0} /\ b.startAt \in 0 .. MaxDuration

BatchIsSound(b) == Ran /\ BatchIsTyped(b) /\ (IsFirstBatch(b) \/ IsSpawned(b))

Apart(b, c) == b.address + b.count <= c.address \/ c.address + c.count <= b.address

BatchesFollow ==
  /\ \A b \in batches : BatchIsSound(b) /\ b.address + b.count - 1 <= scheduledClients
  /\ \A b, c \in batches : b # c => Apart(b, c)

(* Each arrival has its event: pending at the planned time, or running.    *)
Indices(b) == b.first .. b.first + b.count - 1

AddressOf(b, index) == b.address + index - b.first

HasEvent(a) ==
  \/ \E e \in pending : e.id = a.id /\ e.at = PlannedAt(a.batch, a.index)
  \/ pc = "callback" /\ last.id = a.id /\ now = PlannedAt(a.batch, a.index)

ArrivalsFollow ==
  /\ last.id \in ran \cup {0}
  /\ \A a \in arrivals :
       /\ a.batch \in batches /\ a.index \in Indices(a.batch)
       /\ HasEvent(a)
  /\ \A a, b \in arrivals : a.id = b.id \/ a.batch = b.batch => a = b
  /\ pc = "idle" /\ result = "reached" =>
       \A a \in arrivals : PlannedAt(a.batch, a.index) > now

(* A client was created at its time, and is of one batch.                  *)
Follows(client, b) ==
  /\ client.group = b.group /\ client.index \in Indices(b)
  /\ client.at = PlannedAt(b, client.index) /\ client.at <= now
  /\ client.address = AddressOf(b, client.index)
  /\ client.settings = ExpectedClient(input, Given(b.group), client.index)

(* The addresses an arrival still has to give.                             *)
IsAhead(address, a) ==
  AddressOf(a.batch, a.index) <= address /\ address < a.batch.address + a.batch.count

IsCreated(b, index) ==
  \E i \in DOMAIN clients : clients[i].group = b.group /\ clients[i].index = index

ClientsFollow ==
  /\ clients \in Seq({clients[i] : i \in DOMAIN clients})
  /\ \A i \in DOMAIN clients : \E b \in batches : Follows(clients[i], b)
  /\ \A i, j \in DOMAIN clients : clients[i].address = clients[j].address => i = j
  /\ \A a \in arrivals : \A i \in DOMAIN clients : ~IsAhead(clients[i].address, a)

(* No client of a batch is forgotten.                                      *)
NoneIsForgotten ==
  ~stopped => \A b \in batches : \A index \in Indices(b) :
    \/ IsCreated(b, index)
    \/ \E a \in arrivals : a.batch = b /\ index >= a.index
    \/ PlannedAt(b, index) > EndTime

WorkloadInv ==
  GroupsFollow /\ BatchesFollow /\ ArrivalsFollow /\ ClientsFollow /\ NoneIsForgotten

-----------------------------------------------------------------------------
(* The addresses New gives the groups.                                     *)

(* Ranges in the order of the names, one after the other, for all clients. *)
AddressesAreShared ==
  /\ Total \in 0 .. MaxClients
  /\ \A i \in DOMAIN input.groups :
       /\ Given(i).count \in Nat
       /\ Base(i) \in Nat \ {0} /\ Base(i) + Given(i).count - 1 <= Total
       /\ Base(i) = 1 + Cardinality(ClientsOf(input.groups,
            {j \in DOMAIN input.groups : Rank(Given(j).id) < Rank(Given(i).id)}))
  /\ \A i, j \in DOMAIN input.groups :
       i # j => \/ Base(i) + Given(i).count <= Base(j)
                \/ Base(j) + Given(j).count <= Base(i)

(* The first k of n groups in another order are groups I of the list.      *)
IsReordering(list, ordered, n, at, k, I) ==
  /\ \A i \in 1 .. n : list[i].count \in Nat
  /\ at \in [1 .. n -> 1 .. n]
  /\ \A i, j \in 1 .. n : at[i] = at[j] => i = j
  /\ \A i \in 1 .. n : ordered[i].count = list[at[i]].count
  /\ k \in 0 .. n
  /\ I = {at[l] : l \in 1 .. k}

(* Sorted groups have the clients they had in the file.                    *)
LEMMA SortingKeepsClients ==
  ASSUME NEW list, NEW ordered, NEW n \in Nat, NEW at, NEW k, NEW I,
         IsReordering(list, ordered, n, at, k, I)
  PROVE  ClientsUpTo(ordered, k) = Cardinality(ClientsOf(list, I))
<1>0. /\ \A i \in 1 .. n : list[i].count \in Nat
      /\ at \in [1 .. n -> 1 .. n]
      /\ \A i, j \in 1 .. n : at[i] = at[j] => i = j
      /\ \A i \in 1 .. n : ordered[i].count = list[at[i]].count
      /\ k \in 0 .. n
      /\ \A i : i \in I <=> \E l \in 1 .. k : i = at[l]
  BY DEF IsReordering
<1> DEFINE S == ClientsOf(ordered, 1 .. k)
           T == ClientsOf(list, I)
           f == [c \in S |-> <<at[c[1]], c[2]>>]
<1>1. \A i \in 1 .. n : ordered[i].count \in Nat
  BY <1>0
<1>2. IsFiniteSet(S)
  BY <1>0, <1>1, ClientsAreFinite
<1>3. \A c \in S : c = <<c[1], c[2]>> /\ c[1] \in 1 .. k /\ c[2] \in 1 .. ordered[c[1]].count
  BY DEF ClientsOf
<1>4. \A c : c \in T <=> \E l \in 1 .. k : c \in {at[l]} \X (1 .. list[at[l]].count)
  <2> DEFINE P(i) == {i} \X (1 .. list[i].count)
  <2>1. \A c : c \in T <=> \E i \in I : c \in P(i)
    BY DEF ClientsOf
  <2> HIDE DEF T, P
  <2>2. \A c : c \in T <=> \E l \in 1 .. k : c \in P(at[l])
    BY <1>0, <2>1
  <2> QED BY <2>2 DEF P
<1>5. \A l \in 1 .. k : \A m : m \in 1 .. ordered[l].count => <<l, m>> \in S
  <2>1. \A l \in 1 .. k : {l} \X (1 .. ordered[l].count) \subseteq S
    BY DEF ClientsOf
  <2>2. \A l, m, c : m \in 1 .. c => <<l, m>> \in {l} \X (1 .. c)
    OBVIOUS
  <2> HIDE DEF S
  <2> QED BY <2>1, <2>2
<1>6. ASSUME NEW c \in S
      PROVE  f[c] \in T
  <2>1. /\ c[1] \in 1 .. k /\ c[2] \in 1 .. list[at[c[1]]].count
    BY <1>0, <1>3
  <2>2. <<at[c[1]], c[2]>> \in {at[c[1]]} \X (1 .. list[at[c[1]]].count)
    BY <2>1
  <2> HIDE DEF S, T
  <2> QED BY <1>4, <2>1, <2>2
<1>7. ASSUME NEW t \in T
      PROVE  \E c \in S : f[c] = t
  <2>1. PICK l \in 1 .. k : t \in {at[l]} \X (1 .. list[at[l]].count)
    BY <1>4
  <2>2. t = <<at[l], t[2]>> /\ t[2] \in 1 .. ordered[l].count
    <3>1. \A u, a, c : u \in {a} \X (1 .. c) => u = <<a, u[2]>> /\ u[2] \in 1 .. c
      OBVIOUS
    <3>2. ordered[l].count = list[at[l]].count
      <4>1. l \in 1 .. n
        BY <1>0
      <4> QED BY <1>0, <4>1
    <3> HIDE DEF S, T, f
    <3> QED BY <2>1, <3>1, <3>2
  <2>3. <<l, t[2]>> \in S
    BY <1>5, <2>2
  <2> HIDE DEF S, T
  <2> QED BY <2>2, <2>3
<1>8. ASSUME NEW c \in S, NEW d \in S, f[c] = f[d]
      PROVE  c = d
  <2>1. at[c[1]] = at[d[1]] /\ c[2] = d[2]
    BY <1>8
  <2>2. c[1] \in 1 .. n /\ d[1] \in 1 .. n
    BY <1>0, <1>3
  <2>3. c[1] = d[1]
    BY <1>0, <2>1, <2>2
  <2> HIDE DEF S
  <2> QED BY <1>3, <2>1, <2>3
<1>9. DOMAIN f = S
  OBVIOUS
<1>10. f = [c \in S |-> f[c]]
  OBVIOUS
<1> HIDE DEF S, T, f
<1>11. f \in [S -> T]
  BY <1>6, <1>9, <1>10
<1>12. f \in Bijection(S, T)
  BY <1>7, <1>8, <1>9, <1>11 DEF Bijection, Injection, Surjection, IsInjective
<1>13. Cardinality(S) = Cardinality(T)
  BY <1>2, <1>12, FS_Bijection DEF ExistsBijection
<1> QED BY <1>13 DEF ClientsUpTo, S, T

(* More groups have no fewer clients.                                      *)
LEMMA ClientsOnlyGrow ==
  ASSUME NEW list, NEW n \in Nat, \A i \in 1 .. n : list[i].count \in Nat,
         NEW k \in 0 .. n, NEW l \in 0 .. n, k <= l
  PROVE  ClientsUpTo(list, k) <= ClientsUpTo(list, l)
<1>1. ClientsOf(list, 1 .. k) \subseteq ClientsOf(list, 1 .. l)
  <2>1. 1 .. k \subseteq 1 .. l
    OBVIOUS
  <2> QED BY <2>1 DEF ClientsOf
<1>2. IsFiniteSet(ClientsOf(list, 1 .. l))
  BY ClientsAreFinite
<1> QED BY <1>1, <1>2, FS_Subset DEF ClientsUpTo

(* The names of the groups are different.                                  *)
LEMMA NamesAreDifferent ==
  ASSUME NEW scenario, ScenarioIsTyped(scenario), Accepted(scenario)
  PROVE  \A i, j \in DOMAIN scenario.groups :
           scenario.groups[i].id = scenario.groups[j].id => i = j
<1> DEFINE x == [i \in DOMAIN scenario.backends |-> scenario.backends[i].id]
           y == [i \in DOMAIN scenario.groups |-> scenario.groups[i].id]
           S == {scenario.balancer} \cup {x[i] : i \in DOMAIN x} \cup {y[i] : i \in DOMAIN y}
           ids == IDs(scenario)
<1>1. PICK m \in Nat : DOMAIN scenario.backends = 1 .. m
  BY DEF ScenarioIsTyped, IsSeq
<1>2. PICK k \in Nat : DOMAIN scenario.groups = 1 .. k
  BY DEF ScenarioIsTyped, IsSeq
<1>3. x \in [1 .. m -> S]
  BY <1>1
<1>4. y \in [1 .. k -> S] /\ \A i \in 1 .. k : y[i] = scenario.groups[i].id
  BY <1>2
<1>5. <<scenario.balancer>> \in Seq(S) /\ Len(<<scenario.balancer>>) = 1
  OBVIOUS
<1>6. ids = (<<scenario.balancer>> \o x) \o y
  BY DEF IDs
<1>7. \A i, j \in DOMAIN ids : ids[i] = ids[j] => i = j
  BY DEF Accepted, Distinct
<1> HIDE DEF x, y, S, ids
<1>8. x \in Seq(S) /\ y \in Seq(S) /\ Len(x) = m /\ Len(y) = k
  BY <1>3, <1>4, SeqDef
<1>9. PICK z : z = <<scenario.balancer>> \o x
  OBVIOUS
<1>10. z \in Seq(S) /\ Len(z) = m + 1
  BY <1>5, <1>8, <1>9
<1>11. /\ Len(ids) = m + 1 + k /\ DOMAIN ids = 1 .. m + 1 + k
       /\ \A i \in 1 .. k : ids[m + 1 + i] = y[i]
  <2>1. ids = z \o y
    BY <1>6, <1>9
  <2>2. /\ Len(ids) = Len(z) + Len(y)
        /\ ids \in Seq(S)
        /\ \A i \in 1 .. Len(z) + Len(y) : ids[i] = IF i <= Len(z) THEN z[i] ELSE y[i - Len(z)]
    BY <1>8, <1>10, <2>1, ConcatProperties
  <2>4. DOMAIN ids = 1 .. Len(ids)
    BY <2>2
  <2>3. \A i \in 1 .. k : /\ m + 1 + i \in 1 .. m + 1 + k
                         /\ ~(m + 1 + i <= m + 1) /\ m + 1 + i - (m + 1) = i
    OBVIOUS
  <2> QED BY <1>8, <1>10, <2>2, <2>3, <2>4
<1>12. \A i \in 1 .. k : m + 1 + i \in DOMAIN ids
  BY <1>11
<1>13. ASSUME NEW i \in 1 .. k, NEW j \in 1 .. k, y[i] = y[j]
       PROVE  i = j
  <2>1. m + 1 + i = m + 1 + j
    BY <1>7, <1>11, <1>12, <1>13
  <2> QED BY <2>1
<1> QED BY <1>2, <1>4, <1>13

(* New shares the addresses between the groups of an accepted scenario in  *)
(* the order of their names, wherever they stand in the file.              *)
LEMMA AddressesAreSharedOut ==
  ASSUME Ran
  PROVE  AddressesAreShared
<1> USE SettingsAssumption
<1> DEFINE list == input.groups
           settings == Normalize(input).groups
           key == [k \in DOMAIN settings |-> Rank(settings[k].id)]
           ordered == SortedBy(settings, key)
           place(i) == CHOOSE p \in DOMAIN ordered : ordered[p].id = settings[i].id
<1>1. /\ ScenarioIsTyped(input) /\ Accepted(input)
      /\ \A i \in DOMAIN list : \E k \in DOMAIN Alphabet : Alphabet[k] = list[i].id
  BY WorldAssumption DEF Ran
<1>2. PICK n \in Nat : n = Len(list) /\ DOMAIN list = 1 .. n
  BY <1>1 DEF ScenarioIsTyped, IsSeq
<1>3. /\ DOMAIN settings = 1 .. n
      /\ \A i \in 1 .. n : settings[i].id = list[i].id /\ settings[i].count = list[i].count
  <2>1. settings = [i \in 1 .. n |-> NormalizedGroup(input, list[i])]
    BY <1>1, <1>2 DEF Normalize
  <2>2. \A i \in 1 .. n : /\ NormalizedGroup(input, list[i]).id = list[i].id
                          /\ NormalizedGroup(input, list[i]).count = list[i].count
    BY DEF NormalizedGroup
  <2> HIDE DEF settings, list
  <2> QED BY <2>1, <2>2
<1>4. \A i \in 1 .. n : /\ list[i].count \in Nat
                        /\ list[i].count \in 0 .. MaxClients - ClientsUpTo(list, i - 1)
  <2>1. \A i \in 1 .. n : list[i].count \in 0 .. MaxClients - ClientsUpTo(list, i - 1)
    BY <1>1, <1>2 DEF Accepted
  <2>2. \A i \in 1 .. n : list[i].count \in Nat
    BY <1>1, <1>2, <2>1 DEF ScenarioIsTyped, GroupIsTyped
  <2> QED BY <2>1, <2>2
<1>5. \A i, j \in 1 .. n : list[i].id = list[j].id => i = j
  BY <1>1, <1>2, NamesAreDifferent
<1>6. \A i \in 1 .. n : /\ Rank(list[i].id) \in DOMAIN Alphabet
                        /\ Alphabet[Rank(list[i].id)] = list[i].id
  BY <1>1, <1>2 DEF Rank
<1>7. \A i \in 1 .. n : Rank(list[i].id) \in Nat
  BY <1>6, WorldAssumption DEF IsSeq
<1>8. \A i, j \in 1 .. n : Rank(list[i].id) = Rank(list[j].id) => i = j
  BY <1>5, <1>6
<1> HIDE DEF settings
<1>9. key \in [1 .. n -> Nat] /\ \A i \in 1 .. n : key[i] = Rank(list[i].id)
  BY <1>3, <1>7
<1>10. \A i, j \in 1 .. n : key[i] = key[j] => i = j
  <2> HIDE DEF key
  <2> QED BY <1>8, <1>9
<1>11. PICK at : IsSorting(ordered, settings, n, key, at)
  <2> HIDE DEF key
  <2> QED BY <1>3, <1>9, <1>10, SortedByIsSorting
<1>12. /\ at \in [1 .. n -> 1 .. n] /\ DOMAIN ordered = 1 .. n
       /\ \A k \in 1 .. n : ordered[k] = settings[at[k]]
       /\ \A k, l \in 1 .. n : k < l => key[at[k]] < key[at[l]]
       /\ \A i \in 1 .. n : \E k \in 1 .. n : at[k] = i
  <2> HIDE DEF key, ordered
  <2> QED BY <1>11 DEF IsSorting
<1> HIDE DEF key, ordered
<1>13. \A k \in 1 .. n : at[k] \in 1 .. n /\ key[at[k]] \in Nat
  BY <1>9, <1>12
<1>14. \A k, l \in 1 .. n : at[k] = at[l] => k = l
  <2> SUFFICES ASSUME NEW k \in 1 .. n, NEW l \in 1 .. n, at[k] = at[l]
               PROVE  k = l
    OBVIOUS
  <2>1. PICK m \in Nat : m = key[at[k]] /\ m = key[at[l]]
    BY <1>13
  <2>2. k < l => m < m
    BY <1>12, <2>1
  <2>3. l < k => m < m
    BY <1>12, <2>1
  <2> QED BY <2>2, <2>3
<1>15. \A k \in 1 .. n : ordered[k].count = list[at[k]].count /\ ordered[k].count \in Nat
  <2> TAKE k \in 1 .. n
  <2>1. at[k] \in 1 .. n /\ ordered[k] = settings[at[k]]
    BY <1>12, <1>13
  <2> QED BY <1>3, <1>4, <2>1
<1>16. \A i \in 1 .. n : place(i) \in 1 .. n /\ at[place(i)] = i
  <2> TAKE i \in 1 .. n
  <2>1. PICK p \in 1 .. n : at[p] = i
    BY <1>12
  <2>2. ordered[p].id = settings[i].id
    BY <1>12, <2>1
  <2>3. place(i) \in 1 .. n /\ ordered[place(i)].id = settings[i].id
    BY <1>12, <2>2
  <2> HIDE DEF place
  <2>4. settings[at[place(i)]].id = settings[i].id
    BY <1>12, <2>3
  <2> QED BY <1>3, <1>5, <1>13, <2>3, <2>4
<1>17. \A i \in 1 .. n : Base(i) = 1 + ClientsUpTo(ordered, place(i) - 1)
  <2>1. \A i : AddressBase(settings, i) = 1 + ClientsUpTo(ordered, place(i) - 1)
    BY DEF AddressBase, ordered, key
  <2> QED BY <2>1 DEF Base, settings
<1> HIDE DEF place
<1> DEFINE upTo(k) == ClientsUpTo(ordered, k)
<1>18. \A k \in 0 .. n :
         /\ upTo(k) \in Nat
         /\ upTo(k) = Cardinality(ClientsOf(list, {at[l] : l \in 1 .. k}))
  <2> HIDE DEF list
  <2> TAKE k \in 0 .. n
  <2>1. \A i \in 1 .. n : list[i].count \in Nat
    BY <1>4
  <2>2. upTo(k) = Cardinality(ClientsOf(list, {at[l] : l \in 1 .. k}))
    <3>1. at \in [1 .. n -> 1 .. n] /\ \A i \in 1 .. n : ordered[i].count = list[at[i]].count
      BY <1>12, <1>15
    <3>2. n \in Nat /\ k \in 0 .. n
      OBVIOUS
    <3>3. upTo(k) = ClientsUpTo(ordered, k)
      OBVIOUS
    <3>4. PICK I : I = {at[l] : l \in 1 .. k}
      OBVIOUS
    <3>5. IsReordering(list, ordered, n, at, k, I)
      BY <1>14, <2>1, <3>1, <3>2, <3>4 DEF IsReordering
    <3>6. ClientsUpTo(ordered, k) = Cardinality(ClientsOf(list, I))
      BY ONLY n \in Nat, <3>5, SortingKeepsClients
    <3> HIDE DEF upTo
    <3> QED BY ONLY <3>3, <3>4, <3>6
  <2>3. \A i \in 1 .. n : ordered[i].count \in Nat
    BY <1>15
  <2>4. upTo(k) \in Nat
    BY <2>3, ClientsAreFinite
  <2> QED BY <2>2, <2>4
<1>19. \A k \in 1 .. n : upTo(k) = upTo(k - 1) + ordered[k].count
  BY <1>12, <1>15, ClientsAddUp
<1>20. \A k, l \in 0 .. n : k <= l => upTo(k) <= upTo(l)
  BY <1>15, ClientsOnlyGrow
<1>21. Total = upTo(n)
  <2>1. {at[l] : l \in 1 .. n} = 1 .. n
    BY <1>12, <1>13
  <2>2. n \in 0 .. n
    OBVIOUS
  <2>3. upTo(n) = Cardinality(ClientsOf(list, {at[l] : l \in 1 .. n}))
    BY <1>18, <2>2
  <2>4. Total = Cardinality(ClientsOf(list, 1 .. n))
    BY <1>2 DEF Total, ClientsUpTo
  <2> HIDE DEF upTo, list
  <2> QED BY <2>1, <2>3, <2>4
<1>22. Total \in 0 .. MaxClients
  <2>1. Normalize(input).totalClients = Total
    BY <1>1 DEF Normalize, Total
  <2> QED BY <1>1, <2>1, AcceptedIdentitiesAreDistinct DEF IdentitiesAreDistinct
<1> HIDE DEF upTo, list
<1>23. ASSUME NEW i \in 1 .. n
       PROVE  /\ Base(i) \in Nat \ {0} /\ Base(i) + list[i].count - 1 <= Total
              /\ Base(i) + list[i].count = 1 + upTo(place(i))
  <2>1. place(i) \in 1 .. n /\ place(i) - 1 \in 0 .. n /\ place(i) \in 0 .. n
    BY <1>16
  <2>2. upTo(place(i)) = upTo(place(i) - 1) + list[i].count
    BY <1>15, <1>16, <1>19
  <2>3. upTo(place(i)) <= upTo(n) /\ upTo(place(i) - 1) \in Nat /\ upTo(place(i)) \in Nat
    <3>1. n \in 0 .. n /\ place(i) <= n
      BY <2>1
    <3> QED BY <1>18, <1>20, <2>1, <3>1
  <2>4. Base(i) = 1 + upTo(place(i) - 1)
    BY <1>17 DEF upTo
  <2> QED BY <1>4, <1>21, <2>2, <2>3, <2>4
<1>24. ASSUME NEW i \in 1 .. n
       PROVE  Base(i) = 1 + Cardinality(ClientsOf(list,
                {j \in 1 .. n : Rank(list[j].id) < Rank(list[i].id)}))
  <2> DEFINE before == {j \in 1 .. n : Rank(list[j].id) < Rank(list[i].id)}
             first == {at[l] : l \in 1 .. place(i) - 1}
  <2>1. place(i) \in 1 .. n /\ at[place(i)] = i
    BY <1>16
  <2>2. ASSUME NEW j \in before PROVE j \in first
    <3>1. PICK l \in 1 .. n : at[l] = j
      BY <1>12
    <3>2. key[at[l]] < key[at[place(i)]]
      BY <1>9, <2>1, <3>1
    <3>3. ~(place(i) <= l)
      <4>1. key[at[l]] \in Nat /\ key[at[place(i)]] \in Nat
        BY <1>13, <2>1
      <4>2. place(i) < l => key[at[place(i)]] < key[at[l]]
        BY <1>12, <2>1
      <4>3. place(i) # l
        BY <3>2, <4>1
      <4> QED BY <2>1, <3>2, <4>1, <4>2, <4>3
    <3>4. l \in 1 .. place(i) - 1
      BY <2>1, <3>3
    <3> QED BY <3>1, <3>4
  <2>3. ASSUME NEW j \in first PROVE j \in before
    <3>1. PICK l \in 1 .. place(i) - 1 : at[l] = j
      OBVIOUS
    <3>2. l \in 1 .. n /\ l < place(i)
      BY <2>1
    <3>3. key[at[l]] < key[at[place(i)]]
      BY <1>12, <2>1, <3>2
    <3>4. j \in 1 .. n
      BY <1>13, <3>1, <3>2
    <3> QED BY <1>9, <2>1, <3>1, <3>3, <3>4
  <2>4. before = first
    BY <2>2, <2>3
  <2>5. Base(i) = 1 + upTo(place(i) - 1) /\ place(i) - 1 \in 0 .. n
    BY <1>17, <2>1 DEF upTo
  <2> HIDE DEF before
  <2>6. upTo(place(i) - 1) = Cardinality(ClientsOf(list, before))
    BY <1>18, <2>4, <2>5
  <2> QED BY <2>5, <2>6 DEF before
<1>25. ASSUME NEW i \in 1 .. n, NEW j \in 1 .. n, i # j
       PROVE  \/ Base(i) + list[i].count <= Base(j)
              \/ Base(j) + list[j].count <= Base(i)
  <2>1. /\ place(i) \in 1 .. n /\ place(j) \in 1 .. n /\ place(i) # place(j)
        /\ at[place(i)] = i /\ at[place(j)] = j
    BY <1>16, <1>25
  <2>2. \A k, l \in 1 .. n : k < l => upTo(k) <= upTo(l - 1)
    <3> TAKE k, l \in 1 .. n
    <3>1. k < l => k <= l - 1 /\ k \in 0 .. n /\ l - 1 \in 0 .. n
      OBVIOUS
    <3> QED BY <1>20, <3>1
  <2>3. \/ upTo(place(i)) <= upTo(place(j) - 1)
        \/ upTo(place(j)) <= upTo(place(i) - 1)
    <3>1. place(i) < place(j) \/ place(j) < place(i)
      BY <2>1
    <3> QED BY <2>1, <2>2, <3>1
  <2>4. /\ Base(i) = 1 + upTo(place(i) - 1) /\ Base(i) + list[i].count = 1 + upTo(place(i))
        /\ Base(j) = 1 + upTo(place(j) - 1) /\ Base(j) + list[j].count = 1 + upTo(place(j))
    BY <1>17, <1>23 DEF upTo
  <2>5. /\ upTo(place(i)) \in Nat /\ upTo(place(i) - 1) \in Nat
        /\ upTo(place(j)) \in Nat /\ upTo(place(j) - 1) \in Nat
    <3>1. /\ place(i) \in 0 .. n /\ place(i) - 1 \in 0 .. n
          /\ place(j) \in 0 .. n /\ place(j) - 1 \in 0 .. n
      BY <2>1
    <3> QED BY <1>18, <3>1
  <2> QED BY <2>3, <2>4, <2>5
<1> QED BY <1>2, <1>4, <1>22, <1>23, <1>24, <1>25 DEF AddressesAreShared, Given, list

-----------------------------------------------------------------------------
(* What the groups of an accepted scenario promise.                        *)

(* Durations and counts are not negative.                                  *)
LEMMA GroupsAreAccepted ==
  ASSUME Ran, NEW i \in DOMAIN input.groups
  PROVE  /\ Given(i).gap \in 0 .. MaxDuration /\ Given(i).startAt \in 0 .. MaxDuration
         /\ GroupIsTyped(input, Given(i)) /\ GroupIsValid(input, Given(i))
<1>1. ScenarioIsTyped(input) /\ Accepted(input)
  BY WorldAssumption DEF Ran
<1>2. GroupIsTyped(input, Given(i)) /\ GroupIsValid(input, Given(i))
  BY <1>1 DEF ScenarioIsTyped, Accepted, Given
<1>3. Given(i).startAt <= MaxDuration /\ Given(i).gap <= MaxDuration
  BY WorldAssumption DEF Ran, Given
<1>4. /\ Given(i).gap \in Int /\ Given(i).gap >= 0
      /\ Given(i).startAt \in Int /\ Given(i).startAt >= 0
  BY <1>2 DEF GroupIsTyped, GroupIsValid
<1> QED BY <1>2, <1>3, <1>4, EngineAssumption

(* Later clients of a batch are planned for no earlier.                    *)
LEMMA PlansGoOn ==
  ASSUME Ran, NEW b, BatchIsTyped(b), NEW index \in Nat, b.first <= index
  PROVE  /\ PlannedAt(b, index) \in Nat
         /\ PlannedAt(b, b.first) = b.startAt
         /\ PlannedAt(b, index + 1) = PlannedAt(b, index) + Given(b.group).gap
         /\ \A k \in Nat : index <= k => PlannedAt(b, index) <= PlannedAt(b, k)
<1> DEFINE gap == Given(b.group).gap
<1>1. /\ gap \in Nat /\ b.first \in Nat /\ b.startAt \in Nat
  BY GroupsAreAccepted, EngineAssumption DEF BatchIsTyped
<1>2. \A k : PlannedAt(b, k) = b.startAt + (k - b.first) * gap
  BY DEF PlannedAt, Given
<1> HIDE DEF gap
<1>3. \A m \in Nat : m * gap \in Nat /\ (m + 1) * gap = m * gap + gap
  BY <1>1
<1>4. \A m, d \in Nat : m * gap <= (m + d) * gap
  <2> TAKE m, d \in Nat
  <2>1. (m + d) * gap = m * gap + d * gap
    BY <1>1
  <2> QED BY <1>3, <2>1
<1>5. PICK m \in Nat : m = index - b.first
  BY <1>1
<1>6. PlannedAt(b, index) = b.startAt + m * gap
  BY <1>2, <1>5
<1>7. PlannedAt(b, index + 1) = b.startAt + (m + 1) * gap
  <2>1. PICK k \in Nat : k = index + 1
    OBVIOUS
  <2>2. k - b.first = m + 1
    BY <1>1, <1>5, <2>1
  <2>3. PlannedAt(b, k) = b.startAt + (m + 1) * gap
    BY <1>2, <2>2
  <2> QED BY <2>1, <2>3
<1>8. PlannedAt(b, b.first) = b.startAt
  <2>1. b.first - b.first = 0 /\ 0 * gap = 0
    BY <1>1
  <2> QED BY <1>1, <1>2, <2>1
<1>9. ASSUME NEW k \in Nat, index <= k
      PROVE  PlannedAt(b, index) <= PlannedAt(b, k)
  <2>1. PICK d \in Nat : k - b.first = m + d
    <3>1. k - index \in Nat /\ k - b.first = m + (k - index)
      BY <1>1, <1>5, <1>9
    <3> QED BY <3>1
  <2>2. PlannedAt(b, k) = b.startAt + (m + d) * gap
    BY <1>2, <2>1
  <2>3. (m + d) * gap \in Nat /\ m * gap \in Nat
    <3>1. m + d \in Nat
      OBVIOUS
    <3> QED BY <1>3, <3>1
  <2> QED BY <1>1, <1>4, <1>6, <2>2, <2>3
<1>10. m * gap \in Nat /\ (m + 1) * gap = m * gap + gap
  BY <1>3
<1>11. PlannedAt(b, index) \in Nat /\ PlannedAt(b, index + 1) = PlannedAt(b, index) + gap
  BY <1>1, <1>6, <1>7, <1>10
<1> QED BY <1>8, <1>9, <1>11 DEF gap

(* The settings of a client do not depend on how many there are by now.    *)
LEMMA SettingsAreExpected ==
  ASSUME Ran, GroupsFollow, groups # << >>, NEW i \in DOMAIN groups, NEW index \in Nat
  PROVE  SettingsOf(i, index) = ExpectedClient(input, Given(i), index)
<1> DEFINE config == groups[i].config
           grown == [config EXCEPT !.count = groups[i].next]
<1>1. i \in DOMAIN input.groups /\ config = NormalizedGroup(input, Given(i))
  BY DEF GroupsFollow
<1>2. /\ grown.overrides = config.overrides /\ grown.network = config.network
      /\ grown.stream = config.stream
  <2>1. /\ grown.overrides = NormalizedGroup(input, Given(i)).overrides
        /\ grown.network = NormalizedGroup(input, Given(i)).network
        /\ grown.stream = NormalizedGroup(input, Given(i)).stream
    BY <1>1 DEF NormalizedGroup
  <2> QED BY <1>1, <2>1
<1>3. SettingsOf(i, index) = Client(grown, index)
  BY DEF SettingsOf
<1> HIDE DEF grown, config
<1>4. Client(grown, index) = Client(config, index)
  BY <1>2 DEF Client
<1>5. ClientIsSound(input, Given(i), index)
  <2>1. ScenarioIsTyped(input) /\ GroupIsTyped(input, Given(i)) /\ GroupIsValid(input, Given(i))
    BY <1>1, GroupsAreAccepted, WorldAssumption DEF Ran
  <2> QED BY <2>1, AcceptedClientsAreSound
<1> QED BY <1>1, <1>3, <1>4, <1>5 DEF ClientIsSound

(* Nothing of the scenario changes.                                        *)
LEMMA ScenarioStays ==
  ASSUME input' = input
  PROVE  /\ Ran' = Ran /\ Total' = Total
         /\ \A i : Given(i)' = Given(i) /\ Base(i)' = Base(i)
         /\ \A b, index : PlannedAt(b, index)' = PlannedAt(b, index)
BY DEF Ran, Total, Given, Base, PlannedAt

(* A sound batch stays one, if its group is not started again.             *)
LEMMA BatchStaysSound ==
  ASSUME input' = input, unstarted' \subseteq unstarted, NEW b, BatchIsSound(b)
  PROVE  BatchIsSound(b)'
BY DEF BatchIsSound, Ran, BatchIsTyped, IsFirstBatch, IsSpawned, Total, Given, Base

(* New starts with the groups of the scenario, or none.                    *)
LEMMA WorkloadStarts ==
  ASSUME WorldInit
  PROVE  WorkloadInv
<1> USE SettingsAssumption, EngineAssumption
<1> DEFINE resolved == Normalize(input)
           settings == IF resolved = Rejected \/ input \notin Played THEN << >>
                       ELSE resolved.groups
<1>1. /\ Init /\ input \in Inputs
      /\ groups = [i \in DOMAIN settings |->
                     [config |-> settings[i], base |-> AddressBase(settings, i),
                      next |-> settings[i].count]]
      /\ unstarted = DOMAIN settings /\ arrivals = {} /\ commands = {}
      /\ scheduledClients = IF settings = << >> THEN 0 ELSE resolved.totalClients
      /\ batches = {} /\ clients = << >>
  BY DEF WorldInit
<1>2. /\ ~stopped /\ pc = "idle" /\ result = "none" /\ last.id = 0
  BY <1>1 DEF Init
<1>3. GroupsFollow
  <2>1. CASE settings = << >>
    <3>1. groups = << >> /\ unstarted = {} /\ scheduledClients = 0
      BY <1>1, <2>1
    <3> QED BY <1>1, <3>1 DEF GroupsFollow
  <2>2. CASE settings # << >>
    <3>1. resolved # Rejected /\ input \in Played
      BY <2>2
    <3>2. Ran /\ settings = resolved.groups
      BY <1>1, <3>1 DEF Ran, Normalize
    <3>3. /\ settings = [i \in DOMAIN input.groups |-> NormalizedGroup(input, input.groups[i])]
          /\ resolved.totalClients = Total
      BY <3>2 DEF Ran, Normalize, Total
    <3>4. AddressesAreShared
      BY <3>2, AddressesAreSharedOut
    <3>5. \A i : AddressBase(settings, i) = Base(i)
      BY <3>2 DEF Base
    <3>6. \A i \in DOMAIN input.groups : NormalizedGroup(input, Given(i)).count = Given(i).count
      BY DEF NormalizedGroup
    <3> HIDE DEF settings, resolved
    <3>7. scheduledClients = Total /\ Total \in 0 .. MaxClients
      BY <1>1, <2>2, <3>3, <3>4 DEF AddressesAreShared
    <3>8. DOMAIN settings = DOMAIN input.groups
      BY <3>3
    <3>9. DOMAIN groups = DOMAIN input.groups
      BY <1>1, <3>8
    <3>10. ASSUME NEW i \in DOMAIN groups
           PROVE  /\ groups[i].config = NormalizedGroup(input, Given(i))
                  /\ groups[i].base = Base(i)
                  /\ groups[i].next \in Nat /\ groups[i].next >= Given(i).count
      <4>1. settings[i] = NormalizedGroup(input, Given(i))
        BY <3>3, <3>9 DEF Given
      <4>2. /\ groups[i].config = settings[i] /\ groups[i].base = Base(i)
            /\ groups[i].next = settings[i].count
        BY <1>1, <3>5, <3>8, <3>9
      <4>3. Given(i).count \in Nat
        BY <3>4, <3>9 DEF AddressesAreShared
      <4> QED BY <3>6, <3>9, <4>1, <4>2, <4>3
    <3>11. groups = << >> => unstarted = {}
      BY <1>1, <3>8, <3>9
    <3>12. arrivals = {} /\ commands = {} /\ Total <= scheduledClients
      BY <1>1, <3>7
    <3> QED BY <1>2, <3>2, <3>7, <3>9, <3>10, <3>11, <3>12 DEF GroupsFollow
  <2> QED BY <2>1, <2>2
<1>5. BatchesFollow /\ ArrivalsFollow /\ NoneIsForgotten
  BY <1>1, <1>2 DEF BatchesFollow, ArrivalsFollow, NoneIsForgotten
<1>6. ClientsFollow
  <2>1. \A S : << >> \in Seq(S)
    OBVIOUS
  <2>2. DOMAIN clients = {}
    BY <1>1
  <2> QED BY <1>1, <2>1, <2>2 DEF ClientsFollow
<1> QED BY <1>3, <1>5, <1>6 DEF WorkloadInv

(* Steps between arrivals: each arrival that waits keeps its event.        *)
EventsStay ==
  /\ UNCHANGED <<input, groups, unstarted, arrivals, clients, scheduledClients, batches, stopped>>
  /\ groups = << >> => commands' = {}
  /\ unstarted # {} => pc' = "idle" /\ result' = "none"
  /\ last'.id \in ran' \cup {0}
  /\ \A a \in arrivals : HasEvent(a)'
  /\ pc' = "idle" /\ result' = "reached" =>
       \A a \in arrivals : PlannedAt(a.batch, a.index) > now'

(* Such a step keeps the invariant, as the clock only advances.            *)
LEMMA EventsStayKeeps ==
  ASSUME WorkloadInv, EventsStay, now \in 0 .. now', now' \in Nat
  PROVE  WorkloadInv'
<1>1. /\ input' = input /\ groups' = groups /\ unstarted' = unstarted /\ arrivals' = arrivals
      /\ clients' = clients /\ scheduledClients' = scheduledClients /\ batches' = batches
      /\ stopped' = stopped
  BY DEF EventsStay
<1>2. GroupsFollow'
  BY <1>1 DEF WorkloadInv, GroupsFollow, EventsStay, Ran, Total, Given, Base
<1>3. BatchesFollow'
  <2>1. \A b \in batches : BatchIsSound(b)'
    BY <1>1, BatchStaysSound DEF WorkloadInv, BatchesFollow
  <2> QED BY <1>1, <2>1 DEF WorkloadInv, BatchesFollow, Apart
<1>4. ArrivalsFollow'
  BY <1>1, ScenarioStays DEF WorkloadInv, ArrivalsFollow, EventsStay, Indices
<1>5. ClientsFollow'
  <2>1. ASSUME NEW client, NEW b, Follows(client, b), BatchIsSound(b)
        PROVE  Follows(client, b)'
    <3>1. PlannedAt(b, client.index) \in Nat
      <4>1. client.index \in Nat /\ b.first <= client.index
        BY <2>1 DEF Follows, Indices, BatchIsSound, BatchIsTyped
      <4> QED BY <2>1, <4>1, PlansGoOn DEF BatchIsSound
    <3>2. client.at \in Nat /\ client.at <= now'
      BY <2>1, <3>1 DEF Follows
    <3> QED BY <1>1, <2>1, <3>2, ScenarioStays DEF Follows, Indices, AddressOf, Given
  <2> QED BY <1>1, <2>1 DEF WorkloadInv, ClientsFollow, BatchesFollow, IsAhead, AddressOf
<1>6. NoneIsForgotten'
  BY <1>1, ScenarioStays DEF WorkloadInv, NoneIsForgotten, IsCreated, Indices
<1> QED BY <1>2, <1>3, <1>4, <1>5, <1>6 DEF WorkloadInv

(* An arrival keeps its event unless this one is cancelled or run.         *)
LEMMA EventStays ==
  ASSUME input' = input, NEW a, HasEvent(a),
         \A e \in pending : e.id = a.id => e \in pending',
         pc = "callback" => pc' = "callback" /\ last' = last /\ now' = now
  PROVE  HasEvent(a)'
BY ScenarioStays DEF HasEvent

(* Commands and transmissions wait for events of their own.                *)
LEMMA OtherEventsStay ==
  ASSUME IInv, WorldTyped, WorkloadInv, Ask \/ Transmit
  PROVE  EventsStay
<1>1. /\ UNCHANGED <<input, groups, unstarted, arrivals>>
      /\ UNCHANGED <<clients, scheduledClients, batches, stopped>>
      /\ UNCHANGED <<pc, now, result, last, ran>>
      /\ groups # << >> /\ unstarted = {}
  BY DEF Ask, Transmit, ScheduleAfter, ScheduleAt, Cancel, runVars, historyVars, engineVars,
     workload, Running
<1>2. ASSUME NEW a \in arrivals, NEW e \in pending, e.id = a.id
      PROVE  e \in pending'
  <2>1. CASE pending \subseteq pending'
    BY <1>2, <2>1
  <2>2. CASE \E f \in Others : Cancel(f)
    BY <1>2, <2>2 DEF Cancel, Others, IsOther
  <2>3. \A delay : ScheduleAfter(delay) => pending \subseteq pending'
    BY DEF ScheduleAfter, ScheduleAt, engineVars
  <2> QED BY <2>1, <2>2, <2>3 DEF Ask, Transmit
<1>3. ASSUME NEW a \in arrivals
      PROVE  HasEvent(a)'
  <2>1. HasEvent(a)
    BY DEF WorkloadInv, ArrivalsFollow
  <2> QED BY <1>1, <1>2, <2>1, EventStays
<1>4. last.id \in ran \cup {0}
  BY DEF WorkloadInv, ArrivalsFollow
<1>5. pc = "idle" /\ result = "reached" =>
        \A a \in arrivals : PlannedAt(a.batch, a.index) > now
  BY DEF WorkloadInv, ArrivalsFollow
<1> QED BY <1>1, <1>3, <1>4, <1>5 DEF EventsStay

(* Batches run the arrivals' events when their time has come, and return   *)
(* only when none is due or the limit is reached.                          *)
LEMMA BatchesRunEvents ==
  ASSUME IInv, WorldTyped, WorkloadInv,
         \/ UNCHANGED worldVars \/ Return \/ Continue \/ Advance \/ Snapshot \/ Late
         \/ \E e \in pending : RunCallback(e)
  PROVE  EventsStay
<1>1. /\ UNCHANGED <<input, groups, unstarted, arrivals, commands>>
      /\ UNCHANGED <<clients, scheduledClients, batches, stopped>>
  BY DEF worldVars, vars, engineVars, workload, Return, RunReached, RunLimit, RunReturn,
     Continue, CallbackReturns, Advance, AdvanceBatch, Snapshot, Late, AdvanceStopped,
     RunCallback, RunEvent
<1>2. /\ last.id \in ran \cup {0} /\ \A a \in arrivals : HasEvent(a)
      /\ groups = << >> => unstarted = {} /\ arrivals = {} /\ commands = {}
      /\ groups # << >> => ~stopped
      /\ unstarted # {} => pc = "idle" /\ result = "none"
      /\ pc = "idle" /\ result = "reached" =>
           \A a \in arrivals : PlannedAt(a.batch, a.index) > now
  BY DEF WorkloadInv, ArrivalsFollow, GroupsFollow
<1>3. CASE UNCHANGED vars
  BY <1>1, <1>2, <1>3, EventStays DEF vars, engineVars, runVars, historyVars, EventsStay
<1>4. CASE Late
  BY <1>1, <1>2, <1>4 DEF Late, AdvanceStopped, engineVars, historyVars, EventsStay
<1>5. CASE Advance
  <2>1. /\ pc = "idle" /\ pc' = "loop" /\ unstarted = {}
        /\ UNCHANGED <<pending, last, ran>>
    BY <1>5 DEF Advance, AdvanceBatch, historyVars
  <2> QED BY <1>1, <1>2, <2>1, EventStays DEF EventsStay
<1>6. CASE Continue
  <2>1. /\ pc = "callback" /\ pc' = "loop" /\ IsOther(last.id) /\ UNCHANGED <<pending, last, ran>>
    BY <1>6 DEF Continue, BodyIsDone, CallbackReturns, engineVars, historyVars
  <2>2. \A a \in arrivals : HasEvent(a)'
    BY <1>1, <1>2, <2>1, ScenarioStays DEF HasEvent, IsOther
  <2> QED BY <1>1, <1>2, <2>1, <2>2 DEF EventsStay
<1>7. CASE \E e \in pending : RunCallback(e)
  <2>1. PICK e \in pending : RunEvent(e)
    BY <1>7 DEF RunCallback
  <2>2. /\ pc = "loop" /\ pc' = "callback" /\ now' = e.at /\ last'.id = e.id
        /\ pending' = pending \ {e} /\ ran' = ran \cup {e.id}
    BY <2>1 DEF RunEvent
  <2>3. ASSUME NEW a \in arrivals
        PROVE  HasEvent(a)'
    <3>1. PICK f \in pending : f.id = a.id /\ f.at = PlannedAt(a.batch, a.index)
      BY <1>2, <2>2 DEF HasEvent
    <3>2. CASE f = e
      BY <1>1, <2>2, <3>1, <3>2, ScenarioStays DEF HasEvent
    <3>3. CASE f # e
      BY <1>1, <2>2, <3>1, <3>3, ScenarioStays DEF HasEvent
    <3> QED BY <3>2, <3>3
  <2> QED BY <1>1, <1>2, <2>2, <2>3 DEF EventsStay
<1>8. CASE Return
  <2>1. /\ pc = "loop" /\ pc' = "idle" /\ UNCHANGED <<pending, last, ran>>
    BY <1>8 DEF Return, RunReached, RunLimit, RunReturn, historyVars
  <2>2. \A a \in arrivals : HasEvent(a)'
    BY <1>1, <1>2, <2>1, EventStays
  <2>3. ASSUME result' = "reached", NEW a \in arrivals
        PROVE  PlannedAt(a.batch, a.index) > now'
    <3>1. RunReached
      BY <1>8, <2>3 DEF Return, RunLimit, RunReturn
    <3>2. PICK f \in pending : f.id = a.id /\ f.at = PlannedAt(a.batch, a.index)
      BY <1>2, <2>1 DEF HasEvent
    <3>3. f.at \in 0 .. EndTime /\ until \in 0 .. EndTime
      BY DEF IInv, TypeOK, Event
    <3> QED BY <3>1, <3>2, <3>3, EngineAssumption DEF RunReached, Due
  <2> QED BY <1>1, <1>2, <2>1, <2>2, <2>3 DEF EventsStay
<1> QED BY <1>3, <1>4, <1>5, <1>6, <1>7, <1>8 DEF Snapshot, worldVars

(* What is scheduled for a time gets an event at this time, or lies beyond *)
(* the end.                                                                *)
GetsItsEvent(at) ==
  /\ UNCHANGED <<now, pc, last, ran, stopped, result>> /\ pending \subseteq pending'
  /\ \/ Accepts /\ nextID' > nextID /\ \E e \in pending' : e.id = nextID' /\ e.at = at
     \/ ~Accepts /\ at > EndTime

(* Schedule and ScheduleAfter, within a world.                             *)
LEMMA ScheduledForItsTime ==
  ASSUME IInv, IInv', NEW at \in Nat,
         \/ Schedule(at)
         \/ \E delay \in 0 .. MaxDuration : ScheduleAfter(delay) /\ at = now + delay
  PROVE  GetsItsEvent(at)
<1> USE EngineAssumption
<1>1. now \in 0 .. EndTime /\ nextID \in Nat /\ ~panicked /\ ~panicked'
  BY DEF IInv, TypeOK, NeverSchedulesThePast
<1>2. ASSUME ScheduleAt(at), UNCHANGED <<runVars, historyVars>>
      PROVE  GetsItsEvent(at)
  <2>1. CASE at > EndTime
    BY <1>1, <1>2, <2>1 DEF ScheduleAt, engineVars, runVars, historyVars, GetsItsEvent, Accepts
  <2>2. CASE at <= EndTime
    <3>1. /\ nextID' = nextID + 1 /\ UNCHANGED <<now, stopped>>
          /\ pending' = pending \cup {[id |-> nextID + 1, at |-> at]}
      BY <1>1, <1>2, <2>2 DEF ScheduleAt
    <3>2. Accepts /\ nextID' > nextID /\ pending \subseteq pending'
      BY <1>1, <3>1 DEF Accepts
    <3>3. [id |-> nextID + 1, at |-> at] \in pending'
      BY <3>1
    <3>4. \E e \in pending' : e.id = nextID' /\ e.at = at
      BY <3>1, <3>3
    <3> QED BY <1>2, <3>1, <3>2, <3>4 DEF runVars, historyVars, GetsItsEvent
  <2> QED BY <1>1, <2>1, <2>2
<1>3. CASE Schedule(at)
  BY <1>2, <1>3 DEF Schedule
<1>4. CASE \E delay \in 0 .. MaxDuration : ScheduleAfter(delay) /\ at = now + delay
  <2>1. PICK delay \in 0 .. MaxDuration : ScheduleAfter(delay) /\ at = now + delay
    BY <1>4
  <2>2. CASE delay > EndTime - now
    <3>1. at > EndTime
      BY <1>1, <2>1, <2>2
    <3> QED BY <1>1, <2>1, <2>2, <3>1
            DEF ScheduleAfter, engineVars, runVars, historyVars, GetsItsEvent, Accepts
  <2>3. CASE delay <= EndTime - now
    <3>1. Wrap(now + delay) = at
      BY <1>1, <2>1, <2>3 DEF Wrap
    <3>2. ScheduleAt(at) /\ UNCHANGED <<runVars, historyVars>>
      BY <1>1, <2>1, <2>3, <3>1 DEF ScheduleAfter
    <3> QED BY <1>2, <3>2
  <2> QED BY <1>1, <2>1, <2>2, <2>3
<1> QED BY <1>3, <1>4

(* A batch that is sound and apart from the others.                        *)
Joins(b) ==
  /\ UNCHANGED <<input, clients>> /\ unstarted' \subseteq unstarted
  /\ scheduledClients' >= scheduledClients /\ scheduledClients' \in Nat
  /\ Ran /\ BatchIsTyped(b) /\ BatchIsSound(b)' /\ \A c \in batches : Apart(b, c)
  /\ b.address + b.count - 1 <= scheduledClients'
  /\ batches' = batches \cup {b}
  /\ arrivals' = IF Accepts
                 THEN arrivals \cup {[id |-> nextID', batch |-> b, index |-> b.first]}
                 ELSE arrivals
  /\ Schedule(b.startAt)
  /\ ~(pc = "idle" /\ result = "reached")

(* The invariant holds with one batch more.                                *)
LEMMA NewBatchFollows ==
  ASSUME IInv, IInv', WorldTyped, WorkloadInv, NEW b, Joins(b)
  PROVE  BatchesFollow' /\ ArrivalsFollow' /\ ClientsFollow' /\ NoneIsForgotten'
<1>0. PICK new : new = [id |-> nextID', batch |-> b, index |-> b.first]
  OBVIOUS
<1>1. /\ input' = input /\ clients' = clients /\ unstarted' \subseteq unstarted
      /\ batches' = batches \cup {b}
      /\ arrivals' = IF Accepts THEN arrivals \cup {new} ELSE arrivals
      /\ Ran /\ BatchIsTyped(b) /\ BatchIsSound(b)' /\ \A c \in batches : Apart(b, c)
  BY <1>0 DEF Joins
<1>2. /\ BatchesFollow /\ ArrivalsFollow /\ ClientsFollow /\ NoneIsForgotten
      /\ scheduledClients \in Nat /\ scheduledClients' \in Nat
      /\ scheduledClients <= scheduledClients'
  BY DEF WorkloadInv, GroupsFollow, Joins
<1>3. \A c \in batches \cup {b} :
        /\ c.address \in Nat /\ c.count \in Nat \ {0} /\ c.first \in Nat /\ c.startAt \in Nat
  BY <1>1, <1>2, EngineAssumption DEF BatchesFollow, BatchIsSound, BatchIsTyped
<1>4. b \notin batches /\ \A a \in arrivals : a.batch \in batches /\ a.batch # b
  BY <1>1, <1>2, <1>3 DEF Apart, ArrivalsFollow
<1>5. GetsItsEvent(b.startAt)
  BY <1>3, ScheduledForItsTime DEF Joins
<1>6. PlannedAt(b, b.first) = b.startAt /\ b.startAt \in Nat
  BY <1>1, <1>3, PlansGoOn
<1>7. BatchesFollow'
  <2>1. \A c \in batches' : BatchIsSound(c)'
    BY <1>1, <1>2, BatchStaysSound DEF BatchesFollow
  <2>2. \A c \in batches' : c.address + c.count - 1 <= scheduledClients'
    BY <1>1, <1>2, <1>3 DEF BatchesFollow, Joins
  <2>3. \A c, d \in batches' : c # d => Apart(c, d)
    BY <1>1, <1>2 DEF BatchesFollow, Apart
  <2> QED BY <2>1, <2>2, <2>3 DEF BatchesFollow, Apart
<1>8. \A a \in arrivals : a.id \in 1 .. nextID
  BY DEF WorldTyped, TasksAreTyped
<1>9. nextID \in Nat /\ nextID' \in Nat
  BY DEF IInv, TypeOK
<1>10. new.id = nextID' /\ new.batch = b /\ new.index = b.first
  BY <1>0
<1>11. \A a \in arrivals : HasEvent(a)'
  BY <1>1, <1>2, <1>5, EventStays DEF ArrivalsFollow, GetsItsEvent
<1>12. Accepts => HasEvent(new)'
  BY <1>1, <1>5, <1>6, <1>10, ScenarioStays DEF HasEvent, GetsItsEvent
<1>13. ArrivalsFollow'
  <2>1. last'.id \in ran' \cup {0} /\ ~(pc' = "idle" /\ result' = "reached")
    BY <1>2, <1>5 DEF ArrivalsFollow, GetsItsEvent, Joins
  <2>2. ASSUME NEW a \in arrivals'
        PROVE  a.batch \in batches' /\ a.index \in Indices(a.batch) /\ HasEvent(a)'
    <3>1. CASE a \in arrivals
      BY <1>1, <1>2, <1>11, <3>1 DEF ArrivalsFollow
    <3>2. CASE Accepts /\ a = new
      <4>1. b.first \in Indices(b)
        BY <1>3 DEF Indices
      <4> QED BY <1>1, <1>10, <1>12, <3>2, <4>1
    <3> QED BY <1>1, <2>2, <3>1, <3>2
  <2>3. ASSUME NEW a \in arrivals', NEW c \in arrivals', a.id = c.id \/ a.batch = c.batch
        PROVE  a = c
    <3>1. CASE a \in arrivals /\ c \in arrivals
      BY <1>2, <2>3, <3>1 DEF ArrivalsFollow
    <3>2. CASE a \notin arrivals \/ c \notin arrivals
      <4>1. Accepts /\ (a = new \/ c = new) /\ nextID' > nextID
        BY <1>1, <1>5, <3>2 DEF GetsItsEvent
      <4>2. \A d \in arrivals : d.id # new.id /\ d.batch # new.batch
        BY <1>4, <1>8, <1>9, <1>10, <4>1
      <4> QED BY <1>1, <2>3, <3>2, <4>1, <4>2
    <3> QED BY <3>1, <3>2
  <2> QED BY <2>1, <2>2, <2>3 DEF ArrivalsFollow, Indices
<1>14. \A i \in DOMAIN clients : \E c \in batches : Follows(clients[i], c)
  BY <1>2 DEF ClientsFollow
<1>15. now' = now
  BY <1>5 DEF GetsItsEvent
<1>16. ClientsFollow'
  <2>1. \A i \in DOMAIN clients : \E c \in batches' : Follows(clients[i], c)'
    BY <1>1, <1>14, <1>15, ScenarioStays DEF Follows, AddressOf, Indices, Given
  <2>2. ASSUME NEW a \in arrivals', NEW i \in DOMAIN clients
        PROVE  ~IsAhead(clients[i].address, a)
    <3>1. CASE a \in arrivals
      BY <1>2, <3>1 DEF ClientsFollow
    <3>2. CASE a = new
      <4>1. PICK c \in batches : Follows(clients[i], c)
        BY <1>14
      <4>2. PICK m \in Nat : m = clients[i].index - c.first /\ m < c.count
        <5>1. clients[i].index \in Indices(c) /\ c.first \in Nat /\ c.count \in Nat
          BY <1>3, <4>1 DEF Follows
        <5>2. clients[i].index - c.first \in Nat /\ clients[i].index - c.first < c.count
          BY <5>1 DEF Indices
        <5> QED BY <5>2
      <4>3. clients[i].address = c.address + m
        <5>1. clients[i].index \in Int /\ c.first \in Nat /\ c.address \in Nat
          BY <1>3, <4>1 DEF Follows, Indices
        <5> QED BY <4>1, <4>2, <5>1 DEF Follows, AddressOf
      <4>4. Apart(b, c)
        BY <1>1
      <4>5. /\ b.address \in Nat /\ b.count \in Nat /\ b.first \in Nat
            /\ c.address \in Nat /\ c.count \in Nat
        BY <1>3
      <4> QED BY <1>10, <3>2, <4>2, <4>3, <4>4, <4>5 DEF IsAhead, AddressOf, Apart
    <3> QED BY <1>1, <2>2, <3>1, <3>2
  <2> QED BY <1>1, <1>2, <2>1, <2>2 DEF ClientsFollow, IsAhead, AddressOf
<1>17. NoneIsForgotten'
  <2>1. ASSUME NEW c \in batches', ~stopped, NEW index \in Indices(c)
        PROVE  \/ IsCreated(c, index)
               \/ \E a \in arrivals' : a.batch = c /\ index >= a.index
               \/ PlannedAt(c, index) > EndTime
    <3>1. CASE c \in batches
      BY <1>1, <1>2, <2>1, <3>1 DEF NoneIsForgotten
    <3>2. CASE c = b
      <4>1. index \in Nat /\ b.first <= index
        BY <1>3, <2>1, <3>2 DEF Indices
      <4>2. CASE Accepts
        BY <1>1, <1>10, <3>2, <4>1, <4>2
      <4>3. CASE b.startAt > EndTime
        <5>1. PlannedAt(b, b.first) <= PlannedAt(b, index) /\ PlannedAt(b, index) \in Nat
          BY <1>1, <1>3, <4>1, PlansGoOn
        <5> QED BY <1>6, <3>2, <4>3, <5>1, EngineAssumption
      <4> QED BY <1>5, <4>2, <4>3 DEF GetsItsEvent
    <3> QED BY <1>1, <2>1, <3>1, <3>2
  <2>2. stopped' = stopped
    BY <1>5 DEF GetsItsEvent
  <2> QED BY <1>1, <2>1, <2>2, ScenarioStays DEF NoneIsForgotten, IsCreated, Indices
<1> QED BY <1>7, <1>13, <1>16, <1>17

(* New schedules the first batch of each group with its share.             *)
LEMMA StartGroupFollows ==
  ASSUME IInv, IInv', WorldTyped, WorkloadInv, StartGroup
  PROVE  WorkloadInv'
<1> USE EngineAssumption, SettingsAssumption
<1>1. PICK i \in unstarted :
        /\ ScheduleClientBatch(i, 0, groups[i].config.count, groups[i].base,
                               groups[i].config.startAt)
        /\ unstarted' = unstarted \ {i}
  BY DEF StartGroup
<1>2. /\ UNCHANGED <<input, groups, commands, clients, scheduledClients>>
      /\ pc = "idle" /\ result = "none"
  BY <1>1 DEF StartGroup, WorkloadInv, GroupsFollow
<1>3. /\ groups # << >> /\ Ran /\ Total <= scheduledClients /\ ~stopped
      /\ i \in DOMAIN groups /\ i \in DOMAIN input.groups
      /\ groups[i].config = NormalizedGroup(input, Given(i)) /\ groups[i].base = Base(i)
      /\ scheduledClients \in Nat
  <2>1. i \in DOMAIN groups
    BY DEF WorldTyped, GroupsAreTyped
  <2> QED BY <1>1, <2>1 DEF WorkloadInv, GroupsFollow
<1>4. AddressesAreShared
  BY <1>3, AddressesAreSharedOut
<1>5. PICK b : b = [group |-> i, first |-> 0, count |-> Given(i).count, address |-> Base(i),
                    startAt |-> Given(i).startAt]
  OBVIOUS
<1>6. /\ groups[i].config.count = Given(i).count
      /\ groups[i].config.startAt = Given(i).startAt
  BY <1>3 DEF NormalizedGroup
<1>7. UNCHANGED <<pc, result, stopped>>
  BY <1>1 DEF ScheduleClientBatch, Schedule, ScheduleAt, vars, engineVars, runVars
<1>8. GroupsFollow'
  BY <1>1, <1>2, <1>3, <1>7 DEF WorkloadInv, GroupsFollow, Ran, Total, Given, Base
<1>9. CASE Given(i).count = 0
  <2>1. UNCHANGED <<vars, arrivals, batches>>
    BY <1>1, <1>6, <1>9 DEF ScheduleClientBatch
  <2>2. /\ input' = input /\ unstarted' \subseteq unstarted /\ batches' = batches
        /\ arrivals' = arrivals /\ clients' = clients /\ scheduledClients' = scheduledClients
        /\ UNCHANGED <<now, pending, stopped, pc, result, last, ran>>
    BY <1>1, <1>2, <2>1 DEF vars, engineVars, runVars, historyVars
  <2>3. \A b1 \in batches : BatchIsSound(b1)'
    BY <2>2, BatchStaysSound DEF WorkloadInv, BatchesFollow
  <2>4. BatchesFollow'
    BY <2>2, <2>3 DEF WorkloadInv, BatchesFollow, Apart
  <2>5. \A a \in arrivals : HasEvent(a)'
    BY <2>2, EventStays DEF WorkloadInv, ArrivalsFollow
  <2>6. ArrivalsFollow'
    BY <1>2, <2>2, <2>5 DEF WorkloadInv, ArrivalsFollow, Indices
  <2>7. ClientsFollow'
    BY <2>2, ScenarioStays DEF WorkloadInv, ClientsFollow, Follows, Indices, AddressOf, Given,
       IsAhead
  <2>8. NoneIsForgotten'
    BY <2>2, ScenarioStays DEF WorkloadInv, NoneIsForgotten, IsCreated, Indices
  <2> QED BY <1>8, <2>4, <2>6, <2>7, <2>8 DEF WorkloadInv
<1>10. CASE Given(i).count # 0
  <2>1. /\ Given(i).count \in Nat \ {0} /\ Base(i) \in Nat \ {0}
        /\ Base(i) + Given(i).count - 1 <= Total /\ Total \in Nat
    <3>1. /\ Given(i).count \in Nat /\ Base(i) \in Nat \ {0}
          /\ Base(i) + Given(i).count - 1 <= Total /\ Total \in 0 .. MaxClients
      BY <1>3, <1>4 DEF AddressesAreShared
    <3> QED BY <1>10, <3>1
  <2>2. Given(i).startAt \in 0 .. MaxDuration
    BY <1>3, GroupsAreAccepted
  <2>3. BatchIsTyped(b) /\ b.group = i /\ b.startAt = Given(i).startAt /\ b.first = 0
    BY <1>3, <1>5, <2>1, <2>2 DEF BatchIsTyped
  <2>4. IsSpawned(b) \/ IsFirstBatch(b)'
    BY <1>1, <1>2, <1>5, <2>3 DEF IsFirstBatch, Given, Base
  <2>5. ~IsSpawned(b)
    BY <1>5, <2>1 DEF IsSpawned
  <2>6. BatchIsSound(b)'
    BY <1>2, <1>3, <2>3, <2>4, <2>5 DEF BatchIsSound, Ran, BatchIsTyped
  <2>7. ASSUME NEW c \in batches
        PROVE  Apart(b, c)
    <3>1. BatchIsSound(c)
      BY DEF WorkloadInv, BatchesFollow
    <3>2. CASE IsFirstBatch(c)
      <4>1. c.group # i /\ c.group \in DOMAIN input.groups
        BY <1>1, <3>1, <3>2 DEF IsFirstBatch, BatchIsSound, BatchIsTyped
      <4>2. c.address = Base(c.group) /\ c.count = Given(c.group).count
        BY <3>2 DEF IsFirstBatch
      <4> QED BY <1>3, <1>4, <1>5, <4>1, <4>2 DEF AddressesAreShared, Apart
    <3>3. CASE IsSpawned(c)
      <4>1. c.address > Total /\ c.address \in Nat
        BY <3>1, <3>3 DEF IsSpawned, BatchIsSound, BatchIsTyped
      <4> QED BY <1>5, <2>1, <4>1 DEF Apart
    <3> QED BY <3>1, <3>2, <3>3 DEF BatchIsSound
  <2>8. /\ b.address + b.count - 1 <= scheduledClients'
        /\ scheduledClients' >= scheduledClients /\ scheduledClients' \in Nat
    BY <1>2, <1>3, <1>5, <2>1
  <2>9. /\ Schedule(b.startAt) /\ batches' = batches \cup {b}
        /\ arrivals' = IF Accepts
                       THEN arrivals \cup {[id |-> nextID', batch |-> b, index |-> b.first]}
                       ELSE arrivals
    BY <1>1, <1>3, <1>5, <1>6, <1>10, <2>3 DEF ScheduleClientBatch
  <2>10. BatchIsTyped(b) /\ Ran
    BY <1>3, <2>3
  <2>11. Joins(b)
    BY <1>1, <1>2, <2>6, <2>7, <2>8, <2>9, <2>10 DEF Joins
  <2> QED BY <1>8, <2>11, NewBatchFollows DEF WorkloadInv
<1> QED BY <1>9, <1>10

(* A command gets indices and addresses beyond all that were promised.     *)
LEMMA SpawnClientsFollows ==
  ASSUME IInv, IInv', WorldTyped, WorkloadInv, SpawnClients
  PROVE  WorkloadInv'
<1> USE EngineAssumption, SettingsAssumption, WorldAssumption
<1>1. PICK c \in commands :
        LET s == c.spawn
            named == {i \in DOMAIN groups : s.group = "" \/ groups[i].config.id = s.group}
        IN  \/ /\ SpawnAllowed(s) /\ named # {}
               /\ \E i \in named :
                    /\ ScheduleClientBatch(i, groups[i].next, s.count, FirstAddress, now)
                    /\ groups' = [groups EXCEPT ![i].next = @ + s.count]
               /\ scheduledClients' = scheduledClients + s.count
            \/ UNCHANGED <<vars, groups, scheduledClients, arrivals, batches>>
  BY DEF SpawnClients
<1>2. /\ UNCHANGED <<input, unstarted, clients>> /\ pc = "callback"
      /\ commands' \subseteq commands
  BY DEF SpawnClients
<1>3. /\ groups # << >> /\ Ran /\ ~stopped /\ Total <= scheduledClients /\ unstarted = {}
      /\ DOMAIN groups = DOMAIN input.groups
      /\ scheduledClients \in 0 .. MaxClients
      /\ \A i \in DOMAIN groups :
           /\ groups[i].config = NormalizedGroup(input, Given(i))
           /\ groups[i].base = Base(i)
           /\ groups[i].next \in Nat /\ groups[i].next >= Given(i).count
  BY <1>2 DEF SpawnClients, WorkloadInv, GroupsFollow
<1>4. CASE UNCHANGED <<vars, groups, scheduledClients, arrivals, batches>>
  <2>1. /\ UNCHANGED <<input, groups, unstarted, arrivals>>
        /\ UNCHANGED <<clients, scheduledClients, batches, stopped>>
        /\ UNCHANGED <<now, pending, pc, result, last, ran>>
    BY <1>2, <1>4 DEF vars, engineVars, runVars, historyVars
  <2>2. \A a \in arrivals : HasEvent(a)'
    BY <2>1, EventStays DEF WorkloadInv, ArrivalsFollow
  <2>3. last.id \in ran \cup {0}
    BY DEF WorkloadInv, ArrivalsFollow
  <2>4. EventsStay
    BY <1>2, <1>3, <2>1, <2>2, <2>3 DEF EventsStay
  <2>5. now \in 0 .. now' /\ now' \in Nat
    BY <2>1 DEF IInv, TypeOK
  <2> QED BY <2>4, <2>5, EventsStayKeeps
<1>5. CASE ~UNCHANGED <<vars, groups, scheduledClients, arrivals, batches>>
  <2> DEFINE s == c.spawn
  <2>1. PICK i \in DOMAIN groups :
          /\ SpawnAllowed(s)
          /\ ScheduleClientBatch(i, groups[i].next, s.count, FirstAddress, now)
          /\ groups' = [groups EXCEPT ![i].next = @ + s.count]
          /\ scheduledClients' = scheduledClients + s.count
    BY <1>1, <1>5
  <2>2. PICK n \in Nat : n = s.count /\ n # 0 /\ scheduledClients + n <= MaxClients
    <3>1. s.count \in 1 .. MaxSpawn /\ scheduledClients <= MaxClients - s.count
      BY <2>1 DEF SpawnAllowed
    <3> QED BY <1>3, <3>1
  <2>3. PICK b : b = [group |-> i, first |-> groups[i].next, count |-> n,
                      address |-> scheduledClients + 1, startAt |-> now]
    OBVIOUS
  <2> HIDE DEF s
  <2>4. /\ b.group = i /\ b.first = groups[i].next /\ b.count = n
        /\ b.address = scheduledClients + 1 /\ b.startAt = now
    BY <2>3
  <2>5. now \in 0 .. EndTime
    BY DEF IInv, TypeOK
  <2>6. Ran /\ BatchIsTyped(b) /\ IsSpawned(b)
    <3>1. Total \in Nat
      BY <1>3, AddressesAreSharedOut DEF AddressesAreShared
    <3>2. b.group \in DOMAIN input.groups /\ b.first \in Nat /\ b.first >= Given(b.group).count
      BY <1>3, <2>4
    <3>3. scheduledClients \in Nat /\ b.startAt \in 0 .. MaxDuration
      BY <1>3, <2>4, <2>5
    <3>4. BatchIsTyped(b)
      BY <2>2, <2>4, <3>2, <3>3 DEF BatchIsTyped
    <3> QED BY <1>3, <2>4, <3>1, <3>2, <3>3, <3>4 DEF IsSpawned
  <2>7. BatchIsSound(b)'
    BY <1>2, <2>6, BatchStaysSound DEF BatchIsSound
  <2>8. /\ Schedule(b.startAt) /\ batches' = batches \cup {b}
        /\ arrivals' = IF Accepts
                       THEN arrivals \cup {[id |-> nextID', batch |-> b, index |-> b.first]}
                       ELSE arrivals
    BY <2>1, <2>2, <2>3, <2>4 DEF ScheduleClientBatch, FirstAddress
  <2>9. ASSUME NEW d \in batches
        PROVE  Apart(b, d)
    <3>1. /\ d.address \in Nat /\ d.count \in Nat /\ d.address + d.count - 1 <= scheduledClients
      BY DEF WorkloadInv, BatchesFollow, BatchIsSound, BatchIsTyped
    <3> QED BY <1>3, <2>4, <3>1 DEF Apart
  <2>10. /\ scheduledClients' >= scheduledClients /\ scheduledClients' \in 0 .. MaxClients
         /\ b.address + b.count - 1 <= scheduledClients'
    <3>1. scheduledClients' = scheduledClients + n /\ scheduledClients \in Nat
      BY <1>3, <2>1, <2>2
    <3> QED BY <2>2, <2>4, <3>1
  <2>11. Joins(b)
    BY <1>2, <2>6, <2>7, <2>8, <2>9, <2>10 DEF Joins
  <2>12. UNCHANGED <<pc, result, stopped>>
    BY <2>8 DEF Schedule, ScheduleAt, engineVars, runVars
  <2>13. GroupsFollow'
    <3>1. DOMAIN groups' = DOMAIN groups /\ groups' # << >>
      BY <2>1
    <3>2. ASSUME NEW k \in DOMAIN groups
          PROVE  /\ groups'[k].config = NormalizedGroup(input, Given(k))
                 /\ groups'[k].base = Base(k)
                 /\ groups'[k].next \in Nat /\ groups'[k].next >= Given(k).count
      <4>1. groups[k] = [config |-> groups[k].config, base |-> groups[k].base,
                         next |-> groups[k].next]
        BY DEF WorldTyped, GroupsAreTyped
      <4>2. /\ groups'[k].config = groups[k].config /\ groups'[k].base = groups[k].base
            /\ groups'[k].next = groups[k].next \/ groups'[k].next = groups[k].next + n
        BY <2>1, <2>2, <4>1
      <4>3. Given(k).count \in Nat
        BY <1>3, AddressesAreSharedOut DEF AddressesAreShared
      <4> QED BY <1>3, <4>2, <4>3
    <3>3. /\ Ran' /\ Total' = Total /\ \A k : Given(k)' = Given(k) /\ Base(k)' = Base(k)
      BY <1>2, <1>3, ScenarioStays
    <3>4. \A k : NormalizedGroup(input', Given(k)') = NormalizedGroup(input, Given(k))
      BY <1>2, <3>3
    <3>5. ~stopped' /\ Total' <= scheduledClients'
      <4>1. Total \in Nat
        BY <1>3, AddressesAreSharedOut DEF AddressesAreShared
      <4> QED BY <1>3, <2>10, <2>12, <3>3, <4>1
    <3> QED BY <1>2, <1>3, <2>10, <3>1, <3>2, <3>3, <3>4, <3>5 DEF GroupsFollow
  <2> QED BY <2>11, <2>13, NewBatchFollows DEF WorkloadInv
<1> QED BY <1>4, <1>5

(* Stop forgets everything but what was promised and created.              *)
LEMMA StopWorldFollows ==
  ASSUME IInv, IInv', WorkloadInv, StopWorld
  PROVE  WorkloadInv'
<1>1. /\ UNCHANGED <<input, clients, scheduledClients, batches, now, pc, result, last, ran>>
      /\ stopped' /\ groups' = << >> /\ unstarted' = {} /\ arrivals' = {} /\ commands' = {}
  BY DEF StopWorld, Stop, runVars
<1>2. GroupsFollow'
  BY <1>1 DEF WorkloadInv, GroupsFollow
<1>3. BatchesFollow'
  <2>1. \A b \in batches : BatchIsSound(b)'
    BY <1>1, BatchStaysSound DEF WorkloadInv, BatchesFollow
  <2> QED BY <1>1, <2>1 DEF WorkloadInv, BatchesFollow, Apart
<1>4. ArrivalsFollow'
  BY <1>1 DEF WorkloadInv, ArrivalsFollow
<1>5. ClientsFollow'
  BY <1>1, ScenarioStays DEF WorkloadInv, ClientsFollow, Follows, Indices, AddressOf, Given
<1>6. NoneIsForgotten'
  BY <1>1 DEF NoneIsForgotten
<1> QED BY <1>2, <1>3, <1>4, <1>5, <1>6 DEF WorkloadInv

(* A client arrives at its time, with its address and its settings, and    *)
(* the next of its batch is scheduled unless its time lies beyond the end. *)
Arrives(a, client) ==
  /\ UNCHANGED <<input, groups, unstarted, commands, scheduledClients, batches>>
  /\ UNCHANGED <<now, pc, last, ran, stopped, result>> /\ pending \subseteq pending'
  /\ pc = "callback" /\ a.id = last.id
  /\ client = [group |-> a.batch.group, index |-> a.index, at |-> now,
               address |-> AddressOf(a.batch, a.index),
               settings |-> SettingsOf(a.batch.group, a.index)]
  /\ clients' = Append(clients, client)
  /\ a.index \in Nat /\ a.batch.first <= a.index /\ now = PlannedAt(a.batch, a.index)

(* What follows the arrival: nothing at the end of the batch or of time,   *)
(* or the arrival of the next index.                                       *)
NothingFollows(a) ==
  /\ arrivals' = arrivals \ {a}
  /\ a.index + 1 - a.batch.first = a.batch.count \/ PlannedAt(a.batch, a.index + 1) > EndTime

NextFollows(a, next) ==
  /\ arrivals' = (arrivals \ {a}) \cup {next}
  /\ next = [id |-> nextID', batch |-> a.batch, index |-> a.index + 1]
  /\ nextID' > nextID /\ a.index + 1 - a.batch.first < a.batch.count
  /\ \E e \in pending' : e.id = nextID' /\ e.at = PlannedAt(a.batch, a.index + 1)

(* The callback of an arrival runs at the planned time of its client.      *)
LEMMA ArriveIsOnTime ==
  ASSUME IInv, IInv', WorldTyped, WorkloadInv, Arrive
  PROVE  \E a \in arrivals : \E client, next :
           Arrives(a, client) /\ (NothingFollows(a) \/ NextFollows(a, next))
<1> USE EngineAssumption
<1>1. PICK a \in arrivals :
        /\ pc = "callback" /\ a.id = last.id
        /\ clients' = Append(clients,
             [group |-> a.batch.group, index |-> a.index, at |-> now,
              address |-> a.batch.address + a.index - a.batch.first,
              settings |-> SettingsOf(a.batch.group, a.index)])
        /\ \/ /\ a.index + 1 - a.batch.first < a.batch.count
              /\ ScheduleAfter(groups[a.batch.group].config.gap)
              /\ arrivals' = (arrivals \ {a}) \cup
                   (IF Accepts THEN {[id |-> nextID', batch |-> a.batch, index |-> a.index + 1]}
                    ELSE {})
           \/ /\ a.index + 1 - a.batch.first = a.batch.count
              /\ arrivals' = arrivals \ {a}
              /\ UNCHANGED vars
  BY DEF Arrive
<1>2. UNCHANGED <<input, groups, unstarted, commands, scheduledClients, batches>>
  BY DEF Arrive
<1>3. PICK b : b = a.batch /\ b \in batches
  BY DEF WorkloadInv, ArrivalsFollow
<1>4. PICK k : k = a.index /\ k \in Nat /\ b.first <= k
  BY <1>3 DEF WorkloadInv, ArrivalsFollow, Indices, BatchesFollow, BatchIsSound, BatchIsTyped
<1>5. Ran /\ BatchIsTyped(b)
  BY <1>3 DEF WorkloadInv, BatchesFollow, BatchIsSound
<1>6. now = PlannedAt(b, k)
  <2>1. HasEvent(a) /\ last.id \in ran \cup {0}
    BY DEF WorkloadInv, ArrivalsFollow
  <2>2. \A e \in pending : e.id # last.id
    BY <2>1 DEF IInv, TypeOK, Event, EveryEventHasOneFate, Ids
  <2> QED BY <1>1, <1>3, <1>4, <2>1, <2>2 DEF HasEvent
<1>7. /\ b.group \in DOMAIN groups
      /\ groups[b.group].config.gap = Given(b.group).gap
      /\ Given(b.group).gap \in 0 .. MaxDuration
  <2>1. arrivals # {} => groups # << >>
    BY DEF WorkloadInv, GroupsFollow
  <2>2. groups # << >>
    BY <2>1
  <2>3. /\ DOMAIN groups = DOMAIN input.groups
        /\ \A i \in DOMAIN groups : groups[i].config = NormalizedGroup(input, Given(i))
    BY <2>2 DEF WorkloadInv, GroupsFollow
  <2>4. \A i : NormalizedGroup(input, Given(i)).gap = Given(i).gap
    BY DEF NormalizedGroup
  <2> QED BY <1>5, <2>3, <2>4, GroupsAreAccepted DEF BatchIsTyped
<1>8. PlannedAt(b, k + 1) = now + Given(b.group).gap /\ PlannedAt(b, k + 1) \in Nat
  <2>1. now \in Nat
    BY DEF IInv, TypeOK
  <2> QED BY <1>4, <1>5, <1>6, <1>7, <2>1, PlansGoOn
<1>9. PICK client : client = [group |-> a.batch.group, index |-> a.index, at |-> now,
                              address |-> AddressOf(a.batch, a.index),
                              settings |-> SettingsOf(a.batch.group, a.index)]
  OBVIOUS
<1>10. clients' = Append(clients, client)
  BY <1>1, <1>9 DEF AddressOf
<1>11. PICK next : next = [id |-> nextID', batch |-> a.batch, index |-> a.index + 1]
  OBVIOUS
<1>12. CASE UNCHANGED vars /\ arrivals' = arrivals \ {a}
            /\ a.index + 1 - a.batch.first = a.batch.count
  <2>1. Arrives(a, client)
    BY <1>1, <1>2, <1>3, <1>4, <1>6, <1>9, <1>10, <1>12
       DEF Arrives, vars, engineVars, runVars, historyVars
  <2> QED BY <1>12, <2>1 DEF NothingFollows
<1>13. CASE /\ a.index + 1 - a.batch.first < a.batch.count
            /\ ScheduleAfter(groups[a.batch.group].config.gap)
            /\ arrivals' = (arrivals \ {a}) \cup (IF Accepts THEN {next} ELSE {})
  <2>1. GetsItsEvent(PlannedAt(b, k + 1))
    BY <1>3, <1>7, <1>8, <1>13, ScheduledForItsTime
  <2>2. Arrives(a, client)
    BY <1>1, <1>2, <1>3, <1>4, <1>6, <1>9, <1>10, <2>1 DEF Arrives, GetsItsEvent
  <2>3. CASE Accepts
    <3>1. NextFollows(a, next)
      BY <1>3, <1>4, <1>11, <1>13, <2>1, <2>3 DEF GetsItsEvent, NextFollows
    <3> QED BY <2>2, <3>1
  <2>4. CASE ~Accepts
    <3>1. NothingFollows(a)
      BY <1>3, <1>4, <1>13, <2>1, <2>4 DEF GetsItsEvent, NothingFollows
    <3> QED BY <2>2, <3>1
  <2> QED BY <2>3, <2>4
<1> QED BY <1>1, <1>11, <1>12, <1>13

(* Two batches have no address in common.                                  *)
LEMMA ApartIsDisjoint ==
  ASSUME NEW b, NEW c, BatchIsTyped(b), BatchIsTyped(c), Apart(b, c),
         NEW k \in Indices(b), NEW l \in Indices(c)
  PROVE  /\ AddressOf(b, k) # AddressOf(c, l)
         /\ ~(AddressOf(c, l) <= AddressOf(b, k) /\ AddressOf(b, k) < c.address + c.count)
<1>1. /\ b.address \in Nat /\ b.count \in Nat /\ b.first \in Nat
      /\ c.address \in Nat /\ c.count \in Nat /\ c.first \in Nat
  BY DEF BatchIsTyped
<1>2. PICK m \in Nat : m = k - b.first /\ m < b.count
  <2>1. k - b.first \in Nat /\ k - b.first < b.count
    BY <1>1 DEF Indices
  <2> QED BY <2>1
<1>3. PICK n \in Nat : n = l - c.first /\ n < c.count
  <2>1. l - c.first \in Nat /\ l - c.first < c.count
    BY <1>1 DEF Indices
  <2> QED BY <2>1
<1>4. k \in Int /\ l \in Int
  BY <1>1 DEF Indices
<1>5. AddressOf(b, k) = b.address + m /\ AddressOf(c, l) = c.address + n
  BY <1>1, <1>2, <1>3, <1>4 DEF AddressOf
<1> QED BY <1>1, <1>2, <1>3, <1>5 DEF Apart

(* A sequence is one of its own elements.                                  *)
LEMMA SequencesHaveElements ==
  ASSUME NEW S, NEW s \in Seq(S)
  PROVE  s \in Seq({s[i] : i \in DOMAIN s})
<1> DEFINE T == {s[i] : i \in DOMAIN s}
<1>1. PICK n \in Nat : s \in [1 .. n -> S]
  BY SeqDef
<1>2. s \in [1 .. n -> T]
  <2>1. DOMAIN s = 1 .. n /\ s = [i \in 1 .. n |-> s[i]] /\ \A i \in 1 .. n : s[i] \in T
    BY <1>1
  <2> HIDE DEF T
  <2> QED BY <2>1
<1> HIDE DEF T
<1>3. s \in Seq(T)
  BY <1>2, SeqDef
<1> QED BY <1>3 DEF T

(* A client more.                                                          *)
LEMMA AppendedClients ==
  ASSUME clients \in Seq({clients[i] : i \in DOMAIN clients}), NEW client,
         clients' = Append(clients, client)
  PROVE  /\ clients' \in Seq({clients'[i] : i \in DOMAIN clients'})
         /\ \E n \in Nat :
              /\ DOMAIN clients = 1 .. n /\ DOMAIN clients' = 1 .. n + 1
              /\ clients'[n + 1] = client /\ \A i \in 1 .. n : clients'[i] = clients[i]
<1>1. PICK S : S = {clients[i] : i \in DOMAIN clients} /\ clients \in Seq(S)
  OBVIOUS
<1>2. PICK n \in Nat : n = Len(clients)
  BY <1>1
<1>3. clients \in Seq(S \cup {client}) /\ client \in S \cup {client}
  <2>1. clients \in [1 .. n -> S \cup {client}]
    BY <1>1, <1>2
  <2> QED BY <1>2, <2>1, SeqDef
<1>4. /\ clients' \in Seq(S \cup {client}) /\ Len(clients') = n + 1
      /\ \A i \in 1 .. n : clients'[i] = clients[i]
      /\ clients'[n + 1] = client
  BY <1>2, <1>3, AppendProperties
<1>5. DOMAIN clients = 1 .. n /\ DOMAIN clients' = 1 .. n + 1
  BY <1>1, <1>2, <1>4
<1>6. PICK s : s = clients'
  OBVIOUS
<1>7. clients' \in Seq({clients'[i] : i \in DOMAIN clients'})
  <2>1. s \in Seq({s[i] : i \in DOMAIN s})
    BY <1>4, <1>6, SequencesHaveElements
  <2> QED BY <1>6, <2>1
<1> QED BY <1>4, <1>5, <1>7

(* The invariant holds with one client more.                               *)
LEMMA ArriveFollows ==
  ASSUME IInv, IInv', WorldTyped, WorkloadInv, Arrive
  PROVE  WorkloadInv'
<1>0. PICK a \in arrivals :
        \E client, next : Arrives(a, client) /\ (NothingFollows(a) \/ NextFollows(a, next))
  BY ArriveIsOnTime
<1>1. PICK client, next :
        Arrives(a, client) /\ (NothingFollows(a) \/ NextFollows(a, next))
  BY <1>0
<1>2. PICK b, k : b = a.batch /\ k = a.index
  OBVIOUS
<1>3. /\ input' = input /\ groups' = groups /\ unstarted' = unstarted /\ commands' = commands
      /\ scheduledClients' = scheduledClients /\ batches' = batches
      /\ now' = now /\ pc' = pc /\ last' = last /\ ran' = ran /\ stopped' = stopped
      /\ pending \subseteq pending' /\ pc = "callback" /\ a.id = last.id
  BY <1>1 DEF Arrives
<1>4. /\ clients' = Append(clients, client)
      /\ client = [group |-> b.group, index |-> k, at |-> now, address |-> AddressOf(b, k),
                   settings |-> SettingsOf(b.group, k)]
      /\ k \in Nat /\ b.first <= k /\ now = PlannedAt(b, k)
  BY <1>1, <1>2 DEF Arrives
<1>5. /\ b \in batches /\ k \in Indices(b) /\ Ran /\ BatchIsTyped(b)
      /\ \A c \in batches : BatchIsTyped(c)
      /\ \A c, d \in batches : c # d => Apart(c, d)
  BY <1>2 DEF WorkloadInv, ArrivalsFollow, BatchesFollow, BatchIsSound
<1>6. /\ b.first \in Nat /\ b.count \in Nat /\ b.address \in Nat /\ now \in Nat
      /\ k < b.first + b.count
  BY <1>5 DEF BatchIsTyped, Indices, IInv, TypeOK
<1>7. /\ \A d \in arrivals : /\ d.batch \in batches /\ d.index \in Indices(d.batch)
                             /\ HasEvent(d) /\ d.id \in 1 .. nextID
      /\ \A d, e \in arrivals : d.id = e.id \/ d.batch = e.batch => d = e
      /\ last.id \in ran \cup {0}
  BY DEF WorkloadInv, ArrivalsFollow, WorldTyped, TasksAreTyped
<1>8. \A d \in arrivals \ {a} : d.batch # b /\ d.id # a.id
  BY <1>2, <1>7
<1>9. GroupsFollow'
  <2>1. groups = << >> => arrivals = {}
    BY DEF WorkloadInv, GroupsFollow
  <2>2. pc # "idle"
    BY <1>3
  <2>3. groups # << >> /\ unstarted = {}
    BY <2>1, <2>2 DEF WorkloadInv, GroupsFollow
  <2> QED BY <1>3, <2>3 DEF WorkloadInv, GroupsFollow, Ran, Total, Given, Base
<1>10. BatchesFollow'
  <2>1. \A c \in batches : BatchIsSound(c)'
    BY <1>3, BatchStaysSound DEF WorkloadInv, BatchesFollow
  <2> QED BY <1>3, <2>1 DEF WorkloadInv, BatchesFollow, Apart
<1>11. NextFollows(a, next) =>
         /\ arrivals' = (arrivals \ {a}) \cup {next} /\ next.batch = b /\ next.index = k + 1
         /\ next.id = nextID' /\ nextID' > nextID /\ k + 1 < b.first + b.count
  <2>1. NextFollows(a, next) => k + 1 - b.first < b.count
    BY <1>2 DEF NextFollows
  <2>2. NextFollows(a, next) => k + 1 < b.first + b.count
    BY <1>4, <1>6, <2>1
  <2>3. NextFollows(a, next) =>
          /\ arrivals' = (arrivals \ {a}) \cup {next} /\ next.batch = b /\ next.index = k + 1
          /\ next.id = nextID' /\ nextID' > nextID
    BY <1>2 DEF NextFollows
  <2> QED BY <2>2, <2>3
<1>12. ArrivalsFollow'
  <2>1. \A d \in arrivals : HasEvent(d)'
    BY <1>3, <1>7, EventStays
  <2>2. NextFollows(a, next) => HasEvent(next)'
    <3>1. NextFollows(a, next) => \E e \in pending' : e.id = next.id /\ e.at = PlannedAt(b, k + 1)
      BY <1>2, <1>11 DEF NextFollows
    <3> QED BY <1>3, <1>11, <3>1, ScenarioStays DEF HasEvent
  <2>3. ASSUME NEW d \in arrivals'
        PROVE  d.batch \in batches' /\ d.index \in Indices(d.batch) /\ HasEvent(d)'
    <3>1. CASE d \in arrivals
      BY <1>3, <1>7, <2>1, <3>1
    <3>2. CASE NextFollows(a, next) /\ d = next
      <4>1. k + 1 \in Indices(b)
        BY <1>4, <1>6, <1>11, <3>2 DEF Indices
      <4> QED BY <1>3, <1>5, <1>11, <2>2, <3>2, <4>1
    <3> QED BY <1>1, <2>3, <3>1, <3>2 DEF NothingFollows, NextFollows
  <2>4. ASSUME NEW d \in arrivals', NEW e \in arrivals', d.id = e.id \/ d.batch = e.batch
        PROVE  d = e
    <3>1. CASE d \in arrivals /\ e \in arrivals
      BY <1>7, <2>4, <3>1
    <3>2. CASE d \notin arrivals \/ e \notin arrivals
      <4>1. NextFollows(a, next) /\ (d = next \/ e = next)
        BY <1>1, <3>2 DEF NothingFollows, NextFollows
      <4>2. nextID \in Nat /\ nextID' \in Nat
        BY DEF IInv, TypeOK
      <4>3. \A f \in arrivals \ {a} : f.id # next.id /\ f.batch # next.batch
        BY <1>7, <1>8, <1>11, <4>1, <4>2
      <4> QED BY <1>11, <2>4, <4>1, <4>3
    <3> QED BY <3>1, <3>2
  <2> QED BY <1>3, <1>7, <2>3, <2>4 DEF ArrivalsFollow, Indices
<1>13. PICK n \in Nat :
         /\ DOMAIN clients = 1 .. n /\ DOMAIN clients' = 1 .. n + 1
         /\ clients'[n + 1] = client /\ \A i \in 1 .. n : clients'[i] = clients[i]
  BY <1>4, AppendedClients DEF WorkloadInv, ClientsFollow
<1>14. \A i \in DOMAIN clients' : i \in 1 .. n \/ i = n + 1
  BY <1>13
<1>15. client.address = AddressOf(b, k) /\ client.group = b.group /\ client.index = k
  BY <1>4
<1>16. Follows(client, b)
  <2>1. groups # << >>
    BY DEF WorkloadInv, GroupsFollow
  <2>2. b.group \in DOMAIN groups
    BY <1>5, <2>1 DEF BatchIsTyped, WorkloadInv, GroupsFollow
  <2>3. SettingsOf(b.group, k) = ExpectedClient(input, Given(b.group), k)
    BY <1>4, <1>5, <2>1, <2>2, SettingsAreExpected DEF WorkloadInv
  <2> QED BY <1>4, <1>5, <1>6, <2>3 DEF Follows
<1>17. /\ clients \in Seq({clients[i] : i \in DOMAIN clients})
       /\ \A i \in 1 .. n : \E c \in batches : Follows(clients[i], c)
       /\ \A i, j \in 1 .. n : clients[i].address = clients[j].address => i = j
       /\ \A d \in arrivals : \A i \in 1 .. n : ~IsAhead(clients[i].address, d)
  BY <1>13 DEF WorkloadInv, ClientsFollow
<1>18. IsAhead(client.address, a)
  <2>1. AddressOf(b, k) \in Int /\ AddressOf(b, k) < b.address + b.count
    BY <1>4, <1>6 DEF AddressOf
  <2> QED BY <1>2, <1>15, <2>1 DEF IsAhead
<1>19. \A i \in 1 .. n : clients[i].address # client.address
  BY <1>17, <1>18
<1>20. ClientsFollow'
  <2>1. clients' \in Seq({clients'[i] : i \in DOMAIN clients'})
    BY <1>4, <1>17, AppendedClients
  <2>2. \A i \in DOMAIN clients' : \E c \in batches : Follows(clients'[i], c)
    BY <1>5, <1>13, <1>14, <1>16, <1>17
  <2>3. \A i, j \in DOMAIN clients' : clients'[i].address = clients'[j].address => i = j
    BY <1>13, <1>14, <1>17, <1>19
  <2>4. ASSUME NEW d \in arrivals', NEW i \in DOMAIN clients'
        PROVE  ~IsAhead(clients'[i].address, d)
    <3>1. CASE d \in arrivals /\ d # a
      <4>1. CASE i \in 1 .. n
        BY <1>13, <1>17, <3>1, <4>1
      <4>2. CASE i = n + 1
        <5>1. d.batch \in batches /\ d.batch # b /\ d.index \in Indices(d.batch)
          BY <1>7, <1>8, <3>1
        <5>2. Apart(b, d.batch)
          BY <1>5, <5>1
        <5> QED BY <1>5, <1>13, <1>15, <4>2, <5>1, <5>2, ApartIsDisjoint DEF IsAhead
      <4> QED BY <1>14, <4>1, <4>2
    <3>2. CASE NextFollows(a, next) /\ d = next
      <4>1. AddressOf(b, k + 1) = AddressOf(b, k) + 1 /\ AddressOf(b, k) \in Int
        BY <1>4, <1>6 DEF AddressOf
      <4>2. CASE i \in 1 .. n
        <5>1. PICK c \in batches : Follows(clients[i], c)
          BY <1>17, <4>2
        <5>2. clients[i].address \in Int
          <6>1. /\ clients[i].index \in Int /\ c.first \in Nat /\ c.address \in Nat
                /\ clients[i].address = AddressOf(c, clients[i].index)
            BY <1>5, <5>1 DEF Follows, Indices, BatchIsTyped
          <6> QED BY <6>1 DEF AddressOf
        <5>3. ~IsAhead(clients[i].address, a)
          BY <1>17, <4>2
        <5> QED BY <1>2, <1>6, <1>11, <1>13, <3>2, <4>1, <4>2, <5>2, <5>3 DEF IsAhead
      <4>3. CASE i = n + 1
        BY <1>11, <1>13, <1>15, <3>2, <4>1, <4>3 DEF IsAhead
      <4> QED BY <1>14, <4>2, <4>3
    <3> QED BY <1>1, <2>4, <3>1, <3>2 DEF NothingFollows, NextFollows
  <2> QED BY <1>3, <2>1, <2>2, <2>3, <2>4, ScenarioStays
          DEF ClientsFollow, Follows, Indices, AddressOf, Given, IsAhead
<1>21. NoneIsForgotten'
  <2>1. \A c, index : IsCreated(c, index) => IsCreated(c, index)'
    BY <1>13 DEF IsCreated
  <2>2. IsCreated(b, k)'
    BY <1>13, <1>15 DEF IsCreated
  <2>3. ASSUME NEW c \in batches, ~stopped, NEW index \in Indices(c)
        PROVE  \/ IsCreated(c, index)'
               \/ \E d \in arrivals' : d.batch = c /\ index >= d.index
               \/ PlannedAt(c, index) > EndTime
    <3>1. \/ IsCreated(c, index) \/ PlannedAt(c, index) > EndTime
          \/ \E d \in arrivals : d.batch = c /\ index >= d.index
      BY <2>3 DEF WorkloadInv, NoneIsForgotten
    <3>2. ASSUME NEW d \in arrivals \ {a}, d.batch = c, index >= d.index
          PROVE  \E e \in arrivals' : e.batch = c /\ index >= e.index
      BY <1>1, <3>2 DEF NothingFollows, NextFollows
    <3>3. CASE c = b /\ index >= k
      <4>1. index \in Nat /\ index < b.first + b.count
        BY <1>6, <2>3, <3>3 DEF Indices
      <4>2. CASE index = k
        BY <2>2, <3>3, <4>2
      <4>3. CASE index # k /\ NextFollows(a, next)
        <5>1. next \in arrivals' /\ next.batch = b /\ index >= next.index
          BY <1>4, <1>11, <3>3, <4>1, <4>3
        <5> QED BY <3>3, <5>1
      <4>4. CASE index # k /\ NothingFollows(a)
        <5>1. index >= k + 1
          BY <1>4, <3>3, <4>1, <4>4
        <5>2. k + 1 - b.first # b.count
          BY <1>4, <1>6, <4>1, <5>1
        <5>3. PlannedAt(b, k + 1) > EndTime
          BY <1>2, <4>4, <5>2 DEF NothingFollows
        <5>4. k + 1 \in Nat /\ b.first <= k + 1
          BY <1>4, <1>6
        <5>5. /\ PlannedAt(b, k + 1) \in Nat /\ PlannedAt(b, k + 1) <= PlannedAt(b, index)
              /\ PlannedAt(b, index) \in Nat
          <6>1. b.first <= index
            BY <1>4, <1>6, <4>1, <5>1
          <6> QED BY <1>5, <4>1, <5>1, <5>4, <6>1, PlansGoOn
        <5> QED BY <3>3, <5>3, <5>5, EngineAssumption
      <4> QED BY <1>1, <4>2, <4>3, <4>4
    <3> QED BY <1>2, <2>1, <3>1, <3>2, <3>3
  <2> QED BY <1>3, <2>3, ScenarioStays DEF NoneIsForgotten, Indices
<1> QED BY <1>9, <1>10, <1>12, <1>20, <1>21 DEF WorkloadInv

(* Every step of a world keeps the workload's invariant.                   *)
LEMMA WorkloadKeeps ==
  ASSUME IInv, WorldTyped, WorkloadInv, [WorldNext]_worldVars
  PROVE  WorkloadInv'
<1>1. [Next]_vars
  BY WorldStepIsEngineStep
<1>2. IInv'
  BY <1>1, StepKeeps
<1>3. now \in 0 .. now' /\ now' \in Nat
  BY <1>1, ClockAdvances
<1>4. CASE StartGroup
  BY <1>2, <1>4, StartGroupFollows
<1>5. CASE Arrive
  BY <1>2, <1>5, ArriveFollows
<1>6. CASE SpawnClients
  BY <1>2, <1>6, SpawnClientsFollows
<1>7. CASE StopWorld
  BY <1>2, <1>7, StopWorldFollows
<1>8. CASE Ask \/ Transmit
  BY <1>3, <1>8, OtherEventsStay, EventsStayKeeps
<1>9. CASE \/ UNCHANGED worldVars \/ Return \/ Continue \/ Advance \/ Snapshot \/ Late
           \/ \E e \in pending : RunCallback(e)
  BY <1>3, <1>9, BatchesRunEvents, EventsStayKeeps
<1> QED BY <1>4, <1>5, <1>6, <1>7, <1>8, <1>9 DEF WorldNext, RunWorld

(* Batches that are apart have no address in common.                       *)
LEMMA AddressesAreApart ==
  ASSUME WorkloadInv
  PROVE  AddressesAreUnique
<1> USE SettingsAssumption
<1>1. \A b \in batches : /\ b.address \in Nat \ {0} /\ b.count \in Nat /\ b.first \in Nat
                         /\ BatchIsSound(b) /\ b.address + b.count - 1 <= scheduledClients
                         /\ b.group \in DOMAIN input.groups
  BY DEF WorkloadInv, BatchesFollow, BatchIsSound, BatchIsTyped
<1>2. scheduledClients \in 0 .. MaxClients
  BY DEF WorkloadInv, GroupsFollow
<1>3. ASSUME NEW b \in batches, NEW c \in batches, b # c
      PROVE  Promised(b) \cap Promised(c) = {}
  <2>1. Apart(b, c)
    BY <1>3 DEF WorkloadInv, BatchesFollow
  <2> QED BY <1>1, <2>1 DEF Apart, Promised
<1>4. \A b \in batches : Promised(b) \subseteq 1 .. scheduledClients
  BY <1>1, <1>2 DEF Promised
<1>5. ASSUME NEW b \in batches, b.first < input.groups[b.group].count
      PROVE  LET before == {i \in DOMAIN input.groups :
                              Rank(input.groups[i].id) < Rank(input.groups[b.group].id)}
             IN  b.address = 1 + Cardinality(ClientsOf(input.groups, before))
  <2>1. Ran /\ Given(b.group).count \in Nat
    BY <1>1, AddressesAreSharedOut DEF BatchIsSound, AddressesAreShared
  <2>2. ~IsSpawned(b)
    BY <1>1, <1>5, <2>1 DEF IsSpawned, Given
  <2>3. b.address = Base(b.group)
    BY <1>1, <2>2 DEF BatchIsSound, IsFirstBatch
  <2> QED BY <1>1, <2>1, <2>3, AddressesAreSharedOut DEF AddressesAreShared, Given
<1> QED BY <1>2, <1>3, <1>4, <1>5 DEF AddressesAreUnique

(* The clients that were created are those whose time has come.            *)
LEMMA ClientsAreOnTime ==
  ASSUME IInv, WorkloadInv
  PROVE  ClientsFollowThePlan
<1>1. ASSUME NEW i \in DOMAIN clients
      PROVE  \E b \in batches :
               /\ clients[i].group = b.group /\ clients[i].index \in Planned(b)
               /\ clients[i].at = PlannedAt(b, clients[i].index)
               /\ clients[i].address = b.address + clients[i].index - b.first
               /\ clients[i].settings
                    = ExpectedClient(input, input.groups[b.group], clients[i].index)
  <2>1. PICK b \in batches : Follows(clients[i], b)
    BY DEF WorkloadInv, ClientsFollow
  <2>2. clients[i].index \in Planned(b)
    BY <2>1 DEF Follows, Indices, Planned
  <2> QED BY <2>1, <2>2 DEF Follows, AddressOf, Given
<1>2. ASSUME pc = "idle", result = "reached", ~stopped, NEW b \in batches,
             NEW index \in Planned(b)
      PROVE  IsCreated(b, index)
  <2>1. index \in Indices(b) /\ PlannedAt(b, index) <= now
    BY DEF Planned, Indices
  <2>2. Ran /\ BatchIsTyped(b) /\ b.first \in Nat
    BY DEF WorkloadInv, BatchesFollow, BatchIsSound, BatchIsTyped
  <2>3. index \in Nat /\ b.first <= index
    BY <2>1, <2>2 DEF Indices, BatchIsTyped
  <2>4. PlannedAt(b, index) \in Nat /\ now \in 0 .. EndTime
    BY <2>2, <2>3, PlansGoOn DEF IInv, TypeOK
  <2>5. ASSUME NEW a \in arrivals, a.batch = b, index >= a.index
        PROVE  FALSE
    <3>1. a.index \in Nat /\ b.first <= a.index
      BY <2>2, <2>5 DEF WorkloadInv, ArrivalsFollow, Indices, BatchIsTyped
    <3>2. PlannedAt(b, a.index) > now
      BY <1>2, <2>5 DEF WorkloadInv, ArrivalsFollow
    <3>3. PlannedAt(b, a.index) <= PlannedAt(b, index) /\ PlannedAt(b, a.index) \in Nat
      BY <2>2, <2>3, <2>5, <3>1, PlansGoOn
    <3> QED BY <2>1, <2>4, <3>2, <3>3
  <2>6. ~(PlannedAt(b, index) > EndTime)
    BY <2>1, <2>4, EngineAssumption
  <2> QED BY <1>2, <2>1, <2>5, <2>6 DEF WorkloadInv, NoneIsForgotten
<1>3. \A i, j \in DOMAIN clients : clients[i].address = clients[j].address => i = j
  BY DEF WorkloadInv, ClientsFollow
<1> QED BY <1>1, <1>2, <1>3 DEF ClientsFollowThePlan, IsCreated

(* Whatever the scenario, its commands and the order of its events, no two *)
(* clients share an address, the first addresses follow the names of the   *)
(* groups, and exactly the clients whose time has come were created, with  *)
(* the settings the scenario states (clients.go, world.go).                *)
THEOREM WorkloadAlwaysSound == WorldSpec => []WorkloadIsSound
<1>1. WorldInit => WorkloadInv
  BY WorkloadStarts
<1>2. IInv /\ WorldTyped /\ WorkloadInv /\ [WorldNext]_worldVars => WorkloadInv'
  BY WorkloadKeeps
<1>3. IInv /\ WorldTyped /\ WorkloadInv => WorkloadIsSound
  BY AddressesAreApart, ClientsAreOnTime DEF WorkloadIsSound
<1> QED BY <1>1, <1>2, <1>3, WorldIsTyped, PTL DEF WorldSpec
=============================================================================
