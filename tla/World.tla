------------------------------- MODULE World -------------------------------
(***************************************************************************)
(* The workload of a world and the measurement of its traffic: groups of   *)
(* clients that arrive one by one, clients spawned by commands             *)
(* (internal/simulation/clients.go), and the windows over which traffic is *)
(* measured (measurements.go), on the engine that runs them.               *)
(*                                                                         *)
(* The callbacks of arrivals and commands are modelled whole.  The other   *)
(* callbacks are those of network and protocols: they schedule and cancel  *)
(* events of their own, and each stands for the end of a transmission,     *)
(* which takes at least a nanosecond.                                      *)
(***************************************************************************)
EXTENDS Engine, Settings

CONSTANTS
  Inputs,           \* the scenarios that may be given
  Alphabet,         \* their group IDs in alphabetical order
  MaxSpawn,         \* clients of one command, 10000
  Spawns,           \* commands that may be given: [count, group]
  \* Bounds of the model: the scenarios that are run and not only normalised,
  \* the commands, and the events of the other callbacks.
  Played, MaxCommands, MaxTransmissions

(* Scenarios have the types of their schema (scenario/types.go), their     *)
(* durations are integers of 64 bits, and the alphabet orders their names. *)
ASSUME WorldAssumption ==
  /\ \A scenario \in Inputs :
       /\ ScenarioIsTyped(scenario)
       /\ \A i \in DOMAIN scenario.groups :
            /\ scenario.groups[i].startAt <= MaxDuration
            /\ scenario.groups[i].gap <= MaxDuration
  /\ \A scenario \in Played : \A i \in DOMAIN scenario.groups :
       \E k \in DOMAIN Alphabet : Alphabet[k] = scenario.groups[i].id
  /\ IsSeq(Alphabet) /\ Distinct(Alphabet)
  /\ MaxSpawn \in Nat /\ \A s \in Spawns : s.count \in Int

VARIABLES
  input,
  groups,            \* runtimeClientGroup: config, base and next, by position
  unstarted,         \* groups that New has not scheduled yet
  arrivals,          \* batches waiting for the event id of their next arrival
  commands,          \* spawn commands waiting for the event id
  asked,             \* commands given so far
  transmissions,     \* events of the other callbacks so far
  clients,           \* the clients created, in this order
  scheduledClients,
  sent,              \* transmissions that have ended
  sampler,           \* time and counter at the last boundary, and its rate
  returned,          \* AdvanceBatch has just returned to runWorld
  ended,             \* history: [id, at] of these transmissions
  batches            \* history: every batch, as it was reserved

workload == <<groups, unstarted, arrivals, commands, clients, scheduledClients, batches>>
traffic == <<transmissions, sent, sampler, ended>>
worldVars == <<vars, input, workload, asked, traffic, returned>>

-----------------------------------------------------------------------------
(* New: ranges of addresses in the order of the group IDs.                 *)

Rank(id) == CHOOSE i \in DOMAIN Alphabet : Alphabet[i] = id

AddressBase(settings, i) ==
  LET ordered == SortedBy(settings, [k \in DOMAIN settings |-> Rank(settings[k].id)])
      place == CHOOSE p \in DOMAIN ordered : ordered[p].id = settings[i].id
  IN  1 + ClientsUpTo(ordered, place - 1)

WorldInit ==
  /\ Init
  /\ input \in Inputs
  /\ LET resolved == Normalize(input)
         settings == IF resolved = Rejected \/ input \notin Played THEN << >>
                     ELSE resolved.groups
     IN  /\ groups = [i \in DOMAIN settings |->
                        [config |-> settings[i], base |-> AddressBase(settings, i),
                         next |-> settings[i].count]]
         /\ unstarted = DOMAIN settings
         /\ scheduledClients = IF settings = << >> THEN 0 ELSE resolved.totalClients
  /\ arrivals = {} /\ commands = {} /\ asked = 0 /\ transmissions = 0 /\ clients = << >> /\ batches = {}
  /\ sent = 0 /\ sampler = [at |-> 0, sent |-> 0, rate |-> 0, window |-> 0]
  /\ ended = {} /\ returned = FALSE

(* A scenario that is not played is only normalised.                       *)
Running == groups # << >>

-----------------------------------------------------------------------------
(* Batches of clients.                                                     *)

(* What a step hands to the engine gets the id nextID', unless it lies     *)
(* beyond the end.                                                         *)
Accepts == nextID' # nextID

(* scheduleClientBatch                                                     *)
ScheduleClientBatch(i, first, count, address, startAt) ==
  LET batch == [group |-> i, first |-> first, count |-> count, address |-> address,
                startAt |-> startAt]
  IN  IF count = 0 THEN UNCHANGED <<vars, arrivals, batches>>
      ELSE /\ Schedule(startAt)
           /\ arrivals' = IF Accepts
                          THEN arrivals \cup {[id |-> nextID', batch |-> batch, index |-> first]}
                          ELSE arrivals
           /\ batches' = batches \cup {batch}

(* initializeClients: one event per group, in the order of the file.       *)
StartGroup ==
  /\ pc = "idle"
  /\ \E i \in unstarted :
       /\ \A k \in unstarted : i <= k
       /\ ScheduleClientBatch(i, 0, groups[i].config.count, groups[i].base,
                              groups[i].config.startAt)
       /\ unstarted' = unstarted \ {i}
  /\ UNCHANGED <<input, groups, commands, asked, clients, scheduledClients, traffic, returned>>

SettingsOf(i, index) == Client([groups[i].config EXCEPT !.count = groups[i].next], index)

(* The callback of an arrival, with startClient.                           *)
Arrive ==
  \E a \in arrivals :
    /\ pc = "callback" /\ a.id = last.id
    /\ LET b == a.batch
           config == groups[b.group].config
       IN  /\ clients' = Append(clients,
                [group |-> b.group, index |-> a.index, at |-> now,
                 address |-> b.address + a.index - b.first,
                 settings |-> SettingsOf(b.group, a.index)])
           /\ \/ /\ a.index + 1 - b.first < b.count
                 /\ ScheduleAfter(config.gap)
                 /\ arrivals' = (arrivals \ {a}) \cup
                      (IF Accepts THEN {[id |-> nextID', batch |-> b, index |-> a.index + 1]} ELSE {})
              \/ /\ a.index + 1 - b.first = b.count
                 /\ arrivals' = arrivals \ {a}
                 /\ UNCHANGED vars
  /\ UNCHANGED <<input, groups, unstarted, commands, asked, scheduledClients, batches,
                 traffic, returned>>

-----------------------------------------------------------------------------
(* Commands.                                                               *)

(* runWorld is over after an error and at the end.                         *)
Over == result = "limit" \/ (result = "reached" /\ until = EndTime)

(* runWorld turns a command into an event at the current time.             *)
Ask ==
  /\ Running /\ unstarted = {} /\ pc = "idle" /\ ~Over
  /\ asked < MaxCommands /\ asked' = asked + 1
  /\ \E s \in Spawns :
       /\ ScheduleAfter(0)
       /\ commands' = IF Accepts THEN commands \cup {[id |-> nextID', spawn |-> s]} ELSE commands
  /\ returned' = FALSE
  /\ UNCHANGED <<input, groups, unstarted, arrivals, clients, scheduledClients, batches, traffic>>

SpawnAllowed(s) ==
  /\ s.count \in 1 .. MaxSpawn
  /\ scheduledClients <= MaxClients - s.count
  /\ s.group = "" => Len(groups) = 1

FirstAddressAfterCreated == Len(clients) + 1

(* The first address that no client, created or not, has been promised.    *)
FirstAddress == scheduledClients + 1

(* SpawnClients, the callback of a command; an error changes nothing.      *)
SpawnClients ==
  \E c \in commands :
    /\ pc = "callback" /\ c.id = last.id
    /\ commands' = commands \ {c}
    /\ LET s == c.spawn
           named == {i \in DOMAIN groups : s.group = "" \/ groups[i].config.id = s.group}
       IN  \/ /\ SpawnAllowed(s) /\ named # {}
              /\ \E i \in named :
                   /\ ScheduleClientBatch(i, groups[i].next, s.count, FirstAddress, now)
                   /\ groups' = [groups EXCEPT ![i].next = @ + s.count]
              /\ scheduledClients' = scheduledClients + s.count
           \/ /\ ~(SpawnAllowed(s) /\ named # {})
              /\ UNCHANGED <<vars, groups, scheduledClients, arrivals, batches>>
  /\ UNCHANGED <<input, unstarted, asked, clients, traffic, returned>>

-----------------------------------------------------------------------------
(* The other callbacks, and the loop of runWorld.                          *)

IsOther(id) == \A e \in arrivals \cup commands : e.id # id

Others == {e \in pending : IsOther(e.id)}

(* A callback, or New, starts a transmission or gives one up.              *)
Transmit ==
  /\ Running /\ unstarted = {}
  /\ pc = "callback" \/ (pc = "idle" /\ result = "none")
  /\ \/ /\ transmissions < MaxTransmissions /\ transmissions' = transmissions + 1
        /\ \E delay \in 1 .. MaxDuration : ScheduleAfter(delay)
     \/ /\ \E e \in Others : Cancel(e)
        /\ UNCHANGED transmissions
  /\ UNCHANGED <<input, workload, asked, sent, sampler, ended, returned>>

BodyIsDone == IsOther(last.id)

RunCallback(e) ==
  /\ RunEvent(e)
  /\ \/ e \in Others /\ sent' = sent + 1 /\ ended' = ended \cup {[id |-> e.id, at |-> e.at]}
     \/ e \notin Others /\ UNCHANGED <<sent, ended>>
  /\ UNCHANGED <<input, workload, asked, transmissions, sampler, returned>>

Return ==
  /\ RunReached \/ RunLimit
  /\ returned' = TRUE
  /\ UNCHANGED <<input, workload, asked, traffic>>

Continue ==
  /\ BodyIsDone /\ CallbackReturns
  /\ UNCHANGED <<input, workload, asked, traffic, returned>>

RunWorld == Arrive \/ SpawnClients \/ Return \/ Continue \/ \E e \in pending : RunCallback(e)

(* The target is the time that playback allows by now.                     *)
Advance ==
  /\ Running /\ unstarted = {} /\ ~Over
  /\ \E u \in until .. EndTime : AdvanceBatch(u)
  /\ returned' = FALSE
  /\ UNCHANGED <<input, workload, asked, traffic>>

AdvanceMore == result = "more" /\ Advance

-----------------------------------------------------------------------------
(* Measurement.                                                            *)

(* A batch can stop halfway through one timestamp.                         *)
MoreAtCurrentTime ==
  (\E e \in pending : e.at = now) /\ executed < EventLimit

SampleAnyTime ==
  sampler' = IF now <= sampler.at THEN sampler
             ELSE [at |-> now, sent |-> sent, rate |-> sent - sampler.sent,
                   window |-> now - sampler.at]

(* SampleTraffic and trafficSampler.sample                                 *)
SampleTraffic ==
  sampler' = IF MoreAtCurrentTime \/ now <= sampler.at THEN sampler
             ELSE [at |-> now, sent |-> sent, rate |-> sent - sampler.sent,
                   window |-> now - sampler.at]

(* When a snapshot is due, after an error, and at the end.                 *)
Snapshot ==
  /\ returned /\ returned' = FALSE
  /\ SampleTraffic
  /\ UNCHANGED <<vars, input, workload, asked, transmissions, sent, ended>>

-----------------------------------------------------------------------------
(* World.Stop forgets the groups with everything scheduled.                *)
StopWorld ==
  /\ Running /\ pc = "idle" /\ Stop
  /\ groups' = << >> /\ unstarted' = {} /\ arrivals' = {} /\ commands' = {}
  /\ returned' = FALSE
  /\ UNCHANGED <<input, asked, clients, scheduledClients, batches, traffic>>

(* AdvanceBatch after Stop.                                                *)
Late == AdvanceStopped /\ UNCHANGED <<input, workload, asked, traffic, returned>>

WorldNext ==
  \/ StartGroup \/ Ask \/ Transmit
  \/ RunWorld \/ Advance
  \/ Snapshot \/ StopWorld \/ Late

(* Callbacks return, and runWorld repeats batches that have not reached    *)
(* their target.                                                           *)
WorldSpec ==
  WorldInit /\ [][WorldNext]_worldVars
    /\ WF_worldVars(RunWorld) /\ WF_worldVars(AdvanceMore)

-----------------------------------------------------------------------------
(* Whatever is read from a scenario is what it says (Settings).            *)
SettingsAreSound == executed = 0 /\ nextID = 0 => Sound(input)

Promised(b) == b.address .. b.address + b.count - 1

PlannedAt(b, index) ==
  b.startAt + (index - b.first) * input.groups[b.group].gap

(* Every address is promised to one client: ranges do not overlap however  *)
(* commands and arrivals interleave, they stay within the address space,   *)
(* and the first ones do not depend on the order of the groups in the file *)
(* (initializeClients, SpawnClients).                                      *)
AddressesAreUnique ==
  /\ \A b, c \in batches : b # c => Promised(b) \cap Promised(c) = {}
  /\ \A b \in batches : Promised(b) \subseteq 1 .. scheduledClients
  /\ scheduledClients <= MaxClients
  /\ \A b \in batches : b.first < input.groups[b.group].count =>
       LET before == {i \in DOMAIN input.groups :
                        Rank(input.groups[i].id) < Rank(input.groups[b.group].id)}
       IN  b.address = 1 + Cardinality(ClientsOf(input.groups, before))

(* The clients created are exactly those whose time has come: at their     *)
(* planned time, with their own address, and with the settings their index *)
(* has in the scenario, or their group's if they were spawned              *)
(* (scheduleClientBatch, startClient).                                     *)
Planned(b) == {index \in b.first .. b.first + b.count - 1 : PlannedAt(b, index) <= now}

ClientsFollowThePlan ==
  /\ \A i \in DOMAIN clients :
       \E b \in batches :
         /\ clients[i].group = b.group /\ clients[i].index \in Planned(b)
         /\ clients[i].at = PlannedAt(b, clients[i].index)
         /\ clients[i].address = b.address + clients[i].index - b.first
         /\ clients[i].settings = ExpectedClient(input, input.groups[b.group], clients[i].index)
  /\ \A i, j \in DOMAIN clients : clients[i].address = clients[j].address => i = j
  /\ pc = "idle" /\ result = "reached" /\ ~stopped =>
       \A b \in batches : \A index \in Planned(b) :
         \E i \in DOMAIN clients : clients[i].group = b.group /\ clients[i].index = index

WorkloadIsSound == AddressesAreUnique /\ ClientsFollowThePlan

(* The rate shown for a window is that of the transmissions which ended in *)
(* it: a batch that stops halfway through one time is not cut, and what    *)
(* comes later at this time falls into no window twice (SampleTraffic).    *)
RateIsTrue ==
  /\ sampler.rate = Cardinality({e \in ended :
                      e.at > sampler.at - sampler.window /\ e.at <= sampler.at})
  /\ sampler.sent = Cardinality({e \in ended : e.at <= sampler.at})
=============================================================================
