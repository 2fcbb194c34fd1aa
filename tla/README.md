# BalancerGo: TLA+ models and proofs

BalancerGo is a discrete-event simulator of TCP clients, a network, an L4 load
balancer and backends, with an interactive service (HTTP and WebSocket) around
it. This directory models its control, checks the models with TLC and proves the
main results with TLAPS. Paths below are relative to `src/simulator/`, those of
the browser to `src/visualizer/src/`.

## The system

| Part | State | Operations | Interaction and difficulty |
|---|---|---|---|
| Run control (`run_controller.go`) | run number, reserved run context, `stopping`, channels `stops`, `starts`, `commands`, run record | `startScenario`, `submit`, `finishRun`, `acknowledgeStop`, ... | called by HTTP and WebSocket goroutines while the owner runs; one mutex, several critical sections |
| Owner session (`session.go`, `runner.go`) | current world, status, run id, its context | `runInteractive`, `clear`, `runWorld` | sole owner of the world; contexts are read and used at different moments; publishing may fail |
| Hub (`http/hub.go`, `http/topology.go`) | newest frame, wake channel, connection set, per connection two channels and `done` | `BroadcastState`, `Run`, `queueLatest`, `readCommands`, `writeFrames`, `ServeWs` | four kinds of goroutines, lossy channels, mutual shutdown |
| Event engine (`engine/engine.go`, `World.AdvanceBatch`) | clock, queue, next id, event limit | `ScheduleAt/After`, `Cancel`, `Clear`, `RunUntil` | re-entrant callbacks, overflow of durations, batches |
| Host CPU (`host/host.go`) | busy cores, waiting queue, statistics | `Submit`, `complete`, `DiscardPending`, `Stop`, `Stats` | used by the balancer and every backend; discards in the middle of work |
| Load balancer (`balancer/`, `algorithms/`) | clients, servers, three mapping tables, phases, rotation | `AddClient`, `Handle*Packet`, `Route`, `forgetRoute`, sweep, `Shutdown` | packets wait twice with pointers that may be outdated |
| Health checks (`balancer.go`, `server/server.go`) | serial, timers, belief; backend up or down | tick, reply, timeout, `MarkFailed`, `Shutdown` | reply, timeout and failure race |
| Shared egress (`network/egress.go`, `link.go`, `queue_policy.go`) | per output a FIFO and a link, heap of ready outputs, one forwarding budget with one wake-up, statistics | `TransmitECN`, `dispatch`, link callbacks, grant, `DiscardPending` | admission without a waiting place, heap membership from three sides, wake-ups, accounting of the wait |
| Links (`network/link.go`) | FIFO, transmitter, packets under way, statistics | `TransmitECN`, `start`, `pop`, `DiscardPending` | transmitter free while the packet travels, random loss, early drops |
| Shared ingress (`network/ingress.go`) | per input a FIFO and statistics, one link | the same | loss attributed through a shared counter, merged order |
| TCP sender (`protocols/tcp/sender*.go`, `send_buffer.go`) | sequence positions, pending segments, retry counts, close state, one event per timer | `HandlePacket`, `queueSegment`, `retransmitData`, `startFINWhenDrained`, `retryFIN`, ... | every timer races late and reordered answers; limited retries; both sides may close at once |
| TCP receiver (`protocols/tcp/receiver*.go`) | connection table entry, reassembly buffer, delayed ACK, the two counters the host admits by | `HandlePacket`, `handleSYN`, `accept`, `handleFIN`, idle check, ... | the entry is forgotten and made again by an old SYN; many exits that release one slot |
| Congestion control (`congestion_adapter.go`, `loss_detection.go`, `ecn_sender.go`, `congestion_control/`) | window and threshold, recovery state of the policy, three guards of what was already reduced, RTT probe, ECN hold | `OnACK`, `OnLoss`, `OnECN`, `duplicateACK`, `observeECNFeedback`, ... | state shared by policy, loss detection and ECN, updated from different files |
| SACK (`sack/`, `sack_recovery.go`, `receiver_sack.go`) | scoreboard of reported ranges, estimate of the data under way, end of the repaired part, recovery boundary, rescue | `Update`, `NextHole`, `LastHole`, `Pipe`, `sendSACKRepairs` | reports are late, overlapping and incomplete; repairs, new data and the rescue compete for one window |
| Timeouts (`rto.go`) | smoothed round trip, variation, base and current timeout | `observeRTT`, `backOff`, the delays of FIN and ECN | 64-bit nanoseconds near their limit |
| Backend (`server/`) | up or down, its CPU, pending probe replies | `HandlePacket`, `MarkFailed`, `MarkHealthy`, `Shutdown`, probe replies | fails with CPU work and replies pending |
| World, clients (`internal/simulation/`, `client/`) | groups, arrivals, addresses, traffic windows | `New`, arrivals, `SpawnClients`, `AdvanceBatch`, `SampleTraffic`, `Stop` | arrivals, commands and traffic interleave on the engine; batches stop anywhere |
| Scenario normalisation (`scenario/`) | none | `Normalize`, `newClassicWindow` | layers of overrides, derived values, products of accepted numbers |
| Browser session (`hooks/useSimulation.ts`, `scenarios/startAcknowledgement.ts`) | last view, pending Start and Stop, document, request under way | click, frame, answer, effect, reconnect | two connections and an effect, coalesced frames, restarts that reuse run numbers |
| Documents, CLI, presentation, rendering | documents, output | decoding, projection, drawing | sequential data conversion; not modelled |

What makes each part correct is stated by its properties below; `PROJECT.json`
lists the hazards they are aimed at, with their source lines.

## Modules

* **RunControl** models the run controller and the owner goroutine together. A
  critical section of the mutex is one action; the owner's program counter `pc`
  names the places between them where other goroutines can run. Requests are
  `Start`, `Stop`, `Command`; the owner's actions follow `runInteractive`
  (`Boot`, `Select*`, `ContextForRun`, `CheckCancelled`, `PrepareStart`,
  `Recheck`, `Begin`, `Launch`, ...), `runWorld` (`RunLoop`, `AdvanceBatch`,
  `Pace`) and `clear` (`ForgetRun`, `ClearFinish`, `AcknowledgeStop`). A command
  is represented by the run it was accepted for. Every publish may fail.
* **RunService** is the abstract specification: one experiment at a time,
  numbered in order of admission, and a Stop that admits nothing until the empty
  state has been shown. `RunControl!ImplementsService` is the refinement.
* **Engine** models `Engine` and `World.AdvanceBatch/Advance/Stop`. Durations
  wrap at `MaxDuration` as two's-complement numbers do. Callbacks are program
  points at which model code may schedule, cancel or stop.
* **Hub** models publisher, hub, readers and writers. `queueLatest` is three
  steps, since the writer takes from the same channel between them.
* **Host** models one CPU; a packet is the number of its acceptance. The core
  time really used and the longest real wait are history variables which the
  reported statistics are compared with. `QueueWaitTotal` and
  `MaxQueuedPackets` are left out.
* **Balancer** models registration, admission, routing, observation, chaos,
  sweep and shutdown. Clients and mappings carry instance numbers, because
  the code compares pointers. The CPU is a bounded FIFO with arbitrary delay,
  which covers every behaviour of Host seen from outside (all packets cost the
  same, so completions keep the order). Health appears as arbitrary changes.
  `sent` records what the last step handed to a sender. Equal packets held back
  by the chaos latency are one element of `delayed`.
* **Health** models the check of one backend in detail, with both sides; it runs
  within Backend.
* **Egress** models the balancer's outgoing links and their dispatcher. The
  engine appears as the sequence `agenda` of its events and a clock that may tick
  when none is due. Each turn of the loop of `dispatch` is a step, with
  `dispatching` held, because the accounting and the wake-up are set around it;
  no other action interleaves, as in the code. A packet is its admission number,
  which orders the heap: later admissions never have an earlier `queuedAt`. The
  time during which ready traffic really waited for the budget is the history
  variable `blocked`.
* **Ingress** models the merged inputs and **Link** a link with its own FIFO, the
  way of every client and backend to the ingress. They need no clock:
  serialization takes any time, and packets of one link travel equally long.
* **LossyFifo** is the abstract specification of both: accepted packets arrive at
  most once and in order, any may be lost.
* **Selection** has the elements of a sequence at some of its positions, in their
  order: what is left of a list when the balancer forgets clients or candidates,
  and the client's packets among all arrivals of the input; and a list sorted by
  keys, for groups and overrides. Counting positions says the same as `SelectSeq`
  and `SortSeq` without recursion, so that the provers can use it.

  In Egress, Ingress and Link a random loss and a congestion signal are choices,
  the latter from the threshold on.
* **TcpWire** has the segments of one connection and the ways between its ends: any
  segment may be lost, and any may overtake another, since the chaos latency of
  the balancer delays packets individually. Nothing in the simulator duplicates
  a packet; duplicates come from retries, and a way holds a segment and the number
  of its copy.
* **TcpSender** and **TcpReceiver** are the two ends. All code runs on the engine's
  goroutine, so a handler is one step: an operator from a sender (`snd`) or
  receiver (`rcv`) to the next, following the code's calls and early returns, with
  the segments it emits gathered in `out` and put on the wire at its end. The
  callbacks of timers are `S!Events` and `R!Events`; `armed` is the set of events
  that have an engine identity. Durations are left out: an armed event may fire
  at any time, so every order of timers and messages is covered, possible or
  not. A limit of zero disables an idle check (`SetIdleTimeout`, `SetIdleTimeouts`),
  so `ClientIdleLimit` says whether the client has a limit and `BackendIdleLimits`
  in which states the backend has one; `ArmRead` and `IdleCheck` arm nothing
  elsewhere. Initial sequence numbers are zero on both sides, windows are constant,
  SACK and ECN are off, admission by the host is a choice. `handleRST` of the
  receiver is left out, because no client sends a reset.
* **Tcp** composes the two ends and the wire, with the calls of the client's
  workload and of the backend, and records what has reached the backend.
  **Transfer** is the abstract specification: bytes are read in order, confirmed
  only after they were read, and success and a graceful end mean what they say.
  **TcpInvariant** states what the two ends, the segments under way and that
  record say of each other between any two steps.
* **Congestion** models what TcpSender leaves open in `Verdicts`: the policies
  Reno, NewReno and Tahoe, the guards around them, classic ECN and the RTT probe.
  The policy is the record `snd.policy`, the sender around it `snd`. Pending
  segments are the set of their ends, since neither the policies nor the guards
  look at more. Acknowledgements are any position sent and not yet confirmed, with
  or without ECE, in any number, more than a receiver would send. The receive
  window and the workload never limit the sender, SACK is off.
  `addCongestionBytes` saturates only near 2^64 bytes and is written as an
  addition. That its window is never below one segment (`TypeOK`) is what
  `Verdicts` assumes.

* **Backend** composes Host and Health: one machine, on one clock, whose CPU and
  whose answers fail, crash and recover in the same step.
* **Access** composes Link and Ingress: the way of a client's packet over two hops
  (`transmitPacket`), next to the backends' replies that enter the same input.
  Packets are numbered anew at each hop; `carried` relates the numbers, and the
  histories `signalled` and `capable` say what mark a packet ought to have.
* **Scoreboard** has the algorithms of the scoreboard as operators on sequences of
  blocks. **Sack** is one established transfer with it: sender, receiver and a
  network that lets everything overtake. Reno and NewReno act alike with SACK. What
  goes wrong in the network (a loss, an overtaking, a timeout while something is
  under way) is bounded by `MaxTroubles`; when nothing is under way the timer fires
  freely. The loops of `Update` and `sendSACKRepairs` are recursive functions over
  their turns. `SackAssumption` is what normalisation assures of the sizes.
* **Rto** models the estimate of the round trip, the backoff, and the delays taken
  from it. Every operation wraps like a signed integer of the width of
  `MaxDuration`; `exact` is the same estimate in unlimited integers by the formulas
  of RFC 6298. **RtoLimits** has the limits and what normalisation assures of them.
* **Settings** models what normalisation inherits, overrides, derives and refuses
  (`Normalize`), and what `newClassicWindow` computes from it. A setting that may
  be left out is a field a patch may lack. **World** runs its result on Engine,
  which it extends: arrivals and commands are modelled whole; every other
  callback is the end of a transmission.
* **Browser** models the hook `useSimulation` against RunService, which RunControl
  implements, and a pipe that may replace a waiting frame, which is how Hub treats
  a slow browser. A trouble is a lost connection, a restart of the server, a failed
  request, another user's Stop or a refresh.

`MC*` modules give the constants their values; `MCSender` extends three parts of the
sender that share no state (Congestion, Sack, Rto), its variable `part` says which
one runs; `*Proofs` modules hold theorems.
Definitions placed directly before an operation under another name
(`FinishRunKeepsCommands` before `FinishRun`, for example) are variants of it
with a plausible bug; each property of a run fails for one of them.

## Runs

| Run | Question | Instance |
|---|---|---|
| `run_control` | races of start, stop, command and shutdown with the owner; refinement; liveness | 3 run numbers, channel of 2 commands, 2 batches |
| `browser` | acknowledgement of Start, the document beside a run | 2 runs, 1 frame in the pipe, 1 trouble |
| `browser_stop` | acknowledgement of Stop (violated, see below) | 2 runs, 1 frame in the pipe, no trouble |
| `world` | settings, addresses, rates; order, fate and batches of events, overflow, termination | families of some 1700 scenarios normalised, 3 of them played; event limit 6, batches of 2, end time 3, largest duration 4, 1 spawn command, 2 transmissions |
| `hub` | safety and liveness of one connection, with errors | 1 browser, 2 frames, 1 error place, 2 rejections |
| `backend` | CPU and health of one machine: conservation, order, statistics, detection times, stale timers | 2 cores, 2 places, 5 packets, 5 time units, costs 0 and 2; interval 2, timeout 1, 2 rounds |
| `balancer_one_client` | packets that outlive their client or mapping; phases and sweep | 1 key, 2 clients, 2 mappings, 2 jobs, 1 delayed packet; idle limits 1, 2, 1 and never |
| `balancer_routing` | tables, capacity, selection | 2 keys, 2 backends of capacity 1 |
| `egress` | shared budget, wake-ups, order, statistics | 3 outputs with 1, 1 and 0 waiting places, links faster and slower than the budget, 2 sizes, 4 packets, 5 time units |
| `access` | attribution, order and marks over two hops and two inputs | link of 2 places and input of 1, 3 packets, 2 replies |
| `tcp` | both ends and the wire: timers, refinement, liveness | 2 segments of 1 byte, window 2, 3 segments under way, 1 retry each, duplicate threshold 1, delayed ACK of 2; idle limits as by default: of the client and of half-open connections, none of established ones |
| `sender` | agreement of policy, loss detection, ECN and RTT probe; SACK recovery; retransmission timeout | 7 bytes, segments of 2, window up to 6, threshold 5, 1 retry, three policies, with and without ECN; SACK with 12 bytes, 2 blocks per report, 2 retries, 3 troubles; durations of 6 bits, limits 2 and 29, round trips 0, 1, 6 and 31 |

The bounds reach the interesting cases: a run after a stopped run after a finished
one and the exhausted run number; a full command, error and frame channel; a batch
limit below, at and above the event limit; all cores busy with a full queue and a
discard; a client replaced while packets of the previous one wait; a machine that
fails with packets on its cores and a reply pending; a mapping made again while a
packet of the previous one is held back; a rotation position beyond a shrunk
candidate list; an output that waits for its link while others wait for the
budget, a grant at and beyond the end of the run, a full output, a loss right
after a loss; in `tcp` a segment lost while another overtakes it and a third is on
its way back, retries up to and beyond their limit, an old SYN after the end,
crossing FINs; in `world` an arrival, a command and a transmission at one time, a
batch that stops between them, a scenario whose arrivals pass the end; in `sender`
an inflated window, a partial acknowledgement after it, a full one with data still
in flight, a repair after an ECN reduction, a hold that lasts beyond the run,
segments smaller than the MSS, a report that leaves out the oldest block, a repair
that is lost again, the loss of a whole tail, and a timeout that would wrap.
Constants stand for the code's sizes (64 commands, 8 errors, one frame). A
duplicate threshold of 1 in `tcp` lets a fast retransmission happen with two
segments; `sender` has the 3 of the code. The idle limits of `tcp` are the defaults, which
have states with and without a limit; established connections must lose the check
of their reservation and get none. Several browsers share nothing but the
hub's loop over them, which HubProofs treats for any number. The proofs remove the
bounds for all but liveness. The specifications may stop because experiments and
services end, so deadlock is not checked; what must not get stuck is stated by the
liveness properties.

**Fairness.** RunControl: weak fairness of the owner goroutine, which blocks only
in its own selects. World: weak fairness of the engine's loop and of repeating a
batch, which `runWorld` does. Hub: weak fairness of publisher, hub and each
connection's reader and writer; writes have deadlines and reads on a closed
connection return. Tcp: the engine does not stop while an event is left, a segment
under way or an armed timer (`EventLeft`); which event comes next is not
restricted, which is weaker than fairness of each. Browser: weak fairness of the
service and of what network, hub and page do by themselves, and strong fairness of
the service's release and clear of a stopped run: RunControl shows `StopCompletes`
under its own weak fairness, while RunService may refresh a record in between.
Nothing is assumed of browsers, requests, signals or the other timers.

What the runs show (`IInv` is the inductive invariant of the proofs; it contains
the type invariant and the parts named in brackets):

* *run_control*: no Stop is lost or blocks, a free service has an empty start
  channel, the owner holds its own run's context, no command crosses runs (`IInv`
  [`TypeOK`, `StopNeverBlocks`, `StopIsNotLost`, `OwnerHoldsItsContext`,
  `CommandsStayInTheirRun`]); every Stop ends (`StopCompletes`); every start is
  resolved (`StartResolves`); the abstract service is implemented
  (`ImplementsService`), which keeps record and frame in agreement.
* *browser*: once everything has arrived the document next to a run is that run's,
  after any late, aborted or failed read (`BrowserIsSound` [`BrowserTypeOK`,
  `ServerInv`, `FramesInv`, `LinkInv`, `ReadInv`, `StartInv`, `DocumentFitsTheRun`]); a pending Start is
  not ended by anything that belongs to another run, even when frames of its own
  are missing (`NoFalseAck`), and it does end (`StartEnds`). `BrowserIsSound` says
  nothing when no run is shown: the document of a run that was stopped before its
  launch stays beside the empty state until something asks again.
* *browser_stop*: `StopEnds` is **violated**, see *Finding*.
* *world*: events start in order (`StartsInOrder`), have one fate, are never
  scheduled in the past even when a duration overflows, and the limit is restored
  after a batch (`IInv` [`NeverSchedulesThePast`, `PendingIsAhead`,
  `LimitIsRestored`, `BatchIsBounded`, identities]); a batch result is true
  (`BatchResultIsTrue`) and every advance ends (`AdvanceEnds`). Each client has the
  settings of the most specific layer of its scenario, derived values follow
  overrides, what runs with accepted numbers can rely on them, and identities are
  distinct in any spelling (`SettingsAreSound`). Addresses are given once and are
  independent of the order in the file, and the clients that exist are those whose
  time has come, with their own settings (`WorkloadIsSound`). A traffic rate is
  that of the events in its window, wherever batches stop (`RateIsTrue`).
* *hub*: the newest frame is always on its way and arrives (`IInv`
  [`NewestIsOnItsWay`], `NewestArrives`), no rejection is lost silently, and a graph
  is published before its frame (`IInv` [`RejectionIsNotLost`, `GraphInv`]);
  stopped connections are forgotten and every goroutine ends (`EveryoneLeaves`).
* *backend*: no packet lost or counted twice, no idle core beside a waiting packet,
  a true longest wait (`IInv` [`Conservation`, `NoIdleCore`, `MaxQueueWaitIsTrue`]).
  A failure is noticed within one interval and one timeout, a recovery within one
  interval, a shutdown leaves no timer, and a machine that is down holds no work
  (`ChangesAreNoticed`); a backend that could answer is not marked down
  (`AnswerIsNotOverruled`).
* *balancer*: the tables agree and capacities hold (`RoutesAreSound`), a packet
  is sent only on the mapping and for the client it belongs to
  (`SentWhereItBelongs`), phases only advance (`PhaseNeverGoesBack`), idle
  mappings are swept within their limit and one interval (`SweptInTime`), a SYN
  is refused only when there is no room (`RoomIsFound`).
* *egress*: a waiting packet's output is in the heap exactly when its link is free,
  and while the budget holds it back one useful wake-up is pending at the grant;
  a packet admitted without a waiting place is gone when `Transmit` returns; every
  offered packet has one fate (`QueuesAreSound` [`EgressTypeOK`, `NoReadyOutputSleeps`,
  `OneUsefulWake`, `Conservation`, `BudgetInv`, `DispatchInv`]); the reported budget wait is true at
  every moment, also after a stop (`BudgetWaitIsTrue`); the oldest ready head goes
  first and no packet that starts at once was selected for a congestion signal
  (`StartsInTurn`).
* *access*: the shared link never idles beside a waiting packet, each input's
  statistics are true for its own packets, and a congestion mark reaches the
  balancer with its packet and no other (`InputIsSound`); a link is a lossy FIFO
  path (`ImplementsFifo`), and so are the shared input and the whole way from a
  client, beside any other traffic (`WayIsFifo`).
* *tcp*: neither end waits without an event that repeats what it waits for or gives
  up, except the backend in a state whose idle limit is disabled, and no idle check
  outlives the state it is for, where it would end a connection that has no limit;
  the host's counters are exactly the connections that exist, and the inductive
  invariant of the proofs holds (`EndsAreSound` [`ClientIsTimed`, `BackendIsTimed`,
  `CountsAreExact`, `IInv`]); confirmed bytes have been read in order, and success and a graceful end are true
  (`ImplementsTransfer`); every connection ends at the client, and at the backend
  unless it is left half-open or established with that limit disabled
  (`EveryConnectionEnds`). With established connections unlimited, as by default,
  a client that gives up unheard leaves one behind. The three properties were also
  checked for the other seven choices of the idle limits, by changing the two
  constants in the cfg.
* *sender*, the window: it is always between one segment and the ceiling, the
  threshold never below two segments; sent, unsent and confirmed bytes are the
  stream; a recovery lies within the flight the loss detection guards; reductions
  are known to whoever may ask for the next; no round trip is measured on
  retransmitted data; pending data and a sender with nothing in flight have an
  event (`IInv` [`WindowIsUsable`, `HandshakeComesFirst`, `StreamIsComplete`,
  `RecoveryIsGuarded`, `ReductionsAreKnown`, `MeasuresOnlyFresh`, `DataIsTimed`,
  `NobodyWaits`]); acknowledgements reduce the window once per flight
  (`OneReductionPerFlight`).
* *sender*, SACK: the board is the set of positions reported, policy and sender
  agree on the recovery, the estimate of the data under way is what RFC 6675
  defines position by position (`SackIsSound`); a recovery repairs only what is
  missing, once (`RepairsAreNeeded`); it goes on without a timeout until the
  estimate leaves no room, and no transfer is silent for ever (`TransferGoesOn`).
* *sender*, timeouts: the estimate is the exact one of RFC 6298 limited by the
  maximum, nothing wraps, and all delays lie within the limits (`TimeoutIsSound`).

`OrderedFrames` and `NoLostRejection` of the hub, `CoresServeInOrder` and
`StatisticsAreTrue` of the host, `OneFate` of the engine, and `CommandIsolation` and
`ViewsAgree` of the run control are proved for all constants, so no run checks them
again.

**Finding.** The page ends a pending Stop only when it receives an idle frame
(`useSimulation.ts:104`). But the hub may keep only the latest frame
(`README.md:486` of the repository), and when another user starts a run right
after the Stop, its running frame can replace the idle one before the browser has
read it. The Stop was carried out, yet `stopPending` stays set, and the page
offers neither Start nor Stop until that other run is removed by somebody else or
the connection is made anew. `browser_stop` finds it without any fault. For Start
the code knows of this coalescing (`useSimulation.ts:101`) and reads the record
over HTTP instead, which is why `StartEnds` holds.

## Proofs

The theorems hold for every value of the constants that satisfies the named
assumptions, which give the constants their types and to sizes and limits what
normalisation accepts. Each proof shows that an inductive invariant (`IInv`,
`BalancerInv`, `BudgetInv`, `SackInv`, `TimeoutIsSound`) holds initially and is
preserved by every action, and derives the properties from it.

* **RunControlProofs**: `IInv` adds to the properties what the owner's position
  implies: which run it holds and whether its context is still the reserved one
  (`SlotInv`, `WaitingInv`, `LaunchedInv`), that run numbers ahead are unused
  (`FreshInv`), that a cancelled reservation means
  that a Stop is pending (`CancelInv`), and what has been cleared in the middle
  of `clear` (`ClearingInv`). `Refinement` maps the controller to RunService.
* **EngineProofs**: pending events lie ahead of the clock and of the last event
  started; identities partition into pending, run and dropped. The second half is
  about World: its steps are steps of Engine (`WorldRunsOnEngine`), so the order and
  fate of events hold in every world. Rates are true because a closed window lies
  behind the clock and the open one counts exactly the events since its start
  (`Counted`, `WindowIsClosed`). Products of accepted numbers fit (`ProductFits`),
  since normalisation divides the largest duration before it accepts a factor
  (`AcceptedSettingsFit`). The settings of a client: patching layer by layer takes
  each field from the last layer that states it, for a link as for a stream, the
  first override at or after an index in the sorted list is that of the index or
  none is, and a sum of counts below the limit is a sum of disjoint sets
  (`ScenariosBecomeSettings`). The workload needs `WorkloadInv`: a group's next
  index lies behind its own clients (`GroupsFollow`); the first batch of a group has
  its share of the addresses, those of commands lie beyond, and no two overlap
  (`BatchesFollow`); each arrival has its event, pending or running, at the planned
  time (`ArrivalsFollow`); a client is of one batch and behind what its arrival has
  yet to give (`ClientsFollow`); and an index of a batch was created, is ahead of an
  arrival, or lies beyond the end (`NoneIsForgotten`). The last one is what makes
  the clients created exactly those that are due (`WorkloadAlwaysSound`).
* **HubProofs**: frames are ordered along their way from `latest` to the browser
  (`FramesInOrder`), the second send of `queueLatest` finds either an empty
  channel or nothing it could lose (`ResendInv`), graphs precede frames
  (`GraphInv`), rejections are counted (`ReportInv`). The second half is about
  Browser and the abstract service behind it. A run number is *known* when it names
  no run that is still to be shown, and stays so (`Known`); everything the browser
  holds of this server is known (`FramesInv`, `StartInv`), the record of a run that
  says accepted is not, so nothing can acknowledge it too early (`NoFalseAck`).
  Frames leave a run for good (`LinkInv`), and the record is ahead of the frames
  (`ServerInv`, `AheadOfFrames`): a document read for a run that is still shown is
  that run's, or another frame follows and the effect reads again (`ReadInv`).
* **HostProofs**: acceptance numbers in use are below the counter and waiting
  packets are ordered by arrival time (`Numbered`), which makes the head's wait
  the longest one. The second half is about Backend: its steps are steps of Host
  (`BackendRunsOnHost`), and where the round of probing is bounds how long a change
  has been visible (`Rounds`, `Detection`): the next tick and the timeout of a round
  say the same time, so a change that the round just missed is seen by the next one.
* **BalancerProofs**: the connection list of a backend is told entry by entry: it
  has one entry for each client registered and mapped to this backend, and no
  other (`ListOf`, `AllLists`), so an unmapped key is in no list. An admission at
  the end and a removal by selection preserve that for one list and leave the
  others alone, and a mapping is only made where there was room (`PickHasRoom`);
  `RoutesInv` adds what this needs and gives `RoutesAlwaysSound`. The candidates are
  all usable backends, once (`Selection`), and the rotation reaches each of them,
  so a client is refused only when none has room (`RoomIsAlwaysFound`).
  The number of a mapping is unique and what is held back
  refers to a mapping that is, or was, the one of its key (`Mappings`,
  `HeldBack`), so the comparison of pointers before a delayed send decides
  correctly, and an idle mapping is at most one interval past its limit because
  a sweep is due whenever a mapping exists (`SweptInTime`).
  The next part is about the budget of Egress: the heap is exact, the current
  interval starts at the present while `dispatch` runs, is open outside it exactly
  while outputs are ready, and what has been closed plus what is open is the real
  wait (`IntervalInv`). The lemmas compute the length of an interval before and
  after closing it. The last part is about the packets and the agenda of Egress.
  Every event of the agenda ends something that is still going on and no two end
  the same (`EventsInv`), so running or cancelling one never leaves another without
  its link or packet; this is also why one wake-up at most is pending, and `WakeInv`
  why it is there when needed. Admission numbers in the queues, on the transmitters
  and behind them are disjoint (`PlacesInv`), so counting them is exact and
  conservation follows action by action. `Transmit` appends before it dispatches:
  `RoomInv` names the only packet that may wait without a place, and `TurnInv` says
  why one that was selected for a signal does not start at once, which gives
  `StartsInTurn`.
* **LinkProofs**: packets stand in line by acceptance number (`InLine`): pipe, then
  transmitter, then queue. So the current packet is nowhere else and the head of
  the pipe is the oldest; `Refinement` follows action by action.
  The shared input needs more (`SharedInv`): the same line over all inputs
  (`Ordered`, `Placed`), and that while a packet is on the transmitter the
  dispatcher remembers its input and the losses counted before it
  (`Attributed`), which is why a counter shared by all inputs attributes each
  loss to the right one. The statistics follow by counting packets (`Counted`).
  For the marks, a packet the input carries has left the link, so it can no
  longer be signalled there (`CarriedSound`, `MarksSound`). End to end, the client's
  packets are carried in the order of the link although replies come in between
  (`CarriedOrdered`); so what arrives is the client's oldest, a packet handed over
  only changes the hop, and the arrivals selected from those of the input grow at
  their end alone (`SelectionGrows`). `WayIsLossyFifo` follows action by action.
* **CongestionProofs**: each operator of the model has a lemma: it takes a
  well-formed, sound sender to one, and what it leaves alone is named
  (`SameStream`, `SameGuards`, ...). A handler composes operators and its proof
  composes their lemmas. Inside a handler a sender may be left without an event;
  `QueueSegmentIsSound` restores `NobodyWaits` at its end, because only data in
  flight can close a usable window (`SilenceIsForData`). `OneReduction` follows
  from `ReductionsAreKnown`: without ECN a reduction is paid for until the loss
  detection forgets its flight, with ECN until the ECN sender does.
  The second half is about Sack, for any stream, segment size, window and number of
  blocks, any losses and any overtaking. First the scoreboard, position by
  position: `Insert` covers what the board and the block cover, nothing else, and
  keeps the blocks sorted and apart; `Update` adds a report and forgets what lies
  below the acknowledgement; the hole the code finds by walking the blocks is the
  first one that is not covered; and what `pipeBytes` adds up hole by hole is
  RFC 6675's count of positions. Then `SackInv`. `SenderIsSound` ties board, estimate,
  flight and window to each other and says how far a recovery has come: every
  unreported position below `retransmittedEnd` was repaired, and what made it use
  or forgo its rescue. It holds inside a handler too; `IsAtRest` only between
  handlers: with room for a segment, a recovery has no hole left. `NetworkIsSound`
  makes every report under way true of the receiver, however old; its clause that
  no acknowledgement under way lies inside the blocks of another keeps the oldest
  unconfirmed position off the board when reports overtake. `Undisturbed`
  follows what was repaired while nothing is lost: it is under way, reported, or
  told by a report under way (`OnItsWay`). Hence `TransferGoesOn`: with an empty
  network everything repaired was reported, and the end of the flight by the
  rescue, so a silent recovery with room would have confirmed everything. The repair
  loop ends because a turn leaves less to do (`ToDo`), within the turns the
  function has.
* **TcpProofs** is about the connection, for any payload, sizes, windows and limits,
  idle limits enabled or not, and any losses and overtaking. A lemma per operator of the two ends says what it
  needs and what it leaves; steps follow from the lemmas of their handlers. Of
  the client, `Counted` says that the positions sent, unsent and confirmed add up
  and that the retransmission queue is a chain of segments over exactly what is
  in flight: without the chain a partly confirmed segment could not be cut, and
  without the sums nobody could tell that an acknowledgement confirms all of the
  payload. `Settled` ties the result to what is confirmed and `Timed` the armed
  events to what is awaited; inside a handler only `Well` holds, and the part of
  the handler that restores the rest has to be reached on every path. `FinTimed`
  is why a FIN timer that fires finds a FIN. Of the backend, `Held` says that what
  is read or buffered has arrived, `InState` how the state and the two FINs
  correspond, `TimedConn` who repeats or gives up: an idle check is armed exactly in
  the states that have a limit (`IdleCheckIs`), so each handler that leaves such a
  state has to cancel it. `WireInv` bounds every
  acknowledgement under way by the longest prefix the backend ever had, also that
  of a connection the backend has forgotten since, and `HistInv` bounds what the
  client confirmed by it. `TransferIsImplemented` follows: a step of the client
  moves as `Moved` allows, a step of the backend only lengthens the prefix.
  The first part is about Rto: `TimeoutIsSound` is inductive as it stands. The
  lemmas show that no intermediate value leaves the width of a duration, which
  the code achieves by comparing before it adds or multiplies, and that moving by
  a rounded part of a difference is the rounded average.

Only model-checked: the liveness properties, because fairness and ENABLED are
outside the prover's reach. A theorem states every invariant and every action
property of the runs.

## Plan

Balancer composed with Host and Egress in the place of its FIFO and `sent`.

**Not modelled.** CUBIC is floating-point arithmetic over real time, which TLC
does not evaluate. Decoding documents, the command line, presentation and the
drawing of telemetry convert data without shared state. UDP is an empty package.
The SYN flood of a client and the gaps between its sends only restrict the times
of events that Tcp leaves free. Byte counters and displayed totals repeat packet
counters that are modelled.
