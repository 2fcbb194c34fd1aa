-------------------------------- MODULE Host --------------------------------
(***************************************************************************)
(* The CPU of the balancer or of a backend (host/host.go): a fixed number  *)
(* of virtual cores, a waiting FIFO of limited size, and the accounting    *)
(* the results report.                                                     *)
(*                                                                         *)
(* A packet is the number of its acceptance.  complete finishes its own    *)
(* bookkeeping before it calls outside code, and Submit calls nothing once *)
(* it has queued, so what a callback does to the host (submit again,       *)
(* discard, stop) are further steps at the same virtual time.  The path of *)
(* cost zero, which only counts and calls back, is Bypass.                 *)
(***************************************************************************)
EXTENDS Integers, Sequences, FiniteSets

CONSTANTS
  Cores,          \* number of virtual cores
  QueueCapacity,  \* waiting places
  Costs,          \* values PacketProcessingTime may have
  EndTime,        \* end of the virtual experiment
  MaxOffered      \* bound on submitted packets

ASSUME HostAssumption ==
  /\ Cores \in Nat \ {0}
  /\ QueueCapacity \in Nat
  /\ Costs \subseteq Nat
  /\ EndTime \in Nat
  /\ MaxOffered \in Nat

VARIABLES
  cost,      \* PacketProcessingTime, fixed when the host is created
  now,
  queue,     \* waiting packets, oldest first
  active,    \* packets that hold a core
  since,     \* for each accepted packet, when it was queued
  due,       \* for each started packet, when it completes
  stopped,
  (* Stats *)
  offered, accepted, started, processed, queueDropped, discarded,
  busyTime, accountedAt, maxQueueWait,
  (* history *)
  occupied,  \* core time really used so far
  longest    \* the longest time any packet has really waited so far

counters == <<offered, accepted, started, processed, queueDropped, discarded>>
timeVars == <<busyTime, accountedAt>>
vars == <<cost, now, queue, active, since, due, stopped, counters, timeVars,
          maxQueueWait, occupied, longest>>

Packets == 1 .. MaxOffered
Larger(a, b) == IF a >= b THEN a ELSE b

Init ==
  /\ cost \in Costs
  /\ now = 0
  /\ queue = << >> /\ active = {}
  /\ since = [p \in Packets |-> 0] /\ due = [p \in Packets |-> 0]
  /\ stopped = FALSE
  /\ offered = 0 /\ accepted = 0 /\ started = 0 /\ processed = 0
  /\ queueDropped = 0 /\ discarded = 0
  /\ busyTime = 0 /\ accountedAt = 0 /\ maxQueueWait = 0
  /\ occupied = 0 /\ longest = 0

-----------------------------------------------------------------------------
(* accountBusyTime closes the interval in which the cores in use were the  *)
(* ones in active.                                                         *)
AccountBusyTime ==
  /\ accountedAt' = now
  /\ busyTime' = busyTime + (now - accountedAt) * Cardinality(active)

(* What Stats reports without changing anything.                           *)
ReportedBusyTime == busyTime + (now - accountedAt) * Cardinality(active)

ReportedMaxQueueWait ==
  IF queue = << >> THEN maxQueueWait
  ELSE Larger(maxQueueWait, now - since[Head(queue)])

SubmitBypass ==
  /\ cost = 0 /\ ~stopped /\ offered < MaxOffered
  /\ offered' = offered + 1 /\ accepted' = accepted + 1
  /\ started' = started + 1 /\ processed' = processed + 1
  /\ UNCHANGED <<now, queue, active, since, due, stopped, queueDropped,
                 discarded, timeVars, maxQueueWait, occupied, longest>>

(* Submit with a free core: start at once.                                 *)
SubmitStarts ==
  /\ cost > 0 /\ ~stopped /\ offered < MaxOffered
  /\ Cardinality(active) < Cores
  /\ offered' = offered + 1 /\ accepted' = accepted + 1
  /\ started' = started + 1
  /\ AccountBusyTime
  /\ active' = active \cup {accepted + 1}
  /\ since' = [since EXCEPT ![accepted + 1] = now]
  /\ due' = [due EXCEPT ![accepted + 1] = now + cost]
  /\ UNCHANGED <<now, queue, stopped, processed, queueDropped, discarded,
                 maxQueueWait, occupied, longest>>

(* Submit with every core busy: drop, or wait.                             *)
SubmitDrops ==
  /\ cost > 0 /\ ~stopped /\ offered < MaxOffered
  /\ Cardinality(active) >= Cores /\ Len(queue) >= QueueCapacity
  /\ offered' = offered + 1 /\ queueDropped' = queueDropped + 1
  /\ UNCHANGED <<now, queue, active, since, due, stopped, accepted, started,
                 processed, discarded, timeVars, maxQueueWait, occupied,
                 longest>>

SubmitWaits ==
  /\ cost > 0 /\ ~stopped /\ offered < MaxOffered
  /\ Cardinality(active) >= Cores /\ Len(queue) < QueueCapacity
  /\ offered' = offered + 1 /\ accepted' = accepted + 1
  /\ queue' = Append(queue, accepted + 1)
  /\ since' = [since EXCEPT ![accepted + 1] = now]
  /\ UNCHANGED <<now, active, due, stopped, started, processed, queueDropped,
                 discarded, timeVars, maxQueueWait, occupied, longest>>

CompleteNewestFirst(p) ==
  /\ p \in active /\ due[p] = now
  /\ processed' = processed + 1
  /\ AccountBusyTime
  /\ \/ /\ queue = << >>
        /\ active' = active \ {p}
        /\ UNCHANGED <<queue, due, started, maxQueueWait>>
     \/ /\ queue # << >>
        /\ active' = (active \ {p}) \cup {queue[Len(queue)]}
        /\ queue' = SubSeq(queue, 1, Len(queue) - 1)
        /\ due' = [due EXCEPT ![queue[Len(queue)]] = now + cost]
        /\ started' = started + 1
        /\ maxQueueWait' = Larger(maxQueueWait, now - since[Head(queue)])
  /\ UNCHANGED <<now, since, stopped, offered, accepted, queueDropped,
                 discarded, occupied, longest>>

(* complete: the freed core goes to the oldest waiter before outside code  *)
(* can submit anything.  Busy time is accounted with the cores in use up   *)
(* to now; the accounting start makes adds nothing at the same time.       *)
Complete(p) ==
  /\ p \in active /\ due[p] = now
  /\ processed' = processed + 1
  /\ AccountBusyTime
  /\ \/ /\ queue = << >>
        /\ active' = active \ {p}
        /\ UNCHANGED <<queue, due, started, maxQueueWait>>
     \/ /\ queue # << >>
        /\ active' = (active \ {p}) \cup {Head(queue)}
        /\ queue' = Tail(queue)
        /\ due' = [due EXCEPT ![Head(queue)] = now + cost]
        /\ started' = started + 1
        /\ maxQueueWait' = Larger(maxQueueWait, now - since[Head(queue)])
  /\ UNCHANGED <<now, since, stopped, offered, accepted, queueDropped,
                 discarded, occupied, longest>>

(* DiscardPending cancels the completions, so nothing of what it drops can *)
(* finish later.                                                           *)
Discard ==
  /\ AccountBusyTime
  /\ maxQueueWait' = ReportedMaxQueueWait
  /\ discarded' = discarded + Cardinality(active) + Len(queue)
  /\ active' = {} /\ queue' = << >>
  /\ UNCHANGED <<now, since, due, offered, accepted, started, processed,
                 queueDropped, occupied, longest>>

DiscardPending == ~stopped /\ Discard /\ UNCHANGED stopped

Stop == ~stopped /\ Discard /\ stopped' = TRUE

-----------------------------------------------------------------------------
(* Virtual time passes only when every completion that is due has run.     *)
Tick ==
  /\ now < EndTime
  /\ \A p \in active : due[p] > now
  /\ now' = now + 1
  /\ occupied' = occupied + Cardinality(active)
  /\ longest' = IF queue = << >> THEN longest
                ELSE Larger(longest, now + 1 - since[Head(queue)])
  /\ UNCHANGED <<queue, active, since, due, stopped, counters, timeVars,
                 maxQueueWait>>

Next ==
  /\ \/ SubmitBypass \/ SubmitStarts \/ SubmitDrops \/ SubmitWaits
     \/ \E p \in Packets : Complete(p)
     \/ DiscardPending \/ Stop
     \/ Tick
  /\ UNCHANGED cost

Spec == Init /\ [][Next]_vars

-----------------------------------------------------------------------------
TypeOK ==
  /\ cost \in Nat
  /\ now \in 0 .. EndTime
  /\ queue \in Seq(Packets) /\ active \in SUBSET Packets
  /\ since \in [Packets -> Nat] /\ due \in [Packets -> Nat]
  /\ stopped \in BOOLEAN
  /\ offered \in 0 .. MaxOffered /\ accepted \in 0 .. MaxOffered
  /\ started \in Nat /\ processed \in Nat
  /\ queueDropped \in Nat /\ discarded \in Nat
  /\ busyTime \in Nat /\ accountedAt \in 0 .. now /\ maxQueueWait \in Nat
  /\ occupied \in Nat /\ longest \in Nat

(* Nothing is lost or counted twice, whatever mixture of submissions,      *)
(* completions, discards and a stop has happened: every packet offered was *)
(* dropped or accepted, and every accepted one has been processed or       *)
(* discarded, or is on a core, or waits (host.go:58-81, 108, 187).         *)
Conservation ==
  /\ offered = accepted + queueDropped
  /\ accepted = processed + discarded + Cardinality(active) + Len(queue)

(* No packet waits while a core is free, and the limits hold: a completion *)
(* hands its core over in the same step (host.go:101-118).                 *)
NoIdleCore ==
  /\ queue # << >> => Cardinality(active) = Cores
  /\ Cardinality(active) <= Cores /\ Len(queue) <= QueueCapacity

(* First come, first served: among the packets accepted and not discarded, *)
(* a waiting one was accepted after every one that has started.            *)
ServedInOrder ==
  /\ \A i \in 1 .. Len(queue) : \A p \in active : p < queue[i]
  /\ \A i, j \in 1 .. Len(queue) : i < j => queue[i] < queue[j]

(* The busy time reported at any moment is the core time really used       *)
(* (host.go:151-155, 172).                                                 *)
BusyTimeIsTrue == ReportedBusyTime = occupied

(* The longest wait reported at any moment is the longest wait of any      *)
(* packet so far, one that was discarded or still waits included           *)
(* (host.go:92, 174, 186).                                                 *)
MaxQueueWaitIsTrue == ReportedMaxQueueWait = longest

-----------------------------------------------------------------------------
(* The inductive invariant: acceptance numbers in use are below the        *)
(* counter, and packets wait in the order of their arrival times.          *)
Numbered ==
  /\ \A p \in active : p <= accepted
  /\ \A i \in 1 .. Len(queue) : queue[i] <= accepted /\ since[queue[i]] <= now
  /\ \A i, j \in 1 .. Len(queue) : i < j => since[queue[i]] <= since[queue[j]]

IInv ==
  /\ TypeOK
  /\ Conservation /\ NoIdleCore /\ ServedInOrder /\ Numbered
  /\ BusyTimeIsTrue /\ MaxQueueWaitIsTrue
=============================================================================
