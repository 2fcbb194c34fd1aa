------------------------------- MODULE Egress -------------------------------
(***************************************************************************)
(* The balancer's outgoing side (network/egress.go) with the links it      *)
(* manages (network/link.go): every output has its own link and waiting    *)
(* FIFO, and all of them share one forwarding budget.                      *)
(*                                                                         *)
(* A packet is the number of its admission (nextSequence).  The heap of    *)
(* ready outputs is a set with the order Less gives it: admissions of      *)
(* later virtual time have larger numbers, so the number alone decides.    *)
(* The engine's events are the sequence agenda in the order in which they  *)
(* run.  The loop of dispatch is DispatchNext, repeated while dispatching  *)
(* holds; nothing else can happen then.                                    *)
(***************************************************************************)
EXTENDS Integers, Sequences, FiniteSets

CONSTANTS
  Outputs,
  QueueCapacity,  \* per output, its waiting places
  Threshold,      \* per output, the first waiting place that signals congestion
  Sizes,          \* packet sizes; WireSize is never zero
  Cost,           \* forwarding cost of a size
  Serialization,  \* per output, the time a size occupies its link
  TravelTime,
  EndTime,        \* end of the virtual experiment
  MaxOffered      \* bound on offered packets

ASSUME EgressAssumption ==
  /\ QueueCapacity \in [Outputs -> Nat] /\ Threshold \in [Outputs -> Nat]
  /\ Cost \in [Sizes -> Nat \ {0}] /\ Serialization \in [Outputs -> [Sizes -> Nat]]
  /\ TravelTime \in Nat /\ EndTime \in Nat /\ MaxOffered \in Nat

VARIABLES
  now, agenda,
  queue,        \* per output, waiting packets [id, size], oldest first
  sending,      \* per output, the packet its link serializes, 0 when free
  travelling,   \* per output, packets behind the link's transmitter
  ready, dispatching,
  nextGrantAt, grantBeyondEnd, wakeEvent, wakeAt,
  budgetWait, budgetWaiting, budgetWaitStartedAt,
  stopped,
  (* Stats *)
  offered, accepted, dropped, queuedPackets, forwarded, delivered, lost,
  (* history *)
  offering,     \* the packet whose Transmit has not returned, or 0
  signalled,    \* admitted packets selected for a congestion signal
  blocked,      \* time during which ready traffic was really held back
  discarded     \* packets abandoned when the world stopped

budget == <<nextGrantAt, grantBeyondEnd, wakeEvent, wakeAt>>
accounting == <<budgetWait, budgetWaiting, budgetWaitStartedAt>>
counters == <<offered, accepted, dropped, queuedPackets, forwarded, delivered, lost>>
history == <<offering, signalled, blocked, discarded>>
egressVars == <<now, agenda, queue, sending, travelling, ready, dispatching, budget,
                accounting, stopped, counters, history>>

Lesser(a, b) == IF a <= b THEN a ELSE b
Waiting(o) == Len(queue[o])

EgressInit ==
  /\ now = 0 /\ agenda = << >>
  /\ queue = [o \in Outputs |-> << >>]
  /\ sending = [o \in Outputs |-> 0] /\ travelling = [o \in Outputs |-> {}]
  /\ ready = {} /\ dispatching = FALSE
  /\ nextGrantAt = 0 /\ grantBeyondEnd = FALSE
  /\ wakeEvent = FALSE /\ wakeAt = 0
  /\ budgetWait = 0 /\ budgetWaiting = FALSE /\ budgetWaitStartedAt = 0
  /\ stopped = FALSE
  /\ offered = 0 /\ accepted = 0 /\ dropped = 0 /\ queuedPackets = 0
  /\ forwarded = 0 /\ delivered = 0 /\ lost = 0
  /\ offering = 0 /\ signalled = {} /\ blocked = 0 /\ discarded = 0

-----------------------------------------------------------------------------
(* The engine.  Events of one time run in the order of their scheduling;   *)
(* one beyond the end of the run is never stored.  The agenda is ordered,  *)
(* so the events that come before a new one are its first ones.            *)

Scheduled(events, e) ==
  LET earlier == Cardinality({i \in DOMAIN events : events[i].at <= e.at})
  IN  IF e.at > EndTime THEN events
      ELSE SubSeq(events, 1, earlier) \o <<e>> \o SubSeq(events, earlier + 1, Len(events))

(* An event is cancelled by its identity; of what the dispatcher cancels   *)
(* there is at most one.                                                   *)
Cancelled(events, what) ==
  LET found == {i \in DOMAIN events : events[i].what = what}
      k == CHOOSE i \in found : TRUE
  IN  IF found = {} THEN events
      ELSE SubSeq(events, 1, k - 1) \o SubSeq(events, k + 1, Len(events))

Due == agenda # << >> /\ Head(agenda).at = now

Idle == ~dispatching /\ ~stopped

-----------------------------------------------------------------------------
(* The shared budget.                                                      *)

BudgetUnavailable == grantBeyondEnd \/ now < nextGrantAt
BudgetBlocked == ready # {} /\ BudgetUnavailable

CurrentBudgetWait ==
  LET end == IF grantBeyondEnd THEN now ELSE Lesser(now, nextGrantAt)
  IN  IF budgetWaiting /\ end > budgetWaitStartedAt
      THEN end - budgetWaitStartedAt ELSE 0

(* Stats of the egress.                                                    *)
ReportedBudgetWait == budgetWait + CurrentBudgetWait

AccountWithoutClosing(readyNow) ==
  /\ budgetWait' = budgetWait + CurrentBudgetWait
  /\ budgetWaiting' = (readyNow # {} /\ BudgetUnavailable)
  /\ budgetWaitStartedAt' = IF budgetWaiting THEN budgetWaitStartedAt ELSE now

(* accountBudgetWait, given the ready outputs of that moment.              *)
AccountBudgetWait(readyNow) ==
  /\ budgetWait' = budgetWait + CurrentBudgetWait
  /\ budgetWaiting' = (readyNow # {} /\ BudgetUnavailable)
  /\ budgetWaitStartedAt' = now

(* reserveBudget: an unused grant is lost.                                 *)
ReserveBudget(cost) ==
  /\ grantBeyondEnd' = (cost > EndTime - now)
  /\ nextGrantAt' = IF cost > EndTime - now THEN EndTime ELSE now + cost

(* scheduleBudgetWake: one wake-up at the next grant, while it is needed.  *)
ScheduleBudgetWake ==
  LET needed == BudgetBlocked /\ ~grantBeyondEnd
      kept == needed /\ wakeEvent /\ wakeAt = nextGrantAt
      others == Cancelled(agenda, "wake")
  IN  \/ kept /\ UNCHANGED <<agenda, wakeEvent, wakeAt>>
      \/ /\ ~kept /\ ~needed
         /\ agenda' = others /\ wakeEvent' = FALSE /\ UNCHANGED wakeAt
      \/ /\ ~kept /\ needed
         /\ agenda' = Scheduled(others, [at |-> nextGrantAt, what |-> "wake"])
         /\ wakeEvent' = TRUE /\ wakeAt' = nextGrantAt

-----------------------------------------------------------------------------
(* dispatch.                                                               *)

(* Entering dispatch after the ready outputs have become readyNow.         *)
BeginDispatch(readyNow) ==
  /\ ready' = readyNow
  /\ dispatching' = TRUE
  /\ AccountBudgetWait(readyNow)

IsAnyReady(o) == o \in ready

IsOldestReady(o) ==
  o \in ready /\ \A p \in ready : Head(queue[o]).id <= Head(queue[p]).id

(* One turn of the loop: the oldest ready head is handed to its link.      *)
DispatchNext ==
  /\ dispatching /\ ~BudgetUnavailable
  /\ \E o \in ready :
       LET p == Head(queue[o]) IN
       /\ IsOldestReady(o)
       /\ ready' = ready \ {o}
       /\ queue' = [queue EXCEPT ![o] = Tail(@)]
       /\ sending' = [sending EXCEPT ![o] = p.id]
       /\ agenda' = Scheduled(agenda, [at |-> now + Serialization[o][p.size],
                                       what |-> "sent", output |-> o])
       /\ queuedPackets' = queuedPackets - 1 /\ forwarded' = forwarded + 1
       /\ ReserveBudget(Cost[p.size])
  /\ UNCHANGED <<now, travelling, dispatching, wakeEvent, wakeAt, accounting,
                 stopped, offered, accepted, dropped, delivered, lost, history>>

(* The deferred function when the loop ends.                               *)
DispatchReturns ==
  /\ dispatching /\ (ready = {} \/ BudgetUnavailable)
  /\ dispatching' = FALSE /\ offering' = 0
  /\ AccountBudgetWait(ready)
  /\ ScheduleBudgetWake
  /\ UNCHANGED <<now, queue, sending, travelling, ready, nextGrantAt,
                 grantBeyondEnd, stopped, counters, signalled, blocked, discarded>>

-----------------------------------------------------------------------------
(* TransmitECN.                                                            *)

CanStartAlone(o) == sending[o] = 0 /\ queue[o] = << >> /\ ~BudgetUnavailable

CanStartNow(o) ==
  /\ sending[o] = 0 /\ queue[o] = << >>
  /\ ~BudgetUnavailable /\ ready = {} /\ ~dispatching

Accepts(o) == CanStartNow(o) \/ Waiting(o) < QueueCapacity[o]

(* shouldSignalCongestion, a draw from the threshold on.                   *)
MaySignal(o) == Accepts(o) /\ ~CanStartNow(o) /\ Waiting(o) + 1 >= Threshold[o]

(* Dropped because the queue is full, or early because a packet that is    *)
(* not ECN capable was selected.                                           *)
OfferDropped(o) ==
  /\ Idle /\ offered < MaxOffered
  /\ ~Accepts(o) \/ MaySignal(o)
  /\ offered' = offered + 1 /\ dropped' = dropped + 1
  /\ UNCHANGED <<now, agenda, queue, sending, travelling, ready, dispatching,
                 budget, accounting, stopped, accepted, queuedPackets,
                 forwarded, delivered, lost, history>>

(* Admitted, with or without a mark; markReady and dispatch follow.        *)
OfferAccepted(o) ==
  /\ Idle /\ offered < MaxOffered
  /\ Accepts(o)
  /\ offered' = offered + 1 /\ accepted' = accepted + 1
  /\ queuedPackets' = queuedPackets + 1
  /\ \E s \in Sizes : queue' = [queue EXCEPT ![o] = Append(@, [id |-> accepted + 1, size |-> s])]
  /\ offering' = accepted + 1
  /\ \/ UNCHANGED signalled
     \/ MaySignal(o) /\ signalled' = signalled \cup {accepted + 1}
  /\ BeginDispatch(IF sending[o] = 0 THEN ready \cup {o} ELSE ready)
  /\ UNCHANGED <<now, agenda, sending, travelling, budget, stopped, dropped,
                 forwarded, delivered, lost, blocked, discarded>>

-----------------------------------------------------------------------------
(* Events.                                                                 *)

(* Serialization ends: the packet is lost or travels, the link is free,    *)
(* and its manager marks it ready and dispatches.                          *)
Transmitted(o) ==
  /\ Idle /\ Due /\ Head(agenda).what = "sent" /\ Head(agenda).output = o
  /\ sending' = [sending EXCEPT ![o] = 0]
  /\ \/ /\ lost' = lost + 1
        /\ agenda' = Tail(agenda)
        /\ UNCHANGED travelling
     \/ /\ travelling' = [travelling EXCEPT ![o] = @ \cup {sending[o]}]
        /\ agenda' = Scheduled(Tail(agenda), [at |-> now + TravelTime, what |-> "arrive",
                                              output |-> o, id |-> sending[o]])
        /\ UNCHANGED lost
  /\ BeginDispatch(IF queue[o] # << >> THEN ready \cup {o} ELSE ready \ {o})
  /\ UNCHANGED <<now, queue, budget, stopped, offered, accepted, dropped,
                 queuedPackets, forwarded, delivered, history>>

Arrive(o) ==
  /\ Idle /\ Due /\ Head(agenda).what = "arrive" /\ Head(agenda).output = o
  /\ travelling' = [travelling EXCEPT ![o] = @ \ {Head(agenda).id}]
  /\ delivered' = delivered + 1
  /\ agenda' = Tail(agenda)
  /\ UNCHANGED <<now, queue, sending, ready, dispatching, budget, accounting,
                 stopped, offered, accepted, dropped, queuedPackets, forwarded,
                 lost, history>>

WakeUp ==
  /\ Idle /\ Due /\ Head(agenda).what = "wake"
  /\ agenda' = Tail(agenda) /\ wakeEvent' = FALSE
  /\ BeginDispatch(ready)
  /\ UNCHANGED <<now, queue, sending, travelling, nextGrantAt, grantBeyondEnd,
                 wakeAt, stopped, counters, history>>

(* Virtual time passes when no event is due.                               *)
TimePasses ==
  /\ Idle /\ ~Due /\ now < EndTime
  /\ now' = now + 1
  /\ blocked' = IF BudgetBlocked THEN blocked + 1 ELSE blocked
  /\ UNCHANGED <<agenda, queue, sending, travelling, ready, dispatching,
                 budget, accounting, stopped, counters, offering, signalled,
                 discarded>>

QueuedIn(q) == UNION {{q[o][i].id : i \in DOMAIN q[o]} : o \in Outputs}
Queued == QueuedIn(queue)

InFlight ==
  Queued
  \cup {sending[o] : o \in {q \in Outputs : sending[q] # 0}}
  \cup UNION {travelling[o] : o \in Outputs}

(* World.Stop: the engine's queue is cleared, then every output, its link  *)
(* and the dispatcher discard what they hold.                              *)
Stop ==
  /\ Idle
  /\ stopped' = TRUE
  /\ agenda' = << >>
  /\ queue' = [o \in Outputs |-> << >>]
  /\ sending' = [o \in Outputs |-> 0] /\ travelling' = [o \in Outputs |-> {}]
  /\ budgetWait' = budgetWait + CurrentBudgetWait
  /\ ready' = {} /\ queuedPackets' = 0
  /\ budgetWaiting' = FALSE
  /\ nextGrantAt' = now /\ grantBeyondEnd' = FALSE /\ wakeEvent' = FALSE
  /\ discarded' = Cardinality(InFlight)
  /\ UNCHANGED <<now, dispatching, wakeAt, budgetWaitStartedAt,
                 offered, accepted, dropped, forwarded, delivered, lost,
                 offering, signalled, blocked>>

-----------------------------------------------------------------------------
EgressNext ==
  \/ DispatchNext \/ DispatchReturns
  \/ \E o \in Outputs :
       OfferDropped(o) \/ OfferAccepted(o) \/ Transmitted(o) \/ Arrive(o)
  \/ WakeUp \/ TimePasses \/ Stop

EgressSpec == EgressInit /\ [][EgressNext]_egressVars

-----------------------------------------------------------------------------
(* Properties.                                                             *)

Ids == 1 .. MaxOffered
Events ==
  [at : 0 .. EndTime, what : {"wake"}]
  \cup [at : 0 .. EndTime, what : {"sent"}, output : Outputs]
  \cup [at : 0 .. EndTime, what : {"arrive"}, output : Outputs, id : Ids]

(* The types of the state, and that Transmit never leaves more waiting     *)
(* than an output has places, although it appends before it dispatches.    *)
EgressTypeOK ==
  /\ now \in 0 .. EndTime /\ agenda \in Seq(Events)
  /\ queue \in [Outputs -> Seq([id : Ids, size : Sizes])]
  /\ sending \in [Outputs -> 0 .. MaxOffered]
  /\ travelling \in [Outputs -> SUBSET Ids]
  /\ ready \subseteq Outputs /\ dispatching \in BOOLEAN
  /\ nextGrantAt \in 0 .. EndTime /\ grantBeyondEnd \in BOOLEAN
  /\ wakeEvent \in BOOLEAN /\ wakeAt \in 0 .. EndTime
  /\ budgetWait \in Nat /\ budgetWaiting \in BOOLEAN
  /\ budgetWaitStartedAt \in 0 .. EndTime
  /\ stopped \in BOOLEAN
  /\ offered \in 0 .. MaxOffered /\ accepted \in 0 .. MaxOffered
  /\ dropped \in 0 .. MaxOffered /\ queuedPackets \in 0 .. MaxOffered
  /\ forwarded \in 0 .. MaxOffered /\ delivered \in 0 .. MaxOffered
  /\ lost \in 0 .. MaxOffered
  /\ offering \in 0 .. MaxOffered /\ signalled \subseteq Ids
  /\ blocked \in Nat /\ discarded \in 0 .. MaxOffered
  /\ ~dispatching => \A o \in Outputs : Waiting(o) <= QueueCapacity[o]

(* The heap holds exactly the outputs whose link is free and whose FIFO is *)
(* not empty (markReady, dispatch).                                        *)
HeapIsExact == ready = {o \in Outputs : queue[o] # << >> /\ sending[o] = 0}

(* A waiting packet is never forgotten: its output is in the heap, and     *)
(* when the budget keeps a ready output waiting there is a wake-up pending *)
(* at the grant, unless the grant lies beyond the end of the run           *)
(* (scheduleBudgetWake).                                                   *)
NoReadyOutputSleeps ==
  /\ HeapIsExact
  /\ ~dispatching /\ ready # {} /\ ~grantBeyondEnd =>
       \E i \in DOMAIN agenda : agenda[i].what = "wake" /\ agenda[i].at = nextGrantAt

(* At most one wake-up is pending, it is the one the dispatcher remembers, *)
(* and outside dispatch it is useful: some output waits for it.            *)
OneUsefulWake ==
  LET wakes == {i \in DOMAIN agenda : agenda[i].what = "wake"} IN
  /\ wakes # {} <=> wakeEvent
  /\ \A i \in wakes : agenda[i].at = wakeAt
  /\ \A i, j \in wakes : i = j
  /\ ~dispatching /\ wakeEvent => ready # {}

(* The budget wait that Stats reports is the time during which ready       *)
(* traffic was held back, counted once however many outputs waited, also   *)
(* after the world has stopped.                                            *)
BudgetWaitIsTrue == ~dispatching => ReportedBudgetWait = blocked

(* Every offered packet has one fate, and the counters agree with what the *)
(* queues and links hold.                                                  *)
Conservation ==
  /\ offered = accepted + dropped
  /\ accepted = Cardinality(InFlight) + delivered + lost + discarded
  /\ ~stopped =>
       forwarded + queuedPackets = accepted

(* Why the reported wait is true: outside dispatch the running interval is *)
(* open exactly while outputs are ready, and during dispatch it is empty,  *)
(* since dispatch has just closed it.                                      *)
IntervalInv ==
  /\ budgetWaitStartedAt <= now
  /\ dispatching => budgetWaitStartedAt = now
  /\ ~dispatching => (budgetWaiting <=> ready # {})
  /\ budgetWait + CurrentBudgetWait = blocked

(* The types the proofs need.                                              *)
BudgetNumbers ==
  /\ now \in Nat /\ nextGrantAt \in Nat /\ grantBeyondEnd \in BOOLEAN
  /\ budgetWait \in Nat /\ budgetWaiting \in BOOLEAN /\ blocked \in Nat
  /\ budgetWaitStartedAt \in Nat /\ dispatching \in BOOLEAN
  /\ accepted \in Nat

BudgetQueues ==
  /\ queue \in [Outputs -> Seq([id : Nat \ {0}, size : Sizes])]
  /\ sending \in [Outputs -> Nat]

(* Only the packet that Transmit is about to start may wait without a      *)
(* place: its output is then the only ready one, and the budget is free.   *)
RoomInv ==
  \A o \in Outputs :
    \/ Waiting(o) <= QueueCapacity[o]
    \/ dispatching /\ ready = {o} /\ Waiting(o) = 1 /\ ~BudgetUnavailable

(* Why no packet that starts at once was selected for a congestion signal: *)
(* a selected one is not the oldest head while its own dispatch has budget.*)
TurnInv ==
  /\ ~dispatching => offering = 0
  /\ offering \in 0 .. accepted /\ signalled \subseteq 1 .. accepted
  /\ dispatching /\ offering \in signalled /\ ~BudgetUnavailable =>
       \A o \in ready : IsOldestReady(o) => Head(queue[o]).id # offering

(* An event of the agenda ends what is still going on, and no two end the  *)
(* same.                                                                   *)
SameEnd(e, f) ==
  /\ e.what = f.what
  /\ e.what = "sent" => e.output = f.output
  /\ e.what = "arrive" => e.id = f.id

Elements(s) == {s[i] : i \in DOMAIN s}
NoTwoEndTheSame(s) == \A i, j \in DOMAIN s : SameEnd(s[i], s[j]) => i = j

EventsInv ==
  /\ \A e \in Elements(agenda) :
       /\ e.what = "sent" => sending[e.output] # 0
       /\ e.what = "arrive" => e.id \in travelling[e.output]
       /\ e.what = "wake" => wakeEvent /\ e.at = wakeAt
  /\ NoTwoEndTheSame(agenda)
  /\ wakeEvent => \E e \in Elements(agenda) : e.what = "wake"

(* A wake-up is pending when an output waits for the budget, at the grant. *)
WakeInv ==
  ~dispatching =>
    /\ wakeEvent => ready # {}
    /\ ready # {} /\ ~grantBeyondEnd => wakeEvent /\ wakeAt = nextGrantAt

(* Every admitted packet is in one place at most.                          *)
IdsDiffer(q) ==
  \A o, p \in Outputs : \A i \in DOMAIN q[o], j \in DOMAIN q[p] :
    q[o][i].id = q[p][j].id => o = p /\ i = j

PlacesInv ==
  /\ Queued \subseteq 1 .. accepted /\ IdsDiffer(queue)
  /\ \A o, p \in Outputs :
       /\ sending[o] \in 0 .. accepted /\ travelling[o] \subseteq 1 .. accepted
       /\ sending[o] \notin Queued /\ travelling[o] \cap Queued = {}
       /\ sending[o] # 0 /\ sending[o] = sending[p] => o = p
       /\ sending[o] \notin travelling[p]
       /\ o # p => travelling[o] \cap travelling[p] = {}

CountsInv ==
  /\ queuedPackets = Cardinality(Queued)
  /\ ~stopped => discarded = 0

DispatchInv ==
  /\ EventsInv /\ WakeInv /\ PlacesInv /\ CountsInv /\ RoomInv /\ TurnInv
  /\ stopped => ~dispatching

BudgetInv == BudgetNumbers /\ BudgetQueues /\ HeapIsExact /\ IntervalInv

(* What holds between any two steps of the dispatcher: the types and the   *)
(* bound on waiting packets, no sleeping output, one useful wake-up,       *)
(* one fate for every packet, and the inductive parts of the proofs.       *)
QueuesAreSound ==
  /\ EgressTypeOK /\ NoReadyOutputSleeps /\ OneUsefulWake /\ Conservation
  /\ BudgetInv /\ DispatchInv

(* A packet is not signalled for congestion and then sent at once: one     *)
(* that Transmit starts itself was not selected.  And the oldest head that *)
(* could go is never overtaken.                                            *)
StartsInTurn ==
  [][\A o \in Outputs :
       sending[o] = 0 /\ sending'[o] # 0 =>
         /\ sending'[o] = offering => offering \notin signalled
         /\ \A q \in Outputs :
              sending[q] = 0 /\ queue[q] # << >> => sending'[o] <= Head(queue[q]).id]_egressVars
=============================================================================
