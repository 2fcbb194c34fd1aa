------------------------------- MODULE Access -------------------------------
(***************************************************************************)
(* The whole way from a client to the balancer (clients.go:157-166,        *)
(* packet_delivery.go): its own link (Link), then the balancer's input     *)
(* (Ingress), which it shares with the traffic that comes back from the    *)
(* backends.  What leaves the link is offered to the input in the same     *)
(* step, and the input may refuse it.                                      *)
(*                                                                         *)
(* A packet keeps the number the link gave it; carried says which one the  *)
(* input's numbers stand for, and with what congestion mark it arrives.    *)
(* The backends' own links are left out: what they deliver is offered to   *)
(* the input at any time.                                                  *)
(***************************************************************************)
EXTENDS Link, Selection

CONSTANTS
  clients, backends,   \* the inputs of the shared link
  NoInput,
  SharedCapacity, SharedThreshold,
  MaxReplies           \* bound on packets from the backends

VARIABLES
  inputQueue, nextSequence, inputSending, inputTravelling, inputLinkLost,
  transmittingInput, lossesBefore, inputStopped,
  inputOffered, inputAccepted, inputDropped, inputTransmitting,
  travellingPackets, deliveredPackets, lostPackets, queuedPackets,
  source, inputStarted, inputReallyLost, inputArrived,
  capable,             \* the client's packets that are ECN capable
  marked,              \* those the link marked
  carried,             \* per packet of the input: its number at the link (0 for a
                       \* reply) and the CE mark it arrives with
  (* history *)
  signalled            \* packets selected for a signal at any queue

Shared == INSTANCE Ingress WITH
            Inputs <- {clients, backends},
            QueueCapacity <- SharedCapacity, Threshold <- SharedThreshold,
            MaxOffered <- MaxOffered + MaxReplies,
            queue <- inputQueue, sending <- inputSending,
            travelling <- inputTravelling, linkLost <- inputLinkLost,
            stopped <- inputStopped, offered <- inputOffered,
            accepted <- inputAccepted, dropped <- inputDropped,
            transmitting <- inputTransmitting, started <- inputStarted,
            reallyLost <- inputReallyLost, arrived <- inputArrived

ASSUME AccessAssumption ==
  /\ NoInput \notin {clients, backends} /\ clients # backends
  /\ SharedCapacity \in Nat /\ SharedThreshold \in Nat /\ MaxReplies \in Nat

link == vars
input == <<inputQueue, nextSequence, inputSending, inputTravelling, inputLinkLost,
           transmittingInput, lossesBefore, inputStopped, inputOffered,
           inputAccepted, inputDropped, inputTransmitting, travellingPackets,
           deliveredPackets, lostPackets, queuedPackets, source, inputStarted,
           inputReallyLost, inputArrived>>
marks == <<capable, marked, signalled>>
way == <<link, input, carried, marks>>

WayInit ==
  /\ Init /\ Shared!Init
  /\ carried = << >> /\ capable = {} /\ marked = {} /\ signalled = {}

-----------------------------------------------------------------------------
(* The client sends an ECN capable packet or another one.  A signal marks  *)
(* the first and drops the second (TransmitECN, shouldSignalCongestion).   *)
ClientSends ==
  /\ \/ \E isCapable, selected \in BOOLEAN :
          /\ OfferAccepted
          /\ selected => MaySignal /\ isCapable
          /\ capable' = IF isCapable THEN capable \cup {accepted'} ELSE capable
          /\ marked' = IF selected THEN marked \cup {accepted'} ELSE marked
          /\ signalled' = IF selected THEN signalled \cup {accepted'} ELSE signalled
     \/ OfferDropped /\ UNCHANGED marks
  /\ UNCHANGED <<input, carried>>

LinkSends == TransmissionEnds /\ UNCHANGED <<input, carried, marks>>

PassedNewest == accepted

(* What transmitPacket freezes for the next hop: the packet itself, and    *)
(* the mark it has got so far.                                             *)
Passed == Head(pipe)
MarkPassed(p) == p \in marked

(* The link's arrival callback offers the packet to the shared input.      *)
HandOver ==
  /\ Arrive
  /\ LET p == Passed IN
     \/ \E selected \in BOOLEAN :
          /\ Shared!OfferAccepted(clients)
          /\ selected => Shared!MaySignal(clients) /\ p \in capable /\ ~MarkPassed(p)
          /\ carried' = Append(carried, [packet |-> p, ce |-> selected \/ MarkPassed(p)])
          /\ signalled' = IF selected THEN signalled \cup {p} ELSE signalled
     \/ /\ Shared!OfferDropped(clients)
        /\ Shared!Accepts(clients) => p \notin capable
        /\ UNCHANGED <<carried, signalled>>
  /\ UNCHANGED <<capable, marked>>

(* A reply comes off the link of a backend.                                *)
ReplyOffered ==
  /\ inputOffered[backends] < MaxReplies
  /\ \/ Shared!OfferAccepted(backends) /\ carried' = Append(carried, [packet |-> 0, ce |-> FALSE])
     \/ Shared!OfferDropped(backends) /\ UNCHANGED carried
  /\ UNCHANGED <<link, marks>>

InputSends == Shared!Transmitted /\ UNCHANGED <<link, carried, marks>>

(* The packet reaches HandleClientPacket or HandleServerPacket.            *)
Delivered == Shared!Arrive /\ UNCHANGED <<link, carried, marks>>

(* World.Stop discards what the links and the shared input hold.           *)
StopWorld == DiscardPending /\ Shared!DiscardPending /\ UNCHANGED <<carried, marks>>

WayNext ==
  \/ ClientSends \/ LinkSends \/ HandOver
  \/ ReplyOffered \/ InputSends \/ Delivered
  \/ StopWorld

WaySpec == WayInit /\ [][WayNext]_way

-----------------------------------------------------------------------------
(* A congestion mark survives all later hops, nothing else looks like one, *)
(* and it is put only on packets that can bear it.                         *)
MarksArrive ==
  /\ \A s \in DOMAIN carried :
       carried[s].packet # 0 => (carried[s].ce <=> carried[s].packet \in signalled)
  /\ marked \subseteq signalled /\ signalled \subseteq capable

(* The shared input is true to each of its inputs (ingress.go:171-233),    *)
(* was offered just what the client's link has delivered, and gets every   *)
(* mark (packet_delivery.go:16, link.go:125-127).                          *)
InputIsSound ==
  /\ Shared!IngressIsSound /\ MarksArrive
  /\ inputOffered[clients] = delivered /\ inputStopped = stopped
  /\ Len(carried) = nextSequence

Mine(sequence) == carried[sequence].packet # 0
Carried(packets) == {carried[s].packet : s \in {p \in packets : Mine(p)}}

InputHolds == (UNION {Elements(inputQueue[i]) : i \in {clients, backends}})
              \cup ({inputSending} \ {0}) \cup Elements(inputTravelling)

(* The client's packets on both hops, and those that have arrived, told by *)
(* the numbers the link gave them; a reply has the number zero.            *)
ClientUnderway == underway \cup Carried(InputHolds)

Numbers == [k \in DOMAIN inputArrived |-> carried[inputArrived[k]].packet]
Positive(s) == {k \in DOMAIN s : s[k] # 0}
ClientArrivals == ElementsAt(Numbers, Positive(Numbers))

Way == INSTANCE LossyFifo WITH
         underway <- ClientUnderway, arrived <- ClientArrivals, open <- ~stopped

(* End to end, over a link and an input shared with others, what a client  *)
(* sends is a lossy FIFO: it reaches the balancer at most once and in      *)
(* order, whatever is dropped or lost at any hop (clients.go:157-166); and *)
(* so is the shared input for all that enters it, in order of admission.   *)
WayIsFifo == Way!Spec /\ Shared!ImplementsFifo
=============================================================================
