------------------------------ MODULE Ingress ------------------------------
(***************************************************************************)
(* The balancer's incoming side (network/ingress.go): several input FIFOs  *)
(* are merged, oldest admission first, onto one physical link              *)
(* (network/link.go), whose losses and deliveries have to be attributed to *)
(* the input the packet came from.                                         *)
(*                                                                         *)
(* A packet is its admission number (sequence).  The virtual clock is left *)
(* out: serialization may take any time, and since all packets travel      *)
(* equally long they arrive in the order in which they left the link.      *)
(* Access puts a client's own link in front of it and states what is       *)
(* assumed of the constants.                                               *)
(***************************************************************************)
EXTENDS Integers, Sequences, FiniteSets

CONSTANTS
  Inputs,
  NoInput,        \* nil
  QueueCapacity,  \* waiting places of each input
  Threshold,      \* first waiting place that signals congestion
  MaxOffered      \* bound on offered packets

VARIABLES
  queue,              \* per input, waiting packets, oldest first
  nextSequence,
  sending,            \* the packet on the link's transmitter, 0 when free
  travelling,         \* packets behind the transmitter, oldest first
  linkLost,           \* the link's LostPackets
  transmittingInput, lossesBefore,
  stopped,
  (* Stats of the inputs, and QueuedPackets of the ingress *)
  offered, accepted, dropped, transmitting, travellingPackets, deliveredPackets,
  lostPackets, queuedPackets,
  (* history *)
  source,             \* the input each packet was offered to
  started,            \* packets in the order in which the link got them
  reallyLost, arrived

link == <<sending, travelling, linkLost>>
dispatcher == <<transmittingInput, lossesBefore>>
admission == <<offered, accepted, dropped>>
progress == <<travellingPackets, deliveredPackets, lostPackets>>
history == <<source, started, reallyLost, arrived>>
vars == <<queue, nextSequence, link, dispatcher, stopped, admission,
          transmitting, progress, queuedPackets, history>>

Packets == 1 .. MaxOffered
Zero == [i \in Inputs |-> 0]

Init ==
  /\ queue = [i \in Inputs |-> << >>] /\ nextSequence = 0
  /\ sending = 0 /\ travelling = << >> /\ linkLost = 0
  /\ transmittingInput = NoInput /\ lossesBefore = 0
  /\ stopped = FALSE
  /\ offered = Zero /\ accepted = Zero /\ dropped = Zero
  /\ transmitting = [i \in Inputs |-> FALSE]
  /\ travellingPackets = Zero /\ deliveredPackets = Zero /\ lostPackets = Zero
  /\ queuedPackets = 0
  /\ source = [p \in Packets |-> NoInput] /\ started = << >>
  /\ reallyLost = {} /\ arrived = << >>

-----------------------------------------------------------------------------
(* The input whose head was admitted first.                                *)
OldestInput(q, i) ==
  q[i] # << >> /\ \A j \in Inputs : q[j] # << >> => Head(q[i]) <= Head(q[j])

DispatchLate(q, waiting, losses) ==
  \/ /\ \A i \in Inputs : q[i] = << >>
     /\ queue' = q /\ queuedPackets' = waiting /\ sending' = 0
     /\ transmittingInput' = NoInput
     /\ UNCHANGED <<lossesBefore, started>>
  \/ \E i \in Inputs :
       /\ OldestInput(q, i)
       /\ queue' = [q EXCEPT ![i] = Tail(@)] /\ queuedPackets' = waiting - 1
       /\ sending' = Head(q[i]) /\ started' = Append(started, Head(q[i]))
       /\ transmittingInput' = i
       /\ UNCHANGED lossesBefore

(* dispatch on a free link, with q the waiting packets, their number and   *)
(* the losses of the link at that moment.                                  *)
Dispatch(q, waiting, losses) ==
  \/ /\ \A i \in Inputs : q[i] = << >>
     /\ queue' = q /\ queuedPackets' = waiting /\ sending' = 0
     /\ transmittingInput' = NoInput
     /\ UNCHANGED <<lossesBefore, started>>
  \/ \E i \in Inputs :
       /\ OldestInput(q, i)
       /\ queue' = [q EXCEPT ![i] = Tail(@)] /\ queuedPackets' = waiting - 1
       /\ sending' = Head(q[i]) /\ started' = Append(started, Head(q[i]))
       /\ transmittingInput' = i
       /\ lossesBefore' = losses

(* Stats.Transmitting of the inputs once the link has been given a packet. *)
Started == [i \in Inputs |-> i = transmittingInput']

-----------------------------------------------------------------------------
(* TransmitECN: only a packet that waits can be selected for a congestion  *)
(* signal; selected packets are marked, or dropped when not ECN capable.   *)

Ready == sending = 0
Accepts(i) == Ready \/ Len(queue[i]) < QueueCapacity
MaySignal(i) == Accepts(i) /\ ~Ready /\ Len(queue[i]) + 1 >= Threshold

OfferDropped(i) ==
  /\ ~stopped /\ offered[i] < MaxOffered
  /\ ~Accepts(i) \/ MaySignal(i)
  /\ offered' = [offered EXCEPT ![i] = @ + 1]
  /\ dropped' = [dropped EXCEPT ![i] = @ + 1]
  /\ UNCHANGED <<queue, nextSequence, link, dispatcher, stopped, accepted,
                 transmitting, progress, queuedPackets, history>>

OfferAccepted(i) ==
  /\ ~stopped /\ nextSequence < MaxOffered
  /\ Accepts(i)
  /\ offered' = [offered EXCEPT ![i] = @ + 1]
  /\ accepted' = [accepted EXCEPT ![i] = @ + 1]
  /\ nextSequence' = nextSequence + 1
  /\ source' = [source EXCEPT ![nextSequence + 1] = i]
  /\ LET q == [queue EXCEPT ![i] = Append(@, nextSequence + 1)] IN
     \/ Ready /\ Dispatch(q, queuedPackets + 1, linkLost) /\ transmitting' = Started
     \/ /\ ~Ready
        /\ queue' = q /\ queuedPackets' = queuedPackets + 1
        /\ UNCHANGED <<sending, dispatcher, transmitting, started>>
  /\ UNCHANGED <<travelling, linkLost, stopped, dropped, progress, reallyLost,
                 arrived>>

(* The link finishes a packet, which is lost or travels; then              *)
(* finishTransmission attributes it and dispatches the next one.           *)
Transmitted ==
  /\ sending # 0
  /\ \/ /\ linkLost' = linkLost + 1 /\ reallyLost' = reallyLost \cup {sending}
        /\ UNCHANGED travelling
     \/ travelling' = Append(travelling, sending) /\ UNCHANGED <<linkLost, reallyLost>>
  /\ IF linkLost' # lossesBefore
     THEN /\ lostPackets' = [lostPackets EXCEPT ![transmittingInput] = @ + 1]
          /\ UNCHANGED travellingPackets
     ELSE /\ travellingPackets' = [travellingPackets EXCEPT ![transmittingInput] = @ + 1]
          /\ UNCHANGED lostPackets
  /\ Dispatch(queue, queuedPackets, linkLost')
  /\ transmitting' = Started
  /\ UNCHANGED <<nextSequence, stopped, admission, deliveredPackets, source, arrived>>

(* The arrival callback counts for the input it was created for.           *)
Arrive ==
  /\ travelling # << >>
  /\ LET p == Head(travelling) i == source[p] IN
     /\ travellingPackets' = [travellingPackets EXCEPT ![i] = @ - 1]
     /\ deliveredPackets' = [deliveredPackets EXCEPT ![i] = @ + 1]
     /\ arrived' = Append(arrived, p)
  /\ travelling' = Tail(travelling)
  /\ UNCHANGED <<queue, nextSequence, sending, linkLost, dispatcher, stopped,
                 admission, transmitting, lostPackets, queuedPackets, source,
                 started, reallyLost>>

(* World.Stop clears the engine's events and calls DiscardPending.         *)
DiscardPending ==
  /\ ~stopped /\ stopped' = TRUE
  /\ queue' = [i \in Inputs |-> << >>] /\ queuedPackets' = 0
  /\ sending' = 0 /\ travelling' = << >>
  /\ transmittingInput' = NoInput
  /\ transmitting' = [i \in Inputs |-> FALSE]
  /\ travellingPackets' = Zero
  /\ UNCHANGED <<nextSequence, linkLost, lossesBefore, admission,
                 deliveredPackets, lostPackets, history>>

-----------------------------------------------------------------------------
Next ==
  \/ \E i \in Inputs : OfferDropped(i) \/ OfferAccepted(i)
  \/ Transmitted \/ Arrive \/ DiscardPending

Spec == Init /\ [][Next]_vars

-----------------------------------------------------------------------------
(* Properties.                                                             *)

Elements(s) == {s[k] : k \in DOMAIN s}
From(i, packets) == Cardinality({p \in packets : source[p] = i})

(* The types of the state.                                                 *)
TypeOK ==
  /\ queue \in [Inputs -> Seq(Packets)] /\ nextSequence \in 0 .. MaxOffered
  /\ sending \in 0 .. MaxOffered /\ travelling \in Seq(Packets)
  /\ linkLost \in Nat /\ lossesBefore \in Nat
  /\ transmittingInput \in Inputs \cup {NoInput} /\ stopped \in BOOLEAN
  /\ \A stat \in {offered, accepted, dropped, travellingPackets, deliveredPackets, lostPackets} :
       stat \in [Inputs -> Nat]
  /\ transmitting \in [Inputs -> BOOLEAN] /\ queuedPackets \in Nat
  /\ source \in [Packets -> Inputs \cup {NoInput}]
  /\ started \in Seq(Packets) /\ arrived \in Seq(Packets) /\ reallyLost \subseteq Packets

(* The link never idles while a packet waits, no input holds more than its *)
(* places, and an accepted packet waits in its own input.                  *)
QueuesAreServed ==
  /\ Ready => \A i \in Inputs : queue[i] = << >>
  /\ \A i \in Inputs : Len(queue[i]) <= QueueCapacity
  /\ \A i \in Inputs, p \in Packets : p \in Elements(queue[i]) => source[p] = i

(* The statistics of every input are true for its own packets, although    *)
(* the link knows nothing of inputs and losses are recognised by a counter *)
(* that several packets share; a discard does not disturb them.            *)
AttributionIsTrue ==
  /\ queuedPackets = Cardinality(UNION {Elements(queue[i]) : i \in Inputs})
  /\ \A i \in Inputs :
       /\ lostPackets[i] = From(i, reallyLost)
       /\ deliveredPackets[i] = From(i, Elements(arrived))
       /\ travellingPackets[i] = From(i, Elements(travelling))
       /\ transmitting[i] <=> From(i, {sending} \ {0}) = 1
       /\ offered[i] = accepted[i] + dropped[i]
       /\ ~stopped =>
            accepted[i] = Len(queue[i]) + From(i, {sending} \ {0})
                          + travellingPackets[i] + deliveredPackets[i] + lostPackets[i]

(* The shared link serves the inputs in the order of admission, whichever  *)
(* input a packet entered (dispatch compares only the heads).              *)
MergedInOrder ==
  \A k \in DOMAIN started, l \in DOMAIN started : k < l => started[k] < started[l]

(* Everything the ingress promises about a single state.                   *)
IngressIsSound == TypeOK /\ QueuesAreServed /\ AttributionIsTrue /\ MergedInOrder

Fifo == INSTANCE LossyFifo WITH
          accepted <- nextSequence,
          underway <- (UNION {Elements(queue[i]) : i \in Inputs})
                      \cup ({sending} \ {0}) \cup Elements(travelling),
          open <- ~stopped

(* However many inputs it merges, the ingress is one lossy FIFO path.      *)
ImplementsFifo == Fifo!Spec
=============================================================================
