-------------------------------- MODULE Link --------------------------------
(***************************************************************************)
(* A link that keeps its own FIFO (network/link.go without a manager): the *)
(* way from a client or a backend to the balancer's shared input.          *)
(*                                                                         *)
(* The transmitter is free again after serialization, while the packet     *)
(* still travels.  The virtual clock is left out: serialization may take   *)
(* any time, and since all packets travel equally long they arrive in the  *)
(* order in which they left the transmitter.                               *)
(***************************************************************************)
EXTENDS Integers, Sequences, FiniteSets

CONSTANTS
  QueueCapacity,
  Threshold,      \* first waiting place that signals congestion
  MaxOffered      \* bound on offered packets

ASSUME LinkAssumption ==
  QueueCapacity \in Nat /\ Threshold \in Nat /\ MaxOffered \in Nat

VARIABLES
  queue,          \* waiting packets, oldest first
  current,        \* the packet being serialized, 0 when not transmitting
  pipe,           \* packets behind the transmitter, oldest first
  travelling,     \* the link's counter of them
  stopped,
  (* Stats *)
  offered, accepted, dropped, lost, delivered,
  (* history *)
  arrived,        \* packets in the order of their arrival
  discarded       \* packets abandoned when the world stopped

vars == <<queue, current, pipe, travelling, stopped, offered, accepted, dropped,
          lost, delivered, arrived, discarded>>

Init ==
  /\ queue = << >> /\ current = 0 /\ pipe = << >> /\ travelling = 0
  /\ stopped = FALSE
  /\ offered = 0 /\ accepted = 0 /\ dropped = 0 /\ lost = 0 /\ delivered = 0
  /\ arrived = << >> /\ discarded = 0

-----------------------------------------------------------------------------
(* TransmitECN.                                                            *)

Transmitting == current # 0
QueueFull == Transmitting /\ Len(queue) >= QueueCapacity

(* shouldSignalCongestion: only a packet that has to wait can be selected, *)
(* and is then marked, or dropped when it is not ECN capable.              *)
MaySignal == ~QueueFull /\ Transmitting /\ Len(queue) + 1 >= Threshold

OfferDropped ==
  /\ ~stopped /\ offered < MaxOffered
  /\ QueueFull \/ MaySignal
  /\ offered' = offered + 1 /\ dropped' = dropped + 1
  /\ UNCHANGED <<queue, current, pipe, travelling, stopped, accepted, lost,
                 delivered, arrived, discarded>>

OfferAccepted ==
  /\ ~stopped /\ offered < MaxOffered
  /\ ~QueueFull
  /\ offered' = offered + 1 /\ accepted' = accepted + 1
  /\ \/ /\ Transmitting
        /\ queue' = Append(queue, accepted + 1) /\ UNCHANGED current
     \/ ~Transmitting /\ current' = accepted + 1 /\ UNCHANGED queue
  /\ UNCHANGED <<pipe, travelling, stopped, dropped, lost, delivered, arrived,
                 discarded>>

-----------------------------------------------------------------------------
(* The callbacks of start.                                                 *)

StartNewest ==
  \/ queue = << >> /\ current' = 0 /\ UNCHANGED queue
  \/ /\ queue # << >>
     /\ current' = queue[Len(queue)]
     /\ queue' = SubSeq(queue, 1, Len(queue) - 1)

(* The free transmitter takes the oldest waiting packet (pop, start).      *)
StartNext ==
  \/ queue = << >> /\ current' = 0 /\ UNCHANGED queue
  \/ queue # << >> /\ current' = Head(queue) /\ queue' = Tail(queue)

(* Serialization ends; the packet is lost or travels.                      *)
TransmissionEnds ==
  /\ Transmitting
  /\ \/ lost' = lost + 1 /\ UNCHANGED <<pipe, travelling>>
     \/ /\ pipe' = Append(pipe, current) /\ travelling' = travelling + 1
        /\ UNCHANGED lost
  /\ StartNext
  /\ UNCHANGED <<stopped, offered, accepted, dropped, delivered, arrived, discarded>>

Arrive ==
  /\ pipe # << >>
  /\ pipe' = Tail(pipe) /\ arrived' = Append(arrived, Head(pipe))
  /\ travelling' = travelling - 1 /\ delivered' = delivered + 1
  /\ UNCHANGED <<queue, current, stopped, offered, accepted, dropped, lost, discarded>>

Held == Len(queue) + (IF Transmitting THEN 1 ELSE 0) + Len(pipe)

(* World.Stop clears the engine's events and calls DiscardPending.         *)
DiscardPending ==
  /\ ~stopped /\ stopped' = TRUE
  /\ queue' = << >> /\ current' = 0 /\ pipe' = << >> /\ travelling' = 0
  /\ discarded' = Held
  /\ UNCHANGED <<offered, accepted, dropped, lost, delivered, arrived>>

-----------------------------------------------------------------------------
Next ==
  \/ OfferDropped \/ OfferAccepted \/ TransmissionEnds \/ Arrive \/ DiscardPending

Spec == Init /\ [][Next]_vars

-----------------------------------------------------------------------------
(* Properties.                                                             *)

Elements(s) == {s[k] : k \in 1 .. Len(s)}

(* The types of the state.                                                 *)
TypeOK ==
  /\ queue \in Seq(Nat \ {0}) /\ current \in Nat /\ pipe \in Seq(Nat \ {0})
  /\ travelling \in Nat /\ stopped \in BOOLEAN
  /\ offered \in Nat /\ accepted \in Nat /\ dropped \in Nat
  /\ lost \in Nat /\ delivered \in Nat /\ discarded \in Nat
  /\ arrived \in Seq(Nat)

(* The transmitter never idles beside a waiting packet, and no more wait   *)
(* than there are places (TransmitECN, start).                             *)
QueueIsServed == (queue # << >> => Transmitting) /\ Len(queue) <= QueueCapacity

(* Every offered packet has one fate, and the counters agree with what the *)
(* link holds.                                                             *)
Conservation ==
  /\ offered = accepted + dropped
  /\ travelling = Len(pipe)
  /\ accepted = Held + lost + delivered + discarded
  /\ ~stopped => discarded = 0

(* Packets are ahead of the transmitter, on it, or behind it in the order  *)
(* of their acceptance.                                                    *)
InLine ==
  /\ \A k \in 1 .. Len(queue) : current < queue[k] /\ queue[k] <= accepted
  /\ \A k, l \in 1 .. Len(queue) : k < l => queue[k] < queue[l]
  /\ \A k \in 1 .. Len(pipe) : pipe[k] <= accepted /\ (Transmitting => pipe[k] < current)
  /\ \A k, l \in 1 .. Len(pipe) : k < l => pipe[k] < pipe[l]
  /\ current <= accepted

(* The invariant the proofs use.                                           *)
IInv == TypeOK /\ QueueIsServed /\ Conservation /\ InLine

underway == Elements(pipe) \cup ({current} \ {0}) \cup Elements(queue)

Fifo == INSTANCE LossyFifo WITH open <- ~stopped

(* The link is a lossy FIFO path: what it accepts arrives at most once and *)
(* in order, whatever is dropped or lost in between.                       *)
ImplementsFifo == Fifo!Spec
=============================================================================
