------------------------------ MODULE TcpWire ------------------------------
(***************************************************************************)
(* The segments of one TCP connection of the simulator and the way they    *)
(* take between its two ends: private links, the shared input, the         *)
(* balancer and its CPU.  Any of these may drop a segment, and the chaos   *)
(* latency of the balancer may let one overtake another.  None duplicates. *)
(*                                                                         *)
(* A segment is a kind, a sequence number, a size and an acknowledgement.  *)
(* Both sides start at sequence number 0, so the payload of the client is  *)
(* the positions 1 .. Payload.  The advertised windows are constants: the  *)
(* receive window stays at its capacity (windowBytes), and the client      *)
(* receives no payload.  SACK and ECN are switched off.                    *)
(***************************************************************************)
EXTENDS Integers, Sequences, FiniteSets, FiniteSetsExt

CONSTANTS
  Payload,             \* bytes of the client's stream
  Mss,                 \* largest payload of a segment
  Window,              \* the backend's receive buffer (receiveBufferBytes)
  MaxWindow,           \* largest congestion window
  DuplicateThreshold,  \* duplicates that signal a loss, 3 in the code
  MaxRetransmissions,  \* MAX_RETRANSMISIONS, for SYN and for data
  MaxFINRetries,
  SegmentsPerACK,      \* delayed ACK, 1 acknowledges every segment
  ClientIdleLimit,     \* whether the client has an idle limit, zero disables it
  BackendIdleLimits,   \* states in which the backend has one
  Room                 \* segments under way at once, a further one is lost

ASSUME TcpAssumption ==
  /\ Payload \in Nat \ {0} /\ Mss \in Nat \ {0} /\ Window \in Nat \ {0}
  /\ MaxWindow \in Nat /\ MaxWindow >= Mss
  /\ DuplicateThreshold \in Nat \ {0}
  /\ MaxRetransmissions \in Nat \ {0} /\ MaxFINRetries \in Nat
  /\ SegmentsPerACK \in 1 .. 2
  /\ ClientIdleLimit \in BOOLEAN
  /\ BackendIdleLimits \subseteq {"synReceived", "established"}
  /\ Room \in Nat \ {0}

Syn == [kind |-> "SYN", seq |-> 0, size |-> 0, ack |-> 0]
SynAck == [kind |-> "SYN-ACK", seq |-> 0, size |-> 0, ack |-> 1]
Data(seq, size, ack) == [kind |-> "DATA", seq |-> seq, size |-> size, ack |-> ack]
Ack(seq, ack) == [kind |-> "ACK", seq |-> seq, size |-> 0, ack |-> ack]
Fin(seq, ack) == [kind |-> "FIN", seq |-> seq, size |-> 0, ack |-> ack]
Rst(seq, ack) == [kind |-> "RST", seq |-> seq, size |-> 0, ack |-> ack]

(* SequenceEnd: SYN and FIN take one position each.                        *)
SequenceEnd(p) ==
  IF p.kind \in {"SYN", "SYN-ACK", "FIN"} THEN p.seq + 1 ELSE p.seq + p.size

Segment == [kind : {"SYN", "SYN-ACK", "DATA", "ACK", "FIN", "RST"},
            seq : 0 .. Payload + 2, size : 0 .. Mss, ack : 0 .. Payload + 2]

-----------------------------------------------------------------------------
VARIABLES
  toBackend,  \* the segments on their way to the backend
  toClient    \* the segments on their way to the client

(* A segment may be under way more than once: <<p, n>> is the nth copy of  *)
(* p.                                                                      *)
OnWay(way) == {copy[1] : copy \in way}
Copies(way, p) == Cardinality({copy \in way : copy[1] = p})
With(way, p) == way \cup {<<p, Copies(way, p) + 1>>}
Without(way, p) == way \ {<<p, Copies(way, p)>>}

WireInit == toBackend = {} /\ toClient = {}

UnderWay == Cardinality(toBackend) + Cardinality(toClient)

Send(way, taken, p) == IF taken < Room THEN With(way, p) ELSE way

(* A handler sends at most two segments, in turn.                          *)
Transmit(way, out) ==
  IF out = << >> THEN way
  ELSE IF Len(out) = 1 THEN Send(way, UnderWay, out[1])
  ELSE Send(Send(way, UnderWay, out[1]), UnderWay + 1, out[2])

Lose ==
  \/ \E p \in OnWay(toBackend) :
       toBackend' = Without(toBackend, p) /\ UNCHANGED toClient
  \/ \E p \in OnWay(toClient) :
       toClient' = Without(toClient, p) /\ UNCHANGED toBackend
=============================================================================
