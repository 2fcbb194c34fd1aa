---------------------------- MODULE TcpInvariant ----------------------------
(***************************************************************************)
(* The inductive invariant of a TCP connection (Tcp): what its two ends,   *)
(* the segments between them and the history say of each other between any *)
(* two steps.                                                              *)
(***************************************************************************)
EXTENDS Tcp

(* The events a Sender arms.                                               *)
SenderEvent == {"read", "synSend", "syn", "send", "data", "finSend", "fin", "wait"}

(* The states of a Sender, between and inside its handlers.                *)
Sender ==
  [state : {"closed", "synSent", "established", "finWait1", "finWait2", "closing",
            "timeWait", "closeWait", "lastAck"},
   outcome : {"", "aborted", "reset", "finRetryLimit", "waitTimeout", "graceful"},
   status : {"inProgress", "succeeded", "failed"},
   terminated : BOOLEAN, requested : BOOLEAN, streamCompleted : BOOLEAN,
   handshakeStarted : BOOLEAN, handshakeCompleted : BOOLEAN, retrySyn : Nat,
   nextSend : 0 .. Payload + 2, oldest : 0 .. Payload + 2, nextReceive : 0 .. 2,
   windowEnd : Nat, pending : Seq(Segment), retries : Nat, duplicateACKs : Nat,
   untilSeq : Nat, unsent : 0 .. Payload, toConfirm : 0 .. Payload,
   acknowledged : 0 .. Payload, finSent : BOOLEAN, finAcked : BOOLEAN,
   finSeq : 0 .. Payload + 1, finRetries : Nat, peerFIN : BOOLEAN,
   armed : SUBSET SenderEvent, out : Seq(Segment)]

(* What the client sends.                                                  *)
FromClient(p) ==
  /\ p \in Segment
  /\ \/ p.kind \in {"SYN", "ACK"} /\ p.size = 0
     \/ p.kind = "DATA" /\ p.seq >= 1 /\ p.size >= 1 /\ p.seq + p.size <= Payload + 1
     \/ p.kind = "FIN" /\ p.seq = Payload + 1 /\ p.size = 0

(* The retransmission queue: segments of data that follow one another from *)
(* one position to another without a gap or an overlap.                    *)
Chain(q, from, to) ==
  /\ \A i \in DOMAIN q :
       /\ FromClient(q[i]) /\ q[i].kind = "DATA"
       /\ q[i].seq = (IF i = 1 THEN from ELSE q[i - 1].seq + q[i - 1].size)
       /\ q[i].seq + q[i].size <= to
  /\ to = (IF q = << >> THEN from ELSE q[Len(q)].seq + q[Len(q)].size)

(* What the counters of a Sender say of each other: the three numbers that *)
(* sendNext keeps are sums of what was confirmed, what is in flight and    *)
(* what is left, and the queue is exactly what is in flight. Before the    *)
(* handshake all of them have their first values.                          *)
Counted(s) ==
  /\ s.handshakeCompleted => s.handshakeStarted
  /\ ~s.handshakeCompleted =>
       /\ s.oldest = 0 /\ s.nextSend = (IF s.handshakeStarted THEN 1 ELSE 0)
       /\ s.nextReceive = 0 /\ s.windowEnd = 0 /\ s.pending = << >> /\ s.unsent = Payload
       /\ s.acknowledged = 0 /\ ~s.finSent /\ ~s.peerFIN
  /\ s.handshakeCompleted =>
       /\ s.oldest = s.acknowledged + 1
       /\ s.nextSend = Payload + 1 - s.unsent + (IF s.finSent THEN 1 ELSE 0)
       /\ s.acknowledged + s.unsent <= Payload
       /\ s.nextReceive = (IF s.peerFIN THEN 2 ELSE 1)
       /\ s.windowEnd = s.oldest + Window
       /\ ~s.terminated => Chain(s.pending, s.oldest, Payload + 1 - s.unsent)
  /\ s.toConfirm = Payload - s.acknowledged
  /\ s.finSent => s.unsent = 0 /\ s.acknowledged = Payload /\ s.finSeq = Payload + 1
  /\ s.finAcked => s.finSent
  /\ s.state = "timeWait" => s.finAcked

(* What a Sender says of its transfer: the outcome is there when the       *)
(* connection has ended, and a transfer has succeeded when all of it is    *)
(* confirmed.                                                              *)
Settled(s) ==
  /\ s.outcome = "" <=> ~s.terminated
  /\ s.terminated => s.status # "inProgress" /\ s.armed = {}
  /\ ~s.terminated =>
       /\ s.status # "failed"
       /\ s.status = "succeeded" <=> s.acknowledged = Payload
       /\ s.streamCompleted => s.finSent
  /\ s.streamCompleted <=> s.status = "succeeded"

(* ClientIsTimed of any Sender, also inside a handler.                     *)
Timed(s) ==
  LET open == s.handshakeStarted /\ ~s.terminated
      flowing == open /\ s.handshakeCompleted /\ ~s.finSent
  IN  /\ ~open => s.armed = {}
      /\ open /\ ~s.handshakeCompleted => s.armed \cap {"synSend", "syn"} # {}
      /\ flowing /\ s.pending # << >> => "data" \in s.armed
      /\ flowing /\ s.pending = << >> => "send" \in s.armed
      /\ open /\ s.finSent /\ ~s.finAcked => s.armed \cap {"finSend", "fin"} # {}
      /\ open /\ s.finAcked => "wait" \in s.armed

(* The events of the FIN belong to it.                                     *)
FinTimed(s) == s.finSent \/ s.armed \cap {"fin", "finSend"} = {}

(* The events a connection of the backend arms.                            *)
RcvEvent == {"idle", "delayedACK", "fin", "wait"}

(* The connections of a Receiver.                                          *)
Connection ==
  [state : {"synReceived", "established", "finWait1", "finWait2", "closing", "timeWait",
            "lastAck"},
   established : BOOLEAN, next : 1 .. Payload + 2, buffered : SUBSET (1 .. Payload),
   sendNext : 1 .. 2, waitingACKs : Nat, finSent : BOOLEAN, finAcked : BOOLEAN,
   finSeq : 0 .. 1, finTimeouts : Nat, peerFIN : BOOLEAN, peerFINSeq : Nat,
   pendingFIN : BOOLEAN, pendingFINSeq : Nat, armed : SUBSET RcvEvent]

(* The states of a Receiver.                                               *)
Receiver ==
  [stopped : BOOLEAN, conn : Connection \cup {R!NoConnection}, active : 0 .. 1,
   halfOpen : 0 .. 1, out : Seq(Segment)]

(* What the backend sends.                                                 *)
FromBackend(p) ==
  /\ p \in Segment
  /\ p.kind \in {"SYN-ACK", "ACK", "FIN", "RST"} /\ p.size = 0
  /\ p.kind = "FIN" => p.seq = 1

(* What a connection has counted as received did reach it: g is what did.  *)
(* A position it buffers lies in the window it offers, and a FIN it keeps  *)
(* back for later lies after the payload.                                  *)
Held(c, g) ==
  /\ 1 .. c.next - 1 \subseteq g /\ c.buffered \subseteq g
  /\ \A b \in c.buffered : b <= c.next + Window - 1
  /\ c.pendingFIN => c.pendingFINSeq = Payload + 1 /\ Payload + 1 \in g
  /\ c.peerFIN <=> c.next = Payload + 2

(* The state of a connection says how far each direction's FIN is.         *)
InState(c) ==
  /\ c.state \in {"synReceived", "established"} <=> ~c.finSent
  /\ c.established <=> c.state # "synReceived"
  /\ c.state \in {"closing", "lastAck", "timeWait"} <=> c.peerFIN
  /\ c.state \in {"finWait2", "timeWait"} <=> c.finAcked
  /\ c.sendNext = (IF c.finSent THEN 2 ELSE 1)
  /\ c.finSent => c.finSeq = 1

(* BackendIsTimed of any connection, and a FIN is repeated only when it    *)
(* was sent.                                                               *)
TimedConn(c) ==
    /\ "idle" \in c.armed <=> c.state \in BackendIdleLimits
    /\ c.finSent /\ ~c.finAcked => "fin" \in c.armed
    /\ c.state \in {"finWait2", "timeWait"} => "wait" \in c.armed
    /\ c.waitingACKs > 0 <=> "delayedACK" \in c.armed
    /\ "fin" \in c.armed => c.finSent

(* A Receiver with a sound connection or none, and with exact counters.    *)
RcvSound(r, g) ==
  /\ r \in Receiver
  /\ r.stopped => ~R!Open(r)
  /\ r.active = (IF R!Open(r) /\ r.conn.established THEN 1 ELSE 0)
  /\ r.halfOpen = (IF R!Open(r) /\ ~r.conn.established THEN 1 ELSE 0)
  /\ R!Open(r) => Held(r.conn, g) /\ InState(r.conn) /\ TimedConn(r.conn)

(* The client between two of its handlers.                                 *)
SndInv ==
  /\ snd \in Sender /\ snd.out = << >>
  /\ Counted(snd) /\ Settled(snd) /\ Timed(snd) /\ FinTimed(snd)

(* The backend between two of its handlers.                                *)
RcvInv ==
  /\ RcvSound(rcv, got) /\ rcv.out = << >>
  /\ ~R!Open(rcv) => got = {}

(* Everything on the way was sent by the other side, and no                *)
(* acknowledgement confirms more than the backend has had.                 *)
WireInv ==
  /\ \A p \in OnWay(toBackend) : FromClient(p)
  /\ \A p \in OnWay(toClient) : FromBackend(p) /\ p.ack <= prefix + 1

(* What the client was told is at most what the backend has had, and the   *)
(* client's FIN was acknowledged only after all of it.                     *)
HistInv ==
  /\ got \subseteq 1 .. Payload + 1 /\ prefix \in 0 .. Payload + 1
  /\ Prefix(got) <= prefix
  /\ snd.acknowledged <= prefix
  /\ snd.finAcked => prefix = Payload + 1

(* The inductive invariant.                                                *)
IInv == SndInv /\ RcvInv /\ WireInv /\ HistInv

(* Nobody waits without a timer, unless its idle limit is disabled, the    *)
(* host's counters are true, and the counters, the retransmission queue,   *)
(* the reassembly and what is under way agree, whatever handlers and       *)
(* timers have raced (sender_data.go, sender_receive.go,                   *)
(* receiver_buffer.go, receiver_idle.go).                                  *)
EndsAreSound == Inv /\ IInv
=============================================================================
