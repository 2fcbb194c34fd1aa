---------------------------- MODULE TcpReceiver ----------------------------
(***************************************************************************)
(* The backend's end of a TCP connection (protocols/tcp/receiver*.go): the *)
(* reservation a SYN makes, reassembly, delayed acknowledgements, idle     *)
(* clean-up and the close.                                                 *)
(*                                                                         *)
(* rcv is the Receiver seen by one flow: whether it has stopped, the       *)
(* flow's connection or NoConnection, and the two counters the host's      *)
(* admission reads.  The backend forgets a connection when it is over, so  *)
(* an old SYN that arrives later makes a new reservation.                  *)
(*                                                                         *)
(* The merged byte ranges of the receive buffer are the set of buffered    *)
(* positions.  Whether the host admits a connection is a choice, since the *)
(* limits it compares belong to all flows.                                 *)
(***************************************************************************)
EXTENDS TcpWire

VARIABLE rcv

NoConnection == [state |-> "closed"]

Init == rcv = [stopped |-> FALSE, conn |-> NoConnection, active |-> 0, halfOpen |-> 0,
               out |-> << >>]

Open(r) == r.conn # NoConnection
Arm(r, event) == [r EXCEPT !.conn.armed = @ \cup {event}]
Cancel(r, event) == [r EXCEPT !.conn.armed = @ \ {event}]
Emit(r, p) == IF r.stopped THEN r ELSE [r EXCEPT !.out = Append(@, p)]

(* A handler's result takes effect.                                        *)
Becomes(r) ==
  /\ rcv' = [r EXCEPT !.out = << >>]
  /\ toClient' = Transmit(toClient, r.out)

-----------------------------------------------------------------------------
(* Connections.                                                            *)

(* scheduleIdleTimeout for a connection in this state: a limit of zero     *)
(* disables the check.                                                     *)
IdleCheck(state) == IF state \in BackendIdleLimits THEN {"idle"} ELSE {}

(* handleSYN, the reservation; repeated SYNs keep its positions and its    *)
(* check.                                                                  *)
Reserve(r) ==
  [r EXCEPT
    !.halfOpen = @ + 1,
    !.conn = [state |-> "synReceived", established |-> FALSE,
              next |-> SequenceEnd(Syn), buffered |-> {}, sendNext |-> 1,
              waitingACKs |-> 0, finSent |-> FALSE, finAcked |-> FALSE, finSeq |-> 0,
              finTimeouts |-> 0, peerFIN |-> FALSE, peerFINSeq |-> 0,
              pendingFIN |-> FALSE, pendingFINSeq |-> 0, armed |-> IdleCheck("synReceived")]]

FinishConnection(r) ==
  IF ~Open(r) THEN r
  ELSE IF r.conn.established
  THEN [r EXCEPT !.conn = NoConnection, !.active = Max({@ - 1, 0})]
  ELSE [r EXCEPT !.conn = NoConnection, !.halfOpen = Max({@ - 1, 0})]

EstablishKeepsTheCheck(r, admit) ==
  IF ~admit THEN FinishConnection(r)
  ELSE [r EXCEPT !.conn.established = TRUE, !.conn.state = "established",
                 !.conn.armed = @ \cup IdleCheck("established"),
                 !.halfOpen = Max({@ - 1, 0}), !.active = @ + 1]

(* establishConnection, admitted or aborted by the host.  The check of the *)
(* reservation is cancelled, for its limit no longer applies.              *)
Establish(r, admit) ==
  IF ~admit THEN FinishConnection(r)
  ELSE [r EXCEPT !.conn.established = TRUE, !.conn.state = "established",
                 !.conn.armed = (@ \ {"idle"}) \cup IdleCheck("established"),
                 !.halfOpen = Max({@ - 1, 0}), !.active = @ + 1]

(* recordConnectionActivity: traffic keeps one idle check alive.           *)
RecordActivity(r) ==
  IF r.conn.state # "established" THEN r
  ELSE [r EXCEPT !.conn.armed = @ \cup IdleCheck("established")]

-----------------------------------------------------------------------------
(* Acknowledgements.                                                       *)

CancelDelayedACK(r) ==
  [r EXCEPT !.conn.armed = @ \ {"delayedACK"}, !.conn.waitingACKs = 0]

Acknowledge(r) ==
  IF r.stopped \/ ~Open(r) THEN r
  ELSE Emit(CancelDelayedACK(r), Ack(r.conn.sendNext, r.conn.next))

(* acknowledgeData: only fresh data in order may wait, for the next        *)
(* segment or the deadline of the first.                                   *)
AcknowledgeData(r, mayDelay) ==
  LET waiting == r.conn.waitingACKs + 1
  IN  IF \/ ~mayDelay \/ r.conn.state # "established" \/ r.conn.pendingFIN
         \/ waiting >= SegmentsPerACK
      THEN Acknowledge(r)
      ELSE Arm([r EXCEPT !.conn.waitingACKs = waiting], "delayedACK")

EmitFIN(r) == Emit(CancelDelayedACK(r), Fin(r.conn.finSeq, r.conn.next))

-----------------------------------------------------------------------------
(* Closing.                                                                *)

StartFIN(r, state) ==
  EmitFIN([r EXCEPT !.conn.state = state, !.conn.finSent = TRUE,
                    !.conn.finSeq = r.conn.sendNext, !.conn.sendNext = @ + 1,
                    !.conn.armed = (@ \ {"idle"}) \cup {"fin"}])

EnterTimeWait(r) ==
  CancelDelayedACK([r EXCEPT !.conn.state = "timeWait",
                             !.conn.armed = (@ \ {"fin"}) \cup {"wait"}])

(* acknowledgeFIN; the acknowledgement of the last FIN ends the connection.*)
AcknowledgeFIN(r, ack) ==
  LET t == [Cancel(r, "fin") EXCEPT !.conn.finAcked = TRUE]
      state == r.conn.state
  IN  CASE ~r.conn.finSent \/ r.conn.finAcked \/ ack # r.conn.sendNext -> r
        [] OTHER ->
             CASE state = "finWait1" -> Arm([t EXCEPT !.conn.state = "finWait2"], "wait")
               [] state = "closing" -> EnterTimeWait(t)
               [] state = "lastAck" -> FinishConnection(t)
               [] OTHER -> t

(* consumeFIN, once every payload byte before it has arrived.              *)
ConsumeFIN(r, seq) ==
  LET t == [r EXCEPT !.conn.pendingFIN = FALSE, !.conn.peerFIN = TRUE,
                     !.conn.peerFINSeq = seq, !.conn.next = @ + 1]
  IN  CASE r.conn.state = "established" -> StartFIN(t, "lastAck")
        [] r.conn.state = "finWait1" -> Acknowledge([t EXCEPT !.conn.state = "closing"])
        [] r.conn.state = "finWait2" -> Acknowledge(EnterTimeWait(t))
        [] OTHER -> Acknowledge(t)

(* handleFIN for a FIN consumed before: the answer is repeated.            *)
RepeatAnswer(r, p) ==
  LET t == AcknowledgeFIN(r, p.ack)
      u == IF t.conn.state = "timeWait" THEN EnterTimeWait(t) ELSE t
  IN  IF p.seq # r.conn.peerFINSeq THEN r
      ELSE IF ~Open(t) THEN t
      ELSE IF u.conn.state = "lastAck" THEN EmitFIN(u)
      ELSE Acknowledge(u)

(* handleFIN: a FIN ahead of missing payload waits for it.                 *)
AcceptFIN(r, p, admit) ==
  LET c == r.conn
      early == p.seq < c.next \/ p.seq - c.next >= Window
      contradicts == \/ c.pendingFIN /\ p.seq # c.pendingFINSeq
                     \/ \E b \in c.buffered : b >= p.seq
      e == IF c.established THEN r ELSE Establish(r, admit)
      t == AcknowledgeFIN(e, p.ack)
      u == RecordActivity(t)
  IN  IF early \/ contradicts THEN r
      ELSE IF ~Open(e) THEN e
      ELSE IF ~Open(t) THEN t
      ELSE IF p.seq = c.next THEN ConsumeFIN(u, p.seq)
      ELSE Acknowledge([u EXCEPT !.conn.pendingFIN = TRUE, !.conn.pendingFINSeq = p.seq])

-----------------------------------------------------------------------------
(* Payload.                                                                *)

OverlapsWindow(c, p) == p.seq < c.next + Window /\ SequenceEnd(p) > c.next

AcceptedThroughGaps(c, from, end) ==
  LET arrived == (from .. end - 1) \cap (c.next .. c.next + Window - 1)
  IN  IF arrived = {} THEN c ELSE [c EXCEPT !.next = Max(arrived) + 1, !.buffered = {}]

(* receiveBuffer.accept: positions inside the window are kept once, and    *)
(* the next expected position passes all that is now complete.             *)
Accepted(c, from, end) ==
  LET arrived == (from .. end - 1) \cap (c.next .. c.next + Window - 1)
      held == c.buffered \cup arrived
      next == Min((c.next .. c.next + Window) \ held)
  IN  [c EXCEPT !.next = next, !.buffered = {b \in held : b > next}]

NewBytes(c, from, end) ==
  Cardinality(((from .. end - 1) \cap (c.next .. c.next + Window - 1)) \ c.buffered)

HandleData(r, p) ==
  LET c == r.conn
      t == IF OverlapsWindow(c, p) THEN RecordActivity(AcknowledgeFIN(r, p.ack)) ELSE r
      end == IF c.pendingFIN THEN Min({SequenceEnd(p), c.pendingFINSeq}) ELSE SequenceEnd(p)
      u == [t EXCEPT !.conn = Accepted(@, p.seq, end)]
      mayDelay == p.seq = c.next /\ c.buffered = {} /\ NewBytes(c, p.seq, end) = p.size
  IN  IF c.peerFIN THEN r
      ELSE IF u.conn.pendingFIN /\ u.conn.next = u.conn.pendingFINSeq
      THEN ConsumeFIN(u, u.conn.next)
      ELSE AcknowledgeData(u, mayDelay)

(* A pure acknowledgement counts at the expected position only.            *)
HandleAck(r, p) ==
  LET t == AcknowledgeFIN(r, p.ack)
  IN  IF p.seq # r.conn.next THEN r ELSE IF Open(t) THEN RecordActivity(t) ELSE t

(* Data or the third acknowledgement of the handshake establishes a        *)
(* reservation first.                                                      *)
HandleSegment(r, p, admit) ==
  LET valid == IF p.size > 0 THEN OverlapsWindow(r.conn, p) ELSE p.seq = r.conn.next
      e == IF r.conn.established THEN r ELSE Establish(r, admit)
  IN  IF ~r.conn.established /\ ~valid THEN r
      ELSE IF ~Open(e) THEN e
      ELSE IF p.size = 0 THEN HandleAck(e, p)
      ELSE HandleData(e, p)

(* A SYN is answered as long as our FIN has not been sent.                 *)
HandleSYN(r, admit) ==
  IF ~Open(r) /\ ~admit THEN r
  ELSE IF ~Open(r) THEN Emit(Reserve(r), SynAck)
  ELSE IF r.conn.finSent THEN r
  ELSE Emit(r, SynAck)

HandlePacket(r, p, admit) ==
  IF r.stopped THEN r
  ELSE IF p.kind = "SYN" THEN HandleSYN(r, admit)
  ELSE IF ~Open(r) THEN r
  ELSE IF p.ack \notin 1 .. r.conn.sendNext THEN r
  ELSE IF p.kind # "FIN" THEN HandleSegment(r, p, admit)
  ELSE IF r.conn.peerFIN THEN RepeatAnswer(r, p)
  ELSE AcceptFIN(r, p, admit)

-----------------------------------------------------------------------------
(* The calls of the host.                                                  *)

CloseConnection ==
  /\ Open(rcv) /\ rcv.conn.state = "established"
  /\ Becomes(StartFIN(rcv, "finWait1"))

AbortConnection ==
  /\ Open(rcv)
  /\ Becomes(FinishConnection(Emit(rcv, Rst(rcv.conn.sendNext, rcv.conn.next))))

ForgetConnection == Open(rcv) /\ Becomes(FinishConnection(rcv))

Shutdown ==
  /\ ~rcv.stopped
  /\ Becomes([FinishConnection(rcv) EXCEPT !.stopped = TRUE])

(* The engine's callbacks.                                                 *)

Armed(event) == Open(rcv) /\ event \in rcv.conn.armed

DelayedACK == Armed("delayedACK") /\ Becomes(Acknowledge(rcv))

IdleTimeout == Armed("idle") /\ Becomes(FinishConnection(rcv))

RetryFIN ==
  /\ Armed("fin")
  /\ Becomes(IF rcv.conn.finTimeouts >= MaxFINRetries THEN FinishConnection(rcv)
             ELSE EmitFIN([rcv EXCEPT !.conn.finTimeouts = @ + 1]))

WaitEnds == Armed("wait") /\ Becomes(FinishConnection(rcv))

Events == DelayedACK \/ IdleTimeout \/ RetryFIN \/ WaitEnds

Receive(p) ==
  /\ \E admit \in BOOLEAN : Becomes(HandlePacket(rcv, p, admit))
  /\ toBackend' = Without(toBackend, p)
=============================================================================
