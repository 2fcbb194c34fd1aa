----------------------------- MODULE TcpSender -----------------------------
(***************************************************************************)
(* The client's end of a TCP connection (protocols/tcp/sender*.go,         *)
(* send_buffer.go, sender_transfer.go): handshake, sliding window,         *)
(* retransmission and the orderly close.                                   *)
(*                                                                         *)
(* All calls run on the engine's owner, one after the other, so a handler  *)
(* is one step.  snd is the Sender; a handler is an operator from a sender *)
(* to a sender, whose field out gathers the segments it emits.             *)
(*                                                                         *)
(* Durations are left out: an armed event may fire at any time.  What      *)
(* congestion control answers is a choice whenever it is asked (Verdicts): *)
(* any window of at least one MSS, and whether a signalled loss is         *)
(* repaired.                                                               *)
(***************************************************************************)
EXTENDS TcpWire

VARIABLE snd

Init ==
  snd = [state |-> "closed", outcome |-> "", status |-> "inProgress",
         terminated |-> FALSE, requested |-> FALSE, streamCompleted |-> FALSE,
         handshakeStarted |-> FALSE, handshakeCompleted |-> FALSE, retrySyn |-> 0,
         nextSend |-> 0, oldest |-> 0, nextReceive |-> 0, windowEnd |-> 0,
         pending |-> << >>, retries |-> 0,
         duplicateACKs |-> 0, untilSeq |-> 0,
         unsent |-> Payload, toConfirm |-> Payload, acknowledged |-> 0,
         finSent |-> FALSE, finAcked |-> FALSE, finSeq |-> 0, finRetries |-> 0,
         peerFIN |-> FALSE, armed |-> {}, out |-> << >>]

(* The answers of congestion control: the window it allows, and whether    *)
(* the loss a duplicate or partial acknowledgement signals is repaired at  *)
(* once.                                                                   *)
Verdicts == [cwnd : {Mss, MaxWindow}, retransmit : BOOLEAN]

Arm(s, event) == [s EXCEPT !.armed = @ \cup {event}]
Cancel(s, event) == [s EXCEPT !.armed = @ \ {event}]
Emit(s, p) == IF s.terminated THEN s ELSE [s EXCEPT !.out = Append(@, p)]

(* armReadTimer, which a limit of zero disables.                           *)
ArmRead(s) == IF ClientIdleLimit THEN Arm(s, "read") ELSE s

(* A handler's result takes effect.                                        *)
Becomes(s) ==
  /\ snd' = [s EXCEPT !.out = << >>]
  /\ toBackend' = Transmit(toBackend, s.out)

-----------------------------------------------------------------------------
(* Shutdown and the end of a connection.                                   *)

ShutdownWithReason(s) ==
  IF s.terminated THEN s
  ELSE [s EXCEPT
         !.status = IF @ = "inProgress" THEN "failed" ELSE @,
         !.outcome = IF @ = "" THEN "aborted" ELSE @,
         !.state = "closed", !.terminated = TRUE, !.armed = {},
         !.pending = << >>, !.retries = 0, !.duplicateACKs = 0, !.untilSeq = 0]

FinishConnection(s, outcome) ==
  IF s.terminated THEN s ELSE ShutdownWithReason([s EXCEPT !.outcome = outcome])

(* A repeated FIN restarts the wait.                                       *)
EnterTimeWait(s) ==
  [s EXCEPT !.state = "timeWait", !.armed = (@ \ {"fin"}) \cup {"wait"}]

-----------------------------------------------------------------------------
(* New data.                                                               *)

HasPending(s) == s.pending # << >>

BytesInFlight(s) ==
  IF ~s.handshakeCompleted \/ s.finSent \/ s.terminated THEN 0 ELSE s.nextSend - s.oldest

NextPayloadSize(s, cwnd) ==
  LET congestionSpace == Max({cwnd - BytesInFlight(s), 0})
      credit == Max({s.windowEnd - s.nextSend, 0})
  IN  Min({s.unsent, Mss, credit, congestionSpace})

StartFINWhenDrained(s) ==
  IF s.terminated \/ s.finSent \/ ~s.requested \/ s.unsent # 0 \/ HasPending(s) THEN s
  ELSE [s EXCEPT
         !.finSent = TRUE, !.finSeq = s.nextSend, !.nextSend = @ + 1,
         !.state = IF s.peerFIN THEN "lastAck" ELSE "finWait1",
         !.armed = (@ \ {"read", "data", "send"}) \cup {"finSend"},
         !.duplicateACKs = 0, !.untilSeq = 0]

(* finishStream with the Close it ends in: everything is confirmed, so the *)
(* FIN starts at once.                                                     *)
FinishStream(s) ==
  IF s.streamCompleted THEN s
  ELSE StartFINWhenDrained([s EXCEPT !.streamCompleted = TRUE, !.status = "succeeded",
                                     !.requested = TRUE])

QueueSegment(s, cwnd) ==
  IF s.terminated \/ s.finSent \/ ~s.handshakeCompleted THEN s
  ELSE IF s.toConfirm = 0 THEN FinishStream(s)
  ELSE IF NextPayloadSize(s, cwnd) = 0 THEN s
  ELSE Arm(s, "send")

(* The callback of sendEvent: the credit is read again.                    *)
SendNew(s, cwnd) ==
  LET r == Cancel(s, "send")
      size == NextPayloadSize(r, cwnd)
      p == Data(r.nextSend, size, r.nextReceive)
  IN  IF s.terminated \/ s.finSent \/ size = 0 THEN r
      ELSE QueueSegment(Emit([r EXCEPT !.nextSend = @ + size, !.unsent = @ - size,
                                       !.pending = Append(@, p),
                                       !.armed = @ \cup {"data"}], p), cwnd)

-----------------------------------------------------------------------------
(* Retransmission.                                                         *)

RetransmitUncounted(s) ==
  IF s.terminated \/ s.finSent \/ ~HasPending(s) THEN s
  ELSE Emit([s EXCEPT !.retries = 1], Head(s.pending))

(* prepareDataRetry and the emission that follows it.  The stored segment  *)
(* is sent again as it was, its acknowledgement included.                  *)
RetransmitOldest(s) ==
  IF s.terminated \/ s.finSent \/ ~HasPending(s) THEN s
  ELSE IF s.retries >= MaxRetransmissions THEN ShutdownWithReason(s)
  ELSE Emit([s EXCEPT !.retries = @ + 1], Head(s.pending))

(* retransmitData, the retransmission timeout.                             *)
DataTimeout(s) ==
  LET t == Cancel(s, "data")
      r == RetransmitOldest(t)
  IN  IF r = t \/ r.terminated THEN r
      ELSE Arm([r EXCEPT !.duplicateACKs = 0, !.untilSeq = s.nextSend], "data")

(* fastRetransmitOldest(TRUE) restarts the retransmission deadline.        *)
FastRetransmit(s) ==
  LET r == RetransmitOldest(s) IN IF r = s \/ r.terminated THEN r ELSE Arm(r, "data")

(* Only the duplicate that reaches the threshold signals a loss, and none  *)
(* does before the flight of the last loss is confirmed.                   *)
DuplicateACK(s, verdict) ==
  LET counted == [s EXCEPT !.duplicateACKs = Min({@ + 1, DuplicateThreshold})]
      signals == /\ s.untilSeq = 0
                 /\ s.duplicateACKs + 1 = DuplicateThreshold
                 /\ verdict.retransmit
  IN  IF signals THEN FastRetransmit([counted EXCEPT !.untilSeq = s.nextSend]) ELSE counted

-----------------------------------------------------------------------------
(* Incoming segments.                                                      *)

(* sendBuffer.acknowledge: confirmed segments leave, a segment confirmed   *)
(* in part keeps its missing end.                                          *)
Unconfirmed(segments, ack) ==
  LET first == Min({i \in DOMAIN segments : SequenceEnd(segments[i]) > ack}
                     \cup {Len(segments) + 1})
      missing == SubSeq(segments, first, Len(segments))
      oldest == Head(missing)
  IN  IF missing # << >> /\ oldest.seq < ack
      THEN [missing EXCEPT ![1] =
              [oldest EXCEPT !.seq = ack, !.size = SequenceEnd(oldest) - ack]]
      ELSE missing

(* The part of handleDataAck that confirms new bytes.  Whether the         *)
(* deadline starts anew or is kept is a matter of durations.               *)
ConfirmPayload(s, p, verdict) ==
  LET newBytes == p.ack - s.oldest
      confirmed == [s EXCEPT
        !.oldest = p.ack, !.toConfirm = @ - newBytes, !.acknowledged = @ + newBytes,
        !.pending = Unconfirmed(@, p.ack), !.duplicateACKs = 0,
        !.untilSeq = IF p.ack >= @ THEN 0 ELSE @, !.retries = 0]
      timed == IF ~HasPending(confirmed) THEN Cancel(confirmed, "data")
               ELSE Arm(confirmed, "data")
      repaired == IF verdict.retransmit THEN RetransmitOldest(timed) ELSE timed
  IN  IF p.kind = "FIN" THEN repaired ELSE QueueSegment(repaired, verdict.cwnd)

(* handleDataAck.  The advertised window never changes, so an              *)
(* acknowledgement that confirms nothing is a duplicate while data is      *)
(* pending.                                                                *)
HandleDataAck(s, p, verdict) ==
  LET heard == ArmRead([s EXCEPT !.windowEnd = p.ack + Window])
      isFIN == p.kind = "FIN"
  IN  IF p.ack < s.oldest THEN s
      ELSE IF p.ack = s.oldest
      THEN IF isFIN THEN heard
           ELSE QueueSegment(IF HasPending(s) THEN DuplicateACK(heard, verdict) ELSE heard,
                             verdict.cwnd)
      ELSE IF ~HasPending(s) THEN heard
      ELSE ConfirmPayload(heard, p, verdict)

(* A repeated SYN-ACK only repeats the acknowledgement.                    *)
HandleSynAck(s, cwnd) ==
  LET opened == [s EXCEPT
        !.state = "established", !.armed = @ \ {"syn"}, !.retrySyn = 0,
        !.nextReceive = SequenceEnd(SynAck), !.oldest = SynAck.ack,
        !.windowEnd = SynAck.ack + Window, !.handshakeCompleted = TRUE]
      t == ArmRead(IF s.handshakeCompleted THEN s ELSE opened)
  IN  IF ~s.handshakeStarted THEN s
      ELSE QueueSegment(Emit(t, Ack(t.nextSend, t.nextReceive)), cwnd)

EmitCloseACK(s) == Emit(s, Ack(s.nextSend, s.nextReceive))

(* acknowledgeFIN: only the first acknowledgement of our FIN counts.       *)
AcknowledgeFIN(s, ack) ==
  LET t == [s EXCEPT !.finAcked = TRUE, !.armed = @ \ {"fin"}]
  IN  IF ~s.finSent \/ s.finAcked \/ ack # s.finSeq + 1 THEN s
      ELSE IF s.state = "lastAck" THEN FinishConnection(t, "graceful")
      ELSE IF s.peerFIN THEN EnterTimeWait(t)
      ELSE Arm([t EXCEPT !.state = "finWait2"], "wait")

(* handleFin: the peer's end is consumed once, a duplicate is acknowledged *)
(* again.  A FIN before ours closes our half too, once it has drained.     *)
HandleFin(s, p, cwnd) ==
  LET consumed == [s EXCEPT !.peerFIN = TRUE, !.nextReceive = SequenceEnd(p)]
  IN  IF s.peerFIN
      THEN IF SequenceEnd(p) # s.nextReceive THEN s
           ELSE EmitCloseACK(IF s.state = "timeWait" THEN EnterTimeWait(s) ELSE s)
      ELSE IF p.seq # s.nextReceive THEN s
      ELSE IF ~s.finSent
      THEN StartFINWhenDrained(QueueSegment(EmitCloseACK(
             [consumed EXCEPT !.state = "closeWait", !.requested = TRUE]), cwnd))
      ELSE EmitCloseACK(IF s.finAcked THEN EnterTimeWait(consumed)
                        ELSE [consumed EXCEPT !.state = "closing"])

(* handleReset: in SYN-SENT it must acknowledge our SYN, later it must be  *)
(* at the next sequence position.                                          *)
HandleReset(s, p) ==
  LET valid == IF s.handshakeCompleted
               THEN p.seq = s.nextReceive /\ p.ack \in 1 .. s.nextSend
               ELSE s.handshakeStarted /\ p.ack = s.nextSend
  IN  IF valid THEN FinishConnection(s, "reset") ELSE s

(* Acknowledgements and FINs of an open connection.                        *)
HandleControl(s, p, verdict) ==
  LET duplicateFIN == p.kind = "FIN" /\ s.peerFIN /\ SequenceEnd(p) = s.nextReceive
      t == IF s.finSent THEN AcknowledgeFIN(s, p.ack) ELSE HandleDataAck(s, p, verdict)
      u == IF p.kind = "FIN" /\ ~t.terminated THEN HandleFin(t, p, verdict.cwnd) ELSE t
      resume == /\ ~s.finSent /\ duplicateFIN
                /\ u.oldest = Max({s.oldest, p.ack})
  IN  IF \/ ~s.handshakeCompleted
         \/ p.ack \notin 1 .. s.nextSend
         \/ p.seq # s.nextReceive /\ ~duplicateFIN
      THEN s
      ELSE IF resume THEN QueueSegment(u, verdict.cwnd) ELSE u

HandlePacket(s, p, verdict) ==
  CASE s.terminated -> s
    [] ~s.terminated /\ p.kind = "RST" -> HandleReset(s, p)
    [] ~s.terminated /\ p.kind = "SYN-ACK" -> IF s.finSent THEN s ELSE HandleSynAck(s, verdict.cwnd)
    [] OTHER -> HandleControl(s, p, verdict)

-----------------------------------------------------------------------------
(* The calls of the client and of the world.                               *)

EstablishConnection ==
  /\ ~snd.terminated /\ ~snd.requested /\ ~snd.handshakeStarted
  /\ Becomes(ArmRead([snd EXCEPT !.handshakeStarted = TRUE, !.state = "synSent",
                                 !.nextSend = 1, !.armed = @ \cup {"synSend"}]))

(* A second call finds nothing left to request.                            *)
Close ==
  /\ ~snd.terminated /\ ~snd.requested
  /\ \E verdict \in Verdicts :
       Becomes(IF ~snd.handshakeCompleted THEN ShutdownWithReason(snd)
               ELSE QueueSegment(StartFINWhenDrained([snd EXCEPT !.requested = TRUE]),
                                 verdict.cwnd))

Shutdown == ~snd.terminated /\ Becomes(ShutdownWithReason(snd))

(* The engine's callbacks.                                                 *)

SendSyn ==
  /\ "synSend" \in snd.armed
  /\ Becomes(Emit(Arm(Cancel(snd, "synSend"), "syn"), Syn))

RetransmitSyn ==
  /\ "syn" \in snd.armed
  /\ Becomes(IF snd.retrySyn >= MaxRetransmissions THEN ShutdownWithReason(snd)
             ELSE Emit([snd EXCEPT !.retrySyn = @ + 1], Syn))

SendSegment ==
  "send" \in snd.armed /\ \E verdict \in Verdicts : Becomes(SendNew(snd, verdict.cwnd))

RetransmitData == "data" \in snd.armed /\ Becomes(DataTimeout(snd))

ReadTimeout == "read" \in snd.armed /\ Becomes(ShutdownWithReason(snd))

SendFIN ==
  /\ "finSend" \in snd.armed
  /\ LET s == Cancel(snd, "finSend")
     IN  Becomes(IF s.finAcked THEN s ELSE Emit(Arm(s, "fin"), Fin(s.finSeq, s.nextReceive)))

RetryFIN ==
  /\ "fin" \in snd.armed
  /\ Becomes(IF snd.finRetries >= MaxFINRetries THEN FinishConnection(snd, "finRetryLimit")
             ELSE Emit([snd EXCEPT !.finRetries = @ + 1], Fin(snd.finSeq, snd.nextReceive)))

(* FIN-WAIT-2 gives up, TIME-WAIT has lasted long enough.                  *)
WaitEnds ==
  /\ "wait" \in snd.armed
  /\ Becomes(FinishConnection(snd, IF snd.state = "timeWait" THEN "graceful"
                                   ELSE "waitTimeout"))

Events == \/ SendSyn \/ RetransmitSyn \/ SendSegment \/ RetransmitData
          \/ ReadTimeout \/ SendFIN \/ RetryFIN \/ WaitEnds

Receive(p) ==
  /\ \E verdict \in Verdicts : Becomes(HandlePacket(snd, p, verdict))
  /\ toClient' = Without(toClient, p)
=============================================================================
