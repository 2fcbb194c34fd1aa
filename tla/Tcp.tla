-------------------------------- MODULE Tcp --------------------------------
(***************************************************************************)
(* A client and a backend with one TCP connection between them, over ways  *)
(* that lose and reorder segments.                                         *)
(***************************************************************************)
EXTENDS TcpWire

VARIABLES
  snd,    \* the client's Sender
  rcv,    \* the backend's Receiver
  (* history *)
  got,    \* positions that have reached the backend's connection
  prefix  \* longest prefix of them any connection of the backend has had

S == INSTANCE TcpSender
R == INSTANCE TcpReceiver

vars == <<snd, rcv, toBackend, toClient, got, prefix>>

Init == WireInit /\ S!Init /\ R!Init /\ got = {} /\ prefix = 0

-----------------------------------------------------------------------------
(* A step of the client; the backend's history stands still.               *)
ClientCalls ==
  /\ S!EstablishConnection \/ S!Close \/ S!Shutdown
  /\ UNCHANGED <<rcv, toClient, got, prefix>>

ClientEvents == S!Events /\ UNCHANGED <<rcv, toClient, got, prefix>>

ClientReceives ==
  \E p \in OnWay(toClient) : S!Receive(p) /\ UNCHANGED <<rcv, got, prefix>>

(* The payload is the positions 1 .. Payload and the FIN the one after     *)
(* them.  Positions beyond the window the backend has to offer are wasted, *)
(* and a new connection begins with nothing.                               *)
Prefix(positions) == Min((1 .. Payload + 2) \ positions) - 1

Remember(p) ==
  LET carried == p.seq .. SequenceEnd(p) - 1
      inWindow == Prefix(got) + 1 .. Prefix(got) + Window
  IN  /\ got' = IF ~R!Open(rcv)' THEN {}
                ELSE got \cup (carried \cap inWindow \cap 1 .. Payload + 1)
      /\ prefix' = Max({prefix, Prefix(got')})

(* The connection a host's call or a timer ends takes its positions along. *)
Forget == got' = (IF R!Open(rcv)' THEN got ELSE {}) /\ UNCHANGED prefix

HostCalls ==
  /\ \/ R!CloseConnection \/ R!AbortConnection
     \/ R!ForgetConnection \/ R!Shutdown
  /\ Forget /\ UNCHANGED <<snd, toBackend>>

BackendEvents == R!Events /\ Forget /\ UNCHANGED <<snd, toBackend>>

BackendReceives ==
  \E p \in OnWay(toBackend) : R!Receive(p) /\ Remember(p) /\ UNCHANGED snd

SegmentLost == Lose /\ UNCHANGED <<snd, rcv, got, prefix>>

Next ==
  \/ ClientCalls \/ ClientEvents \/ ClientReceives
  \/ HostCalls \/ BackendEvents \/ BackendReceives
  \/ SegmentLost

(* The engine does not stop while an event is left: a segment under way or *)
(* an armed timer.  EventLeft implies that a step of Next is enabled, and  *)
(* every step is one of Next, so this is weak fairness of Next.            *)
EventLeft ==
  \/ toBackend # {} \/ toClient # {}
  \/ snd.armed # {}
  \/ R!Open(rcv) /\ rcv.conn.armed # {}

Fairness == []<>(~EventLeft) \/ []<><<TRUE>>_vars

Spec == Init /\ [][Next]_vars /\ Fairness

-----------------------------------------------------------------------------
(* Positions stay within the stream and its two ends, segments within what *)
(* the two ends can build, and every handler leaves nothing unsent.        *)
TypeOK ==
  /\ OnWay(toBackend) \subseteq Segment /\ OnWay(toClient) \subseteq Segment
  /\ snd.nextSend \in 0 .. Payload + 2 /\ snd.oldest \in 0 .. snd.nextSend
  /\ snd.unsent \in 0 .. Payload /\ snd.toConfirm \in 0 .. Payload
  /\ snd.acknowledged \in 0 .. Payload
  /\ snd.out = << >> /\ rcv.out = << >>
  /\ R!Open(rcv) => rcv.conn.next \in 1 .. Payload + 2
  /\ got \subseteq 1 .. Payload + 1 /\ prefix \in 0 .. Payload + 1

(* The sender never waits for something nobody will do: what it waits for  *)
(* has an armed event that repeats it or gives up (sender_data.go,         *)
(* sender_retransmission.go, sender_closing.go).                           *)
ClientIsTimed ==
  LET open == snd.handshakeStarted /\ ~snd.terminated
      established == open /\ snd.handshakeCompleted /\ ~snd.finSent
  IN  /\ ~open => snd.armed = {}
      /\ open /\ ~snd.handshakeCompleted => snd.armed \cap {"synSend", "syn"} # {}
      /\ established /\ snd.pending # << >> => "data" \in snd.armed
      /\ established /\ snd.pending = << >> => "send" \in snd.armed
      /\ open /\ snd.finSent /\ ~snd.finAcked => snd.armed \cap {"finSend", "fin"} # {}
      /\ open /\ snd.finAcked => "wait" \in snd.armed

(* Neither does the receiver: a connection it keeps is found by the idle   *)
(* check where its state has a limit, retried or given up                  *)
(* (receiver_idle.go, receiver_closing.go), and an acknowledgement it owes *)
(* has a deadline.  A check never outlives the state whose limit it is     *)
(* for: with the next limit disabled it would end a live connection.       *)
BackendIsTimed ==
  R!Open(rcv) =>
    /\ "idle" \in rcv.conn.armed <=> rcv.conn.state \in BackendIdleLimits
    /\ rcv.conn.finSent /\ ~rcv.conn.finAcked => "fin" \in rcv.conn.armed
    /\ rcv.conn.state \in {"finWait2", "timeWait"} => "wait" \in rcv.conn.armed
    /\ rcv.conn.waitingACKs > 0 <=> "delayedACK" \in rcv.conn.armed

(* The host's counters are the connections that exist.                     *)
CountsAreExact ==
  /\ rcv.active = (IF R!Open(rcv) /\ rcv.conn.established THEN 1 ELSE 0)
  /\ rcv.halfOpen = (IF R!Open(rcv) /\ ~rcv.conn.established THEN 1 ELSE 0)

(* No side of a connection is left without a timer, unless its idle limit  *)
(* is disabled, and no slot of the host without a connection, whatever     *)
(* handlers and timers have raced.                                         *)
Inv == TypeOK /\ ClientIsTimed /\ BackendIsTimed /\ CountsAreExact

T == INSTANCE Transfer WITH
       read <- Min({prefix, Payload}), ended <- prefix = Payload + 1,
       confirmed <- snd.acknowledged, status <- snd.status, outcome <- snd.outcome

(* What the client confirmed was read, and success and a graceful end mean *)
(* what they say (recordTransferSuccess, acknowledgeFIN, finishConnection).*)
ImplementsTransfer == T!Spec

(* A backend keeps a connection for ever only in these states.             *)
WithoutLimit == {"synReceived", "established"} \ BackendIdleLimits

(* Every connection that was started ends at the client, and at the        *)
(* backend unless it is left in a state whose idle limit is disabled:      *)
(* retries are limited (prepareDataRetry, retryFIN, scheduleFIN), and what *)
(* is left is found by a wait or by the idle check (scheduleIdleTimeout).  *)
(* What was started stays so: however often an old SYN opens another       *)
(* connection, that one ends too.                                          *)
EveryConnectionEnds ==
  snd.handshakeStarted ~>
    (snd.terminated /\ (R!Open(rcv) => rcv.conn.state \in WithoutLimit))
=============================================================================
