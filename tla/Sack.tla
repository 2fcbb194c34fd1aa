-------------------------------- MODULE Sack --------------------------------
(***************************************************************************)
(* One established transfer with selective acknowledgements: the sender's  *)
(* recovery (sack_recovery.go with sender_receive.go, sender_data.go and   *)
(* sender_retransmission.go), the receiver's reports (receiver_sack.go     *)
(* over receiver_buffer.go), and a network between them that may lose      *)
(* anything and let anything overtake.                                     *)
(*                                                                         *)
(* Durations are left out, so an armed timer may fire at any time.  With   *)
(* SACK, Reno and NewReno act alike; the window is theirs.  The receive    *)
(* window is as large as the stream, data is always ready, ECN and delayed *)
(* acknowledgements are off, and closing is left to Tcp.  A loss, an       *)
(* overtaking and a timeout before the network has drained are troubles,   *)
(* whose number is bounded.                                                *)
(***************************************************************************)
EXTENDS Scoreboard

CONSTANTS
  SackPayload,          \* bytes of the stream, at positions 1 .. SackPayload
  SackMss,              \* largest payload of a segment
  SackWindow, SackThreshold, SackMaximum,  \* of the congestion window
  SackRetransmissions,  \* MAX_RETRANSMISIONS
  MaxSACKBlocks,        \* blocks an acknowledgement can carry
  MaxTroubles           \* bound of the model on losses and the like

(* What normalisation accepts of them (normalizeCongestion).               *)
ASSUME SackAssumption ==
  /\ SackPayload \in Nat \ {0} /\ SackMss \in Nat \ {0}
  /\ SackMaximum \in Nat /\ SackMaximum >= SackMss
  /\ SackWindow \in SackMss .. SackMaximum
  /\ SackThreshold \in Nat /\ SackThreshold >= 2 * SackMss
  /\ SackRetransmissions \in Nat /\ MaxSACKBlocks \in Nat \ {0} /\ MaxTroubles \in Nat

VARIABLES
  sender,   \* the Sender
  data,     \* segments on their way
  acks,     \* acknowledgements on their way
  got,      \* the receiver: positions it holds or has consumed
  recent,   \* the receiver: the blocks of its last report
  troubles, \* how many there have been
  losses,   \* segments and acknowledgements lost so far
  heard     \* history: positions reported to the sender since its last reset

sackVars == <<sender, data, acks, got, recent, troubles, losses, heard>>

Window == INSTANCE Congestion WITH
  Modes <- {"reno"}, mode <- "reno", ecn <- FALSE, snd <- sender,
  Payload <- SackPayload, Mss <- SackMss, InitialWindow <- SackWindow,
  InitialThreshold <- SackThreshold, MaximumWindow <- SackMaximum,
  MaxRetransmissions <- SackRetransmissions

End == SackPayload + 1

SackInit ==
  /\ sender = [policy |-> Window!NewPolicy, oldest |-> 1, next |-> 1, ends |-> {},
               retries |-> 0, timer |-> FALSE, sending |-> TRUE, closed |-> FALSE,
               timedOutEnd |-> 0, board |-> << >>, active |-> FALSE, recoveryEnd |-> 0,
               retransmittedEnd |-> 0, rescueAfter |-> 0, duplicateACKs |-> 0,
               pipe |-> 0, out |-> << >>,
               \* history: what was repaired in this recovery, whether a repair
               \* was not needed, the estimate's share of a rescue, and the
               \* losses when the recovery began
               repaired |-> {}, needless |-> FALSE, rescued |-> 0, lossesBefore |-> 0]
  /\ data = << >> /\ acks = << >> /\ got = {} /\ recent = << >>
  /\ troubles = 0 /\ losses = 0 /\ heard = {}

-----------------------------------------------------------------------------
(* The receiver.                                                           *)

(* The merged ranges of a set of positions.                                *)
Ranges(positions) ==
  LET starts == {p \in positions : p - 1 \notin positions}
      ends == {p + 1 : p \in {q \in positions : q + 1 \notin positions}}
  IN  {b \in {Block(s, e) : s \in starts, e \in ends} :
         b.start < b.end /\ Bytes(b) \subseteq positions}

NextExpected(held) == CHOOSE p \in 1 .. End : p \notin held /\ 1 .. p - 1 \subseteq held

Buffered(held) == {p \in held : p > NextExpected(held)}

FirstOf(blocks) ==
  IF blocks = {} THEN NoBlock ELSE CHOOSE b \in blocks : \A c \in blocks : b.start <= c.start

(* The range an arrival or an earlier block belongs to now, if any.        *)
RangeOf(block, held) ==
  FirstOf({r \in Ranges(Buffered(held)) : r.start < block.end /\ r.end > block.start})

RangeFrom(start, held) == FirstOf({r \in Ranges(Buffered(held)) : r.start = start})

(* The first blocks of a list with gaps, none of them twice.               *)
Include(candidates) ==
  LET fresh == {i \in DOMAIN candidates :
                  candidates[i] # NoBlock /\ \A j \in 1 .. i - 1 : candidates[j] # candidates[i]}
  IN  ElementsAt(candidates, {i \in fresh : PlaceIn(fresh, i) <= MaxSACKBlocks})

(* recordSACKArrival: the range of this segment, those of the last report, *)
(* then all in order.                                                      *)
Report(segment, held) ==
  Include(<<RangeOf(segment, held)>>
            \o [i \in DOMAIN recent |-> RangeOf(recent[i], held)]
            \o [p \in 1 .. SackPayload |-> RangeFrom(p, held)])

-----------------------------------------------------------------------------
(* The network: sequences, of which the first element arrives next.        *)

Trouble == troubles < MaxTroubles /\ troubles' = troubles + 1

Without(queue, i) == ElementsAt(queue, DOMAIN queue \ {i})

Arrives(queue, i) ==
  /\ i \in DOMAIN queue
  /\ IF i = 1 THEN UNCHANGED troubles ELSE Trouble

Deliver ==
  /\ \E i \in 1 .. 2 :
       /\ Arrives(data, i)
       /\ LET held == got \cup Bytes(data[i])
              report == Report(data[i], held)
          IN  /\ data' = Without(data, i)
              /\ got' = held /\ recent' = report
              /\ acks' = Append(acks, [ack |-> NextExpected(held), blocks |-> report])
  /\ UNCHANGED <<sender, losses, heard>>

Lose ==
  /\ Trouble /\ losses' = losses + 1
  /\ \/ \E i \in DOMAIN data : data' = Without(data, i) /\ UNCHANGED acks
     \/ \E i \in DOMAIN acks : acks' = Without(acks, i) /\ UNCHANGED data
  /\ UNCHANGED <<sender, got, recent, heard>>

-----------------------------------------------------------------------------
(* The sender: what it may send.                                           *)

IsPending(s) == s.ends # {}
Unsent(s) == End - s.next

(* availableCongestionWindowBytes                                          *)
Space(s) ==
  Higher(s.policy.cwnd - (IF s.active THEN s.pipe ELSE s.next - s.oldest), 0)

NextSize(s) ==
  IF s.active /\ Space(s) < SackMss THEN 0
  ELSE Lower(Lower(Unsent(s), SackMss), Space(s))

GiveUp(s) ==
  [s EXCEPT !.closed = TRUE, !.timer = FALSE, !.sending = FALSE, !.active = FALSE,
            !.board = << >>, !.ends = {}]

(* retransmitSACKHole                                                      *)
RetransmitHole(s, hole, rescue) ==
  LET isOldest == hole.start = s.oldest
  IN  IF isOldest /\ s.retries >= SackRetransmissions THEN GiveUp(s)
      ELSE [s EXCEPT
             !.retries = IF isOldest THEN @ + 1 ELSE @,
             !.retransmittedEnd = IF rescue THEN @ ELSE hole.end,
             !.pipe = @ + Size(hole), !.timer = TRUE, !.out = Append(@, hole),
             !.needless = @ \/ Bytes(hole) \cap BytesOf(s.board) # {}
                            \/ (~rescue /\ Bytes(hole) \cap s.repaired # {}),
             !.repaired = IF rescue THEN @ ELSE @ \cup Bytes(hole),
             !.rescued = IF rescue THEN @ + Size(hole) ELSE @]

(* sendSACKRepairs: lost data, then new data, then any gap below a report, *)
(* then one rescue of the tail.                                            *)
RepairOnce(s) ==
  LET from == Higher(s.oldest, s.retransmittedEnd)
      highest == Higher(s.oldest, HighestReportedEnd(s.board))
      lost == NextHole(s.board, from, highest, TRUE, SackMss)
      gap == NextHole(s.board, from, highest, FALSE, SackMss)
      tail == LastHole(s.board, s.oldest, s.next, SackMss)
  IN  IF ~s.active \/ s.closed \/ Space(s) < SackMss THEN s
      ELSE IF lost # NoBlock THEN RetransmitHole(s, lost, FALSE)
      ELSE IF NextSize(s) > 0 THEN s
      ELSE IF gap # NoBlock THEN RetransmitHole(s, gap, FALSE)
      ELSE IF s.oldest <= s.rescueAfter \/ tail = NoBlock THEN s
      ELSE RetransmitHole([s EXCEPT !.rescueAfter = s.recoveryEnd], tail, TRUE)

(* The loop: a repair is at least a byte further on, and after the rescue  *)
(* nothing is left, so that the last turns change nothing.                 *)
SendRepairs(s) ==
  LET After[i \in 0 .. SackPayload + 2] == IF i = 0 THEN s ELSE RepairOnce(After[i - 1])
  IN  After[SackPayload + 2]

(* finishStream closes a confirmed stream.                                 *)
QueueData(s) ==
  LET t == IF s.active THEN SendRepairs(s) ELSE s
  IN  IF t.closed THEN t
      ELSE IF t.oldest = End THEN GiveUp(t)
      ELSE [t EXCEPT !.sending = @ \/ NextSize(t) > 0]

-----------------------------------------------------------------------------
(* The sender: what arrives.                                               *)

(* recordSACKReports                                                       *)
RecordReports(s, ack, blocks) ==
  LET board == Update(s.board, ack, s.next, blocks)
  IN  [s EXCEPT !.board = board,
                !.pipe = IF s.active THEN Pipe(board, ack, s.next, s.retransmittedEnd, SackMss)
                         ELSE @,
                !.rescued = IF s.active THEN 0 ELSE @]

(* Fast recovery of the window, without inflation.                         *)
OnLoss(w, flight) ==
  LET window == Window!Halved(flight)
  IN  Window!SetWindow([w EXCEPT !.ssthresh = window, !.recoveryWindow = window,
                                 !.avoidance = 0, !.active = TRUE], window)

(* The end of a recovery restores the reduced window; until then an        *)
(* acknowledgement does not change it.                                     *)
AfterACK(w, newBytes, inRecovery, endsRecovery) ==
  IF ~w.active THEN Window!ClassicACK(w, newBytes, FALSE)
  ELSE IF inRecovery /\ ~endsRecovery THEN w
  ELSE Window!Deflated(w, w.recoveryWindow)

ForgetsWhatItRepaired(s) ==
  LET hole == NextHole(s.board, s.oldest, s.next, FALSE, SackMss)
      entered == [s EXCEPT
        !.policy = OnLoss(@, s.next - s.oldest), !.active = TRUE,
        !.recoveryEnd = s.next, !.rescueAfter = hole.end, !.repaired = {},
        !.rescued = 0, !.lossesBefore = losses,
        !.pipe = Pipe(s.board, s.oldest, s.next, s.oldest, SackMss)]
  IN  [RetransmitHole(entered, hole, FALSE) EXCEPT !.retransmittedEnd = s.oldest]

StartRecovery(s) ==
  LET hole == NextHole(s.board, s.oldest, s.next, FALSE, SackMss)
      entered == [s EXCEPT
        !.policy = OnLoss(@, s.next - s.oldest),
        !.active = TRUE, !.recoveryEnd = s.next, !.retransmittedEnd = s.oldest,
        !.pipe = Pipe(s.board, s.oldest, s.next, s.oldest, SackMss),
        !.repaired = {}, !.rescued = 0, !.lossesBefore = losses]
  IN  IF hole = NoBlock THEN entered
      ELSE RetransmitHole([entered EXCEPT !.rescueAfter = hole.end], hole, FALSE)

(* observeSACKFeedback: only new information counts as a duplicate, and no *)
(* flight is recovered twice.                                              *)
ObserveFeedback(s, news, advancing) ==
  LET heardSoFar == IF advancing THEN [s EXCEPT !.duplicateACKs = 0] ELSE s
      counted == [heardSoFar EXCEPT !.duplicateACKs = Lower(@ + 1, 3)]
      enoughEvidence == counted.duplicateACKs >= 3 \/ IsLost(s.board, s.oldest, SackMss)
  IN  IF s.closed \/ ~IsPending(s) THEN s
      ELSE IF s.active \/ ~news THEN heardSoFar
      ELSE IF s.oldest >= s.recoveryEnd /\ enoughEvidence THEN StartRecovery(counted)
      ELSE counted

TimerNotRestarted(s, ack) ==
  LET ends == s.active /\ ack >= s.recoveryEnd
  IN  [s EXCEPT !.oldest = ack, !.ends = {e \in @ : e > ack}, !.retries = 0,
                !.active = @ /\ ~ends, !.timer = FALSE,
                !.timedOutEnd = IF ack >= @ THEN 0 ELSE @,
                !.policy = AfterACK(@, ack - s.oldest, s.active, ends)]

(* handleDataAck for an acknowledgement of new bytes.                      *)
ConfirmBytes(s, ack) ==
  LET ends == s.active /\ ack >= s.recoveryEnd
      remaining == {e \in s.ends : e > ack}
  IN  [s EXCEPT !.oldest = ack, !.ends = remaining, !.retries = 0,
                !.active = @ /\ ~ends, !.timer = remaining # {},
                !.timedOutEnd = IF ack >= @ THEN 0 ELSE @,
                !.policy = AfterACK(@, ack - s.oldest, s.active, ends)]

(* A reordered acknowledgement confirms nothing, but its report may say    *)
(* what a newer one had no room for.                                       *)
HandleReport(s, ack, blocks) ==
  LET position == Higher(ack, s.oldest)
      news == IsNews(s.board, position, s.next, blocks)
      recorded == RecordReports(s, position, blocks)
      confirmed == IF ack > s.oldest THEN ConfirmBytes(recorded, ack) ELSE recorded
  IN  QueueData(ObserveFeedback(confirmed, news, ack > s.oldest))

Send(s) ==
  /\ sender' = [s EXCEPT !.out = << >>]
  /\ data' = data \o s.out

(* The reference: a report adds positions, wherever they are.              *)
Heard(p) ==
  LET position == Higher(p.ack, sender.oldest)
      useful == {b \in {p.blocks[i] : i \in DOMAIN p.blocks} : Reported(position, sender.next, b)}
  IN  {x \in heard \cup UNION {Bytes(b) : b \in useful} : x >= position}

ReceiveReport ==
  /\ ~sender.closed
  /\ \E i \in 1 .. 2 :
       /\ Arrives(acks, i)
       /\ acks' = Without(acks, i)
       /\ Send(HandleReport(sender, acks[i].ack, acks[i].blocks))
       /\ heard' = Heard(acks[i])
  /\ UNCHANGED <<got, recent, losses>>

-----------------------------------------------------------------------------
(* The sender: its events.                                                 *)

SendNext ==
  /\ sender.sending
  /\ LET s == [sender EXCEPT !.sending = FALSE]
         size == NextSize(s)
         end == s.next + size
     IN  Send(IF size = 0 THEN s
              ELSE QueueData([s EXCEPT
                     !.next = end, !.ends = @ \cup {end}, !.timer = TRUE,
                     !.pipe = IF s.active THEN @ + size ELSE @,
                     !.out = Append(@, Block(s.next, end))]))
  /\ UNCHANGED <<acks, got, recent, troubles, losses, heard>>

(* resetSACKAfterTimeout                                                   *)
ResetAfterTimeout(s) ==
  [s EXCEPT !.board = << >>, !.active = FALSE, !.duplicateACKs = 0,
            !.recoveryEnd = s.next, !.retransmittedEnd = 0, !.rescueAfter = 0,
            !.pipe = 0]

OldestSegment(s) ==
  Block(s.oldest, CHOOSE e \in s.ends : \A f \in s.ends : e <= f)

(* retransmitData                                                          *)
OnTimeout(s) ==
  IF s.retries >= SackRetransmissions THEN GiveUp(s)
  ELSE [ResetAfterTimeout(s) EXCEPT
         !.retries = @ + 1, !.timer = TRUE, !.out = Append(@, OldestSegment(s)),
         !.timedOutEnd = IF @ = 0 THEN OldestSegment(s).end ELSE @,
         !.policy = Window!OnTimeoutLoss(@, s.next - s.oldest, s.next, s.timedOutEnd # 0)]

TimeOut ==
  /\ sender.timer
  /\ IF data = << >> /\ acks = << >> THEN UNCHANGED troubles ELSE Trouble
  /\ Send(OnTimeout(sender))
  /\ heard' = {}
  /\ UNCHANGED <<acks, got, recent, losses>>

SackNext == Deliver \/ Lose \/ ReceiveReport \/ SendNext \/ TimeOut

SackSpec == SackInit /\ [][SackNext]_sackVars

-----------------------------------------------------------------------------
SackTypes ==
  /\ sender.oldest \in 1 .. End /\ sender.next \in sender.oldest .. End
  /\ sender.ends \subseteq sender.oldest + 1 .. sender.next
  /\ sender.retries \in 0 .. SackRetransmissions
  /\ sender.policy.cwnd \in SackMss .. SackMaximum /\ sender.pipe \in Nat
  /\ got \subseteq 1 .. SackPayload /\ losses \in 0 .. MaxTroubles
  /\ \A i \in DOMAIN data : data[i].start < data[i].end /\ Size(data[i]) <= SackMss
  /\ Len(recent) <= MaxSACKBlocks

StillOpen == ~sender.closed

(* The sorted, merged blocks of the board are the positions reported since *)
(* it was last reset, however reports were reordered, overlapped, and left *)
(* out what they had no room for (Scoreboard.insert, discardBefore).       *)
BoardIsTrue ==
  /\ \A i \in DOMAIN sender.board : sender.board[i].start < sender.board[i].end
  /\ \A i \in 1 .. Len(sender.board) - 1 : sender.board[i].end < sender.board[i + 1].start
  /\ StillOpen => BytesOf(sender.board) = heard

(* The sender believes nothing the receiver does not hold, and nothing of  *)
(* what is confirmed or not sent; the policy and the sender, who keep the  *)
(* recovery apart, agree on it (renoPolicy.activeRecovery, sack.active).   *)
BothAgree ==
  StillOpen =>
    /\ heard \subseteq got \cap (sender.oldest + 1 .. sender.next - 1)
    /\ 1 .. sender.oldest - 1 \subseteq got
    /\ sender.active = sender.policy.active
    /\ sender.active => sender.oldest < sender.recoveryEnd /\ sender.recoveryEnd <= sender.next

(* The estimate of the data under way, kept up to date by every repair and *)
(* every new segment and recomputed by every acknowledgement, is what RFC  *)
(* 6675 defines position by position: every unreported position that is    *)
(* not known to be lost, and every one that was repaired (pipeBytes).      *)
Missing == (sender.oldest .. sender.next - 1) \ heard

KnownLost(p) ==
  LET above == {q \in heard : q > p}
  IN  Cardinality(Ranges(above)) >= 3 \/ Cardinality(above) > 2 * SackMss

PipeIsTrue ==
  sender.active =>
    sender.pipe = Cardinality({p \in Missing : ~KnownLost(p)})
                    + Cardinality({p \in Missing : p < sender.retransmittedEnd})
                    + sender.rescued

(* What the sender knows of the receiver and of the network is true.       *)
SackIsSound == SackTypes /\ BoardIsTrue /\ BothAgree /\ PipeIsTrue

(* A recovery repairs nothing the receiver has reported and nothing twice, *)
(* apart from its one rescue (retransmittedEnd, NextHole).                 *)
RepairsAreNeeded == ~sender.needless

(* When nothing is lost after a recovery has begun, it goes on from one    *)
(* acknowledgement to the next without waiting for a timeout, even if the  *)
(* tail of the flight was lost before: it falls silent only when the       *)
(* estimate leaves no room for a segment (the rescue of sendSACKRepairs).  *)
StallsOnlyWhenFull ==
  sender.active /\ data = << >> /\ acks = << >> /\ losses = sender.lossesBefore =>
    Space(sender) < SackMss \/ sender.sending

(* An open sender has a deadline for what is unconfirmed, and otherwise an *)
(* event that sends more: no transfer is silent for ever (armDataTimer,    *)
(* queueSegment).                                                          *)
SomethingIsDue ==
  StillOpen => sender.oldest < End /\ IF IsPending(sender) THEN sender.timer ELSE sender.sending

TransferGoesOn == StallsOnlyWhenFull /\ SomethingIsDue
=============================================================================
