----------------------------- MODULE Scoreboard -----------------------------
(***************************************************************************)
(* The scoreboard of a selective acknowledgement sender (sack/             *)
(* scoreboard.go): the received ranges above the cumulative                *)
(* acknowledgement, kept sorted and merged, and the questions recovery     *)
(* asks of them.  A board is a sequence of blocks; a block covers the      *)
(* positions start .. end - 1.                                             *)
(***************************************************************************)
EXTENDS Selection

Lower(a, b) == IF a < b THEN a ELSE b
Higher(a, b) == IF a > b THEN a ELSE b

Block(start, end) == [start |-> start, end |-> end]
Size(block) == block.end - block.start
Bytes(block) == block.start .. block.end - 1

BytesIn(blocks) == UNION {Bytes(b) : b \in blocks}
BytesOf(board) == BytesIn({board[i] : i \in DOMAIN board})

NoBlock == Block(0, 0)

-----------------------------------------------------------------------------
(* Update.                                                                 *)

DiscardBefore(board, ack) ==
  LET remaining == ElementsAt(board, {i \in DOMAIN board : board[i].end > ack})
  IN  [i \in DOMAIN remaining |-> Block(Higher(remaining[i].start, ack), remaining[i].end)]

InsertJoiningOne(board, incoming) ==
  LET first == Cardinality({i \in DOMAIN board : board[i].end < incoming.start})
      joined == board[first + 1]
      joins == first < Len(board) /\ joined.start <= incoming.end
      grown == Block(Lower(incoming.start, joined.start), Higher(incoming.end, joined.end))
  IN  SubSeq(board, 1, first) \o <<IF joins THEN grown ELSE incoming>>
        \o SubSeq(board, first + (IF joins THEN 2 ELSE 1), Len(board))

(* The blocks that touch the incoming one, or what it has grown to by      *)
(* joining those before them.                                              *)
Insert(board, incoming) ==
  LET first == Cardinality({i \in DOMAIN board : board[i].end < incoming.start})
      GrownTo(k) == LET ends == {incoming.end} \cup {board[j].end : j \in first + 1 .. k}
                    IN  CHOOSE e \in ends : \A f \in ends : f <= e
      joined == {i \in first + 1 .. Len(board) :
                   \A j \in first + 1 .. i : board[j].start <= GrownTo(j - 1)}
      last == first + Cardinality(joined)
      start == IF joined = {} THEN incoming.start
               ELSE Lower(incoming.start, board[first + 1].start)
  IN  SubSeq(board, 1, first) \o <<Block(start, GrownTo(last))>>
        \o SubSeq(board, last + 1, Len(board))

(* A block at the acknowledgement would be duplicate data.                 *)
Reported(ack, sentEnd, block) ==
  block.start > ack /\ block.start < block.end /\ block.end <= sentEnd

(* Blocks are inserted in the order of the report.                         *)
Update(board, ack, sentEnd, blocks) ==
  LET useful == ElementsAt(blocks, {i \in DOMAIN blocks : Reported(ack, sentEnd, blocks[i])})
      After[i \in 0 .. Len(useful)] ==
        IF i = 0 THEN DiscardBefore(board, ack) ELSE Insert(After[i - 1], useful[i])
  IN  After[Len(useful)]

(* What Update returns: more bytes are known than the kept ones.           *)
ReceivedBytes(board) == Cardinality(BytesOf(board))

IsNews(board, ack, sentEnd, blocks) ==
  ReceivedBytes(Update(board, ack, sentEnd, blocks)) > ReceivedBytes(DiscardBefore(board, ack))

-----------------------------------------------------------------------------
(* Questions.                                                              *)

IsLost(board, sequence, mss) ==
  LET above == {i \in DOMAIN board : board[i].start > sequence}
  IN  /\ sequence \notin BytesOf(board)
      /\ \/ Cardinality(above) >= 3
         \/ Cardinality(BytesIn({board[i] : i \in above})) > 2 * mss

(* The gap before block i, and after the last one.                         *)
Gap(board, from, to, i) ==
  Block(IF i = 1 THEN from ELSE Higher(from, board[i - 1].end),
        IF i = Len(board) + 1 THEN to ELSE Lower(to, board[i].start))

Holes(board, from, to) ==
  {g \in {Gap(board, from, to, i) : i \in 1 .. Len(board) + 1} : g.start < g.end}

(* Holes do not overlap: their bytes are those of their union.             *)
Pipe(board, from, to, retransmittedEnd, mss) ==
  LET holes == Holes(board, from, to)
      travelling == {h \in holes : ~IsLost(board, h.start, mss)}
      retransmitted == {p \in BytesIn(holes) : p < retransmittedEnd}
  IN  Cardinality(BytesIn(travelling)) + Cardinality(retransmitted)

NextHole(board, from, to, requireLoss, mss) ==
  LET eligible == {h \in Holes(board, from, to) :
                     requireLoss => IsLost(board, h.start, mss)}
      next == CHOOSE h \in eligible : \A g \in eligible : h.start <= g.start
  IN  IF eligible = {} THEN NoBlock
      ELSE Block(next.start, next.start + Lower(Size(next), mss))

LastHole(board, from, to, mss) ==
  LET holes == Holes(board, from, to)
      last == CHOOSE h \in holes : \A g \in holes : g.start <= h.start
  IN  IF holes = {} THEN NoBlock
      ELSE Block(last.end - Lower(Size(last), mss), last.end)

HighestReportedEnd(board) == IF board = << >> THEN 0 ELSE board[Len(board)].end
=============================================================================
