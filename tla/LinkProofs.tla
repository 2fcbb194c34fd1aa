----------------------------- MODULE LinkProofs -----------------------------
(* The link's invariant, and that it implements the lossy FIFO path, for   *)
(* every capacity and threshold; then the same of the whole way from a     *)
(* client over its link and the shared input (Access, Ingress).            *)
EXTENDS Access, SequenceTheorems, FiniteSetTheorems, TLAPS

(* Appending adds one element, removing the head removes it.               *)
LEMMA ElementsOfAppend ==
  ASSUME NEW S, NEW s \in Seq(S), NEW e \in S
  PROVE  Elements(Append(s, e)) = Elements(s) \cup {e}
BY AppendProperties DEF Elements

LEMMA ElementsOfTail ==
  ASSUME NEW S, NEW s \in Seq(S), s # << >>
  PROVE  Elements(s) = {Head(s)} \cup Elements(Tail(s))
<1>1. Tail(s) \in Seq(S) /\ Len(Tail(s)) = Len(s) - 1
      /\ \A k \in 1 .. Len(Tail(s)) : Tail(s)[k] = s[k + 1]
  BY HeadTailProperties
<1>2. Head(s) = s[1] /\ Len(s) \in Nat \ {0}
  BY HeadTailProperties, EmptySeq, LenProperties
<1>3. ASSUME NEW k \in 1 .. Len(s)
      PROVE  s[k] \in {Head(s)} \cup Elements(Tail(s))
  <2>1. CASE k = 1
    BY <2>1, <1>2
  <2>2. CASE k # 1
    <3>1. k - 1 \in 1 .. Len(Tail(s)) /\ (k - 1) + 1 = k
      BY <1>3, <2>2, <1>1, <1>2
    <3>2. Tail(s)[k - 1] = s[k]
      BY <3>1, <1>1
    <3>3. k - 1 \in 1 .. Len(Tail(s))
      BY <3>1, <1>1, LenProperties
    <3> QED
      BY <3>2, <3>3 DEF Elements
  <2> QED
    BY <2>1, <2>2
<1>4. ASSUME NEW k \in 1 .. Len(Tail(s))
      PROVE  Tail(s)[k] \in Elements(s)
  BY <1>1, <1>2 DEF Elements
<1> QED
  BY <1>1, <1>2, <1>3, <1>4 DEF Elements

(* What the link holds is a number of packets.                             *)
LEMMA HeldIsNumber ==
  ASSUME TypeOK
  PROVE  Len(queue) \in Nat /\ Len(pipe) \in Nat /\ Held \in Nat
<1>1. Len(queue) \in Nat /\ Len(pipe) \in Nat
  BY LenProperties DEF TypeOK
<1> QED
  BY <1>1 DEF Held

LEMMA HeldIsNumberPrimed ==
  ASSUME TypeOK'
  PROVE  Held' \in Nat
<1>1. Len(queue') \in Nat /\ Len(pipe') \in Nat
  BY LenProperties DEF TypeOK
<1> QED
  BY <1>1 DEF Held

(* The invariant holds initially.                                          *)
THEOREM LinkInitially == Init => IInv
<1> SUFFICES ASSUME Init PROVE IInv
  OBVIOUS
<1>1. Len(queue) = 0 /\ Len(pipe) = 0 /\ ~Transmitting
  BY DEF Init, Transmitting
<1>2. TypeOK
  BY EmptySeq DEF Init, TypeOK
<1>3. QueueIsServed
  BY <1>1, LinkAssumption DEF LinkAssumption, Init, QueueIsServed
<1>4. Conservation
  BY <1>1 DEF Init, Conservation, Held
<1>5. InLine
  BY <1>1 DEF Init, InLine
<1> QED
  BY <1>2, <1>3, <1>4, <1>5 DEF IInv

(* The invariant is preserved: what is behind the transmitter is older     *)
(* than what is on it, and that older than what waits.                     *)
THEOREM LinkInductive == IInv /\ [Next]_vars => IInv'
<1> SUFFICES ASSUME IInv, [Next]_vars PROVE IInv'
  OBVIOUS
<1> USE LinkAssumption DEF LinkAssumption
<1>1. CASE OfferDropped
  <2>1. TypeOK'
    BY <1>1 DEF IInv, TypeOK, OfferDropped
  <2>2. QueueIsServed'
    BY <1>1 DEF IInv, QueueIsServed, Transmitting, OfferDropped
  <2>3. Conservation'
    <3>1. Held' = Held
      BY <1>1 DEF Held, Transmitting, OfferDropped
    <3>2. Held \in Nat /\ Len(pipe) \in Nat /\ Len(queue) \in Nat
      BY HeldIsNumber DEF IInv
    <3> QED
      BY <1>1, <3>1, <3>2 DEF IInv, TypeOK, Conservation, OfferDropped
  <2>4. InLine'
    BY <1>1 DEF IInv, InLine, Transmitting, OfferDropped
  <2> QED
    BY <2>1, <2>2, <2>3, <2>4 DEF IInv
<1>2. CASE OfferAccepted
  <2>1. CASE Transmitting /\ queue' = Append(queue, accepted + 1) /\ current' = current
    <3>0. accepted + 1 \in Nat \ {0} /\ queue \in Seq(Nat \ {0})
      BY DEF IInv, TypeOK
    <3>1. /\ queue' \in Seq(Nat \ {0}) /\ Len(queue') = Len(queue) + 1
          /\ \A k \in 1 .. Len(queue) : queue'[k] = queue[k]
          /\ queue'[Len(queue) + 1] = accepted + 1
          /\ Len(queue) \in Nat /\ queue' # << >>
      BY <2>1, <3>0, AppendProperties, LenProperties, EmptySeq
    <3>2. TypeOK'
      BY <1>2, <2>1, <3>1 DEF IInv, TypeOK, OfferAccepted
    <3>3. QueueIsServed'
      BY <1>2, <2>1, <3>1 DEF IInv, QueueIsServed, QueueFull, Transmitting, OfferAccepted
    <3>4. Conservation'
      <4>1. Held' = Held + 1
        BY <1>2, <2>1, <3>1, HeldIsNumber DEF IInv, Held, Transmitting, OfferAccepted
      <4>2. Held \in Nat /\ Len(pipe) \in Nat /\ Len(queue) \in Nat
        BY HeldIsNumber DEF IInv
      <4> QED
        BY <1>2, <2>1, <3>1, HeldIsNumber, <4>1, <4>2 DEF IInv, TypeOK, Conservation, OfferAccepted
    <3>5. InLine'
      <4>1. /\ accepted' = accepted + 1 /\ pipe' = pipe /\ current' = current
            /\ accepted \in Nat /\ current \in Nat
        BY <1>2, <2>1 DEF OfferAccepted, IInv, TypeOK
      <4>2. \A k \in 1 .. Len(queue') : current < queue'[k] /\ queue'[k] <= accepted + 1
        <5> SUFFICES ASSUME NEW k \in 1 .. Len(queue')
                     PROVE  current < queue'[k] /\ queue'[k] <= accepted + 1
          OBVIOUS
        <5>1. current <= accepted
          BY DEF IInv, InLine
        <5>2. CASE k = Len(queue) + 1
          BY <5>1, <5>2, <3>1, <4>1
        <5>3. CASE k \in 1 .. Len(queue)
          <6>1. queue[k] \in Nat /\ current < queue[k] /\ queue[k] <= accepted
            BY <5>3, <3>0 DEF IInv, InLine
          <6> QED
            BY <5>3, <6>1, <3>1, <4>1
        <5> QED
          BY <5>2, <5>3, <3>1
      <4>3. \A k, l \in 1 .. Len(queue') : k < l => queue'[k] < queue'[l]
        <5> SUFFICES ASSUME NEW k \in 1 .. Len(queue'), NEW l \in 1 .. Len(queue'), k < l
                     PROVE  queue'[k] < queue'[l]
          OBVIOUS
        <5>1. k \in 1 .. Len(queue) /\ queue'[k] = queue[k] /\ queue[k] <= accepted
              /\ queue[k] \in Nat
          BY <3>1, <3>0 DEF IInv, InLine
        <5>2. CASE l = Len(queue) + 1
          BY <5>1, <5>2, <3>1, <4>1
        <5>3. CASE l \in 1 .. Len(queue)
          BY <5>1, <5>3, <3>1 DEF IInv, InLine
        <5> QED
          BY <5>2, <5>3, <3>1
      <4>4. \A k \in 1 .. Len(pipe) : pipe[k] <= accepted + 1
        BY <4>1 DEF IInv, TypeOK, InLine
      <4> QED
        BY <4>1, <4>2, <4>3, <4>4 DEF IInv, TypeOK, InLine, Transmitting
    <3> QED
      BY <3>2, <3>3, <3>4, <3>5 DEF IInv
  <2>2. CASE ~Transmitting /\ current' = accepted + 1 /\ queue' = queue
    <3>1. queue = << >>
      BY <2>2 DEF IInv, QueueIsServed
    <3>2. TypeOK'
      BY <1>2, <2>2 DEF IInv, TypeOK, OfferAccepted
    <3>3. QueueIsServed'
      BY <2>2, <3>1, <3>2 DEF IInv, TypeOK, QueueIsServed, Transmitting
    <3>4. Conservation'
      <4>1. Held' = Held + 1
        BY <1>2, <2>2, <3>2, HeldIsNumber DEF IInv, TypeOK, Held, Transmitting, OfferAccepted
      <4>2. Held \in Nat /\ Len(pipe) \in Nat /\ Len(queue) \in Nat
        BY HeldIsNumber DEF IInv
      <4> QED
        BY <1>2, <2>2, <3>2, HeldIsNumber, <4>1, <4>2 DEF IInv, TypeOK, Conservation, OfferAccepted
    <3>5. InLine'
      BY <1>2, <2>2, <3>1, LenProperties DEF IInv, TypeOK, InLine, Transmitting, OfferAccepted
    <3> QED
      BY <3>2, <3>3, <3>4, <3>5 DEF IInv
  <2> QED
    BY <1>2, <2>1, <2>2 DEF OfferAccepted
<1>3. CASE TransmissionEnds
  <2>1. /\ pipe' \in Seq(Nat \ {0}) /\ travelling' = Len(pipe') /\ lost' \in Nat
        /\ Len(pipe') + lost' = Len(pipe) + lost + 1
        /\ \A k \in 1 .. Len(pipe') : pipe'[k] <= current
        /\ \A k, l \in 1 .. Len(pipe') : k < l => pipe'[k] < pipe'[l]
    <3>1. CASE lost' = lost + 1 /\ pipe' = pipe /\ travelling' = travelling
      <4>1. \A k \in 1 .. Len(pipe) : pipe[k] <= current
        BY <1>3 DEF IInv, TypeOK, InLine, TransmissionEnds
      <4>2. Len(pipe) \in Nat
        BY LenProperties DEF IInv, TypeOK
      <4> QED
        BY <3>1, <4>1, <4>2 DEF IInv, TypeOK, Conservation, InLine
    <3>2. CASE pipe' = Append(pipe, current) /\ travelling' = travelling + 1 /\ lost' = lost
      <4>0. current \in Nat \ {0} /\ pipe \in Seq(Nat \ {0})
        BY <1>3 DEF IInv, TypeOK, TransmissionEnds, Transmitting
      <4>1. /\ pipe' \in Seq(Nat \ {0}) /\ Len(pipe') = Len(pipe) + 1
            /\ \A k \in 1 .. Len(pipe) : pipe'[k] = pipe[k]
            /\ pipe'[Len(pipe) + 1] = current /\ Len(pipe) \in Nat
        BY <3>2, <4>0, AppendProperties, LenProperties
      <4> QED
        <5>1. travelling = Len(pipe) /\ lost \in Nat
          BY DEF IInv, TypeOK, Conservation
        <5>2. \A k \in 1 .. Len(pipe) : pipe[k] < current /\ pipe[k] \in Nat
          BY <1>3, <4>0 DEF IInv, InLine, TransmissionEnds
        <5>3. \A k, l \in 1 .. Len(pipe) : k < l => pipe[k] < pipe[l]
          BY DEF IInv, InLine
        <5>4. \A k \in 1 .. Len(pipe') : k \in 1 .. Len(pipe) \/ k = Len(pipe) + 1
          BY <4>1
        <5>5. \A k \in 1 .. Len(pipe') : pipe'[k] <= current
          BY <5>2, <5>4, <4>0, <4>1
        <5>6. \A k, l \in 1 .. Len(pipe') : k < l => pipe'[k] < pipe'[l]
          <6> SUFFICES ASSUME NEW k \in 1 .. Len(pipe'), NEW l \in 1 .. Len(pipe'), k < l
                       PROVE  pipe'[k] < pipe'[l]
            OBVIOUS
          <6>1. k \in 1 .. Len(pipe) /\ pipe'[k] = pipe[k] /\ pipe[k] < current
            BY <4>1, <5>2
          <6>2. CASE l = Len(pipe) + 1
            BY <6>1, <6>2, <4>1
          <6>3. CASE l \in 1 .. Len(pipe)
            BY <6>1, <6>3, <4>1, <5>3
          <6> QED
            BY <6>2, <6>3, <5>4
        <5> QED
          BY <3>2, <4>1, <5>1, <5>5, <5>6
    <3> QED
      BY <1>3, <3>1, <3>2 DEF TransmissionEnds
  <2>2. CASE queue = << >> /\ current' = 0 /\ queue' = queue
    <3>2. TypeOK'
      BY <1>3, <2>1, <2>2 DEF IInv, TypeOK, TransmissionEnds
    <3>3. QueueIsServed'
      BY <2>2 DEF IInv, QueueIsServed
    <3>4. Conservation'
      <4>1. Len(pipe') \in Nat /\ Len(pipe) \in Nat /\ Len(queue) \in Nat /\ Held \in Nat
        BY <2>1, LenProperties, HeldIsNumber DEF IInv
      <4>2. Held' = Held - 1 + Len(pipe') - Len(pipe)
        BY <1>3, <2>2, <4>1 DEF Held, Transmitting, TransmissionEnds
      <4>3. /\ offered' = offered /\ accepted' = accepted /\ dropped' = dropped
            /\ delivered' = delivered /\ discarded' = discarded /\ stopped' = stopped
        BY <1>3 DEF TransmissionEnds
      <4>4. /\ lost \in Nat /\ delivered \in Nat /\ discarded \in Nat
            /\ lost' \in Nat
        BY <2>1 DEF IInv, TypeOK
      <4>0. Len(pipe') + lost' = Len(pipe) + lost + 1
        BY <2>1
      <4>5. Held' + lost' = Held + lost
        BY <4>0, <4>1, <4>2, <4>4
      <4>6. accepted = Held + lost + delivered + discarded
        BY DEF IInv, Conservation
      <4>7. Held' \in Nat
        BY <3>2, HeldIsNumberPrimed
      <4>8. accepted' = Held' + lost' + delivered' + discarded'
        BY <4>1, <4>3, <4>4, <4>5, <4>6, <4>7
      <4> QED
        BY <2>1, <4>3, <4>8 DEF IInv, Conservation
    <3>5. InLine'
      BY <1>3, <2>1, <2>2, LenProperties
      DEF IInv, TypeOK, InLine, Transmitting, TransmissionEnds
    <3> QED
      BY <3>2, <3>3, <3>4, <3>5 DEF IInv
  <2>3. CASE queue # << >> /\ current' = Head(queue) /\ queue' = Tail(queue)
    <3>1. /\ queue' \in Seq(Nat \ {0}) /\ Len(queue') = Len(queue) - 1
          /\ \A k \in 1 .. Len(queue') : queue'[k] = queue[k + 1]
          /\ current' = queue[1] /\ current' \in Nat \ {0} /\ Len(queue) \in Nat \ {0}
      BY <2>3, HeadTailProperties, LenProperties, EmptySeq DEF IInv, TypeOK
    <3>2. TypeOK'
      BY <1>3, <2>1, <3>1 DEF IInv, TypeOK, TransmissionEnds
    <3>3. QueueIsServed'
      BY <3>1 DEF IInv, QueueIsServed, Transmitting
    <3>4. Conservation'
      <4>1. Len(pipe') \in Nat /\ Len(pipe) \in Nat /\ Len(queue) \in Nat /\ Held \in Nat
        BY <2>1, LenProperties, HeldIsNumber DEF IInv
      <4>2. Held' = Held - 1 + Len(pipe') - Len(pipe)
        BY <1>3, <3>1, <4>1 DEF Held, Transmitting, TransmissionEnds
      <4>3. /\ offered' = offered /\ accepted' = accepted /\ dropped' = dropped
            /\ delivered' = delivered /\ discarded' = discarded /\ stopped' = stopped
        BY <1>3 DEF TransmissionEnds
      <4>4. /\ lost \in Nat /\ delivered \in Nat /\ discarded \in Nat
            /\ lost' \in Nat
        BY <2>1 DEF IInv, TypeOK
      <4>0. Len(pipe') + lost' = Len(pipe) + lost + 1
        BY <2>1
      <4>5. Held' + lost' = Held + lost
        BY <4>0, <4>1, <4>2, <4>4
      <4>6. accepted = Held + lost + delivered + discarded
        BY DEF IInv, Conservation
      <4>7. Held' \in Nat
        BY <3>2, HeldIsNumberPrimed
      <4>8. accepted' = Held' + lost' + delivered' + discarded'
        BY <4>1, <4>3, <4>4, <4>5, <4>6, <4>7
      <4> QED
        BY <2>1, <4>3, <4>8 DEF IInv, Conservation
    <3>5. InLine'
      <4>1. accepted' = accepted /\ accepted \in Nat /\ current \in Nat
        BY <1>3 DEF TransmissionEnds, IInv, TypeOK
      <4>2. current < current' /\ current' <= accepted
        BY <3>1 DEF IInv, InLine
      <4>3. \A k \in 1 .. Len(queue') : current' < queue'[k] /\ queue'[k] <= accepted
        <5> SUFFICES ASSUME NEW k \in 1 .. Len(queue')
                     PROVE  current' < queue'[k] /\ queue'[k] <= accepted
          OBVIOUS
        <5>1. k + 1 \in 1 .. Len(queue) /\ 1 \in 1 .. Len(queue) /\ 1 < k + 1
          BY <3>1
        <5>2. queue[1] < queue[k + 1] /\ queue[k + 1] <= accepted
          BY <5>1 DEF IInv, InLine
        <5> QED
          BY <5>2, <3>1
      <4>4. \A k, l \in 1 .. Len(queue') : k < l => queue'[k] < queue'[l]
        <5> SUFFICES ASSUME NEW k \in 1 .. Len(queue'), NEW l \in 1 .. Len(queue'), k < l
                     PROVE  queue'[k] < queue'[l]
          OBVIOUS
        <5>1. k + 1 \in 1 .. Len(queue) /\ l + 1 \in 1 .. Len(queue) /\ k + 1 < l + 1
          BY <3>1
        <5>2. queue[k + 1] < queue[l + 1]
          BY <5>1 DEF IInv, InLine
        <5> QED
          BY <5>2, <3>1
      <4>5. \A k \in 1 .. Len(pipe') : pipe'[k] \in Nat
        BY <2>1, LenProperties
      <4> QED
        BY SMTT(60), <2>1, <3>1, <4>1, <4>2, <4>3, <4>4, <4>5 DEF InLine
    <3> QED
      BY <3>2, <3>3, <3>4, <3>5 DEF IInv
  <2> QED
    BY <1>3, <2>2, <2>3 DEF TransmissionEnds, StartNext
<1>4. CASE Arrive
  <2>1. /\ pipe' \in Seq(Nat \ {0}) /\ Len(pipe') = Len(pipe) - 1
        /\ \A k \in 1 .. Len(pipe') : pipe'[k] = pipe[k + 1]
        /\ Head(pipe) \in Nat /\ Len(pipe) \in Nat \ {0}
    BY <1>4, HeadTailProperties, LenProperties, EmptySeq DEF IInv, TypeOK, Arrive
  <2>2. TypeOK'
    BY <1>4, <2>1, AppendProperties DEF IInv, TypeOK, Conservation, Arrive
  <2>3. QueueIsServed'
    BY <1>4 DEF IInv, QueueIsServed, Transmitting, Arrive
  <2>4. Conservation'
    <3>1. Held' = Held - 1
      BY <1>4, <2>1, HeldIsNumber DEF IInv, Held, Transmitting, Arrive
    <3>2. Held \in Nat /\ Len(pipe) \in Nat /\ Len(queue) \in Nat
      BY HeldIsNumber DEF IInv
    <3> QED
      BY <1>4, <2>1, HeldIsNumber, <3>1, <3>2 DEF IInv, TypeOK, Conservation, Arrive
  <2>5. InLine'
    BY SMTT(60), <1>4, <2>1 DEF IInv, TypeOK, InLine, Transmitting, Arrive
  <2> QED
    BY <2>2, <2>3, <2>4, <2>5 DEF IInv
<1>5. CASE DiscardPending
  <2>1. Held \in Nat /\ Len(queue') = 0 /\ Len(pipe') = 0 /\ Held' = 0
    BY <1>5, HeldIsNumber DEF IInv, DiscardPending, Held, Transmitting
  <2>2. TypeOK'
    BY <1>5, <2>1, EmptySeq DEF IInv, TypeOK, DiscardPending
  <2>3. QueueIsServed'
    BY <1>5, <2>1 DEF IInv, QueueIsServed, DiscardPending
  <2>4. Conservation'
    BY <1>5, <2>1 DEF IInv, TypeOK, Conservation, DiscardPending
  <2>5. InLine'
    BY <1>5, <2>1 DEF IInv, TypeOK, InLine, DiscardPending
  <2> QED
    BY <2>2, <2>3, <2>4, <2>5 DEF IInv
<1>6. CASE UNCHANGED vars
  BY <1>6 DEF IInv, TypeOK, QueueIsServed, Conservation, InLine, Held, Transmitting, vars
<1> QED
  BY <1>1, <1>2, <1>3, <1>4, <1>5, <1>6 DEF Next

(* The link's invariant always holds (Link.TransmitECN, start, pop).       *)
THEOREM LinkInvariant == Spec => []IInv
<1> QED
  BY LinkInitially, LinkInductive, PTL DEF Spec

-----------------------------------------------------------------------------
(* Taking the next packet leaves the others where they are.                *)
LEMMA NextIsTaken ==
  ASSUME IInv, StartNext
  PROVE  Elements(queue) = ({current'} \ {0}) \cup Elements(queue')
<1>1. CASE queue = << >> /\ current' = 0 /\ queue' = queue
  BY <1>1
<1>2. CASE queue # << >> /\ current' = Head(queue) /\ queue' = Tail(queue)
  <2>1. queue \in Seq(Nat \ {0})
    BY DEF IInv, TypeOK
  <2>2. Elements(queue) = {Head(queue)} \cup Elements(Tail(queue))
    BY <1>2, <2>1, ElementsOfTail
  <2>3. Head(queue) # 0
    BY <1>2, <2>1, HeadTailProperties
  <2> QED
    BY <1>2, <2>2, <2>3
<1> QED
  BY <1>1, <1>2 DEF StartNext

(* The packet on the transmitter is nowhere else, and the oldest packet in *)
(* the pipe is the oldest of all.                                          *)
LEMMA CurrentIsAlone ==
  ASSUME IInv, Transmitting
  PROVE  current \notin Elements(pipe) /\ current \notin Elements(queue)
<1>1. ASSUME NEW k \in 1 .. Len(pipe)
      PROVE  pipe[k] # current
  <2>1. pipe[k] < current /\ current \in Nat /\ pipe[k] \in Nat
    BY <1>1 DEF IInv, InLine, TypeOK
  <2> QED
    BY <2>1
<1>2. ASSUME NEW k \in 1 .. Len(queue)
      PROVE  queue[k] # current
  <2>1. current < queue[k] /\ current \in Nat /\ queue[k] \in Nat
    BY <1>2 DEF IInv, InLine, TypeOK
  <2> QED
    BY <2>1
<1> QED
  BY <1>1, <1>2 DEF Elements

LEMMA HeadIsOldest ==
  ASSUME IInv, pipe # << >>
  PROVE  /\ Head(pipe) \in underway
         /\ \A q \in underway : Head(pipe) <= q
         /\ Head(pipe) \notin Elements(Tail(pipe))
         /\ Head(pipe) # current /\ Head(pipe) \notin Elements(queue)
<1>1. /\ Head(pipe) = pipe[1] /\ Len(pipe) \in Nat \ {0} /\ pipe \in Seq(Nat \ {0})
      /\ Len(Tail(pipe)) = Len(pipe) - 1
      /\ \A k \in 1 .. Len(Tail(pipe)) : Tail(pipe)[k] = pipe[k + 1]
  BY HeadTailProperties, LenProperties, EmptySeq DEF IInv, TypeOK
<1>2. pipe[1] \in Nat \ {0} /\ 1 \in 1 .. Len(pipe)
  BY <1>1
<1>3. \A k \in 1 .. Len(pipe) : pipe[k] \in Nat /\ (k # 1 => pipe[1] < pipe[k])
  BY <1>1, <1>2 DEF IInv, InLine
<1>4. Transmitting => pipe[1] < current
  BY <1>2 DEF IInv, InLine
<1>5. ASSUME NEW k \in 1 .. Len(queue)
      PROVE  pipe[1] < queue[k] /\ queue[k] \in Nat
  <2>1. Transmitting
    BY <1>5, EmptySeq, LenProperties DEF IInv, QueueIsServed, TypeOK
  <2>2. current < queue[k] /\ queue[k] \in Nat /\ current \in Nat
    BY <1>5 DEF IInv, TypeOK, InLine
  <2> QED
    BY <2>1, <2>2, <1>2, <1>4
<1>6. current \in Nat
  BY DEF IInv, TypeOK
<1>7. Head(pipe) \in Elements(pipe)
  BY <1>1, <1>2 DEF Elements
<1>8. ASSUME NEW q \in underway
      PROVE  Head(pipe) <= q
  <2>1. CASE q \in Elements(pipe)
    BY <2>1, <1>1, <1>2, <1>3 DEF Elements
  <2>2. CASE q = current /\ current # 0
    BY <2>2, <1>1, <1>2, <1>4, <1>6 DEF Transmitting
  <2>3. CASE q \in Elements(queue)
    BY <2>3, <1>1, <1>2, <1>5 DEF Elements
  <2> QED
    BY <1>8, <2>1, <2>2, <2>3 DEF underway
<1>9. Head(pipe) \notin Elements(Tail(pipe))
  <2> SUFFICES ASSUME NEW k \in 1 .. Len(Tail(pipe))
               PROVE  Tail(pipe)[k] # pipe[1]
    BY <1>1 DEF Elements
  <2>1. k + 1 \in 1 .. Len(pipe) /\ k + 1 # 1 /\ Tail(pipe)[k] = pipe[k + 1]
    BY <1>1
  <2> QED
    BY <2>1, <1>2, <1>3
<1>10. Head(pipe) # current
  BY <1>1, <1>2, <1>4, <1>6 DEF Transmitting
<1>11. Head(pipe) \notin Elements(queue)
  <2> SUFFICES ASSUME NEW k \in 1 .. Len(queue)
               PROVE  queue[k] # pipe[1]
    BY <1>1 DEF Elements
  <2> QED
    BY <1>2, <1>5
<1> QED
  BY <1>7, <1>8, <1>9, <1>10, <1>11 DEF underway

(* What arrives is no longer under way, and nothing else has changed.      *)
LEMMA OldestArrives ==
  ASSUME IInv, Arrive
  PROVE  underway' = underway \ {Head(pipe)}
<1>1. /\ pipe # << >> /\ pipe' = Tail(pipe) /\ queue' = queue /\ current' = current
  BY DEF Arrive
<1>2. Elements(pipe) = {Head(pipe)} \cup Elements(Tail(pipe))
  BY <1>1, ElementsOfTail DEF IInv, TypeOK
<1>3. Elements(pipe)' = Elements(Tail(pipe)) /\ Elements(queue)' = Elements(queue)
  BY <1>1 DEF Elements
<1> QED BY <1>1, <1>2, <1>3, HeadIsOldest DEF underway

(* Every step of the link is a step of the lossy FIFO path or stutters.    *)
LEMMA StepsAreFifoSteps ==
  ASSUME IInv, [Next]_vars
  PROVE  [Fifo!Next]_(Fifo!vars)
<1> DEFINE quiet == /\ accepted' = accepted /\ arrived' = arrived /\ stopped' = stopped
                    /\ underway' = underway
<1>0. quiet => UNCHANGED Fifo!vars
  BY DEF Fifo!vars
<1>1. CASE OfferDropped
  <2>1. quiet
    BY <1>1 DEF OfferDropped, underway, Elements
  <2> QED
    BY <1>0, <2>1
<1>2. CASE OfferAccepted
  <2>1. /\ stopped = FALSE /\ stopped' = stopped /\ arrived' = arrived
        /\ accepted' = accepted + 1 /\ pipe' = pipe
    BY <1>2 DEF OfferAccepted, IInv, TypeOK
  <2>2. underway' = underway \cup {accepted + 1}
    <3>1. CASE queue' = Append(queue, accepted + 1) /\ current' = current
      <4>1. queue \in Seq(Nat \ {0}) /\ accepted + 1 \in Nat \ {0}
        BY DEF IInv, TypeOK
      <4>2. Elements(queue') = Elements(queue) \cup {accepted + 1}
        BY <3>1, <4>1, ElementsOfAppend
      <4>3. Elements(pipe)' = Elements(pipe) /\ Elements(queue)' = Elements(queue')
        BY <2>1 DEF Elements
      <4> QED
        BY <3>1, <4>2, <4>3 DEF underway
    <3>2. CASE ~Transmitting /\ current' = accepted + 1 /\ queue' = queue
      <4>1. accepted + 1 # 0
        BY DEF IInv, TypeOK
      <4>2. Elements(pipe)' = Elements(pipe) /\ Elements(queue)' = Elements(queue)
        BY <2>1, <3>2 DEF Elements
      <4> QED
        BY <3>2, <4>1, <4>2 DEF underway, Transmitting
    <3> QED
      BY <1>2, <3>1, <3>2 DEF OfferAccepted
  <2>3. Fifo!Accept
    BY <2>1, <2>2 DEF Fifo!Accept
  <2> QED
    BY <2>3 DEF Fifo!Next
<1>3. CASE TransmissionEnds
  <2>1. /\ stopped' = stopped /\ arrived' = arrived /\ accepted' = accepted
        /\ current # 0 /\ StartNext /\ Transmitting
    BY <1>3 DEF TransmissionEnds, Transmitting
  <2>2. Elements(queue) = ({current'} \ {0}) \cup Elements(queue')
    BY <2>1, NextIsTaken
  <2>3. Elements(pipe)' = Elements(pipe') /\ Elements(queue)' = Elements(queue')
    BY DEF Elements
  <2>4. CASE lost' = lost + 1 /\ pipe' = pipe /\ travelling' = travelling
    <3>1. current \in underway
      BY <2>1 DEF underway
    <3>2. underway' = underway \ {current}
      BY <2>1, <2>2, <2>3, <2>4, CurrentIsAlone DEF underway
    <3>3. Fifo!Lose
      BY <2>1, <3>1, <3>2 DEF Fifo!Lose
    <3> QED
      BY <3>3 DEF Fifo!Next
  <2>5. CASE pipe' = Append(pipe, current) /\ travelling' = travelling + 1 /\ lost' = lost
    <3>1. pipe \in Seq(Nat \ {0}) /\ current \in Nat \ {0}
      BY <2>1 DEF IInv, TypeOK
    <3>2. Elements(pipe') = Elements(pipe) \cup {current}
      BY <2>5, <3>1, ElementsOfAppend
    <3>3. quiet
      BY <2>1, <2>2, <2>3, <3>2 DEF underway
    <3> QED
      BY <1>0, <3>3
  <2> QED
    BY <1>3, <2>4, <2>5 DEF TransmissionEnds
<1>4. CASE Arrive
  <2>1. /\ pipe # << >> /\ pipe' = Tail(pipe) /\ arrived' = Append(arrived, Head(pipe))
        /\ stopped' = stopped /\ accepted' = accepted /\ queue' = queue
        /\ current' = current
    BY <1>4 DEF Arrive
  <2>2. underway' = underway \ {Head(pipe)}
    BY <1>4, OldestArrives
  <2>3. Fifo!Arrive
    BY <2>1, <2>2, HeadIsOldest DEF Fifo!Arrive
  <2> QED
    BY <2>3 DEF Fifo!Next
<1>5. CASE DiscardPending
  <2>1. underway' = {}
    <3>1. Len(pipe') = 0 /\ Len(queue') = 0 /\ current' = 0
      BY <1>5 DEF DiscardPending
    <3> QED
      BY <3>1 DEF underway, Elements
  <2>2. Fifo!Close
    BY <1>5, <2>1 DEF Fifo!Close, DiscardPending
  <2> QED
    BY <2>2 DEF Fifo!Next
<1>6. CASE UNCHANGED vars
  <2>1. quiet
    BY <1>6 DEF vars, underway, Elements
  <2> QED
    BY <1>0, <2>1
<1> QED
  BY <1>1, <1>2, <1>3, <1>4, <1>5, <1>6 DEF Next

(* The link implements the lossy FIFO path: what it accepts arrives at     *)
(* most once and in order (Link.TransmitECN, start, pop).                  *)
THEOREM Refinement == Spec => ImplementsFifo
<1>1. Init => Fifo!Init
  <2> SUFFICES ASSUME Init PROVE Fifo!Init
    OBVIOUS
  <2>1. Len(pipe) = 0 /\ Len(queue) = 0 /\ current = 0
    BY DEF Init
  <2>2. underway = {}
    BY <2>1 DEF underway, Elements
  <2> QED
    BY <2>2 DEF Init, Fifo!Init
<1>2. IInv /\ [Next]_vars => [Fifo!Next]_(Fifo!vars)
  BY StepsAreFifoSteps
<1> QED
  BY <1>1, <1>2, LinkInvariant, PTL DEF Spec, ImplementsFifo, Fifo!Spec

-----------------------------------------------------------------------------

(* Proofs about the way (Access): the shared input first. The packets of s *)
(* are in increasing order.                                                *)
Increasing(s) == \A k, l \in 1 .. Len(s) : k < l => s[k] < s[l]

(* How many of the packets in S were offered to i.                         *)
Count(origin, i, S) == Cardinality({p \in S : origin[p] = i})

(* A larger packet may follow.                                             *)
LEMMA IncreasingAppend ==
  ASSUME NEW s \in Seq(Nat), NEW e \in Nat, Increasing(s),
         \A x \in Elements(s) : x < e
  PROVE  Increasing(Append(s, e))
<1> DEFINE t == Append(s, e)
<1>1. /\ Len(t) = Len(s) + 1 /\ Len(s) \in Nat
      /\ \A k \in 1 .. Len(s) : t[k] = s[k]
      /\ t[Len(s) + 1] = e
  BY AppendProperties, LenProperties
<1> SUFFICES ASSUME NEW k \in 1 .. Len(t), NEW l \in 1 .. Len(t), k < l
             PROVE  t[k] < t[l]
  BY DEF Increasing
<1>2. k \in 1 .. Len(s)
  BY <1>1
<1>3. CASE l \in 1 .. Len(s)
  BY <1>1, <1>2, <1>3 DEF Increasing
<1>4. CASE l = Len(s) + 1
  <2>1. s[k] \in Elements(s)
    BY <1>2 DEF Elements
  <2> QED BY <1>1, <1>2, <1>4, <2>1
<1> QED BY <1>1, <1>3, <1>4

(* Without its head an increasing sequence is increasing, and all that     *)
(* remains is larger.                                                      *)
LEMMA IncreasingTail ==
  ASSUME NEW s \in Seq(Nat), Increasing(s), s # << >>
  PROVE  /\ Increasing(Tail(s)) /\ Head(s) \in Elements(s)
         /\ \A x \in Elements(Tail(s)) : x \in Elements(s) /\ Head(s) < x
         /\ Elements(Tail(s)) = Elements(s) \ {Head(s)}
<1> DEFINE t == Tail(s)
<1>1. /\ Len(t) = Len(s) - 1 /\ Len(s) \in Nat \ {0} /\ Head(s) = s[1]
      /\ \A k \in 1 .. Len(t) : t[k] = s[k + 1]
  BY HeadTailProperties, LenProperties, EmptySeq
<1>2. Increasing(t)
  <2> SUFFICES ASSUME NEW k \in 1 .. Len(t), NEW l \in 1 .. Len(t), k < l
               PROVE  t[k] < t[l]
    BY DEF Increasing
  <2>1. k + 1 \in 1 .. Len(s) /\ l + 1 \in 1 .. Len(s) /\ k + 1 < l + 1
    BY <1>1
  <2> QED BY <1>1, <2>1 DEF Increasing
<1>3. ASSUME NEW x \in Elements(t) PROVE x \in Elements(s) /\ Head(s) < x
  <2>1. PICK k \in 1 .. Len(t) : x = t[k]
    BY DEF Elements
  <2>2. k + 1 \in 1 .. Len(s) /\ 1 \in 1 .. Len(s) /\ 1 < k + 1
    BY <1>1
  <2> QED BY <1>1, <2>1, <2>2 DEF Increasing, Elements
<1>4. Elements(s) = {Head(s)} \cup Elements(t)
  BY ElementsOfTail
<1>5. Head(s) \in Nat
  BY HeadTailProperties
<1>6. Head(s) \notin Elements(t)
  BY <1>3, <1>5
<1> QED BY <1>2, <1>3, <1>4, <1>6

(* The shared input's Elements are the link's.                             *)
LEMMA SharedElements ==
  ASSUME NEW S, NEW s \in Seq(S)
  PROVE  Shared!Elements(s) = Elements(s) /\ Elements(s) \subseteq S
BY LenProperties, ElementOfSeq DEF Shared!Elements, Elements

(* Packets of the shared input can be counted.                             *)
LEMMA PacketsAreFinite ==
  ASSUME NEW S, S \subseteq Shared!Packets
  PROVE  IsFiniteSet(S) /\ Cardinality(S) \in Nat
<1>1. IsFiniteSet(Shared!Packets)
  BY AccessAssumption, LinkAssumption, FS_Interval
  DEF AccessAssumption, LinkAssumption, Shared!Packets
<1>2. IsFiniteSet(S)
  BY <1>1, FS_Subset
<1> QED BY <1>2, FS_CardinalityType

(* One more packet counts for the input it was offered to.                 *)
LEMMA CountOne ==
  ASSUME NEW origin, NEW i, NEW S, S \subseteq Shared!Packets, NEW p \in Shared!Packets,
         p \notin S
  PROVE  /\ Count(origin, i, S) \in Nat
         /\ Count(origin, i, S \cup {p})
              = Count(origin, i, S) + (IF origin[p] = i THEN 1 ELSE 0)
<1> DEFINE T == {x \in S : origin[x] = i}
<1>1. T \subseteq Shared!Packets /\ p \notin T
  OBVIOUS
<1>2. IsFiniteSet(T) /\ Cardinality(T) \in Nat
  BY <1>1, PacketsAreFinite
<1>3. CASE origin[p] = i
  <2>1. {x \in S \cup {p} : origin[x] = i} = T \cup {p}
    BY <1>3
  <2> QED BY <1>1, <1>2, <1>3, <2>1, FS_AddElement DEF Count
<1>4. CASE origin[p] # i
  <2>1. {x \in S \cup {p} : origin[x] = i} = T
    BY <1>4
  <2> QED BY <1>2, <1>4, <2>1 DEF Count
<1> QED BY <1>3, <1>4

(* Nothing counts for nobody.                                              *)
LEMMA CountNone ==
  ASSUME NEW origin, NEW i PROVE Count(origin, i, {}) = 0
<1>1. {p \in {} : origin[p] = i} = {}
  OBVIOUS
<1> QED BY <1>1, FS_EmptySet DEF Count

(* A count depends only on the origins of the packets counted.             *)
LEMMA CountSame ==
  ASSUME NEW old, NEW new, NEW i, NEW S, \A p \in S : new[p] = old[p]
  PROVE  Count(new, i, S) = Count(old, i, S)
<1>1. {p \in S : new[p] = i} = {p \in S : old[p] = i}
  OBVIOUS
<1> QED BY <1>1 DEF Count

-----------------------------------------------------------------------------
(* The inputs; 1 for the input asked about; the packets that wait, and     *)
(* those that have left the transmitter.                                   *)
In == {clients, backends}
One(x, y) == IF x = y THEN 1 ELSE 0
Waiting == Elements(inputQueue[clients]) \cup Elements(inputQueue[backends])
Behind == Elements(inputTravelling) \cup Elements(inputArrived) \cup inputReallyLost

(* The parts of the inductive invariant. Packets leave the transmitter,    *)
(* and arrive, in the order of their admission.                            *)
Ordered ==
  /\ Increasing(inputTravelling) /\ Increasing(inputStarted)
  /\ \A i \in In : Increasing(inputQueue[i])
  /\ \A x \in Elements(inputStarted) : x <= nextSequence
  /\ \A x \in Behind :
       x \in Elements(inputStarted) /\ (inputSending # 0 => x < inputSending)
  /\ \A x \in Elements(inputArrived), y \in Elements(inputTravelling) : x < y

(* A waiting packet is in its own input, and younger than all that were    *)
(* started.                                                                *)
Placed ==
  \A i \in In : \A x \in Elements(inputQueue[i]) :
    /\ source[x] = i /\ x <= nextSequence
    /\ \A y \in Elements(inputStarted) : y < x

(* Nothing waits beside a free transmitter, or beyond the places there     *)
(* are.                                                                    *)
Served ==
  /\ inputSending = 0 => \A i \in In : inputQueue[i] = << >>
  /\ \A i \in In : Len(inputQueue[i]) <= SharedCapacity

(* The dispatcher knows whose packet is on the transmitter, and how many   *)
(* losses the link had when it was started: what finishTransmission relies *)
(* on.                                                                     *)
Attributed ==
  /\ inputSending # 0 =>
       /\ inputSending \in Elements(inputStarted) /\ transmittingInput \in In
       /\ source[inputSending] = transmittingInput /\ lossesBefore = inputLinkLost
  /\ inputSending = 0 => transmittingInput = NoInput
  /\ inputTransmitting = [i \in In |-> i = transmittingInput]

(* The statistics are those of the packets (Stats of the inputs).          *)
Counted ==
  /\ queuedPackets = Cardinality(Waiting)
  /\ \A i \in In :
       /\ lostPackets[i] = Count(source, i, inputReallyLost)
       /\ deliveredPackets[i] = Count(source, i, Elements(inputArrived))
       /\ travellingPackets[i] = Count(source, i, Elements(inputTravelling))
       /\ inputOffered[i] = inputAccepted[i] + inputDropped[i]
       /\ ~inputStopped =>
            inputAccepted[i] = Len(inputQueue[i]) + One(transmittingInput, i)
                               + travellingPackets[i] + deliveredPackets[i] + lostPackets[i]

(* The inductive invariant of the shared input.                            *)
SharedInv ==
  Shared!TypeOK /\ Ordered /\ Placed /\ Served /\ Attributed /\ Counted

(* The packet that is offered to i starts at once, or waits.               *)
AtOnce(i) ==
  /\ inputSending = 0 /\ inputSending' = nextSequence + 1
  /\ inputStarted' = Append(inputStarted, nextSequence + 1)
  /\ transmittingInput' = i /\ lossesBefore' = inputLinkLost
  /\ inputTransmitting' = [j \in In |-> j = i]
  /\ UNCHANGED <<inputQueue, queuedPackets>>

(* Or it waits behind others.                                              *)
Waits(i) ==
  /\ inputSending # 0 /\ Len(inputQueue[i]) < SharedCapacity
  /\ inputQueue' = [inputQueue EXCEPT ![i] = Append(@, nextSequence + 1)]
  /\ queuedPackets' = queuedPackets + 1
  /\ UNCHANGED <<inputSending, inputStarted, transmittingInput, lossesBefore,
                 inputTransmitting>>

(* All that admission does.                                                *)
Entered(i) ==
  /\ ~inputStopped /\ nextSequence < MaxOffered + MaxReplies
  /\ nextSequence' = nextSequence + 1
  /\ source' = [source EXCEPT ![nextSequence + 1] = i]
  /\ inputOffered' = [inputOffered EXCEPT ![i] = @ + 1]
  /\ inputAccepted' = [inputAccepted EXCEPT ![i] = @ + 1]
  /\ UNCHANGED <<inputTravelling, inputLinkLost, inputStopped, inputDropped,
                 travellingPackets, deliveredPackets, lostPackets, inputReallyLost,
                 inputArrived>>
  /\ AtOnce(i) \/ Waits(i)

(* The packet leaves the transmitter.                                      *)
LostHere ==
  /\ inputLinkLost' = inputLinkLost + 1
  /\ inputReallyLost' = inputReallyLost \cup {inputSending}
  /\ lostPackets' = [lostPackets EXCEPT ![transmittingInput] = @ + 1]
  /\ UNCHANGED <<inputTravelling, travellingPackets>>

(* Or it is not lost.                                                      *)
MovesOn ==
  /\ inputTravelling' = Append(inputTravelling, inputSending)
  /\ travellingPackets' = [travellingPackets EXCEPT ![transmittingInput] = @ + 1]
  /\ UNCHANGED <<inputLinkLost, inputReallyLost, lostPackets>>

(* The transmitter takes the oldest of all waiting packets, if any.        *)
NothingWaits ==
  /\ \A i \in In : inputQueue[i] = << >>
  /\ inputSending' = 0 /\ transmittingInput' = NoInput
  /\ UNCHANGED <<inputQueue, queuedPackets, lossesBefore, inputStarted>>

(* Input i's head is the oldest, and is taken.                             *)
Takes(i) ==
  /\ Shared!OldestInput(inputQueue, i)
  /\ inputQueue' = [inputQueue EXCEPT ![i] = Tail(@)]
  /\ queuedPackets' = queuedPackets - 1
  /\ inputSending' = Head(inputQueue[i]) /\ transmittingInput' = i
  /\ lossesBefore' = inputLinkLost'
  /\ inputStarted' = Append(inputStarted, Head(inputQueue[i]))

(* All that the end of a transmission does.                                *)
Sent ==
  /\ inputSending # 0
  /\ LostHere \/ MovesOn
  /\ NothingWaits \/ \E i \in In : Takes(i)
  /\ inputTransmitting' = [i \in In |-> i = transmittingInput']
  /\ UNCHANGED <<nextSequence, inputStopped, inputOffered, inputAccepted, inputDropped,
                 deliveredPackets, source, inputArrived>>

(* The sequences of the shared input.                                      *)
LEMMA SharedTypes ==
  ASSUME Shared!TypeOK
  PROVE  /\ \A i \in In : inputQueue[i] \in Seq(Shared!Packets) /\ inputQueue[i] \in Seq(Nat)
         /\ inputTravelling \in Seq(Shared!Packets) /\ inputTravelling \in Seq(Nat)
         /\ inputStarted \in Seq(Shared!Packets) /\ inputStarted \in Seq(Nat)
         /\ inputArrived \in Seq(Shared!Packets) /\ inputArrived \in Seq(Nat)
         /\ inputQueue = [i \in In |-> inputQueue[i]]
<1>1. Shared!Packets \subseteq Nat
  BY AccessAssumption, LinkAssumption DEF AccessAssumption, LinkAssumption, Shared!Packets
<1>2. inputQueue \in [In -> Seq(Shared!Packets)]
  BY DEF Shared!TypeOK, In
<1> QED BY <1>1, <1>2, SeqMonotonic DEF Shared!TypeOK

(* A dispatch with something to send takes a head.                         *)
HeadTaken(q, waiting, losses, j) ==
  /\ Shared!OldestInput(q, j)
  /\ inputQueue' = [q EXCEPT ![j] = Tail(@)] /\ queuedPackets' = waiting - 1
  /\ inputSending' = Head(q[j]) /\ inputStarted' = Append(inputStarted, Head(q[j]))
  /\ transmittingInput' = j /\ lossesBefore' = losses

(* When something waits, dispatch takes a head.                            *)
LEMMA DispatchTakes ==
  ASSUME NEW q, NEW waiting, NEW losses, Shared!Dispatch(q, waiting, losses),
         NEW i \in In, q[i] # << >>
  PROVE  \E j \in In : HeadTaken(q, waiting, losses, j)
BY DEF Shared!Dispatch, HeadTaken, In

(* OfferAccepted is Entered: on a free link, nothing else waits.           *)
LEMMA Entering ==
  ASSUME SharedInv, NEW i \in In, Shared!OfferAccepted(i)
  PROVE  Entered(i)
<1> DEFINE n == nextSequence + 1
           q == [inputQueue EXCEPT ![i] = Append(@, n)]
<1>1. CASE /\ Shared!Ready /\ Shared!Dispatch(q, queuedPackets + 1, inputLinkLost)
           /\ inputTransmitting' = Shared!Started
  <2>1. inputSending = 0 /\ \A j \in In : inputQueue[j] = << >>
    BY <1>1 DEF Shared!Ready, SharedInv, Served
  <2>2. q[i] = <<n>> /\ \A j \in In : j # i => q[j] = << >>
    <3>1. DOMAIN inputQueue = In
      BY SharedTypes DEF SharedInv
    <3>2. q[i] = Append(inputQueue[i], n) /\ \A j \in In : j # i => q[j] = inputQueue[j]
      BY <3>1
    <3>3. Append(<< >>, n) = <<n>>
      OBVIOUS
    <3> QED BY <2>1, <3>2, <3>3
  <2>3. <<n>> # << >> /\ Head(<<n>>) = n /\ Tail(<<n>>) = << >>
    OBVIOUS
  <2> HIDE DEF q
  <2>4. PICK j \in In : HeadTaken(q, queuedPackets + 1, inputLinkLost, j)
    <3>1. Shared!Dispatch(q, queuedPackets + 1, inputLinkLost) /\ q[i] # << >>
      BY <1>1, <2>2, <2>3
    <3> QED BY <3>1, DispatchTakes
  <2>5. j = i
    BY <2>2, <2>4 DEF HeadTaken, Shared!OldestInput
  <2>6. inputQueue' = inputQueue
    <3>1. q = [k \in In |-> q[k]]
      BY SharedTypes DEF SharedInv, q
    <3>2. inputQueue' = [k \in In |-> << >>]
      BY <2>2, <2>3, <2>4, <2>5, <3>1 DEF HeadTaken
    <3>3. inputQueue = [k \in In |-> << >>]
      BY <2>1, SharedTypes DEF SharedInv
    <3> QED BY <3>2, <3>3
  <2>7. queuedPackets' = queuedPackets
    BY <2>4 DEF HeadTaken, SharedInv, Shared!TypeOK
  <2>8. AtOnce(i)
    BY <1>1, <2>1, <2>2, <2>3, <2>4, <2>5, <2>6, <2>7 DEF HeadTaken, AtOnce, Shared!Started, In
  <2> QED
    BY <2>8 DEF Shared!OfferAccepted, Shared!progress, Entered
<1>2. CASE /\ ~Shared!Ready
           /\ inputQueue' = q /\ queuedPackets' = queuedPackets + 1
           /\ UNCHANGED <<inputSending, <<transmittingInput, lossesBefore>>,
                          inputTransmitting, inputStarted>>
  <2>1. Waits(i)
    BY <1>2 DEF Shared!OfferAccepted, Shared!Accepts, Shared!Ready, Waits
  <2> QED BY <2>1 DEF Shared!OfferAccepted, Shared!progress, Entered
<1> QED BY <1>1, <1>2 DEF Shared!OfferAccepted, Shared!dispatcher

(* Transmitted is Sent: the loss counter has moved exactly when this       *)
(* packet is lost.                                                         *)
LEMMA Sending ==
  ASSUME SharedInv, Shared!Transmitted
  PROVE  Sent
<1>1. inputSending # 0 /\ lossesBefore = inputLinkLost /\ inputLinkLost \in Nat
  BY DEF Shared!Transmitted, SharedInv, Attributed, Shared!TypeOK
<1>2. LostHere \/ MovesOn
  <2>1. CASE /\ inputLinkLost' = inputLinkLost + 1
             /\ inputReallyLost' = inputReallyLost \cup {inputSending}
             /\ UNCHANGED inputTravelling
    <3>1. inputLinkLost' # lossesBefore
      BY <1>1, <2>1
    <3> QED BY <2>1, <3>1 DEF Shared!Transmitted, LostHere
  <2>2. CASE /\ inputTravelling' = Append(inputTravelling, inputSending)
             /\ UNCHANGED <<inputLinkLost, inputReallyLost>>
    <3>1. ~(inputLinkLost' # lossesBefore)
      BY <1>1, <2>2
    <3> QED BY <2>2, <3>1 DEF Shared!Transmitted, MovesOn
  <2> QED BY <2>1, <2>2 DEF Shared!Transmitted
<1>3. NothingWaits \/ \E i \in In : Takes(i)
  BY DEF Shared!Transmitted, Shared!Dispatch, NothingWaits, Takes, In
<1> QED
  BY <1>1, <1>2, <1>3 DEF Shared!Transmitted, Shared!Started, Shared!admission, Sent, In

-----------------------------------------------------------------------------
(* The packets and numbers of the shared input.                            *)
LEMMA PlacedSets ==
  ASSUME SharedInv
  PROVE  /\ nextSequence \in Nat /\ inputSending \in Nat
         /\ Waiting \subseteq Shared!Packets /\ Behind \subseteq Shared!Packets
         /\ Elements(inputStarted) \subseteq Shared!Packets
         /\ Shared!Packets = 1 .. (MaxOffered + MaxReplies) /\ Shared!Packets \subseteq Nat
         /\ MaxOffered + MaxReplies \in Nat
         /\ \A i \in In : Elements(inputQueue[i]) \subseteq Shared!Packets
         /\ \A i \in In : Len(inputQueue[i]) \in Nat
         /\ source \in [Shared!Packets -> In \cup {NoInput}]
         /\ inputReallyLost \subseteq Shared!Packets
         /\ NoInput \notin In
<1>0. MaxOffered + MaxReplies \in Nat
  BY AccessAssumption, LinkAssumption DEF AccessAssumption, LinkAssumption
<1>1. Shared!TypeOK
  BY DEF SharedInv
<1>2. nextSequence \in Nat /\ inputSending \in Nat /\ inputReallyLost \subseteq Shared!Packets
      /\ source \in [Shared!Packets -> In \cup {NoInput}]
  <2>1. nextSequence \in Nat
    BY <1>0, <1>1 DEF Shared!TypeOK
  <2>2. inputSending \in Nat
    BY <1>0, <1>1 DEF Shared!TypeOK
  <2>3. inputReallyLost \subseteq Shared!Packets
    BY <1>1 DEF Shared!TypeOK
  <2>4. source \in [Shared!Packets -> In \cup {NoInput}]
    BY <1>1 DEF Shared!TypeOK, In
  <2> QED BY <2>1, <2>2, <2>3, <2>4
<1>3. \A i \in In : Elements(inputQueue[i]) \subseteq Shared!Packets /\ Len(inputQueue[i]) \in Nat
  BY <1>1, SharedTypes, SharedElements, LenProperties
<1>4. /\ Elements(inputTravelling) \subseteq Shared!Packets
      /\ Elements(inputArrived) \subseteq Shared!Packets
      /\ Elements(inputStarted) \subseteq Shared!Packets
  BY <1>1, SharedTypes, SharedElements
<1>5. clients \in In /\ backends \in In /\ NoInput \notin In
  BY AccessAssumption DEF AccessAssumption, In
<1>6. Waiting \subseteq Shared!Packets /\ Behind \subseteq Shared!Packets
  BY <1>2, <1>3, <1>4, <1>5 DEF Waiting, Behind
<1>7. Shared!Packets = 1 .. (MaxOffered + MaxReplies) /\ Shared!Packets \subseteq Nat
  BY <1>0 DEF Shared!Packets
<1> QED
  BY <1>0, <1>2, <1>3, <1>4, <1>5, <1>6, <1>7

(* The statistics are numbers.                                             *)
LEMMA StatisticTypes ==
  ASSUME Shared!TypeOK
  PROVE  /\ inputOffered \in [In -> Nat] /\ inputAccepted \in [In -> Nat]
         /\ inputDropped \in [In -> Nat] /\ travellingPackets \in [In -> Nat]
         /\ deliveredPackets \in [In -> Nat] /\ lostPackets \in [In -> Nat]
<1>1. \A stat \in {inputOffered, inputAccepted, inputDropped, travellingPackets,
                   deliveredPackets, lostPackets} : stat \in [In -> Nat]
  BY DEF Shared!TypeOK, In
<1> QED BY <1>1

(* Admission preserves the invariant: the types,                           *)
LEMMA EnteredKeepsTypes ==
  ASSUME SharedInv, NEW i \in In, Entered(i)
  PROVE  Shared!TypeOK'
<1> DEFINE n == nextSequence + 1
<1>1. n \in Shared!Packets /\ n \in Nat
  BY PlacedSets DEF Entered
<1>2. Shared!TypeOK
  BY DEF SharedInv
<1>3. nextSequence' \in 0 .. (MaxOffered + MaxReplies)
  BY <1>1, PlacedSets DEF Entered
<1>4. source' \in [Shared!Packets -> In \cup {NoInput}]
  BY <1>2 DEF Entered, Shared!TypeOK, In
<1>5. /\ inputOffered' \in [In -> Nat] /\ inputAccepted' \in [In -> Nat]
      /\ inputDropped' \in [In -> Nat] /\ travellingPackets' \in [In -> Nat]
      /\ deliveredPackets' \in [In -> Nat] /\ lostPackets' \in [In -> Nat]
  <2>1. inputOffered \in [In -> Nat] /\ inputAccepted \in [In -> Nat]
    BY StatisticTypes DEF SharedInv
  <2>2. /\ inputDropped \in [In -> Nat] /\ travellingPackets \in [In -> Nat]
        /\ deliveredPackets \in [In -> Nat] /\ lostPackets \in [In -> Nat]
    BY StatisticTypes DEF SharedInv
  <2> QED BY <2>1, <2>2 DEF Entered
<1>6. /\ inputQueue' \in [In -> Seq(Shared!Packets)]
      /\ inputSending' \in 0 .. (MaxOffered + MaxReplies)
      /\ lossesBefore' \in Nat /\ transmittingInput' \in In \cup {NoInput}
      /\ inputTransmitting' \in [In -> BOOLEAN] /\ queuedPackets' \in Nat
      /\ inputStarted' \in Seq(Shared!Packets)
  <2>0. /\ inputQueue \in [In -> Seq(Shared!Packets)] /\ inputStarted \in Seq(Shared!Packets)
        /\ inputTransmitting \in [In -> BOOLEAN] /\ queuedPackets \in Nat
        /\ inputLinkLost \in Nat /\ lossesBefore \in Nat
        /\ transmittingInput \in In \cup {NoInput}
        /\ inputSending \in 0 .. (MaxOffered + MaxReplies)
    BY <1>2 DEF Shared!TypeOK, In
  <2>1. CASE AtOnce(i)
    <3>1. Append(inputStarted, n) \in Seq(Shared!Packets)
      BY <1>1, <2>0, AppendProperties
    <3> QED BY <1>1, <1>3, <2>0, <2>1, <3>1 DEF AtOnce, Entered
  <2>2. CASE Waits(i)
    <3>1. Append(inputQueue[i], n) \in Seq(Shared!Packets)
      BY <1>1, <2>0, AppendProperties
    <3> QED BY <2>0, <2>2, <3>1 DEF Waits
  <2> QED BY <2>1, <2>2 DEF Entered
<1>7. /\ inputTravelling' \in Seq(Shared!Packets) /\ inputLinkLost' \in Nat
      /\ inputStopped' \in BOOLEAN /\ inputArrived' \in Seq(Shared!Packets)
      /\ inputReallyLost' \subseteq Shared!Packets
  BY <1>2 DEF Entered, Shared!TypeOK
<1> QED
  BY <1>3, <1>4, <1>5, <1>6, <1>7 DEF Shared!TypeOK, In

(* the order and the places, as the new packet is the youngest of all,     *)
LEMMA EnteredKeepsOrder ==
  ASSUME SharedInv, NEW i \in In, Entered(i)
  PROVE  Ordered' /\ Placed' /\ Served' /\ Attributed'
<1> DEFINE n == nextSequence + 1
<1>1. n \in Shared!Packets /\ n \in Nat /\ nextSequence \in Nat /\ nextSequence' = n
  BY PlacedSets DEF Entered
<1>2. ASSUME NEW j \in In, NEW x \in Elements(inputQueue[j])
      PROVE  x \in Nat /\ x < n /\ source[x] = j /\ x \in Shared!Packets
  <2>1. x \in Nat /\ x \in Shared!Packets
    BY PlacedSets
  <2>2. source[x] = j /\ x <= nextSequence
    BY DEF SharedInv, Placed
  <2> QED BY <1>1, <2>1, <2>2
<1>3. \A x \in Elements(inputStarted) : x \in Nat /\ x < n /\ x \in Shared!Packets
  BY <1>1, PlacedSets DEF SharedInv, Ordered
<1>4. \A x \in Shared!Packets : x # n => source'[x] = source[x]
  BY PlacedSets DEF Entered
<1>5. source'[n] = i
  BY <1>1, PlacedSets DEF Entered
<1>6. Behind' = Behind /\ \A x \in Behind : x \in Elements(inputStarted)
  BY DEF Behind, Entered, SharedInv, Ordered
<1>7. Increasing(inputTravelling)' /\ \A x \in Elements(inputArrived)', y \in Elements(inputTravelling)' : x < y
  BY DEF Entered, SharedInv, Ordered
<1>8. inputStarted \in Seq(Nat) /\ \A j \in In : inputQueue[j] \in Seq(Nat)
  BY SharedTypes DEF SharedInv
<1>9. DOMAIN inputQueue = In
  BY DEF SharedInv, Shared!TypeOK, In
<1> HIDE DEF n
<1>10. CASE AtOnce(i)
  <2>1. Elements(inputStarted') = Elements(inputStarted) \cup {n}
    BY <1>1, <1>8, <1>10, ElementsOfAppend DEF AtOnce, n
  <2>2. Increasing(inputStarted')
    BY <1>1, <1>3, <1>8, <1>10, IncreasingAppend DEF AtOnce, n, SharedInv, Ordered
  <2>3. inputQueue' = inputQueue /\ \A j \in In : inputQueue[j] = << >>
    BY <1>10 DEF AtOnce, SharedInv, Served
  <2>4. Elements(<< >>) = {} /\ Len(<< >>) = 0 /\ Increasing(<< >>)
    BY DEF Elements, Increasing
  <2>5. Ordered'
    <3>1. inputSending' = n
      BY <1>10 DEF AtOnce, n
    <3>2. \A x \in Elements(inputStarted') : x <= n
      BY <1>1, <1>3, <2>1
    <3>3. \A x \in Behind' : x \in Elements(inputStarted') /\ x < n
      BY <1>3, <1>6, <2>1
    <3> QED BY <1>1, <1>7, <2>2, <2>3, <2>4, <3>1, <3>2, <3>3 DEF Ordered
  <2>6. Placed'
    BY <2>3, <2>4 DEF Placed
  <2>7. Served'
    BY <1>1, <1>10, <2>3, <2>4, AccessAssumption DEF Served, AtOnce, AccessAssumption, n
  <2>8. Attributed'
    BY <1>1, <1>5, <1>10, <2>1 DEF Attributed, AtOnce, n, Entered
  <2> QED BY <2>5, <2>6, <2>7, <2>8
<1>11. CASE Waits(i)
  <2>1. /\ inputQueue'[i] = Append(inputQueue[i], n)
        /\ \A j \in In : j # i => inputQueue'[j] = inputQueue[j]
    BY <1>9, <1>11 DEF Waits, n
  <2>2. Elements(inputQueue'[i]) = Elements(inputQueue[i]) \cup {n}
    <3>1. inputQueue[i] \in Seq(Nat) /\ n \in Nat
      BY <1>1, <1>8
    <3>2. Elements(Append(inputQueue[i], n)) = Elements(inputQueue[i]) \cup {n}
      BY <3>1, ElementsOfAppend
    <3> QED BY <2>1, <3>2
  <2>3. Increasing(inputQueue'[i])
    BY <1>1, <1>2, <1>8, <2>1, IncreasingAppend DEF SharedInv, Ordered
  <2>4. Len(inputQueue'[i]) = Len(inputQueue[i]) + 1
    BY <1>1, <1>8, <2>1, AppendProperties
  <2>5. /\ inputStarted' = inputStarted /\ inputSending' = inputSending /\ inputSending # 0
        /\ Len(inputQueue[i]) < SharedCapacity
        /\ transmittingInput' = transmittingInput /\ lossesBefore' = lossesBefore
        /\ inputTransmitting' = inputTransmitting
    BY <1>11 DEF Waits
  <2>6. Ordered'
    <3>1. \A j \in In : Increasing(inputQueue'[j])
      BY <2>1, <2>3 DEF SharedInv, Ordered
    <3>2. \A x \in Elements(inputStarted') : x <= n
      BY <1>1, <1>3, <2>5
    <3>3. \A x \in Behind' : x \in Elements(inputStarted') /\ (inputSending' # 0 => x < inputSending')
      BY <1>6, <2>5 DEF SharedInv, Ordered
    <3>4. Increasing(inputStarted')
      BY <2>5 DEF SharedInv, Ordered
    <3> QED BY <1>1, <1>7, <3>1, <3>2, <3>3, <3>4 DEF Ordered
  <2>7. Placed'
    <3> SUFFICES ASSUME NEW j \in In, NEW x \in Elements(inputQueue'[j])
                 PROVE  /\ source'[x] = j /\ x <= n
                        /\ \A y \in Elements(inputStarted) : y < x
      BY <1>1, <2>5 DEF Placed
    <3>1. CASE x \in Elements(inputQueue[j])
      <4>1. x \in Nat /\ x < n /\ source[x] = j /\ x \in Shared!Packets
        BY <1>2, <3>1
      <4>2. \A y \in Elements(inputStarted) : y < x
        BY <3>1 DEF SharedInv, Placed
      <4> QED BY <1>1, <1>4, <4>1, <4>2
    <3>2. CASE x = n /\ j = i
      <4>1. source'[x] = j
        BY <1>5, <3>2
      <4>2. x <= n
        BY <1>1, <3>2
      <4>3. \A y \in Elements(inputStarted) : y < x
        BY <1>3, <3>2
      <4> QED BY <4>1, <4>2, <4>3
    <3>3. x \in Elements(inputQueue[j]) \/ (x = n /\ j = i)
      <4>1. CASE j = i
        BY <2>2, <4>1
      <4>2. CASE j # i
        BY <2>1, <4>2
      <4> QED BY <4>1, <4>2
    <3> QED BY <3>1, <3>2, <3>3
  <2>8. Served'
    <3> SUFFICES ASSUME NEW j \in In PROVE Len(inputQueue'[j]) <= SharedCapacity
      BY <2>5 DEF Served
    <3>1. CASE j = i
      BY <2>4, <2>5, <3>1, PlacedSets, AccessAssumption DEF AccessAssumption
    <3>2. CASE j # i
      BY <2>1, <3>2 DEF SharedInv, Served
    <3> QED BY <3>1, <3>2
  <2>9. Attributed'
    <3>1. inputSending \in Elements(inputStarted) => source'[inputSending] = source[inputSending]
      BY <1>1, <1>3, <1>4
    <3> QED BY <2>5, <3>1 DEF SharedInv, Attributed, Entered
  <2> QED BY <2>6, <2>7, <2>8, <2>9
<1> QED BY <1>10, <1>11 DEF Entered

(* and the counts: the new packet is one more that waits or is sent.       *)
LEMMA EnteredKeepsCounts ==
  ASSUME SharedInv, NEW i \in In, Entered(i)
  PROVE  Counted'
<1> DEFINE n == nextSequence + 1
<1>1. n \in Shared!Packets /\ n \in Nat /\ nextSequence \in Nat
  BY PlacedSets DEF Entered
<1>2. \A x \in Behind : source'[x] = source[x]
  <2> SUFFICES ASSUME NEW x \in Behind PROVE source'[x] = source[x]
    OBVIOUS
  <2>1. x <= nextSequence /\ x \in Shared!Packets /\ x \in Nat
    BY PlacedSets DEF SharedInv, Ordered
  <2> QED BY <1>1, <2>1, PlacedSets DEF Entered
<1>3. ASSUME NEW j \in In
      PROVE  /\ Count(source', j, inputReallyLost) = Count(source, j, inputReallyLost)
             /\ Count(source', j, Elements(inputArrived)) = Count(source, j, Elements(inputArrived))
             /\ Count(source', j, Elements(inputTravelling)) = Count(source, j, Elements(inputTravelling))
  BY <1>2, CountSame DEF Behind
<1>4. queuedPackets' = Cardinality(Waiting')
  <2>1. CASE AtOnce(i)
    BY <2>1 DEF AtOnce, SharedInv, Counted, Waiting
  <2>2. CASE Waits(i)
    <3>1. inputQueue'[i] = Append(inputQueue[i], n) /\ \A j \in In : j # i => inputQueue'[j] = inputQueue[j]
      BY <2>2 DEF Waits, SharedInv, Shared!TypeOK, In
    <3>2. Elements(inputQueue'[i]) = Elements(inputQueue[i]) \cup {n}
      <4>1. inputQueue[i] \in Seq(Nat)
        BY SharedTypes DEF SharedInv
      <4> QED BY <1>1, <3>1, <4>1, ElementsOfAppend
    <3>3. Waiting' = Waiting \cup {n}
      BY <3>1, <3>2, AccessAssumption DEF Waiting, In, AccessAssumption
    <3>4. n \notin Waiting
      <4> SUFFICES ASSUME NEW j \in In, n \in Elements(inputQueue[j]) PROVE FALSE
        BY DEF Waiting, In
      <4>1. n <= nextSequence
        BY DEF SharedInv, Placed
      <4> QED BY <1>1, <4>1
    <3>5. IsFiniteSet(Waiting)
      BY PlacedSets, PacketsAreFinite
    <3>6. Cardinality(Waiting \cup {n}) = Cardinality(Waiting) + 1
      BY <3>4, <3>5, FS_AddElement
    <3> QED BY <2>2, <3>3, <3>6 DEF Waits, SharedInv, Counted
  <2> QED BY <2>1, <2>2 DEF Entered
<1>5. ASSUME NEW j \in In
      PROVE  /\ inputOffered'[j] = inputAccepted'[j] + inputDropped'[j]
             /\ ~inputStopped' =>
                  inputAccepted'[j] = Len(inputQueue'[j]) + One(transmittingInput', j)
                      + travellingPackets'[j] + deliveredPackets'[j] + lostPackets'[j]
  <2>1. /\ inputOffered[j] \in Nat /\ inputAccepted[j] \in Nat /\ inputDropped[j] \in Nat
        /\ travellingPackets[j] \in Nat /\ deliveredPackets[j] \in Nat /\ lostPackets[j] \in Nat
        /\ Len(inputQueue[j]) \in Nat
    BY StatisticTypes, PlacedSets DEF SharedInv
  <2>2. inputOffered[j] = inputAccepted[j] + inputDropped[j]
    BY DEF SharedInv, Counted
  <2>3. inputAccepted[j] = Len(inputQueue[j]) + One(transmittingInput, j)
                      + travellingPackets[j] + deliveredPackets[j] + lostPackets[j]
    BY DEF Entered, SharedInv, Counted
  <2>4. /\ inputOffered'[j] = inputOffered[j] + One(i, j)
        /\ inputAccepted'[j] = inputAccepted[j] + One(i, j)
    BY <2>1, StatisticTypes, SMTT(30) DEF SharedInv, Entered, One
  <2>5. /\ inputDropped'[j] = inputDropped[j] /\ travellingPackets'[j] = travellingPackets[j]
        /\ deliveredPackets'[j] = deliveredPackets[j] /\ lostPackets'[j] = lostPackets[j]
    BY DEF Entered
  <2>6. One(i, j) \in Nat /\ One(transmittingInput, j) \in Nat /\ (j = i => One(i, j) = 1)
        /\ (j # i => One(i, j) = 0) /\ One(NoInput, j) = 0
    BY PlacedSets DEF One
  <2>7. /\ Len(inputQueue'[j]) \in Nat /\ One(transmittingInput', j) \in Nat
        /\ Len(inputQueue'[j]) + One(transmittingInput', j) = Len(inputQueue[j]) + One(transmittingInput, j) + One(i, j)
    <3>1. CASE AtOnce(i)
      <4>1. transmittingInput = NoInput /\ transmittingInput' = i /\ inputQueue' = inputQueue
        BY <3>1 DEF AtOnce, SharedInv, Attributed
      <4>2. Len(inputQueue'[j]) = Len(inputQueue[j]) /\ One(transmittingInput, j) = 0
            /\ One(transmittingInput', j) = One(i, j)
        BY <2>6, <4>1
      <4> HIDE <3>1
      <4> QED BY <2>1, <2>6, <4>2
    <3>2. CASE Waits(i)
      <4>1. inputQueue'[i] = Append(inputQueue[i], n) /\ (j # i => inputQueue'[j] = inputQueue[j])
            /\ transmittingInput' = transmittingInput
        BY <3>2 DEF Waits, SharedInv, Shared!TypeOK, In
      <4>2. Len(Append(inputQueue[i], n)) = Len(inputQueue[i]) + 1
        <5>1. inputQueue[i] \in Seq(Nat)
          BY SharedTypes DEF SharedInv
        <5> QED BY <1>1, <5>1, AppendProperties
      <4>3. CASE j = i
        <5>1. Len(inputQueue'[j]) = Len(inputQueue[j]) + 1 /\ One(i, j) = 1
              /\ One(transmittingInput', j) = One(transmittingInput, j)
          BY <2>6, <4>1, <4>2, <4>3
        <5>2. Len(inputQueue[j]) \in Nat /\ One(transmittingInput, j) \in Nat
          BY <2>1, <2>6
        <5>3. Len(inputQueue'[j]) \in Nat /\ One(transmittingInput', j) \in Nat
          BY <5>1, <5>2
        <5>4. Len(inputQueue'[j]) + One(transmittingInput', j)
                = Len(inputQueue[j]) + One(transmittingInput, j) + One(i, j)
          BY <5>1, <5>2
        <5> QED BY <5>3, <5>4
      <4>4. CASE j # i
        <5>1. Len(inputQueue'[j]) = Len(inputQueue[j]) /\ One(i, j) = 0
              /\ One(transmittingInput', j) = One(transmittingInput, j)
          BY <2>6, <4>1, <4>4
        <5> QED BY <2>1, <2>6, <5>1
      <4> QED BY <4>3, <4>4
    <3> QED BY <3>1, <3>2 DEF Entered
  <2>8. inputOffered'[j] = inputAccepted'[j] + inputDropped'[j]
    BY <2>1, <2>2, <2>4, <2>5, <2>6
  <2>9. inputAccepted'[j] = Len(inputQueue'[j]) + One(transmittingInput', j)
                      + travellingPackets'[j] + deliveredPackets'[j] + lostPackets'[j]
    <3>0. Len(inputQueue'[j]) \in Nat /\ One(transmittingInput', j) \in Nat
      BY <2>7
    <3>2. Len(inputQueue'[j]) + One(transmittingInput', j)
            = Len(inputQueue[j]) + One(transmittingInput, j) + One(i, j)
      BY <2>7
    <3>1. inputAccepted[j] + One(i, j) = Len(inputQueue'[j]) + One(transmittingInput', j)
                      + travellingPackets[j] + deliveredPackets[j] + lostPackets[j]
      <4>1. travellingPackets[j] \in Nat /\ deliveredPackets[j] \in Nat /\ lostPackets[j] \in Nat
            /\ Len(inputQueue[j]) \in Nat /\ One(i, j) \in Nat /\ One(transmittingInput, j) \in Nat
        BY <2>1, <2>6
      <4>2. inputAccepted[j] = Len(inputQueue[j]) + One(transmittingInput, j)
                      + travellingPackets[j] + deliveredPackets[j] + lostPackets[j]
        BY <2>3
      <4> QED BY <3>0, <3>2, <4>1, <4>2, SMTT(20)
    <3> QED BY <2>4, <2>5, <3>1
  <2> QED BY <2>8, <2>9 DEF One
<1>6. /\ inputReallyLost' = inputReallyLost /\ inputArrived' = inputArrived
      /\ inputTravelling' = inputTravelling /\ lostPackets' = lostPackets
      /\ deliveredPackets' = deliveredPackets /\ travellingPackets' = travellingPackets
  BY DEF Entered
<1> QED BY <1>3, <1>4, <1>5, <1>6 DEF SharedInv, Counted

-----------------------------------------------------------------------------
(* The parts of Sent: what happens to the packet on the transmitter, and   *)
(* what follows it.                                                        *)
LEMMA TakenIsOldest ==
  ASSUME SharedInv, NEW i \in In, Takes(i)
  PROVE  /\ inputQueue[i] \in Seq(Nat) /\ inputQueue[i] # << >>
         /\ inputSending' \in Elements(inputQueue[i])
         /\ inputSending' \in Shared!Packets /\ inputSending' \in Nat \ {0}
         /\ source[inputSending'] = i /\ inputSending' <= nextSequence
         /\ \A y \in Elements(inputStarted) : y < inputSending'
         /\ \A j \in In : j # i => inputQueue'[j] = inputQueue[j]
         /\ inputQueue'[i] = Tail(inputQueue[i]) /\ Increasing(inputQueue'[i])
         /\ Len(inputQueue'[i]) = Len(inputQueue[i]) - 1
         /\ Elements(inputQueue'[i]) = Elements(inputQueue[i]) \ {inputSending'}
         /\ \A j \in In : \A x \in Elements(inputQueue'[j]) : inputSending' < x /\ x \in Elements(inputQueue[j])
<1>1. /\ inputQueue[i] \in Seq(Nat) /\ inputQueue[i] # << >> /\ inputQueue[i] \in Seq(Shared!Packets)
      /\ inputQueue'[i] = Tail(inputQueue[i]) /\ inputSending' = Head(inputQueue[i])
      /\ \A j \in In : j # i => inputQueue'[j] = inputQueue[j]
      /\ \A j \in In : inputQueue[j] # << >> => Head(inputQueue[i]) <= Head(inputQueue[j])
  <2>1. inputQueue[i] \in Seq(Nat) /\ inputQueue[i] \in Seq(Shared!Packets) /\ DOMAIN inputQueue = In
    BY SharedTypes DEF SharedInv
  <2> QED BY <2>1 DEF Takes, Shared!OldestInput, In
<1>2. Increasing(inputQueue[i])
  BY DEF SharedInv, Ordered
<1>3. /\ Increasing(inputQueue'[i]) /\ inputSending' \in Elements(inputQueue[i])
      /\ \A x \in Elements(inputQueue'[i]) : x \in Elements(inputQueue[i]) /\ inputSending' < x
      /\ Elements(inputQueue'[i]) = Elements(inputQueue[i]) \ {inputSending'}
  BY <1>1, <1>2, IncreasingTail
<1>4. Len(inputQueue'[i]) = Len(inputQueue[i]) - 1
  BY <1>1, HeadTailProperties
<1>5. /\ source[inputSending'] = i /\ inputSending' <= nextSequence
      /\ \A y \in Elements(inputStarted) : y < inputSending'
  BY <1>3 DEF SharedInv, Placed
<1>6. inputSending' \in Shared!Packets /\ inputSending' \in Nat \ {0}
  BY <1>1, HeadTailProperties, PlacedSets, SMTT(30)
<1>7. ASSUME NEW j \in In, j # i, NEW x \in Elements(inputQueue[j])
      PROVE  inputSending' < x
  <2>1. inputQueue[j] \in Seq(Nat) /\ Increasing(inputQueue[j])
    BY SharedTypes DEF SharedInv, Ordered
  <2>2. inputQueue[j] # << >>
    BY <1>7 DEF Elements
  <2>3. Head(inputQueue[j]) <= x
    <3>1. x = Head(inputQueue[j]) \/ Head(inputQueue[j]) < x
      BY <1>7, <2>1, <2>2, IncreasingTail
    <3>2. x \in Nat /\ Head(inputQueue[j]) \in Nat
      BY <1>7, <2>1, <2>2, PlacedSets, HeadTailProperties
    <3> QED BY <3>1, <3>2
  <2>4. x # inputSending'
    BY <1>5, <1>7 DEF SharedInv, Placed
  <2>5. x \in Nat /\ Head(inputQueue[j]) \in Nat
    BY <1>7, <2>1, <2>2, PlacedSets, HeadTailProperties
  <2> QED BY <1>1, <1>6, <1>7, <2>2, <2>3, <2>4, <2>5
<1> QED BY <1>1, <1>3, <1>4, <1>5, <1>6, <1>7

(* The packet taken no longer waits.                                       *)
LEMMA TakenFromWaiting ==
  ASSUME SharedInv, NEW i \in In, Takes(i)
  PROVE  Waiting' = Waiting \ {inputSending'} /\ inputSending' \in Waiting
<1>1. /\ inputSending' \in Elements(inputQueue[i]) /\ source[inputSending'] = i
      /\ \A j \in In : j # i => inputQueue'[j] = inputQueue[j]
      /\ Elements(inputQueue'[i]) = Elements(inputQueue[i]) \ {inputSending'}
  BY TakenIsOldest
<1>2. \A j \in In : j # i => inputSending' \notin Elements(inputQueue[j])
  BY <1>1 DEF SharedInv, Placed
<1>3. \A j \in In : Elements(inputQueue'[j]) = Elements(inputQueue[j]) \ {inputSending'}
  BY <1>1, <1>2
<1> QED BY <1>1, <1>3 DEF Waiting, In

(* The end of a transmission preserves the invariant: the types,           *)
LEMMA SentKeepsTypes ==
  ASSUME SharedInv, Sent
  PROVE  Shared!TypeOK'
<1>1. Shared!TypeOK
  BY DEF SharedInv
<1>2. /\ inputSending \in Shared!Packets /\ transmittingInput \in In
      /\ inputLinkLost \in Nat /\ inputReallyLost \subseteq Shared!Packets
      /\ inputTravelling \in Seq(Shared!Packets)
  BY PlacedSets DEF Sent, SharedInv, Attributed, Shared!TypeOK
<1>3. /\ inputLinkLost' \in Nat /\ inputReallyLost' \subseteq Shared!Packets
      /\ inputTravelling' \in Seq(Shared!Packets)
      /\ travellingPackets' \in [In -> Nat] /\ lostPackets' \in [In -> Nat]
  <2>1. travellingPackets \in [In -> Nat] /\ lostPackets \in [In -> Nat]
    BY <1>1, StatisticTypes
  <2>2. CASE LostHere
    BY <1>2, <2>1, <2>2 DEF LostHere
  <2>3. CASE MovesOn
    <3>1. Append(inputTravelling, inputSending) \in Seq(Shared!Packets)
      BY <1>2, AppendProperties
    <3> QED BY <1>2, <2>1, <2>3, <3>1 DEF MovesOn
  <2> QED BY <2>2, <2>3 DEF Sent
<1>4. /\ inputQueue' \in [In -> Seq(Shared!Packets)]
      /\ inputSending' \in 0 .. (MaxOffered + MaxReplies)
      /\ lossesBefore' \in Nat /\ transmittingInput' \in In \cup {NoInput}
      /\ inputStarted' \in Seq(Shared!Packets)
      /\ queuedPackets' \in Nat
  <2>0. /\ inputQueue \in [In -> Seq(Shared!Packets)] /\ inputStarted \in Seq(Shared!Packets)
        /\ queuedPackets \in Nat /\ lossesBefore \in Nat
    BY <1>1 DEF Shared!TypeOK, In
  <2>1. CASE NothingWaits
    BY <2>0, <2>1, PlacedSets DEF NothingWaits
  <2>2. ASSUME NEW i \in In, Takes(i)
        PROVE  /\ inputQueue' \in [In -> Seq(Shared!Packets)]
               /\ inputSending' \in 0 .. (MaxOffered + MaxReplies)
               /\ lossesBefore' \in Nat /\ transmittingInput' \in In \cup {NoInput}
               /\ inputStarted' \in Seq(Shared!Packets)
               /\ queuedPackets' \in Nat
    <3>1. Tail(inputQueue[i]) \in Seq(Shared!Packets)
      BY <2>0, <2>2, TakenIsOldest, HeadTailProperties
    <3>2. Append(inputStarted, inputSending') \in Seq(Shared!Packets)
      BY <2>0, <2>2, TakenIsOldest, AppendProperties
    <3>3. queuedPackets - 1 \in Nat
      <4>1. Waiting # {}
        BY <2>2, TakenIsOldest DEF Waiting, In
      <4>2. Cardinality(Waiting) # 0
        BY <4>1, PlacedSets, PacketsAreFinite, FS_EmptySet
      <4> QED BY <2>0, <4>2 DEF SharedInv, Counted
    <3>4. inputSending' \in 0 .. (MaxOffered + MaxReplies)
      BY <2>2, TakenIsOldest, PlacedSets
    <3>5. inputQueue' \in [In -> Seq(Shared!Packets)]
      BY <2>0, <2>2, <3>1 DEF Takes
    <3>6. inputStarted' \in Seq(Shared!Packets) /\ queuedPackets' \in Nat
      BY <2>2, <3>2, <3>3 DEF Takes
    <3>7. lossesBefore' \in Nat /\ transmittingInput' \in In \cup {NoInput}
      BY <1>3, <2>2 DEF Takes
    <3> QED BY <3>4, <3>5, <3>6, <3>7
  <2> QED BY <2>1, <2>2 DEF Sent
<1>5. inputTransmitting' \in [In -> BOOLEAN]
  BY DEF Sent
<1>6. /\ inputOffered' \in [In -> Nat] /\ inputAccepted' \in [In -> Nat]
      /\ inputDropped' \in [In -> Nat] /\ deliveredPackets' \in [In -> Nat]
  BY <1>1, StatisticTypes DEF Sent
<1>7. /\ nextSequence' \in 0 .. (MaxOffered + MaxReplies) /\ inputStopped' \in BOOLEAN
      /\ source' \in [Shared!Packets -> In \cup {NoInput}]
      /\ inputArrived' \in Seq(Shared!Packets)
  BY <1>1 DEF Sent, Shared!TypeOK, In
<1> QED
  BY <1>3, <1>4, <1>5, <1>6, <1>7 DEF Shared!TypeOK, In

(* the order, as the next packet is younger than all that were started,    *)
LEMMA SentKeepsOrder ==
  ASSUME SharedInv, Sent
  PROVE  Ordered' /\ Placed' /\ Served' /\ Attributed'
<1>1. /\ inputSending \in Nat /\ inputSending # 0 /\ inputSending \in Elements(inputStarted)
      /\ nextSequence' = nextSequence /\ source' = source /\ inputArrived' = inputArrived
      /\ inputTravelling \in Seq(Nat) /\ inputStarted \in Seq(Nat)
      /\ Elements(inputStarted) \subseteq Nat /\ nextSequence \in Nat
  BY PlacedSets, SharedTypes DEF Sent, SharedInv, Attributed
<1>2. \A x \in Behind : x \in Elements(inputStarted) /\ x < inputSending
  BY <1>1 DEF SharedInv, Ordered
<1>3. /\ Increasing(inputTravelling') /\ Behind' = Behind \cup {inputSending}
      /\ \A x \in Elements(inputArrived'), y \in Elements(inputTravelling') : x < y
  <2>1. CASE LostHere
    BY <1>1, <2>1 DEF LostHere, Behind, SharedInv, Ordered
  <2>2. CASE MovesOn
    <3>1. inputTravelling' = Append(inputTravelling, inputSending) /\ inputReallyLost' = inputReallyLost
      BY <2>2 DEF MovesOn
    <3>2. Elements(inputTravelling') = Elements(inputTravelling) \cup {inputSending}
      BY <1>1, <3>1, ElementsOfAppend
    <3>3. \A x \in Elements(inputTravelling) : x < inputSending
      BY <1>2 DEF Behind
    <3>4. Increasing(inputTravelling')
      BY <1>1, <3>1, <3>3, IncreasingAppend DEF SharedInv, Ordered
    <3>5. \A x \in Elements(inputArrived'), y \in Elements(inputTravelling') : x < y
      <4>1. \A x \in Elements(inputArrived) : x < inputSending
        BY <1>2 DEF Behind
      <4> QED BY <1>1, <3>2, <4>1 DEF SharedInv, Ordered
    <3> QED BY <1>1, <3>1, <3>2, <3>4, <3>5 DEF Behind
  <2> QED BY <2>1, <2>2 DEF Sent
<1>4. CASE NothingWaits
  <2>1. Ordered'
    BY <1>1, <1>2, <1>3, <1>4 DEF NothingWaits, SharedInv, Ordered
  <2>2. Placed'
    BY <1>1, <1>4 DEF NothingWaits, SharedInv, Placed
  <2>3. Served'
    BY <1>4 DEF NothingWaits, SharedInv, Served
  <2>4. Attributed'
    BY <1>4 DEF NothingWaits, Sent, Attributed
  <2> QED BY <2>1, <2>2, <2>3, <2>4
<1>5. ASSUME NEW i \in In, Takes(i)
      PROVE  Ordered' /\ Placed' /\ Served' /\ Attributed'
  <2>1. inputStarted' = Append(inputStarted, inputSending')
    BY <1>5 DEF Takes
  <2>2. /\ inputSending' \in Nat \ {0} /\ source[inputSending'] = i /\ inputSending' <= nextSequence
        /\ \A y \in Elements(inputStarted) : y < inputSending'
    BY <1>5, TakenIsOldest
  <2>3. /\ \A j \in In : j # i => inputQueue'[j] = inputQueue[j]
        /\ Increasing(inputQueue'[i])
        /\ \A j \in In : \A x \in Elements(inputQueue'[j]) :
             inputSending' < x /\ x \in Elements(inputQueue[j])
    BY <1>5, TakenIsOldest
  <2>4. Elements(inputStarted') = Elements(inputStarted) \cup {inputSending'}
    <3>1. inputStarted \in Seq(Nat) /\ inputSending' \in Nat
      BY <1>1, <2>2
    <3>2. Elements(Append(inputStarted, inputSending')) = Elements(inputStarted) \cup {inputSending'}
      BY <3>1, ElementsOfAppend
    <3> QED BY <2>1, <3>2
  <2>5. Ordered'
    <3>1. Increasing(inputStarted')
      BY <1>1, <2>1, <2>2, IncreasingAppend DEF SharedInv, Ordered
    <3>2. \A j \in In : Increasing(inputQueue'[j])
      BY <2>3 DEF SharedInv, Ordered
    <3>3. \A x \in Elements(inputStarted') : x <= nextSequence
      BY <2>2, <2>4 DEF SharedInv, Ordered
    <3>4. \A x \in Behind' : x \in Elements(inputStarted') /\ x < inputSending'
      BY <1>1, <1>2, <1>3, <2>2, <2>4
    <3> QED BY <1>1, <1>3, <3>1, <3>2, <3>3, <3>4 DEF Ordered
  <2>6. Placed'
    <3> SUFFICES ASSUME NEW j \in In, NEW x \in Elements(inputQueue'[j])
                 PROVE  /\ source[x] = j /\ x <= nextSequence
                        /\ \A y \in Elements(inputStarted') : y < x
      BY <1>1 DEF Placed
    <3>1. x \in Elements(inputQueue[j]) /\ inputSending' < x
      BY <2>3
    <3>2. source[x] = j /\ x <= nextSequence /\ \A y \in Elements(inputStarted) : y < x
      BY <3>1 DEF SharedInv, Placed
    <3> QED BY <2>4, <3>1, <3>2
  <2>7. Served'
    <3> SUFFICES ASSUME NEW j \in In PROVE Len(inputQueue'[j]) <= SharedCapacity
      BY <2>2 DEF Served
    <3>1. Len(inputQueue[j]) <= SharedCapacity /\ Len(inputQueue[j]) \in Nat /\ SharedCapacity \in Nat
      BY PlacedSets, AccessAssumption DEF SharedInv, Served, AccessAssumption
    <3>2. CASE j = i
      <4>1. Len(inputQueue'[i]) = Len(inputQueue[i]) - 1
        BY <1>5, TakenIsOldest
      <4> QED BY <3>1, <3>2, <4>1
    <3>3. CASE j # i
      BY <2>3, <3>1, <3>3
    <3> QED BY <3>2, <3>3
  <2>8. Attributed'
    <3>1. transmittingInput' = i /\ lossesBefore' = inputLinkLost'
      BY <1>5 DEF Takes
    <3>2. inputTransmitting' = [j \in In |-> j = transmittingInput']
      BY DEF Sent
    <3> QED BY <1>1, <2>2, <2>4, <3>1, <3>2 DEF Attributed
  <2> QED BY <2>5, <2>6, <2>7, <2>8
<1> QED BY <1>4, <1>5 DEF Sent

(* and the counts: the packet sent is lost or travels.                     *)
LEMMA SentKeepsCounts ==
  ASSUME SharedInv, Sent
  PROVE  Counted'
<1>1. /\ inputSending \in Shared!Packets /\ source[inputSending] = transmittingInput
      /\ inputSending \notin Behind /\ Behind \subseteq Shared!Packets /\ transmittingInput \in In
      /\ inputTravelling \in Seq(Nat) /\ inputSending \in Nat
  <2>1. inputSending \in Elements(inputStarted) /\ source[inputSending] = transmittingInput
        /\ inputSending # 0 /\ transmittingInput \in In
    BY DEF Sent, SharedInv, Attributed
  <2>2. inputSending \in Nat /\ \A x \in Behind : x < inputSending
    BY <2>1, PlacedSets DEF SharedInv, Ordered
  <2> QED BY <2>1, <2>2, PlacedSets, SharedTypes DEF SharedInv
<1>2. ASSUME NEW j \in In, NEW S \in SUBSET Behind
      PROVE  /\ Count(source, j, S) \in Nat
             /\ Count(source, j, S \cup {inputSending})
                  = Count(source, j, S) + One(transmittingInput, j)
  <2>1. S \subseteq Shared!Packets /\ inputSending \notin S
    BY <1>1, <1>2
  <2>2. inputSending \in Shared!Packets /\ source[inputSending] = transmittingInput
    BY <1>1
  <2>3. /\ Count(source, j, S) \in Nat
        /\ Count(source, j, S \cup {inputSending})
              = Count(source, j, S) + (IF source[inputSending] = j THEN 1 ELSE 0)
    BY <2>1, <2>2, CountOne
  <2> QED BY <2>2, <2>3 DEF One
<1>3. ASSUME NEW j \in In
      PROVE  /\ lostPackets'[j] = Count(source, j, inputReallyLost')
             /\ travellingPackets'[j] = Count(source, j, Elements(inputTravelling'))
             /\ lostPackets'[j] \in Nat /\ travellingPackets'[j] \in Nat
             /\ lostPackets'[j] + travellingPackets'[j]
                  = lostPackets[j] + travellingPackets[j] + One(transmittingInput, j)
  <2>1. /\ lostPackets[j] = Count(source, j, inputReallyLost)
        /\ travellingPackets[j] = Count(source, j, Elements(inputTravelling))
        /\ lostPackets[j] \in Nat /\ travellingPackets[j] \in Nat
    BY StatisticTypes DEF SharedInv, Counted
  <2>2. One(transmittingInput, j) \in Nat
    BY DEF One
  <2>3. inputReallyLost \in SUBSET Behind /\ Elements(inputTravelling) \in SUBSET Behind
    BY DEF Behind
  <2>4. CASE LostHere
    <3>1. lostPackets'[j] = lostPackets[j] + One(transmittingInput, j)
      BY <1>1, <2>1, <2>4, StatisticTypes, SMTT(30) DEF LostHere, One, SharedInv
    <3>2. Count(source, j, inputReallyLost') = lostPackets[j] + One(transmittingInput, j)
      BY <1>2, <2>1, <2>3, <2>4 DEF LostHere
    <3>3. inputTravelling' = inputTravelling /\ travellingPackets' = travellingPackets
      BY <2>4 DEF LostHere
    <3> QED BY <2>1, <2>2, <3>1, <3>2, <3>3
  <2>5. CASE MovesOn
    <3>1. travellingPackets'[j] = travellingPackets[j] + One(transmittingInput, j)
      BY <1>1, <2>1, <2>5, StatisticTypes, SMTT(30) DEF MovesOn, One, SharedInv
    <3>2. Elements(inputTravelling') = Elements(inputTravelling) \cup {inputSending}
      BY <1>1, <2>5, ElementsOfAppend DEF MovesOn
    <3>3. Count(source, j, Elements(inputTravelling')) = travellingPackets[j] + One(transmittingInput, j)
      BY <1>2, <2>1, <2>3, <3>2
    <3>4. inputReallyLost' = inputReallyLost /\ lostPackets' = lostPackets
      BY <2>5 DEF MovesOn
    <3> QED BY <2>1, <2>2, <3>1, <3>3, <3>4
  <2> QED BY <2>4, <2>5 DEF Sent
<1>4. queuedPackets' = Cardinality(Waiting')
  <2>1. CASE NothingWaits
    BY <2>1 DEF NothingWaits, SharedInv, Counted, Waiting
  <2>2. ASSUME NEW i \in In, Takes(i)
        PROVE  queuedPackets' = Cardinality(Waiting')
    <3>1. Waiting' = Waiting \ {inputSending'} /\ inputSending' \in Waiting
      BY <2>2, TakenFromWaiting
    <3>2. IsFiniteSet(Waiting)
      BY PlacedSets, PacketsAreFinite
    <3>3. Cardinality(Waiting \ {inputSending'}) = Cardinality(Waiting) - 1
      BY <3>1, <3>2, FS_RemoveElement
    <3> QED BY <2>2, <3>1, <3>3 DEF Takes, SharedInv, Counted
  <2> QED BY <2>1, <2>2 DEF Sent
<1>5. ASSUME NEW j \in In
      PROVE  /\ Len(inputQueue'[j]) \in Nat /\ One(transmittingInput', j) \in Nat
             /\ Len(inputQueue'[j]) + One(transmittingInput', j) = Len(inputQueue[j])
  <2>0. Len(inputQueue[j]) \in Nat
    BY PlacedSets
  <2>1. CASE NothingWaits
    <3>1. inputQueue' = inputQueue /\ One(transmittingInput', j) = 0
      BY <2>1, PlacedSets DEF NothingWaits, One
    <3> QED BY <2>0, <3>1
  <2>2. ASSUME NEW i \in In, Takes(i)
        PROVE  /\ Len(inputQueue'[j]) \in Nat /\ One(transmittingInput', j) \in Nat
               /\ Len(inputQueue'[j]) + One(transmittingInput', j) = Len(inputQueue[j])
    <3>1. transmittingInput' = i
      BY <2>2 DEF Takes
    <3>2. CASE j = i
      <4>1. Len(inputQueue'[j]) = Len(inputQueue[j]) - 1 /\ inputQueue[j] # << >> /\ inputQueue[j] \in Seq(Nat)
        BY <2>2, <3>2, TakenIsOldest
      <4>2. Len(inputQueue[j]) \in Nat \ {0}
        BY <4>1, EmptySeq
      <4>3. One(transmittingInput', j) = 1
        BY <3>1, <3>2 DEF One
      <4> QED BY <4>1, <4>2, <4>3
    <3>3. CASE j # i
      <4>1. inputQueue'[j] = inputQueue[j]
        BY <2>2, <3>3, TakenIsOldest
      <4>2. One(transmittingInput', j) = 0
        BY <3>1, <3>3 DEF One
      <4> QED BY <2>0, <4>1, <4>2
    <3> QED BY <3>2, <3>3
  <2> QED BY <2>1, <2>2 DEF Sent
<1>6. /\ inputOffered' = inputOffered /\ inputAccepted' = inputAccepted /\ inputDropped' = inputDropped
      /\ deliveredPackets' = deliveredPackets /\ inputArrived' = inputArrived
      /\ source' = source /\ inputStopped' = inputStopped
  BY DEF Sent
<1>7. ASSUME NEW j \in In, ~inputStopped
      PROVE  inputAccepted[j] = Len(inputQueue'[j]) + One(transmittingInput', j)
                      + travellingPackets'[j] + deliveredPackets[j] + lostPackets'[j]
  <2>1. inputAccepted[j] = Len(inputQueue[j]) + One(transmittingInput, j)
                      + travellingPackets[j] + deliveredPackets[j] + lostPackets[j]
    BY <1>7 DEF SharedInv, Counted
  <2>2. /\ Len(inputQueue[j]) \in Nat /\ One(transmittingInput, j) \in Nat
        /\ travellingPackets[j] \in Nat /\ deliveredPackets[j] \in Nat /\ lostPackets[j] \in Nat
    BY PlacedSets, StatisticTypes DEF SharedInv, One
  <2>3. /\ Len(inputQueue'[j]) \in Nat /\ One(transmittingInput', j) \in Nat
        /\ Len(inputQueue'[j]) + One(transmittingInput', j) = Len(inputQueue[j])
    BY <1>5
  <2>4. /\ lostPackets'[j] \in Nat /\ travellingPackets'[j] \in Nat
        /\ lostPackets'[j] + travellingPackets'[j]
                  = lostPackets[j] + travellingPackets[j] + One(transmittingInput, j)
    BY <1>3
  <2>5. inputAccepted[j] = Len(inputQueue[j]) + deliveredPackets[j]
                             + (lostPackets'[j] + travellingPackets'[j])
    BY <2>1, <2>2, <2>4, SMTT(30)
  <2> QED BY <2>2, <2>3, <2>4, <2>5, SMTT(30)
<1> QED BY <1>3, <1>4, <1>6, <1>7 DEF SharedInv, Counted

-----------------------------------------------------------------------------
(* The other steps.                                                        *)
LEMMA ArrivalMoves ==
  ASSUME SharedInv, Shared!Arrive
  PROVE  LET p == Head(inputTravelling) IN
         /\ p \in Shared!Packets /\ p \in Nat /\ p \in Elements(inputTravelling)
         /\ Elements(inputTravelling') = Elements(inputTravelling) \ {p}
         /\ Elements(inputArrived') = Elements(inputArrived) \cup {p}
         /\ p \notin Elements(inputArrived)
         /\ inputTravelling' \in Seq(Shared!Packets) /\ Increasing(inputTravelling')
         /\ inputArrived' \in Seq(Shared!Packets)
         /\ \A y \in Elements(inputTravelling') : p < y
         /\ \A x \in Elements(inputArrived') : x <= p
<1> DEFINE p == Head(inputTravelling)
<1>1. /\ inputTravelling # << >> /\ inputTravelling' = Tail(inputTravelling)
      /\ inputArrived' = Append(inputArrived, p)
  BY DEF Shared!Arrive
<1>2. /\ inputTravelling \in Seq(Shared!Packets) /\ inputTravelling \in Seq(Nat)
      /\ inputArrived \in Seq(Shared!Packets) /\ inputArrived \in Seq(Nat)
  BY SharedTypes DEF SharedInv
<1>3. p \in Shared!Packets /\ p \in Nat /\ inputTravelling' \in Seq(Shared!Packets)
  BY <1>1, <1>2, HeadTailProperties
<1>4. Increasing(inputTravelling) /\ \A x \in Elements(inputArrived), y \in Elements(inputTravelling) : x < y
  BY DEF SharedInv, Ordered
<1>5. /\ Increasing(inputTravelling') /\ p \in Elements(inputTravelling)
      /\ \A x \in Elements(inputTravelling') : x \in Elements(inputTravelling) /\ p < x
      /\ Elements(inputTravelling') = Elements(inputTravelling) \ {p}
  BY <1>1, <1>2, <1>4, IncreasingTail
<1>6. \A x \in Elements(inputArrived) : x < p
  BY <1>4, <1>5
<1>7. p \notin Elements(inputArrived)
  BY <1>3, <1>6
<1>8. Elements(inputArrived') = Elements(inputArrived) \cup {p} /\ inputArrived' \in Seq(Shared!Packets)
  BY <1>1, <1>2, <1>3, ElementsOfAppend, AppendProperties
<1>9. \A x \in Elements(inputArrived') : x <= p
  <2>1. Elements(inputArrived) \subseteq Nat
    BY <1>2, SharedElements
  <2> QED BY <1>3, <1>6, <1>8, <2>1
<1> QED BY <1>3, <1>5, <1>7, <1>8, <1>9

(* An arrival preserves the invariant.                                     *)
LEMMA ArriveKeeps ==
  ASSUME SharedInv, Shared!Arrive
  PROVE  SharedInv'
<1>0. PICK p : p = Head(inputTravelling)
  OBVIOUS
<1>1. /\ p \in Shared!Packets /\ p \in Nat /\ p \in Elements(inputTravelling)
      /\ Elements(inputTravelling') = Elements(inputTravelling) \ {p}
      /\ Elements(inputArrived') = Elements(inputArrived) \cup {p}
      /\ p \notin Elements(inputArrived)
      /\ inputTravelling' \in Seq(Shared!Packets) /\ Increasing(inputTravelling')
      /\ inputArrived' \in Seq(Shared!Packets)
      /\ \A y \in Elements(inputTravelling') : p < y
      /\ \A x \in Elements(inputArrived') : x <= p
  BY <1>0, ArrivalMoves
<1>2. /\ inputQueue' = inputQueue /\ nextSequence' = nextSequence /\ inputSending' = inputSending
      /\ inputLinkLost' = inputLinkLost /\ transmittingInput' = transmittingInput
      /\ lossesBefore' = lossesBefore /\ inputStopped' = inputStopped
      /\ inputOffered' = inputOffered /\ inputAccepted' = inputAccepted /\ inputDropped' = inputDropped
      /\ inputTransmitting' = inputTransmitting /\ lostPackets' = lostPackets
      /\ queuedPackets' = queuedPackets /\ source' = source /\ inputStarted' = inputStarted
      /\ inputReallyLost' = inputReallyLost
      /\ travellingPackets' = [travellingPackets EXCEPT ![source[p]] = @ - 1]
      /\ deliveredPackets' = [deliveredPackets EXCEPT ![source[p]] = @ + 1]
  BY <1>0 DEF Shared!Arrive, Shared!dispatcher, Shared!admission
<1>3. ASSUME NEW j \in In
      PROVE  /\ travellingPackets'[j] = Count(source, j, Elements(inputTravelling'))
             /\ deliveredPackets'[j] = Count(source, j, Elements(inputArrived'))
             /\ travellingPackets'[j] \in Nat /\ deliveredPackets'[j] \in Nat
             /\ travellingPackets'[j] + deliveredPackets'[j] = travellingPackets[j] + deliveredPackets[j]
  <2>0. PICK rest, one : rest = Elements(inputTravelling) \ {p} /\ one = One(source[p], j)
    OBVIOUS
  <2>1. /\ rest \subseteq Shared!Packets /\ p \notin rest
        /\ Elements(inputArrived) \subseteq Shared!Packets
        /\ Elements(inputTravelling) = rest \cup {p}
    BY <1>1, <2>0, PlacedSets DEF Behind
  <2>2. Count(source, j, rest) \in Nat /\ Count(source, j, rest \cup {p}) = Count(source, j, rest) + one
    <3>1. Count(source, j, rest) \in Nat /\ Count(source, j, rest \cup {p})
            = Count(source, j, rest) + (IF source[p] = j THEN 1 ELSE 0)
      <4>1. p \in Shared!Packets /\ rest \subseteq Shared!Packets /\ p \notin rest
        BY <1>1, <2>1
      <4> QED BY <4>1, CountOne
    <3> QED BY <2>0, <3>1 DEF One
  <2>3. Count(source, j, Elements(inputArrived)) \in Nat
        /\ Count(source, j, Elements(inputArrived) \cup {p}) = Count(source, j, Elements(inputArrived)) + one
    <3>1. /\ Count(source, j, Elements(inputArrived)) \in Nat
          /\ Count(source, j, Elements(inputArrived) \cup {p})
               = Count(source, j, Elements(inputArrived)) + (IF source[p] = j THEN 1 ELSE 0)
      <4>1. p \in Shared!Packets /\ Elements(inputArrived) \subseteq Shared!Packets
            /\ p \notin Elements(inputArrived)
        BY <1>1, <2>1
      <4> QED BY <4>1, CountOne
    <3> QED BY <2>0, <3>1 DEF One
  <2>4. /\ travellingPackets[j] = Count(source, j, Elements(inputTravelling))
        /\ deliveredPackets[j] = Count(source, j, Elements(inputArrived))
    BY DEF SharedInv, Counted
  <2>5. one \in Nat
    BY <2>0 DEF One
  <2>6. travellingPackets'[j] = travellingPackets[j] - one
    BY <1>2, <2>0, <2>1, <2>2, <2>4, StatisticTypes DEF One, SharedInv
  <2>7. deliveredPackets'[j] = deliveredPackets[j] + one
    BY <1>2, <2>0, <2>3, <2>4, StatisticTypes DEF One, SharedInv
  <2>8. travellingPackets[j] = Count(source, j, rest) + one
    BY <2>1, <2>2, <2>4
  <2>9. travellingPackets'[j] = Count(source, j, rest)
    BY <2>2, <2>5, <2>6, <2>8
  <2>10. Count(source, j, Elements(inputTravelling')) = Count(source, j, rest)
    BY <1>1, <2>0
  <2>11. deliveredPackets'[j] = Count(source, j, Elements(inputArrived'))
    BY <1>1, <2>3, <2>4, <2>7
  <2>12. deliveredPackets'[j] \in Nat /\ deliveredPackets[j] \in Nat
    BY <2>3, <2>4, <2>5, <2>7
  <2>13. travellingPackets'[j] + deliveredPackets'[j] = travellingPackets[j] + deliveredPackets[j]
    BY <2>2, <2>5, <2>7, <2>8, <2>9, <2>12
  <2> QED BY <2>2, <2>9, <2>10, <2>11, <2>12, <2>13
<1>4. Shared!TypeOK'
  <2>1. Shared!TypeOK
    BY DEF SharedInv
  <2>2. DOMAIN travellingPackets = In /\ DOMAIN deliveredPackets = In
    BY <2>1, StatisticTypes
  <2>3. travellingPackets' \in [In -> Nat] /\ deliveredPackets' \in [In -> Nat]
    <3>1. travellingPackets' = [j \in In |-> travellingPackets'[j]]
      BY <1>2, <2>2
    <3>2. deliveredPackets' = [j \in In |-> deliveredPackets'[j]]
      BY <1>2, <2>2
    <3> QED BY <1>3, <3>1, <3>2
  <2>4. /\ inputOffered' \in [In -> Nat] /\ inputAccepted' \in [In -> Nat]
        /\ inputDropped' \in [In -> Nat] /\ lostPackets' \in [In -> Nat]
    BY <1>2, <2>1, StatisticTypes
  <2> QED BY <1>1, <1>2, <2>1, <2>3, <2>4 DEF Shared!TypeOK, In
<1>5. Ordered'
  <2>1. Behind' = Behind
    BY <1>1, <1>2 DEF Behind
  <2>2. \A x \in Elements(inputArrived'), y \in Elements(inputTravelling') : x < y
    <3>1. Elements(inputArrived') \subseteq Nat /\ Elements(inputTravelling') \subseteq Nat
      BY <1>1, SharedElements, PlacedSets
    <3> QED BY <1>1, <3>1
  <2> QED BY <1>1, <1>2, <2>1, <2>2 DEF SharedInv, Ordered
<1>6. Placed' /\ Served' /\ Attributed'
  BY <1>2 DEF SharedInv, Placed, Served, Attributed
<1>7. Counted'
  <2>1. queuedPackets' = Cardinality(Waiting')
    BY <1>2 DEF SharedInv, Counted, Waiting
  <2>2. ASSUME NEW j \in In, ~inputStopped
        PROVE  inputAccepted[j] = Len(inputQueue[j]) + One(transmittingInput, j)
                      + travellingPackets'[j] + deliveredPackets'[j] + lostPackets[j]
    <3>1. inputAccepted[j] = Len(inputQueue[j]) + One(transmittingInput, j)
                      + travellingPackets[j] + deliveredPackets[j] + lostPackets[j]
      BY <2>2 DEF SharedInv, Counted
    <3>2. /\ Len(inputQueue[j]) \in Nat /\ One(transmittingInput, j) \in Nat
          /\ travellingPackets[j] \in Nat /\ deliveredPackets[j] \in Nat /\ lostPackets[j] \in Nat
      BY PlacedSets, StatisticTypes DEF SharedInv, One
    <3>3. /\ travellingPackets'[j] \in Nat /\ deliveredPackets'[j] \in Nat
          /\ travellingPackets'[j] + deliveredPackets'[j] = travellingPackets[j] + deliveredPackets[j]
      BY <1>3
    <3>4. inputAccepted[j] = Len(inputQueue[j]) + One(transmittingInput, j)
                      + (travellingPackets'[j] + deliveredPackets'[j]) + lostPackets[j]
      BY <3>1, <3>2, <3>3
    <3> QED BY <3>2, <3>3, <3>4, SMTT(30)
  <2> QED BY <1>2, <1>3, <2>1, <2>2 DEF SharedInv, Counted
<1> QED BY <1>4, <1>5, <1>6, <1>7 DEF SharedInv

(* The empty sequence.                                                     *)
LEMMA NothingLeft ==
  Elements(<< >>) = {} /\ Len(<< >>) = 0 /\ Increasing(<< >>)
BY DEF Elements, Increasing

(* A discard preserves the invariant, statistics included.                 *)
LEMMA DiscardKeeps ==
  ASSUME SharedInv, Shared!DiscardPending
  PROVE  SharedInv'
<1>1. /\ inputStopped' = TRUE /\ inputQueue' = [i \in In |-> << >>] /\ queuedPackets' = 0
      /\ inputSending' = 0 /\ inputTravelling' = << >> /\ transmittingInput' = NoInput
      /\ inputTransmitting' = [i \in In |-> FALSE] /\ travellingPackets' = [i \in In |-> 0]
      /\ nextSequence' = nextSequence /\ inputLinkLost' = inputLinkLost
      /\ lossesBefore' = lossesBefore
      /\ inputOffered' = inputOffered /\ inputAccepted' = inputAccepted /\ inputDropped' = inputDropped
      /\ deliveredPackets' = deliveredPackets /\ lostPackets' = lostPackets
      /\ source' = source /\ inputStarted' = inputStarted /\ inputReallyLost' = inputReallyLost
      /\ inputArrived' = inputArrived
  BY DEF Shared!DiscardPending, Shared!Zero, Shared!admission, Shared!history, In
<1>2. \A i \in In : inputQueue'[i] = << >>
  BY <1>1
<1>3. Shared!TypeOK'
  <2>1. Shared!TypeOK
    BY DEF SharedInv
  <2>2. << >> \in Seq(Shared!Packets)
    BY EmptySeq
  <2>3. inputQueue' \in [In -> Seq(Shared!Packets)] /\ inputTravelling' \in Seq(Shared!Packets)
    BY <1>1, <2>2
  <2>4. /\ inputOffered' \in [In -> Nat] /\ inputAccepted' \in [In -> Nat]
        /\ inputDropped' \in [In -> Nat] /\ lostPackets' \in [In -> Nat]
        /\ travellingPackets' \in [In -> Nat] /\ deliveredPackets' \in [In -> Nat]
    BY <1>1, <2>1, StatisticTypes
  <2>5. inputSending' \in 0 .. (MaxOffered + MaxReplies) /\ inputTransmitting' \in [In -> BOOLEAN]
    BY <1>1, PlacedSets
  <2> QED BY <1>1, <2>1, <2>3, <2>4, <2>5 DEF Shared!TypeOK, In
<1>4. Ordered'
  <2>1. Behind' \subseteq Behind
    BY <1>1, NothingLeft DEF Behind
  <2> QED BY <1>1, <1>2, <2>1, NothingLeft DEF SharedInv, Ordered
<1>5. Placed'
  BY <1>2, NothingLeft DEF Placed
<1>6. Served'
  BY <1>2, NothingLeft, AccessAssumption DEF Served, AccessAssumption
<1>7. Attributed'
  BY <1>1, PlacedSets DEF Attributed
<1>8. Counted'
  <2>1. Waiting' = {}
    BY <1>2, NothingLeft DEF Waiting, In
  <2>2. \A j \in In : Count(source, j, Elements(<< >>)) = 0
    BY NothingLeft, CountNone
  <2> QED BY <1>1, <2>1, <2>2, FS_EmptySet DEF SharedInv, Counted
<1> QED BY <1>3, <1>4, <1>5, <1>6, <1>7, <1>8 DEF SharedInv

(* A dropped offer preserves the invariant.                                *)
LEMMA DroppedKeeps ==
  ASSUME SharedInv, NEW i \in In, Shared!OfferDropped(i)
  PROVE  SharedInv'
<1>1. /\ inputQueue' = inputQueue /\ nextSequence' = nextSequence /\ inputSending' = inputSending
      /\ inputTravelling' = inputTravelling
      /\ inputLinkLost' = inputLinkLost /\ transmittingInput' = transmittingInput
      /\ lossesBefore' = lossesBefore /\ inputStopped' = inputStopped
      /\ inputAccepted' = inputAccepted
      /\ inputTransmitting' = inputTransmitting /\ lostPackets' = lostPackets
      /\ queuedPackets' = queuedPackets /\ source' = source /\ inputStarted' = inputStarted
      /\ inputReallyLost' = inputReallyLost /\ inputArrived' = inputArrived
      /\ travellingPackets' = travellingPackets /\ deliveredPackets' = deliveredPackets
      /\ inputOffered' = [inputOffered EXCEPT ![i] = @ + 1]
      /\ inputDropped' = [inputDropped EXCEPT ![i] = @ + 1]
  BY DEF Shared!OfferDropped, Shared!link, Shared!dispatcher, Shared!progress, Shared!history
<1>2. Shared!TypeOK
  BY DEF SharedInv
<1>3. /\ inputOffered' \in [In -> Nat] /\ inputDropped' \in [In -> Nat]
      /\ inputAccepted' \in [In -> Nat] /\ lostPackets' \in [In -> Nat]
      /\ travellingPackets' \in [In -> Nat] /\ deliveredPackets' \in [In -> Nat]
  BY <1>1, <1>2, StatisticTypes
<1>4. Shared!TypeOK'
  BY <1>1, <1>2, <1>3 DEF Shared!TypeOK, In
<1>5. Ordered' /\ Placed' /\ Served' /\ Attributed'
  BY <1>1 DEF SharedInv, Ordered, Placed, Served, Attributed, Behind
<1>6. \A j \in In : inputOffered'[j] = inputAccepted[j] + inputDropped'[j]
  <2> SUFFICES ASSUME NEW j \in In PROVE inputOffered'[j] = inputAccepted[j] + inputDropped'[j]
    OBVIOUS
  <2>1. /\ inputOffered[j] \in Nat /\ inputAccepted[j] \in Nat /\ inputDropped[j] \in Nat
        /\ inputOffered[j] = inputAccepted[j] + inputDropped[j]
    BY <1>2, StatisticTypes DEF SharedInv, Counted
  <2>2. inputOffered'[j] = inputOffered[j] + One(i, j) /\ inputDropped'[j] = inputDropped[j] + One(i, j)
    BY <1>1, <1>2, <2>1, StatisticTypes DEF One
  <2>3. One(i, j) \in Nat
    BY DEF One
  <2> QED BY <2>1, <2>2, <2>3
<1>7. Counted'
  BY <1>1, <1>6 DEF SharedInv, Counted, Waiting
<1> QED BY <1>4, <1>5, <1>7 DEF SharedInv

(* The invariant of the shared input holds initially,                      *)
LEMMA SharedInitially == Shared!Init => SharedInv
<1> SUFFICES ASSUME Shared!Init PROVE SharedInv
  OBVIOUS
<1>1. /\ inputQueue = [i \in In |-> << >>] /\ nextSequence = 0
      /\ inputSending = 0 /\ inputTravelling = << >> /\ inputLinkLost = 0
      /\ transmittingInput = NoInput /\ lossesBefore = 0 /\ inputStopped = FALSE
      /\ inputOffered = [i \in In |-> 0] /\ inputAccepted = [i \in In |-> 0]
      /\ inputDropped = [i \in In |-> 0]
      /\ inputTransmitting = [i \in In |-> FALSE]
      /\ travellingPackets = [i \in In |-> 0] /\ deliveredPackets = [i \in In |-> 0]
      /\ lostPackets = [i \in In |-> 0] /\ queuedPackets = 0
      /\ source = [p \in Shared!Packets |-> NoInput] /\ inputStarted = << >>
      /\ inputReallyLost = {} /\ inputArrived = << >>
  BY DEF Shared!Init, Shared!Zero, In
<1>2. NoInput \notin In /\ SharedCapacity \in Nat /\ MaxOffered + MaxReplies \in Nat
  BY AccessAssumption, LinkAssumption DEF AccessAssumption, LinkAssumption, In
<1>3. Shared!TypeOK
  <2>1. << >> \in Seq(Shared!Packets)
    BY EmptySeq
  <2>2. inputQueue \in [In -> Seq(Shared!Packets)]
    BY <1>1, <2>1
  <2>3. /\ inputOffered \in [In -> Nat] /\ inputAccepted \in [In -> Nat]
        /\ inputDropped \in [In -> Nat] /\ lostPackets \in [In -> Nat]
        /\ travellingPackets \in [In -> Nat] /\ deliveredPackets \in [In -> Nat]
    BY <1>1
  <2>4. /\ inputTransmitting \in [In -> BOOLEAN] /\ nextSequence \in 0 .. (MaxOffered + MaxReplies)
        /\ inputSending \in 0 .. (MaxOffered + MaxReplies)
        /\ source \in [Shared!Packets -> In \cup {NoInput}]
    BY <1>1, <1>2
  <2> QED BY <1>1, <2>1, <2>2, <2>3, <2>4 DEF Shared!TypeOK, In
<1>4. Ordered
  BY <1>1, NothingLeft DEF Ordered, Behind
<1>5. Placed
  BY <1>1, NothingLeft DEF Placed
<1>6. Served
  BY <1>1, <1>2, NothingLeft DEF Served
<1>7. Attributed
  BY <1>1, <1>2 DEF Attributed
<1>8. Counted
  <2>1. Waiting = {}
    BY <1>1, NothingLeft DEF Waiting, In
  <2>2. \A j \in In : Count(source, j, Elements(<< >>)) = 0 /\ Count(source, j, {}) = 0
    BY NothingLeft, CountNone
  <2>3. \A j \in In : One(transmittingInput, j) = 0
    BY <1>1, <1>2 DEF One
  <2> QED BY <1>1, <2>1, <2>2, <2>3, NothingLeft, FS_EmptySet DEF Counted
<1> QED BY <1>3, <1>4, <1>5, <1>6, <1>7, <1>8 DEF SharedInv

(* and is preserved by all its steps.                                      *)
LEMMA SharedInductive ==
  ASSUME SharedInv, [Shared!Next]_input
  PROVE  SharedInv'
<1>1. ASSUME NEW i \in In, Shared!OfferDropped(i) PROVE SharedInv'
  BY <1>1, DroppedKeeps
<1>2. ASSUME NEW i \in In, Shared!OfferAccepted(i) PROVE SharedInv'
  <2>1. Entered(i)
    BY <1>2, Entering
  <2> QED
    BY <2>1, EnteredKeepsTypes, EnteredKeepsOrder, EnteredKeepsCounts DEF SharedInv
<1>3. CASE Shared!Transmitted
  <2>1. Sent
    BY <1>3, Sending
  <2> QED BY <2>1, SentKeepsTypes, SentKeepsOrder, SentKeepsCounts DEF SharedInv
<1>4. CASE Shared!Arrive
  BY <1>4, ArriveKeeps
<1>5. CASE Shared!DiscardPending
  BY <1>5, DiscardKeeps
<1>6. CASE UNCHANGED input
  <2>1. Shared!TypeOK'
    BY <1>6 DEF SharedInv, Shared!TypeOK, input
  <2>2. Ordered' /\ Placed' /\ Served' /\ Attributed'
    BY <1>6 DEF SharedInv, Ordered, Placed, Served, Attributed, Behind, input
  <2>3. Counted'
    BY <1>6 DEF SharedInv, Counted, Waiting, input
  <2> QED BY <2>1, <2>2, <2>3 DEF SharedInv
<1> QED BY <1>1, <1>2, <1>3, <1>4, <1>5, <1>6 DEF Shared!Next, In

(* The shared input counts as everybody else does.                         *)
LEMMA SameCardinality ==
  ASSUME NEW S
  PROVE  Shared!Cardinality(S) = Cardinality(S)
BY Zenon DEF Shared!Cardinality, Cardinality

(* It implies all that the shared input promises about a state.            *)
LEMMA SharedIsSound ==
  ASSUME SharedInv
  PROVE  Shared!IngressIsSound
<1>1. Shared!TypeOK
  BY DEF SharedInv
<1>2. \A i \in In : Shared!Elements(inputQueue[i]) = Elements(inputQueue[i])
  BY <1>1, SharedTypes, SharedElements
<1>3. Shared!QueuesAreServed
  <2>1. Shared!Ready => \A i \in In : inputQueue[i] = << >>
    BY DEF SharedInv, Served, Shared!Ready
  <2>2. \A i \in In, p \in Shared!Packets : p \in Shared!Elements(inputQueue[i]) => source[p] = i
    BY <1>2 DEF SharedInv, Placed
  <2> QED BY <2>1, <2>2 DEF SharedInv, Served, Shared!QueuesAreServed, In
<1>4. Shared!AttributionIsTrue
  <2>1. ASSUME NEW i, NEW S PROVE Shared!From(i, S) = Count(source, i, S)
    <3> DEFINE mine == {p \in S : source[p] = i}
    <3>1. Shared!Cardinality(mine) = Cardinality(mine)
      BY SameCardinality
    <3> QED BY <3>1 DEF Shared!From, Count
  <2>2. UNION {Shared!Elements(inputQueue[i]) : i \in In} = Waiting
    BY <1>2 DEF Waiting, In
  <2>3. /\ Shared!Elements(inputArrived) = Elements(inputArrived)
        /\ Shared!Elements(inputTravelling) = Elements(inputTravelling)
    BY <1>1, SharedTypes, SharedElements
  <2>4. ASSUME NEW i \in In
        PROVE  Count(source, i, {inputSending} \ {0}) = One(transmittingInput, i)
    <3>1. CASE inputSending = 0
      <4>1. {inputSending} \ {0} = {} /\ transmittingInput = NoInput
        BY <3>1 DEF SharedInv, Attributed
      <4>2. One(NoInput, i) = 0
        BY PlacedSets DEF One
      <4> QED BY <4>1, <4>2, CountNone
    <3>2. CASE inputSending # 0
      <4>1. {inputSending} \ {0} = {} \cup {inputSending} /\ source[inputSending] = transmittingInput
            /\ inputSending \in Elements(inputStarted)
        BY <3>2 DEF SharedInv, Attributed
      <4>2. inputSending \in Shared!Packets
        BY <4>1, PlacedSets
      <4>3. Count(source, i, {} \cup {inputSending})
              = Count(source, i, {}) + (IF source[inputSending] = i THEN 1 ELSE 0)
        BY <4>2, CountOne
      <4> QED BY <4>1, <4>3, CountNone DEF One
    <3> QED BY <3>1, <3>2
  <2>5. ASSUME NEW i \in In
        PROVE  inputTransmitting[i] <=> One(transmittingInput, i) = 1
    <3>1. inputTransmitting[i] <=> i = transmittingInput
      BY Zenon DEF SharedInv, Attributed
    <3>2. CASE i = transmittingInput
      BY <3>1, <3>2 DEF One
    <3>3. CASE i # transmittingInput
      <4>1. One(transmittingInput, i) = 0
        BY <3>3 DEF One
      <4> QED BY <3>1, <3>3, <4>1
    <3> QED BY <3>2, <3>3
  <2>6. queuedPackets = Shared!Cardinality(UNION {Shared!Elements(inputQueue[i]) : i \in In})
    <3>1. Shared!Cardinality(Waiting) = Cardinality(Waiting)
      BY SameCardinality
    <3> QED BY <2>2, <3>1 DEF SharedInv, Counted
  <2>7. \A i \in In :
         /\ lostPackets[i] = Shared!From(i, inputReallyLost)
         /\ deliveredPackets[i] = Shared!From(i, Shared!Elements(inputArrived))
         /\ travellingPackets[i] = Shared!From(i, Shared!Elements(inputTravelling))
         /\ inputTransmitting[i] <=> Shared!From(i, {inputSending} \ {0}) = 1
         /\ inputOffered[i] = inputAccepted[i] + inputDropped[i]
    BY <2>1, <2>3, <2>4, <2>5 DEF SharedInv, Counted
  <2>8. \A i \in In : ~inputStopped =>
            inputAccepted[i] = Len(inputQueue[i]) + Shared!From(i, {inputSending} \ {0})
                          + travellingPackets[i] + deliveredPackets[i] + lostPackets[i]
    BY <2>1, <2>4 DEF SharedInv, Counted
  <2>9. In = {clients, backends}
    BY DEF In
  <2> QED BY Zenon, <2>6, <2>7, <2>8, <2>9 DEF Shared!AttributionIsTrue
<1>5. Shared!MergedInOrder
  <2>1. DOMAIN inputStarted = 1 .. Len(inputStarted)
    BY <1>1, SharedTypes, LenProperties
  <2> QED BY <2>1 DEF SharedInv, Ordered, Increasing, Shared!MergedInOrder
<1> QED BY <1>1, <1>3, <1>4, <1>5 DEF Shared!IngressIsSound

(* What the shared input holds, in terms of the link's definitions.        *)
OnWay == Waiting \cup ({inputSending} \ {0}) \cup Elements(inputTravelling)

(* The same in the shared input's own words.                               *)
SharedUnderway == (UNION {Shared!Elements(inputQueue[i]) : i \in {clients, backends}})
                  \cup ({inputSending} \ {0}) \cup Shared!Elements(inputTravelling)

(* Both are the same set,                                                  *)
LEMMA OnWayIsUnderway ==
  ASSUME Shared!TypeOK
  PROVE  SharedUnderway = OnWay
<1>1. \A i \in {clients, backends} : Shared!Elements(inputQueue[i]) = Elements(inputQueue[i])
  BY SharedTypes, SharedElements DEF In
<1>2. Shared!Elements(inputTravelling) = Elements(inputTravelling)
  BY SharedTypes, SharedElements
<1>3. UNION {Shared!Elements(inputQueue[i]) : i \in {clients, backends}} = Waiting
  BY <1>1 DEF Waiting
<1> QED BY <1>2, <1>3 DEF SharedUnderway, OnWay

(* after a step as well.                                                   *)
LEMMA OnWayIsUnderwayPrimed ==
  ASSUME Shared!TypeOK'
  PROVE  SharedUnderway' = OnWay'
<1>1. \A i \in {clients, backends} : Shared!Elements(inputQueue'[i]) = Elements(inputQueue'[i])
  <2>1. inputQueue' \in [{clients, backends} -> Seq(Shared!Packets)]
    BY DEF Shared!TypeOK
  <2> QED BY <2>1, SharedElements
<1>2. Shared!Elements(inputTravelling') = Elements(inputTravelling')
  <2>1. inputTravelling' \in Seq(Shared!Packets)
    BY DEF Shared!TypeOK
  <2> QED BY <2>1, SharedElements
<1>3. UNION {Shared!Elements(inputQueue'[i]) : i \in {clients, backends}} = Waiting'
  BY <1>1 DEF Waiting
<1>4. SharedUnderway' = (UNION {Shared!Elements(inputQueue'[i]) : i \in {clients, backends}})
                  \cup ({inputSending'} \ {0}) \cup Shared!Elements(inputTravelling')
  BY DEF SharedUnderway, Shared!Elements
<1>5. OnWay' = Waiting' \cup ({inputSending'} \ {0}) \cup Elements(inputTravelling')
  BY DEF OnWay, Elements
<1> QED BY <1>2, <1>3, <1>4, <1>5

(* The packet on the transmitter is nowhere else.                          *)
LEMMA SendingIsAlone ==
  ASSUME SharedInv, inputSending # 0
  PROVE  inputSending \notin Waiting /\ inputSending \notin Elements(inputTravelling)
<1>1. inputSending \in Elements(inputStarted) /\ inputSending \in Nat
  BY PlacedSets DEF SharedInv, Attributed
<1>2. ASSUME inputSending \in Waiting PROVE FALSE
  <2>1. PICK i \in In : inputSending \in Elements(inputQueue[i])
    BY <1>2 DEF Waiting, In
  <2>2. inputSending < inputSending
    BY <1>1, <2>1 DEF SharedInv, Placed
  <2> QED BY <1>1, <2>2
<1>3. ASSUME inputSending \in Elements(inputTravelling) PROVE FALSE
  <2>1. inputSending < inputSending
    BY <1>3 DEF SharedInv, Ordered, Behind
  <2> QED BY <1>1, <2>1
<1> QED BY <1>2, <1>3

(* An admitted packet is under way.                                        *)
LEMMA EnteredIsOnWay ==
  ASSUME SharedInv, NEW i \in In, Entered(i)
  PROVE  OnWay' = OnWay \cup {nextSequence + 1}
<1> DEFINE n == nextSequence + 1
<1>1. n \in Nat /\ n # 0
  BY PlacedSets
<1>2. Elements(inputTravelling') = Elements(inputTravelling)
  BY DEF Entered
<1>3. CASE AtOnce(i)
  <2>1. inputSending = 0 /\ inputSending' = n /\ inputQueue' = inputQueue
    BY <1>3 DEF AtOnce
  <2>2. Waiting' = Waiting
    BY <2>1 DEF Waiting
  <2> QED BY <1>1, <1>2, <2>1, <2>2 DEF OnWay, Elements
<1>4. CASE Waits(i)
  <2>1. inputQueue'[i] = Append(inputQueue[i], n) /\ \A j \in In : j # i => inputQueue'[j] = inputQueue[j]
    BY <1>4 DEF Waits, SharedInv, Shared!TypeOK, In
  <2>2. Elements(inputQueue'[i]) = Elements(inputQueue[i]) \cup {n}
    <3>1. inputQueue[i] \in Seq(Nat)
      BY SharedTypes DEF SharedInv
    <3> QED BY <1>1, <2>1, <3>1, ElementsOfAppend
  <2>3. Waiting' = Waiting \cup {n}
    BY <2>1, <2>2, AccessAssumption DEF Waiting, In, AccessAssumption
  <2>4. inputSending' = inputSending
    BY <1>4 DEF Waits
  <2> QED BY <1>2, <2>3, <2>4 DEF OnWay, Elements
<1> QED BY <1>3, <1>4 DEF Entered

(* Only a lost packet leaves the way at the end of its transmission.       *)
LEMMA SentFromTransmitter ==
  ASSUME SharedInv, Sent
  PROVE  \/ LostHere /\ OnWay' = OnWay \ {inputSending}
         \/ MovesOn /\ OnWay' = OnWay
<1>1. inputSending # 0 /\ inputSending \in Nat
  BY PlacedSets DEF Sent
<1>2. Waiting = ({inputSending'} \ {0}) \cup Waiting' /\ inputSending \notin Waiting
  <2>1. inputSending \notin Waiting
    BY <1>1, SendingIsAlone
  <2>2. CASE NothingWaits
    <3>1. inputSending' = 0 /\ Waiting' = Waiting
      BY <2>2 DEF NothingWaits, Waiting
    <3> QED BY <2>1, <3>1
  <2>3. ASSUME NEW i \in In, Takes(i) PROVE Waiting = ({inputSending'} \ {0}) \cup Waiting'
    <3>1. Waiting' = Waiting \ {inputSending'} /\ inputSending' \in Waiting
      BY <2>3, TakenFromWaiting
    <3>2. inputSending' # 0
      BY <2>3, TakenIsOldest
    <3> QED BY <3>1, <3>2
  <2> QED BY <2>1, <2>2, <2>3 DEF Sent
<1>3. CASE LostHere
  <2>1. Elements(inputTravelling)' = Elements(inputTravelling)
    BY <1>3 DEF LostHere, Elements
  <2>2. inputSending \notin Elements(inputTravelling)
    BY <1>1, SendingIsAlone
  <2> QED BY <1>1, <1>2, <1>3, <2>1, <2>2 DEF OnWay
<1>4. CASE MovesOn
  <2>1. Elements(inputTravelling') = Elements(inputTravelling) \cup {inputSending}
    <3>1. inputTravelling \in Seq(Nat)
      BY SharedTypes DEF SharedInv
    <3> QED BY <1>1, <1>4, <3>1, ElementsOfAppend DEF MovesOn
  <2>2. Elements(inputTravelling)' = Elements(inputTravelling')
    BY DEF Elements
  <2> QED BY <1>1, <1>2, <1>4, <2>1, <2>2 DEF OnWay
<1> QED BY <1>3, <1>4 DEF Sent

(* The packet that arrives is the oldest of all.                           *)
LEMMA ArrivalIsOldest ==
  ASSUME SharedInv, Shared!Arrive
  PROVE  /\ Head(inputTravelling) \in OnWay
         /\ \A q \in OnWay : Head(inputTravelling) <= q
         /\ OnWay' = OnWay \ {Head(inputTravelling)}
<1>0. PICK p : p = Head(inputTravelling)
  OBVIOUS
<1>1. /\ p \in Nat /\ p \in Elements(inputTravelling)
      /\ Elements(inputTravelling') = Elements(inputTravelling) \ {p}
      /\ \A y \in Elements(inputTravelling') : p < y
  BY <1>0, ArrivalMoves
<1>2. p \in Elements(inputStarted) /\ (inputSending # 0 => p < inputSending)
  BY <1>1 DEF SharedInv, Ordered, Behind
<1>3. \A q \in Waiting : p < q
  BY <1>2 DEF SharedInv, Placed, Waiting, In
<1>4. \A q \in OnWay : p <= q /\ (q \notin Elements(inputTravelling) => q # p)
  <2> SUFFICES ASSUME NEW q \in OnWay PROVE p <= q /\ (q \notin Elements(inputTravelling) => q # p)
    OBVIOUS
  <2>0. q \in Nat
    BY PlacedSets DEF OnWay, Behind
  <2>1. CASE q \in Waiting
    BY <1>1, <1>3, <2>0, <2>1
  <2>2. CASE q = inputSending /\ q # 0
    BY <1>1, <1>2, <2>0, <2>2
  <2>3. CASE q \in Elements(inputTravelling)
    BY <1>1, <2>0, <2>3
  <2> QED BY <2>1, <2>2, <2>3 DEF OnWay
<1>5. inputQueue' = inputQueue /\ inputSending' = inputSending
  BY DEF Shared!Arrive
<1>6. Waiting' = Waiting /\ Elements(inputTravelling)' = Elements(inputTravelling')
  BY <1>5 DEF Waiting, Elements
<1>7. p \notin Waiting /\ p \notin {inputSending} \ {0}
  BY <1>1, <1>2, <1>3, PlacedSets
<1> QED BY <1>0, <1>1, <1>4, <1>5, <1>6, <1>7 DEF OnWay

(* Every step of the shared input is one of the lossy FIFO path.           *)
LEMMA SharedStepsAreFifoSteps ==
  ASSUME SharedInv, SharedInv', [Shared!Next]_input
  PROVE  [Shared!Fifo!Next]_(Shared!Fifo!vars)
<1>0. SharedUnderway = OnWay /\ SharedUnderway' = OnWay'
  BY OnWayIsUnderway, OnWayIsUnderwayPrimed DEF SharedInv
<1> DEFINE quiet == /\ nextSequence' = nextSequence /\ inputArrived' = inputArrived
                    /\ inputStopped' = inputStopped /\ OnWay' = OnWay
<1>1. quiet => UNCHANGED Shared!Fifo!vars
  BY <1>0 DEF Shared!Fifo!vars, SharedUnderway
<1>2. ASSUME NEW i \in In, Shared!OfferDropped(i) PROVE quiet
  BY <1>2 DEF Shared!OfferDropped, Shared!link, Shared!history, OnWay, Waiting, Elements
<1>3. ASSUME NEW i \in In, Shared!OfferAccepted(i) PROVE Shared!Fifo!Next
  <2>1. Entered(i)
    BY <1>3, Entering
  <2>2. OnWay' = OnWay \cup {nextSequence + 1}
    BY <2>1, EnteredIsOnWay
  <2>3. /\ nextSequence' = nextSequence + 1 /\ inputArrived' = inputArrived
        /\ inputStopped = FALSE /\ inputStopped' = inputStopped
    BY <2>1 DEF Entered, SharedInv, Shared!TypeOK
  <2>4. Shared!Fifo!Accept
    BY <1>0, <2>2, <2>3 DEF Shared!Fifo!Accept, SharedUnderway
  <2> QED BY <2>4 DEF Shared!Fifo!Next
<1>4. ASSUME Shared!Transmitted PROVE quiet \/ Shared!Fifo!Next
  <2>1. Sent
    BY <1>4, Sending
  <2>2. nextSequence' = nextSequence /\ inputArrived' = inputArrived /\ inputStopped' = inputStopped
    BY <2>1 DEF Sent
  <2>3. CASE OnWay' = OnWay \ {inputSending}
    <3>1. inputSending \in OnWay
      BY <2>1 DEF Sent, OnWay
    <3>2. Shared!Fifo!Lose
      BY <1>0, <2>2, <2>3, <3>1 DEF Shared!Fifo!Lose, SharedUnderway
    <3> QED BY <3>2 DEF Shared!Fifo!Next
  <2> QED BY <2>1, <2>2, <2>3, SentFromTransmitter
<1>5. ASSUME Shared!Arrive PROVE Shared!Fifo!Next
  <2>1. /\ nextSequence' = nextSequence /\ inputStopped' = inputStopped
        /\ inputArrived' = Append(inputArrived, Head(inputTravelling))
    BY <1>5 DEF Shared!Arrive
  <2>2. Shared!Fifo!Arrive
    BY <1>0, <1>5, <2>1, ArrivalIsOldest DEF Shared!Fifo!Arrive, SharedUnderway
  <2> QED BY <2>2 DEF Shared!Fifo!Next
<1>6. ASSUME Shared!DiscardPending PROVE Shared!Fifo!Next
  <2>1. /\ inputStopped = FALSE /\ inputStopped' = TRUE /\ nextSequence' = nextSequence
        /\ inputArrived' = inputArrived /\ inputSending' = 0 /\ inputTravelling' = << >>
        /\ \A i \in In : inputQueue'[i] = << >>
    BY <1>6 DEF Shared!DiscardPending, Shared!history, SharedInv, Shared!TypeOK, In
  <2>2. OnWay' = {}
    BY <2>1, NothingLeft DEF OnWay, Waiting, In
  <2>3. Shared!Fifo!Close
    BY <1>0, <2>1, <2>2 DEF Shared!Fifo!Close, SharedUnderway
  <2> QED BY <2>3 DEF Shared!Fifo!Next
<1>7. ASSUME UNCHANGED input PROVE quiet
  BY <1>7 DEF input, OnWay, Waiting, Elements
<1> QED BY <1>1, <1>2, <1>3, <1>4, <1>5, <1>6, <1>7 DEF Shared!Next, In

-----------------------------------------------------------------------------
(* What a packet of the input stands for has left the link, and a packet   *)
(* still under way is signalled when it is marked.                         *)
CarriedSound ==
  /\ carried \in Seq([packet : Nat, ce : BOOLEAN]) /\ Len(carried) = nextSequence
  /\ \A s \in 1 .. Len(carried) :
       /\ carried[s].packet <= accepted
       /\ \A p \in underway : carried[s].packet < p

(* ECN capable packets have been accepted, and what is under way on the    *)
(* link has been signalled if and only if it is marked.                    *)
MarksSound ==
  /\ \A p \in capable : p \in Nat /\ p <= accepted
  /\ \A p \in underway : p \in signalled <=> p \in marked

(* The shared input was offered what the link has delivered, and both stop *)
(* together.                                                               *)
Together == inputOffered[clients] = delivered /\ inputStopped = stopped

(* The inductive invariant of the way.                                     *)
WayInv == IInv /\ SharedInv /\ CarriedSound /\ MarksSound /\ MarksArrive /\ Together

(* A packet under way on the link has been accepted.                       *)
LEMMA UnderwayNumbers ==
  ASSUME IInv
  PROVE  /\ accepted \in Nat
         /\ \A p \in underway : p \in Nat /\ 0 < p /\ p <= accepted
<1>1. accepted \in Nat /\ current \in Nat /\ current <= accepted
  BY DEF IInv, TypeOK, InLine
<1>2. \A p \in Elements(pipe) : p \in Nat \ {0} /\ p <= accepted
  <2>1. pipe \in Seq(Nat \ {0})
    BY DEF IInv, TypeOK
  <2> QED BY <2>1, ElementOfSeq DEF IInv, InLine, Elements
<1>3. \A p \in Elements(queue) : p \in Nat \ {0} /\ p <= accepted
  <2>1. queue \in Seq(Nat \ {0})
    BY DEF IInv, TypeOK
  <2> QED BY <2>1, ElementOfSeq DEF IInv, InLine, Elements
<1>4. \A p \in underway : p \in Nat \ {0} /\ p <= accepted
  BY <1>1, <1>2, <1>3 DEF underway
<1> QED BY <1>1, <1>4

(* Only an acceptance puts a packet under way.                             *)
LEMMA UnderwayMoves ==
  ASSUME IInv, [Next]_vars
  PROVE  /\ accepted' = accepted => underway' \subseteq underway
         /\ accepted' = accepted + 1 => underway' = underway \cup {accepted + 1}
<1>1. accepted \in Nat
  BY UnderwayNumbers
<1>2. [Fifo!Next]_(Fifo!vars)
  BY StepsAreFifoSteps
<1>3. CASE Fifo!Accept
  BY <1>1, <1>3 DEF Fifo!Accept
<1>4. CASE Fifo!Lose
  BY <1>1, <1>4 DEF Fifo!Lose
<1>5. CASE Fifo!Arrive
  BY <1>1, <1>5 DEF Fifo!Arrive
<1>6. CASE Fifo!Close
  BY <1>1, <1>6 DEF Fifo!Close
<1>7. CASE UNCHANGED Fifo!vars
  BY <1>1, <1>7 DEF Fifo!vars
<1> QED BY <1>2, <1>3, <1>4, <1>5, <1>6, <1>7 DEF Fifo!Next

(* A step of the way is a step of the link and one of the shared input.    *)
LEMMA WayMoves ==
  ASSUME [WayNext]_way
  PROVE  [Next]_vars /\ [Shared!Next]_input
<1>1. CASE ClientSends
  BY <1>1 DEF ClientSends, Next
<1>2. CASE LinkSends
  BY <1>2 DEF LinkSends, Next
<1>3. CASE HandOver
  <2>1. Arrive /\ (Shared!OfferAccepted(clients) \/ Shared!OfferDropped(clients))
    BY <1>3 DEF HandOver
  <2> QED BY <2>1 DEF Next, Shared!Next
<1>4. CASE ReplyOffered
  <2>1. (Shared!OfferAccepted(backends) \/ Shared!OfferDropped(backends)) /\ UNCHANGED vars
    BY <1>4 DEF ReplyOffered, link
  <2> QED BY <2>1 DEF Shared!Next
<1>5. CASE InputSends
  BY <1>5 DEF InputSends, link, Shared!Next
<1>6. CASE Delivered
  BY <1>6 DEF Delivered, link, Shared!Next
<1>7. CASE StopWorld
  BY <1>7 DEF StopWorld, Next, Shared!Next
<1>8. CASE UNCHANGED way
  BY <1>8 DEF way, link
<1> QED BY <1>1, <1>2, <1>3, <1>4, <1>5, <1>6, <1>7, <1>8 DEF WayNext

(* What carried says of a packet.                                          *)
Records == [packet : Nat, ce : BOOLEAN]

(* Steps that hand nothing over keep what is known of the packets carried, *)
LEMMA CarriedKept ==
  ASSUME WayInv, [Next]_vars, accepted' \in {accepted, accepted + 1},
         carried' = carried, nextSequence' = nextSequence
  PROVE  CarriedSound'
<1>1. accepted \in Nat /\ carried \in Seq(Records) /\ Len(carried) = nextSequence
  BY UnderwayNumbers DEF WayInv, CarriedSound, Records
<1>2. underway' \subseteq underway \cup {accepted + 1} /\ accepted <= accepted'
      /\ (accepted' = accepted => underway' \subseteq underway)
  BY <1>1, UnderwayMoves DEF WayInv
<1>3. ASSUME NEW s \in 1 .. Len(carried)
      PROVE  /\ carried[s].packet <= accepted'
             /\ \A p \in underway' : carried[s].packet < p
  <2>1. carried[s].packet <= accepted /\ \A p \in underway : carried[s].packet < p
    BY DEF WayInv, CarriedSound
  <2>2. carried[s].packet \in Nat
    <3>1. carried[s] \in Records
      BY <1>1, ElementOfSeq
    <3> QED BY <3>1 DEF Records
  <2>3. carried[s].packet <= accepted' /\ carried[s].packet < accepted + 1
    BY <1>1, <1>2, <2>1, <2>2
  <2> QED BY <1>2, <2>1, <2>3
<1> QED BY <1>1, <1>3 DEF CarriedSound, Records

(* and so does a packet that leaves the link, or a reply.                  *)
LEMMA CarriedGrows ==
  ASSUME WayInv, [Next]_vars, accepted' = accepted,
         NEW r \in Records, carried' = Append(carried, r), nextSequence' = nextSequence + 1,
         r.packet <= accepted, \A p \in underway' : r.packet < p
  PROVE  CarriedSound'
<1>1. carried \in Seq(Records) /\ Len(carried) = nextSequence
  BY DEF WayInv, CarriedSound, Records
<1>2. underway' \subseteq underway
  BY UnderwayMoves DEF WayInv
<1>3. /\ carried' \in Seq(Records) /\ Len(carried') = Len(carried) + 1
      /\ Len(carried) \in Nat
      /\ \A s \in 1 .. Len(carried) : carried'[s] = carried[s]
      /\ carried'[Len(carried) + 1] = r
  BY <1>1, AppendProperties, LenProperties
<1>4. ASSUME NEW s \in 1 .. Len(carried')
      PROVE  /\ carried'[s].packet <= accepted
             /\ \A p \in underway' : carried'[s].packet < p
  <2>1. CASE s \in 1 .. Len(carried)
    BY <1>2, <1>3, <2>1 DEF WayInv, CarriedSound
  <2>2. CASE s = Len(carried) + 1
    BY <1>3, <2>2
  <2> QED BY <1>3, <2>1, <2>2
<1> QED BY <1>1, <1>3, <1>4 DEF CarriedSound, Records

(* Marks do not change unless a packet is signalled.                       *)
LEMMA MarksKept ==
  ASSUME WayInv, [Next]_vars, accepted' = accepted, UNCHANGED marks
  PROVE  MarksSound'
<1>1. underway' \subseteq underway
  BY UnderwayMoves DEF WayInv
<1> QED BY <1>1 DEF WayInv, MarksSound, marks

(* The same for the marks carried.                                         *)
LEMMA MarksArriveKept ==
  ASSUME WayInv, UNCHANGED <<carried, marks>>
  PROVE  MarksArrive'
BY DEF WayInv, MarksArrive, marks

(* The number of packets carried is also what DOMAIN says.                 *)
LEMMA CarriedTypes ==
  ASSUME WayInv
  PROVE  /\ carried \in Seq(Records) /\ DOMAIN carried = 1 .. Len(carried)
         /\ \A s \in 1 .. Len(carried) : carried[s] \in Records /\ carried[s].packet \in Nat
<1>1. carried \in Seq(Records)
  BY DEF WayInv, CarriedSound, Records
<1>2. DOMAIN carried = 1 .. Len(carried) /\ \A s \in 1 .. Len(carried) : carried[s] \in Records
  BY <1>1, ElementOfSeq, LenProperties
<1>3. \A r \in Records : r.packet \in Nat
  BY DEF Records
<1> QED BY <1>1, <1>2, <1>3

(* The actions of the way preserve its invariant. A new packet is carried  *)
(* nowhere yet.                                                            *)
LEMMA ClientSendsKeeps ==
  ASSUME WayInv, ClientSends
  PROVE  CarriedSound' /\ MarksSound' /\ MarksArrive' /\ Together'
<1> DEFINE n == accepted + 1
<1>1. [Next]_vars /\ accepted \in Nat /\ n \in Nat
  BY UnderwayNumbers DEF WayInv, ClientSends, Next
<1>2. carried' = carried /\ UNCHANGED input
  BY DEF ClientSends
<1>3. /\ nextSequence' = nextSequence /\ inputOffered' = inputOffered
      /\ inputStopped' = inputStopped
  BY <1>2 DEF input
<1>4. stopped' = stopped /\ delivered' = delivered
  BY DEF ClientSends, OfferAccepted, OfferDropped
<1>5. Together'
  BY <1>3, <1>4 DEF WayInv, Together
<1>6. CASE OfferDropped /\ UNCHANGED marks
  <2>1. accepted' = accepted
    BY <1>6 DEF OfferDropped
  <2> QED BY <1>1, <1>2, <1>3, <1>5, <1>6, <2>1, CarriedKept, MarksKept, MarksArriveKept
<1>7. CASE OfferAccepted /\ ~(OfferDropped /\ UNCHANGED marks)
  <2>0. accepted' = n
    BY <1>7 DEF OfferAccepted
  <2>1. PICK isCapable \in BOOLEAN, selected \in BOOLEAN :
          /\ selected => isCapable
          /\ capable' = IF isCapable THEN capable \cup {n} ELSE capable
          /\ marked' = IF selected THEN marked \cup {n} ELSE marked
          /\ signalled' = IF selected THEN signalled \cup {n} ELSE signalled
    BY <1>7, <2>0 DEF ClientSends
  <2>2. underway' = underway \cup {n}
    BY <1>1, <2>0, UnderwayMoves DEF WayInv
  <2>3. n \notin capable /\ n \notin signalled /\ n \notin marked
    <3>1. n \notin capable
      BY <1>1 DEF WayInv, MarksSound
    <3> QED BY <3>1 DEF WayInv, MarksArrive
  <2>4. CarriedSound'
    BY <1>1, <1>2, <1>3, <2>0, CarriedKept
  <2>5. MarksSound'
    <3>1. \A p \in capable' : p \in Nat /\ p <= n
      BY <1>1, <2>1 DEF WayInv, MarksSound
    <3>2. \A p \in underway' : p \in signalled' <=> p \in marked'
      <4>1. \A p \in underway : p \in signalled <=> p \in marked
        BY DEF WayInv, MarksSound
      <4> QED BY <2>1, <2>2, <2>3, <4>1
    <3> QED BY <2>0, <3>1, <3>2 DEF MarksSound
  <2>6. MarksArrive'
    <3>1. marked' \subseteq signalled' /\ signalled' \subseteq capable'
      BY <2>1 DEF WayInv, MarksArrive
    <3>2. ASSUME NEW s \in DOMAIN carried, carried[s].packet # 0
          PROVE  carried[s].ce <=> carried[s].packet \in signalled'
      <4>1. carried[s].ce <=> carried[s].packet \in signalled
        BY <3>2 DEF WayInv, MarksArrive
      <4>2. carried[s].packet # n
        <5>1. carried[s].packet <= accepted
          BY CarriedTypes DEF WayInv, CarriedSound
        <5> QED BY <1>1, <5>1
      <4>3. carried[s].packet \in signalled' <=> carried[s].packet \in signalled
        BY <2>1, <4>2
      <4> QED BY <4>1, <4>3
    <3> QED BY <1>2, <3>1, <3>2 DEF MarksArrive
  <2> QED BY <1>5, <2>4, <2>5, <2>6
<1> QED BY <1>6, <1>7 DEF ClientSends

(* What the packet handed over becomes at the shared input.                *)
TakenOver(p, selected) ==
  /\ Shared!OfferAccepted(clients)
  /\ selected => p \in capable /\ p \notin marked
  /\ carried' = Append(carried, [packet |-> p, ce |-> selected \/ p \in marked])
  /\ signalled' = IF selected THEN signalled \cup {p} ELSE signalled

(* Or it is turned away there.                                             *)
TurnedAway == Shared!OfferDropped(clients) /\ UNCHANGED <<carried, signalled>>

(* The packet handed over is the oldest under way on the link.             *)
LEMMA HandOverMoves ==
  ASSUME WayInv, HandOver
  PROVE  /\ [Next]_vars /\ accepted' = accepted /\ delivered' = delivered + 1
         /\ stopped' = stopped /\ capable' = capable /\ marked' = marked
         /\ Head(pipe) \in underway /\ underway' = underway \ {Head(pipe)}
         /\ \A q \in underway : Head(pipe) <= q
         /\ \/ \E selected \in BOOLEAN : TakenOver(Head(pipe), selected)
            \/ TurnedAway
<1>1. Arrive /\ IInv
  BY DEF HandOver, WayInv
<1>2. [Next]_vars /\ accepted' = accepted /\ delivered' = delivered + 1
      /\ stopped' = stopped /\ pipe # << >>
  BY <1>1 DEF Arrive, Next
<1>3. capable' = capable /\ marked' = marked
  BY DEF HandOver
<1>4. /\ Head(pipe) \in underway /\ underway' = underway \ {Head(pipe)}
      /\ \A q \in underway : Head(pipe) <= q
  BY <1>1, <1>2, HeadIsOldest, OldestArrives
<1>5. \/ \E selected \in BOOLEAN : TakenOver(Head(pipe), selected)
      \/ TurnedAway
  BY DEF HandOver, TakenOver, TurnedAway, Passed, MarkPassed
<1> QED BY <1>2, <1>3, <1>4, <1>5

(* It is carried with the mark it has got, at the link or here.            *)
LEMMA HandOverKeeps ==
  ASSUME WayInv, HandOver
  PROVE  CarriedSound' /\ MarksSound' /\ MarksArrive' /\ Together'
<1>0. PICK p : p = Head(pipe)
  OBVIOUS
<1>1. /\ [Next]_vars /\ accepted' = accepted /\ delivered' = delivered + 1
      /\ stopped' = stopped /\ capable' = capable /\ marked' = marked
      /\ p \in underway /\ underway' = underway \ {p}
      /\ \A q \in underway : p <= q
      /\ (\E selected \in BOOLEAN : TakenOver(p, selected)) \/ TurnedAway
  BY <1>0, HandOverMoves
<1>2. accepted \in Nat /\ p \in Nat /\ p # 0 /\ p <= accepted
      /\ \A q \in underway : q \in Nat
  BY <1>1, UnderwayNumbers DEF WayInv
<1>3. p \in signalled <=> p \in marked
  BY <1>1 DEF WayInv, MarksSound
<1>4. DOMAIN inputOffered = In /\ clients \in In
  BY StatisticTypes DEF WayInv, SharedInv, In
<1>5. CASE TurnedAway
  <2>1. /\ carried' = carried /\ UNCHANGED marks /\ nextSequence' = nextSequence
        /\ inputOffered'[clients] = inputOffered[clients] + 1 /\ inputStopped' = inputStopped
    BY <1>1, <1>4, <1>5 DEF TurnedAway, Shared!OfferDropped, marks
  <2>2. Together'
    BY <1>1, <2>1 DEF WayInv, Together
  <2> QED BY <1>1, <2>1, <2>2, CarriedKept, MarksKept, MarksArriveKept
<1>6. ASSUME NEW selected \in BOOLEAN, TakenOver(p, selected)
      PROVE  CarriedSound' /\ MarksSound' /\ MarksArrive' /\ Together'
  <2> DEFINE r == [packet |-> p, ce |-> selected \/ p \in marked]
  <2>1. /\ carried' = Append(carried, r) /\ nextSequence' = nextSequence + 1
        /\ signalled' = IF selected THEN signalled \cup {p} ELSE signalled
        /\ selected => p \in capable /\ p \notin marked
    BY <1>6 DEF TakenOver, Shared!OfferAccepted
  <2>2. inputOffered'[clients] = inputOffered[clients] + 1 /\ inputStopped' = inputStopped
    BY <1>4, <1>6 DEF TakenOver, Shared!OfferAccepted
  <2>3. r \in Records /\ r.packet = p /\ (r.ce <=> selected \/ p \in marked)
    BY <1>2 DEF Records
  <2> HIDE DEF r
  <2>4. Together'
    BY <1>1, <2>2 DEF WayInv, Together
  <2>5. CarriedSound'
    <3>1. \A q \in underway' : p < q
      BY <1>1, <1>2
    <3> QED BY <1>1, <1>2, <2>1, <2>3, <3>1, CarriedGrows
  <2>6. MarksSound'
    <3>1. \A q \in underway' : q \in signalled' <=> q \in marked'
      <4>1. \A q \in underway : q \in signalled <=> q \in marked
        BY DEF WayInv, MarksSound
      <4> QED BY <1>1, <2>1, <4>1
    <3> QED BY <1>1, <3>1 DEF WayInv, MarksSound
  <2>7. MarksArrive'
    <3>1. marked' \subseteq signalled' /\ signalled' \subseteq capable'
      BY <1>1, <2>1 DEF WayInv, MarksArrive
    <3>2. /\ Len(carried') = Len(carried) + 1 /\ Len(carried) \in Nat
          /\ \A s \in 1 .. Len(carried) : carried'[s] = carried[s]
          /\ carried'[Len(carried) + 1] = r /\ DOMAIN carried' = 1 .. Len(carried')
      BY <2>1, <2>3, CarriedTypes, AppendProperties, LenProperties
    <3>3. ASSUME NEW s \in 1 .. Len(carried), carried[s].packet # 0
          PROVE  carried[s].ce <=> carried[s].packet \in signalled'
      <4>1. carried[s].ce <=> carried[s].packet \in signalled
        BY <3>3, CarriedTypes DEF WayInv, MarksArrive
      <4>2. carried[s].packet # p
        <5>1. carried[s].packet < p /\ carried[s].packet \in Nat
          BY <1>1, CarriedTypes DEF WayInv, CarriedSound
        <5> QED BY <1>2, <5>1
      <4>3. carried[s].packet \in signalled' <=> carried[s].packet \in signalled
        BY <2>1, <4>2
      <4> QED BY <4>1, <4>3
    <3>4. r.ce <=> r.packet \in signalled'
      BY <1>3, <2>1, <2>3
    <3>5. \A s \in DOMAIN carried' : carried'[s].packet # 0 =>
             (carried'[s].ce <=> carried'[s].packet \in signalled')
      <4> SUFFICES ASSUME NEW s \in DOMAIN carried', carried'[s].packet # 0
                   PROVE  carried'[s].ce <=> carried'[s].packet \in signalled'
        OBVIOUS
      <4>1. CASE s \in 1 .. Len(carried)
        BY <3>2, <3>3, <4>1
      <4>2. CASE s = Len(carried) + 1
        BY <3>2, <3>4, <4>2
      <4> QED BY <3>2, <4>1, <4>2
    <3> QED BY <3>1, <3>5 DEF MarksArrive
  <2> QED BY <2>4, <2>5, <2>6, <2>7
<1> QED BY <1>1, <1>5, <1>6

(* A reply is no packet of the client's.                                   *)
LEMMA ReplyKeeps ==
  ASSUME WayInv, ReplyOffered
  PROVE  CarriedSound' /\ MarksSound' /\ MarksArrive' /\ Together'
<1>1. /\ UNCHANGED vars /\ UNCHANGED marks
      /\ \/ Shared!OfferAccepted(backends) /\ carried' = Append(carried, [packet |-> 0, ce |-> FALSE])
         \/ Shared!OfferDropped(backends) /\ carried' = carried
  BY DEF ReplyOffered, link
<1>2. [Next]_vars /\ accepted' = accepted /\ delivered' = delivered /\ stopped' = stopped
  BY <1>1 DEF vars
<1>3. accepted \in Nat /\ \A p \in underway : 0 < p
  BY UnderwayNumbers DEF WayInv
<1>4. underway' \subseteq underway
  BY <1>2, UnderwayMoves DEF WayInv
<1>5. DOMAIN inputOffered = In /\ clients \in In /\ clients # backends
  BY StatisticTypes, AccessAssumption DEF WayInv, SharedInv, In, AccessAssumption
<1>6. Together'
  <2>1. inputOffered'[clients] = inputOffered[clients] /\ inputStopped' = inputStopped
    BY <1>1, <1>5 DEF Shared!OfferAccepted, Shared!OfferDropped
  <2> QED BY <1>2, <2>1 DEF WayInv, Together
<1>7. MarksSound'
  BY <1>1, <1>2, MarksKept
<1>8. CASE Shared!OfferDropped(backends) /\ carried' = carried
  <2>1. nextSequence' = nextSequence
    BY <1>8 DEF Shared!OfferDropped
  <2> QED BY <1>1, <1>2, <1>6, <1>7, <1>8, <2>1, CarriedKept, MarksArriveKept
<1>9. CASE /\ Shared!OfferAccepted(backends)
           /\ carried' = Append(carried, [packet |-> 0, ce |-> FALSE])
  <2> DEFINE r == [packet |-> 0, ce |-> FALSE]
  <2>1. nextSequence' = nextSequence + 1 /\ carried' = Append(carried, r)
    BY <1>9 DEF Shared!OfferAccepted
  <2>2. r \in Records /\ r.packet = 0
    BY DEF Records
  <2> HIDE DEF r
  <2>3. CarriedSound'
    BY <1>2, <1>3, <1>4, <2>1, <2>2, CarriedGrows
  <2>4. MarksArrive'
    <3>2. /\ Len(carried') = Len(carried) + 1 /\ Len(carried) \in Nat
          /\ \A s \in 1 .. Len(carried) : carried'[s] = carried[s]
          /\ carried'[Len(carried) + 1] = r /\ DOMAIN carried' = 1 .. Len(carried')
      BY <2>1, <2>2, CarriedTypes, AppendProperties, LenProperties
    <3>3. \A s \in DOMAIN carried' : carried'[s].packet # 0 => s \in 1 .. Len(carried)
      BY <2>2, <3>2
    <3>4. \A s \in DOMAIN carried' : carried'[s].packet # 0 =>
             (carried'[s].ce <=> carried'[s].packet \in signalled)
      BY <3>2, <3>3, CarriedTypes DEF WayInv, MarksArrive
    <3> QED BY <1>1, <3>4 DEF WayInv, MarksArrive, marks
  <2> QED BY <1>6, <1>7, <2>3, <2>4
<1> QED BY <1>1, <1>8, <1>9

(* The other actions touch neither marks nor what is carried.              *)
LEMMA OthersKeep ==
  ASSUME WayInv, LinkSends \/ InputSends \/ Delivered \/ StopWorld \/ UNCHANGED way
  PROVE  CarriedSound' /\ MarksSound' /\ MarksArrive' /\ Together'
<1>1. /\ UNCHANGED <<carried, marks>> /\ carried' = carried /\ UNCHANGED marks
      /\ nextSequence' = nextSequence /\ accepted' = accepted
      /\ delivered' = delivered /\ inputOffered' = inputOffered
      /\ \/ stopped' = stopped /\ inputStopped' = inputStopped
         \/ stopped' = TRUE /\ inputStopped' = TRUE
  <2>1. CASE LinkSends
    BY <2>1 DEF LinkSends, TransmissionEnds, input
  <2>2. CASE InputSends
    BY <2>2 DEF InputSends, Shared!Transmitted, Shared!admission, link, vars
  <2>3. CASE Delivered
    BY <2>3 DEF Delivered, Shared!Arrive, Shared!admission, link, vars
  <2>4. CASE StopWorld
    BY <2>4 DEF StopWorld, DiscardPending, Shared!DiscardPending, Shared!admission
  <2>5. CASE UNCHANGED way
    BY <2>5 DEF way, input, link, vars
  <2> QED BY <2>1, <2>2, <2>3, <2>4, <2>5
<1>2. [Next]_vars
  BY WayMoves DEF WayNext
<1>3. Together'
  BY <1>1 DEF WayInv, Together
<1> QED BY <1>1, <1>2, <1>3, CarriedKept, MarksKept, MarksArriveKept

(* The invariant of the way holds initially,                               *)
LEMMA WayInitially == WayInit => WayInv
<1> SUFFICES ASSUME WayInit PROVE WayInv
  OBVIOUS
<1>1. IInv /\ SharedInv
  BY LinkInitially, SharedInitially DEF WayInit
<1>2. /\ carried = << >> /\ capable = {} /\ marked = {} /\ signalled = {}
      /\ nextSequence = 0 /\ delivered = 0 /\ stopped = FALSE
      /\ inputStopped = FALSE /\ inputOffered[clients] = 0
  BY DEF WayInit, Init, Shared!Init, Shared!Zero
<1>3. CarriedSound
  <2>1. << >> \in Seq([packet : Nat, ce : BOOLEAN]) /\ Len(<< >>) = 0
    BY EmptySeq
  <2> QED BY <1>2, <2>1 DEF CarriedSound
<1>4. MarksSound
  BY <1>2 DEF MarksSound
<1>5. MarksArrive
  BY <1>2 DEF MarksArrive
<1>6. Together
  BY <1>2 DEF Together
<1> QED BY <1>1, <1>3, <1>4, <1>5, <1>6 DEF WayInv

(* is preserved by every step,                                             *)
LEMMA WayInductive == WayInv /\ [WayNext]_way => WayInv'
<1> SUFFICES ASSUME WayInv, [WayNext]_way PROVE WayInv'
  OBVIOUS
<1>1. IInv' /\ SharedInv'
  BY WayMoves, LinkInductive, SharedInductive DEF WayInv
<1>2. CarriedSound' /\ MarksSound' /\ MarksArrive' /\ Together'
  BY ClientSendsKeeps, HandOverKeeps, ReplyKeeps, OthersKeep DEF WayNext
<1> QED BY <1>1, <1>2 DEF WayInv

(* and always holds (packet_delivery.go, ingress.go, link.go).             *)
LEMMA WayInvariant == WaySpec => []WayInv
BY WayInitially, WayInductive, PTL DEF WaySpec

(* In every state of the way the shared input is true to each of its       *)
(* inputs, and every congestion mark arrives (ingress.go:171-233,          *)
(* packet_delivery.go:16, link.go:125-127).                                *)
THEOREM InputSoundness == WaySpec => []InputIsSound
<1>1. WayInv => InputIsSound
  <2> SUFFICES ASSUME WayInv PROVE InputIsSound
    OBVIOUS
  <2>1. Shared!IngressIsSound
    BY SharedIsSound DEF WayInv
  <2> QED BY <2>1 DEF WayInv, InputIsSound, Together, CarriedSound
<1> QED BY <1>1, WayInvariant, PTL

(* A step of the way is a step of each.                                    *)
LEMMA WayRunsBoth == WaySpec => Spec /\ Shared!Init /\ [][Shared!Next]_input
<1>1. WayInit => Init /\ Shared!Init
  BY DEF WayInit
<1>2. [WayNext]_way => [Next]_vars /\ [Shared!Next]_input
  BY WayMoves
<1> QED BY <1>1, <1>2, PTL DEF WaySpec, Spec

(* Each hop of the way is a lossy FIFO path while it runs beside the       *)
(* other: the client's link (link.go) and the shared input, however its    *)
(* two inputs alternate (ingress.go: dispatch).                            *)
THEOREM HopsAreFifos == WaySpec => ImplementsFifo /\ Shared!ImplementsFifo
<1>1. Shared!Init => Shared!Fifo!Init
  <2> SUFFICES ASSUME Shared!Init PROVE Shared!Fifo!Init
    OBVIOUS
  <2>1. SharedInv
    BY SharedInitially
  <2>2. SharedUnderway = OnWay
    BY <2>1, OnWayIsUnderway DEF SharedInv
  <2>3. /\ inputTravelling = << >> /\ inputSending = 0
        /\ \A i \in In : inputQueue[i] = << >>
        /\ nextSequence = 0 /\ inputArrived = << >> /\ inputStopped = FALSE
    BY DEF Shared!Init, In
  <2>4. OnWay = {}
    BY <2>3, NothingLeft DEF OnWay, Waiting, In
  <2> QED BY <2>2, <2>3, <2>4 DEF Shared!Fifo!Init, SharedUnderway
<1>2. SharedInv /\ SharedInv' /\ [Shared!Next]_input => [Shared!Fifo!Next]_(Shared!Fifo!vars)
  BY SharedStepsAreFifoSteps
<1>3. WayInv => SharedInv
  BY DEF WayInv
<1>4. WaySpec => Shared!ImplementsFifo
  BY <1>1, <1>2, <1>3, WayInvariant, WayRunsBoth, PTL DEF Shared!ImplementsFifo, Shared!Fifo!Spec
<1> QED BY <1>4, WayRunsBoth, Refinement, PTL

-----------------------------------------------------------------------------
(* End to end. The client's arrivals are selected from those of the input  *)
(* (ElementsAt), so that is first: as positions are added at the end every *)
(* place stays taken, and the selection grows at its end.                  *)

(* Every place among the positions is taken: true of any finite set, and   *)
(* seen here as the positions come one at a time.                          *)
PlacesTaken(I) == \A k \in 1 .. Cardinality(I) : AtPlace(I, k) # {}

(* A position behind all others gets the next place.                       *)
LEMMA NextPlace ==
  ASSUME NEW n \in Nat, NEW I \in SUBSET (1 .. n), PlacesTaken(I)
  PROVE  /\ Cardinality(I) \in Nat
         /\ Cardinality(I \cup {n + 1}) = Cardinality(I) + 1
         /\ \A k \in 1 .. Cardinality(I) : AtPlace(I \cup {n + 1}, k) = AtPlace(I, k)
         /\ AtPlace(I \cup {n + 1}, Cardinality(I) + 1) = {n + 1}
         /\ PlacesTaken(I \cup {n + 1})
<1> DEFINE J == I \cup {n + 1}
           c == Cardinality(I)
<1>1. IsFiniteSet(I) /\ c \in Nat
  <2>1. IsFiniteSet(1 .. n)
    BY FS_Interval
  <2> QED BY <2>1, FS_Subset, FS_CardinalityType
<1>2. n + 1 \notin I
  OBVIOUS
<1>3. Cardinality(J) = c + 1
  BY <1>1, <1>2, FS_AddElement
<1>4. \A i \in I : PlaceIn(J, i) = PlaceIn(I, i)
  <2> SUFFICES ASSUME NEW i \in I PROVE PlaceIn(J, i) = PlaceIn(I, i)
    OBVIOUS
  <2>1. {j \in J : j <= i} = {j \in I : j <= i}
    OBVIOUS
  <2> QED BY <2>1 DEF PlaceIn
<1>5. \A i \in I : PlaceIn(I, i) \in Nat /\ PlaceIn(I, i) <= c
  <2> SUFFICES ASSUME NEW i \in I PROVE PlaceIn(I, i) \in Nat /\ PlaceIn(I, i) <= c
    OBVIOUS
  <2> DEFINE T == {j \in I : j <= i}
  <2>1. T \in SUBSET I
    OBVIOUS
  <2>2. IsFiniteSet(T) /\ Cardinality(T) <= c
    BY <1>1, <2>1, FS_Subset
  <2>3. Cardinality(T) \in Nat
    BY <2>2, FS_CardinalityType
  <2> QED BY <2>2, <2>3 DEF PlaceIn
<1>6. PlaceIn(J, n + 1) = c + 1
  <2>0. \A j \in J : j <= n + 1
    OBVIOUS
  <2>1. {j \in J : j <= n + 1} = J
    BY <2>0
  <2> QED BY <1>3, <2>1 DEF PlaceIn
<1>7. J = I \cup {n + 1}
  OBVIOUS
<1> HIDE DEF J, c
<1>8. \A k \in 1 .. c : AtPlace(J, k) = AtPlace(I, k)
  <2> SUFFICES ASSUME NEW k \in 1 .. c PROVE AtPlace(J, k) = AtPlace(I, k)
    OBVIOUS
  <2>1. k # c + 1
    BY <1>1
  <2> QED BY <1>4, <1>6, <1>7, <2>1 DEF AtPlace
<1>9. AtPlace(J, c + 1) = {n + 1}
  <2>1. \A i \in I : PlaceIn(I, i) # c + 1
    BY <1>1, <1>5
  <2> QED BY <1>4, <1>6, <1>7, <2>1 DEF AtPlace
<1>10. PlacesTaken(J)
  <2> SUFFICES ASSUME NEW k \in 1 .. c + 1 PROVE AtPlace(J, k) # {}
    BY <1>3 DEF PlacesTaken
  <2>1. k \in 1 .. c \/ k = c + 1
    BY <1>1
  <2>2. \A l \in 1 .. c : AtPlace(I, l) # {}
    BY DEF PlacesTaken, c
  <2> QED BY <1>8, <1>9, <2>1, <2>2
<1> QED BY <1>1, <1>3, <1>8, <1>9, <1>10 DEF J, c

(* What is selected of a longer sequence: the same, and the new element    *)
(* when it is positive.                                                    *)
LEMMA SelectionGrows ==
  ASSUME NEW s \in Seq(Nat), NEW x \in Nat, PlacesTaken(Positive(s))
  PROVE  /\ PlacesTaken(Positive(Append(s, x)))
         /\ ElementsAt(Append(s, x), Positive(Append(s, x))) =
              IF x = 0 THEN ElementsAt(s, Positive(s))
              ELSE Append(ElementsAt(s, Positive(s)), x)
<1> DEFINE I == Positive(s)
           u == Append(s, x)
           c == Cardinality(I)
           e == ElementsAt(s, I)
<1>0. PICK n \in Nat : n = Len(s)
  BY LenProperties
<1>1. /\ DOMAIN s = 1 .. n /\ DOMAIN u = 1 .. n + 1 /\ u[n + 1] = x
      /\ \A k \in 1 .. n : u[k] = s[k]
  BY <1>0, AppendProperties, LenProperties
<1>2. I = {k \in 1 .. n : s[k] # 0} /\ I \in SUBSET (1 .. n) /\ PlacesTaken(I)
  BY <1>1 DEF Positive
<1>3. Positive(u) = IF x = 0 THEN I ELSE I \cup {n + 1}
  <2>1. \A k \in 1 .. n + 1 : k \in 1 .. n \/ k = n + 1
    OBVIOUS
  <2>2. n + 1 \in 1 .. n + 1 /\ \A k \in 1 .. n : k \in 1 .. n + 1
    OBVIOUS
  <2>3. \A k : k \in Positive(u) <=> k \in 1 .. n + 1 /\ u[k] # 0
    BY <1>1 DEF Positive
  <2> HIDE DEF u, I
  <2>4. CASE x = 0
    <3>1. \A k : k \in Positive(u) <=> k \in I
      BY <1>1, <1>2, <2>1, <2>2, <2>3, <2>4
    <3>2. Positive(u) = I
      BY <3>1
    <3> QED BY <2>4, <3>2
  <2>5. CASE x # 0
    <3>1. \A k : k \in Positive(u) <=> k \in I \cup {n + 1}
      BY <1>1, <1>2, <2>1, <2>2, <2>3, <2>5
    <3>2. Positive(u) = I \cup {n + 1}
      BY <3>1
    <3> QED BY <2>5, <3>2
  <2> QED BY <2>4, <2>5
<1>4. /\ c \in Nat /\ Cardinality(I \cup {n + 1}) = c + 1
      /\ \A k \in 1 .. c : AtPlace(I \cup {n + 1}, k) = AtPlace(I, k)
      /\ AtPlace(I \cup {n + 1}, c + 1) = {n + 1}
      /\ PlacesTaken(I \cup {n + 1})
  <2> HIDE DEF I
  <2> QED BY <1>2, NextPlace
<1>5. \A k \in 1 .. c : s[CHOOSE i \in AtPlace(I, k) : TRUE] = u[CHOOSE i \in AtPlace(I, k) : TRUE]
  <2> SUFFICES ASSUME NEW k \in 1 .. c
               PROVE  (CHOOSE i \in AtPlace(I, k) : TRUE) \in 1 .. n
    BY <1>1
  <2>1. AtPlace(I, k) # {} /\ AtPlace(I, k) \subseteq 1 .. n
    BY <1>2 DEF PlacesTaken, AtPlace
  <2> QED BY <2>1
<1>6. e = [k \in 1 .. c |-> s[CHOOSE i \in AtPlace(I, k) : TRUE]]
  BY DEF ElementsAt
<1>7. CASE x = 0
  <2>1. ElementsAt(u, I) = [k \in 1 .. c |-> u[CHOOSE i \in AtPlace(I, k) : TRUE]]
    BY DEF ElementsAt
  <2>2. ElementsAt(u, I) = e
    <3> HIDE DEF I, u, e, c
    <3> QED BY <1>5, <1>6, <2>1
  <2> HIDE DEF I, u, e
  <2> QED BY <1>2, <1>3, <1>7, <2>2 DEF e, u, I
<1>8. CASE x # 0
  <2> DEFINE J == I \cup {n + 1}
             f == ElementsAt(u, J)
  <2>1. f = [k \in 1 .. c + 1 |-> u[CHOOSE i \in AtPlace(J, k) : TRUE]]
    BY <1>4 DEF ElementsAt
  <2>2. \A k \in 1 .. c : f[k] = e[k]
    <3> SUFFICES ASSUME NEW k \in 1 .. c PROVE f[k] = e[k]
      OBVIOUS
    <3>1. k \in 1 .. c + 1
      BY <1>4
    <3>2. AtPlace(J, k) = AtPlace(I, k)
      BY <1>4
    <3>3. f[k] = u[CHOOSE i \in AtPlace(I, k) : TRUE]
      BY <2>1, <3>1, <3>2
    <3> QED BY <1>5, <1>6, <3>3
  <2>3. f[c + 1] = x
    <3>1. c + 1 \in 1 .. c + 1
      BY <1>4
    <3>2. (CHOOSE i \in AtPlace(J, c + 1) : TRUE) = n + 1
      BY <1>4
    <3> QED BY <1>1, <2>1, <3>1, <3>2
  <2>4. /\ DOMAIN Append(e, x) = 1 .. c + 1 /\ Append(e, x)[c + 1] = x
        /\ \A k \in 1 .. c : Append(e, x)[k] = e[k]
        /\ Append(e, x) \in Seq(Nat)
    <3>1. DOMAIN e = 1 .. c
      BY <1>6
    <3>2. \A k \in 1 .. c : e[k] \in Nat
      <4> SUFFICES ASSUME NEW k \in 1 .. c PROVE e[k] \in Nat
        OBVIOUS
      <4>1. (CHOOSE i \in AtPlace(I, k) : TRUE) \in 1 .. n
        <5>1. AtPlace(I, k) # {} /\ AtPlace(I, k) \subseteq 1 .. n
          BY <1>2 DEF PlacesTaken, AtPlace
        <5> QED BY <5>1
      <4>2. \A i \in 1 .. n : s[i] \in Nat
        BY <1>0, ElementOfSeq
      <4> QED BY <1>6, <4>1, <4>2
    <3>3. e \in Seq(Nat)
      <4>1. e \in [1 .. c -> Nat]
        BY <1>6, <3>1, <3>2
      <4> HIDE DEF e, c
      <4> QED BY <1>4, <4>1, SeqDef
    <3>4. Len(e) = c
      <4> HIDE DEF e, c
      <4> QED BY <1>4, <3>1, <3>3, LenProperties
    <3> HIDE DEF e, c
    <3> QED BY <3>3, <3>4, AppendProperties, LenProperties
  <2>5. f = Append(e, x)
    <3>1. \A k \in 1 .. c + 1 : k = c + 1 \/ k \in 1 .. c
      BY <1>4
    <3>2. f = [k \in 1 .. c + 1 |-> f[k]]
      BY <2>1
    <3> DEFINE g == Append(e, x)
    <3>3. DOMAIN g = 1 .. c + 1 /\ g = [k \in DOMAIN g |-> g[k]]
      <4>1. g \in [1 .. Len(g) -> Nat]
        BY <2>4, LenProperties
      <4> HIDE DEF g
      <4>2. g = [k \in DOMAIN g |-> g[k]]
        BY <4>1
      <4> QED BY <2>4, <4>2 DEF g
    <3>4. \A k \in 1 .. c + 1 : f[k] = g[k]
      BY <2>2, <2>3, <2>4, <3>1
    <3> HIDE DEF e, c, f, g
    <3>5. f = g
      BY <3>2, <3>3, <3>4
    <3> QED BY <3>5 DEF g
  <2> HIDE DEF e, f
  <2> QED BY <1>3, <1>4, <1>8, <2>5 DEF e, f
<1> QED BY <1>7, <1>8

-----------------------------------------------------------------------------
(* The client's packets are carried in the order in which the link         *)
(* delivered them.                                                         *)
CarriedOrdered ==
  \A s, t \in 1 .. Len(carried) :
    s < t /\ carried[s].packet # 0 /\ carried[t].packet # 0 =>
      carried[s].packet < carried[t].packet

(* The invariant of the whole way.                                         *)
FollowInv == WayInv /\ CarriedOrdered /\ PlacesTaken(Positive(Numbers))

(* What the shared input knows has been carried.                           *)
LEMMA AdmittedAreCarried ==
  ASSUME WayInv
  PROVE  /\ InputHolds = OnWay
         /\ \A x \in OnWay : x \in 1 .. Len(carried)
         /\ \A x \in Elements(inputArrived) : x \in 1 .. Len(carried)
<1>0. SharedInv /\ Len(carried) = nextSequence
  BY DEF WayInv, CarriedSound
<1>1. InputHolds = OnWay
  BY DEF InputHolds, OnWay, Waiting
<1>2. \A x \in Waiting : x \in Nat \ {0} /\ x <= nextSequence
  <2>1. \A i \in In : \A x \in Elements(inputQueue[i]) : x \in Nat \ {0} /\ x <= nextSequence
    <3>1. \A i \in In : inputQueue[i] \in Seq(Shared!Packets)
      BY <1>0, SharedTypes DEF SharedInv
    <3>2. \A i \in In : \A x \in Elements(inputQueue[i]) : x \in Shared!Packets
      BY <3>1, ElementOfSeq DEF Elements
    <3>3. \A x \in Shared!Packets : x \in Nat \ {0}
      BY AccessAssumption, LinkAssumption DEF AccessAssumption, LinkAssumption, Shared!Packets
    <3> QED BY <1>0, <3>2, <3>3 DEF SharedInv, Placed
  <2> QED BY <2>1 DEF Waiting, In
<1>3. \A x \in Elements(inputStarted) : x \in Nat \ {0} /\ x <= nextSequence
  <2>1. inputStarted \in Seq(Shared!Packets)
    BY <1>0, SharedTypes DEF SharedInv
  <2>2. \A x \in Elements(inputStarted) : x \in Shared!Packets
    BY <2>1, ElementOfSeq DEF Elements
  <2>3. \A x \in Shared!Packets : x \in Nat \ {0}
    BY AccessAssumption, LinkAssumption DEF AccessAssumption, LinkAssumption, Shared!Packets
  <2> QED BY <1>0, <2>2, <2>3 DEF SharedInv, Ordered
<1>4. /\ \A x \in Elements(inputTravelling) : x \in Elements(inputStarted)
      /\ \A x \in Elements(inputArrived) : x \in Elements(inputStarted)
      /\ inputSending # 0 => inputSending \in Elements(inputStarted)
  BY <1>0 DEF SharedInv, Ordered, Behind, Attributed
<1>5. nextSequence \in Nat
  BY <1>0, PlacedSets
<1>6. \A x : x \in Nat \ {0} /\ x <= nextSequence => x \in 1 .. Len(carried)
  BY <1>0, <1>5
<1>7. \A x \in OnWay : x \in Waiting \/ x \in Elements(inputStarted)
  BY <1>4 DEF OnWay
<1> QED BY <1>1, <1>2, <1>3, <1>4, <1>6, <1>7

(* After a step the packets of the input are those on its way as well.     *)
LEMMA HoldsAreOnWay ==
  ASSUME WayInv'
  PROVE  InputHolds' = OnWay'
BY DEF InputHolds, OnWay, Waiting

-----------------------------------------------------------------------------
(* The client's numbers of some packets of the input, of which c says what *)
(* they carry.                                                             *)
NumbersOf(c, packets) == {c[s].packet : s \in {p \in packets : c[p].packet # 0}}

(* Access says the same of the packets carried,                            *)
LEMMA CarriedIsNumbers ==
  ASSUME NEW packets
  PROVE  Carried(packets) = NumbersOf(carried, packets)
BY DEF Carried, Mine, NumbersOf

(* so what both hops hold is what is under way on the link and the numbers *)
(* of what is on its way through the input,                                *)
LEMMA UnderwayInNumbers ==
  ASSUME WayInv
  PROVE  ClientUnderway = underway \cup NumbersOf(carried, OnWay)
BY AdmittedAreCarried, CarriedIsNumbers DEF ClientUnderway

(* after a step as well.                                                   *)
LEMMA UnderwayInNumbersPrimed ==
  ASSUME WayInv'
  PROVE  ClientUnderway' = underway' \cup NumbersOf(carried', OnWay')
<1>1. InputHolds' = OnWay'
  BY HoldsAreOnWay
<1> QED BY <1>1 DEF ClientUnderway, Carried, Mine, NumbersOf

(* A packet that is carried from now on.                                   *)
LEMMA NumbersGrow ==
  ASSUME NEW c \in Seq(Records), NEW r \in Records, NEW packets,
         \A x \in packets : x \in 1 .. Len(c)
  PROVE  /\ NumbersOf(Append(c, r), packets) = NumbersOf(c, packets)
         /\ NumbersOf(Append(c, r), packets \cup {Len(c) + 1}) =
              NumbersOf(c, packets) \cup ({r.packet} \ {0})
<1> DEFINE d == Append(c, r)
           n == Len(c) + 1
<1>1. d[n] = r /\ \A x \in 1 .. Len(c) : d[x] = c[x]
  BY AppendProperties
<1>2. \A x \in packets : d[x] = c[x]
  BY <1>1
<1> HIDE DEF d, n
<1>3. NumbersOf(d, packets) = NumbersOf(c, packets)
  BY <1>2 DEF NumbersOf
<1>4. NumbersOf(d, packets \cup {n}) = NumbersOf(d, packets) \cup ({r.packet} \ {0})
  BY <1>1 DEF NumbersOf
<1> QED BY <1>3, <1>4 DEF d, n

(* A packet that leaves takes its own number along and no other.           *)
LEMMA NumberLeaves ==
  ASSUME FollowInv, NEW x \in OnWay
  PROVE  /\ carried[x].packet # 0 =>
              /\ carried[x].packet \in NumbersOf(carried, OnWay)
              /\ carried[x].packet \notin underway
              /\ NumbersOf(carried, OnWay \ {x}) =
                   NumbersOf(carried, OnWay) \ {carried[x].packet}
         /\ carried[x].packet = 0 =>
              NumbersOf(carried, OnWay \ {x}) = NumbersOf(carried, OnWay)
<1>1. \A y \in OnWay : y \in 1 .. Len(carried) /\ y \in Nat /\ carried[y].packet \in Nat
  BY AdmittedAreCarried, CarriedTypes DEF FollowInv
<1>2. \A y \in OnWay : y # x /\ carried[x].packet # 0 /\ carried[y].packet # 0
                         => carried[y].packet # carried[x].packet
  <2> SUFFICES ASSUME NEW y \in OnWay, y # x, carried[x].packet # 0, carried[y].packet # 0
               PROVE  carried[y].packet # carried[x].packet
    OBVIOUS
  <2>1. x < y \/ y < x
    BY <1>1
  <2>2. x < y => carried[x].packet < carried[y].packet
    BY <1>1 DEF FollowInv, CarriedOrdered
  <2>3. y < x => carried[y].packet < carried[x].packet
    BY <1>1 DEF FollowInv, CarriedOrdered
  <2> QED BY <1>1, <2>1, <2>2, <2>3
<1>3. carried[x].packet \notin underway
  <2>1. \A p \in underway : carried[x].packet < p
    BY <1>1 DEF FollowInv, WayInv, CarriedSound
  <2> QED BY <1>1, <2>1
<1>4. carried[x].packet # 0 => carried[x].packet \in NumbersOf(carried, OnWay)
  BY DEF NumbersOf
<1>5. carried[x].packet # 0 => NumbersOf(carried, OnWay \ {x}) =
                                 NumbersOf(carried, OnWay) \ {carried[x].packet}
  BY <1>2 DEF NumbersOf
<1>6. carried[x].packet = 0 => NumbersOf(carried, OnWay \ {x}) = NumbersOf(carried, OnWay)
  BY DEF NumbersOf
<1> QED BY <1>3, <1>4, <1>5, <1>6

-----------------------------------------------------------------------------

(* The numbers of what has arrived are a sequence as long as the arrivals. *)
LEMMA NumbersTyped ==
  ASSUME WayInv
  PROVE  /\ Numbers \in Seq(Nat) /\ inputArrived \in Seq(Nat)
         /\ Numbers = [k \in 1 .. Len(inputArrived) |-> carried[inputArrived[k]].packet]
         /\ \A k \in 1 .. Len(inputArrived) : inputArrived[k] \in 1 .. Len(carried)
<1>1. inputArrived \in Seq(Nat)
  BY SharedTypes DEF WayInv, SharedInv
<1>2. \A k \in 1 .. Len(inputArrived) : inputArrived[k] \in 1 .. Len(carried)
  BY AdmittedAreCarried DEF Elements
<1>3. \A k \in 1 .. Len(inputArrived) : carried[inputArrived[k]].packet \in Nat
  BY <1>2, CarriedTypes
<1>4. PICK n \in Nat : n = Len(inputArrived)
  BY <1>1, LenProperties
<1>5. Numbers = [k \in 1 .. n |-> carried[inputArrived[k]].packet]
  BY <1>1, <1>4, LenProperties DEF Numbers
<1>6. Numbers \in [1 .. n -> Nat]
  BY <1>3, <1>4, <1>5
<1>7. Numbers \in Seq(Nat)
  BY <1>6, SeqDef
<1> QED BY <1>1, <1>2, <1>4, <1>5, <1>7

(* Nothing new has arrived, whatever else is carried from now on.          *)
LEMMA NumbersStay ==
  ASSUME WayInv, inputArrived' = inputArrived,
         \A x \in 1 .. Len(carried) : carried'[x].packet = carried[x].packet
  PROVE  Numbers' = Numbers
<1>1. Numbers' = [k \in DOMAIN inputArrived |-> carried'[inputArrived[k]].packet]
  BY DEF Numbers
<1>2. DOMAIN inputArrived = 1 .. Len(inputArrived)
  BY NumbersTyped, LenProperties
<1>3. \A k \in DOMAIN inputArrived : carried'[inputArrived[k]].packet = carried[inputArrived[k]].packet
  BY <1>2, NumbersTyped
<1> QED BY <1>1, <1>3 DEF Numbers

(* A packet arrives.                                                       *)
LEMMA NumbersArrive ==
  ASSUME WayInv, NEW x \in 1 .. Len(carried), carried' = carried,
         inputArrived' = Append(inputArrived, x)
  PROVE  Numbers' = Append(Numbers, carried[x].packet)
<1>1. inputArrived \in Seq(Nat) /\ Numbers \in Seq(Nat) /\ carried[x].packet \in Nat
  BY NumbersTyped, CarriedTypes
<1>2. x \in Nat
  BY CarriedTypes
<1>3. PICK n \in Nat : n = Len(inputArrived)
  BY <1>1, LenProperties
<1>4. /\ DOMAIN inputArrived' = 1 .. n + 1 /\ inputArrived'[n + 1] = x
      /\ \A k \in 1 .. n : inputArrived'[k] = inputArrived[k]
  BY <1>1, <1>2, <1>3, AppendProperties, LenProperties
<1>5. Numbers' = [k \in 1 .. n + 1 |-> carried[inputArrived'[k]].packet]
  BY <1>4 DEF Numbers
<1>6. Numbers = [k \in 1 .. n |-> carried[inputArrived[k]].packet]
  BY <1>3, NumbersTyped
<1> DEFINE g == Append(Numbers, carried[x].packet)
<1>7. Len(Numbers) = n
  BY <1>1, <1>6, LenProperties
<1>8. /\ DOMAIN g = 1 .. n + 1 /\ g[n + 1] = carried[x].packet /\ g \in Seq(Nat)
      /\ \A k \in 1 .. n : g[k] = Numbers[k]
  BY <1>1, <1>7, AppendProperties, LenProperties
<1>9. g = [k \in DOMAIN g |-> g[k]]
  <2>1. g \in [1 .. Len(g) -> Nat]
    BY <1>8, LenProperties
  <2> HIDE DEF g
  <2> QED BY <2>1
<1> HIDE DEF g
<1>10. \A k \in 1 .. n + 1 : g[k] = carried[inputArrived'[k]].packet
  <2> SUFFICES ASSUME NEW k \in 1 .. n + 1
               PROVE  g[k] = carried[inputArrived'[k]].packet
    OBVIOUS
  <2>1. CASE k = n + 1
    BY <1>4, <1>8, <2>1
  <2>2. CASE k \in 1 .. n
    <3>1. inputArrived'[k] = inputArrived[k]
      BY <1>4, <2>2
    <3>2. g[k] = Numbers[k]
      BY <1>8, <2>2
    <3>3. Numbers[k] = carried[inputArrived[k]].packet
      BY <1>6, <2>2
    <3> QED BY <3>1, <3>2, <3>3
  <2>3. k \in 1 .. n \/ k = n + 1
    OBVIOUS
  <2> QED BY <2>1, <2>2, <2>3
<1>11. Numbers' = g
  BY <1>5, <1>8, <1>9, <1>10
<1> QED BY <1>11 DEF g

-----------------------------------------------------------------------------
(* Nothing new arrives and nothing new is carried.                         *)
LEMMA FollowKept ==
  ASSUME FollowInv, WayInv', carried' = carried, inputArrived' = inputArrived
  PROVE  FollowInv' /\ ClientArrivals' = ClientArrivals
<1>1. WayInv
  BY DEF FollowInv
<1>2. Numbers' = Numbers
  BY <1>1, NumbersStay
<1>3. CarriedOrdered'
  BY DEF FollowInv, CarriedOrdered
<1>4. ClientArrivals' = ClientArrivals
  BY <1>2 DEF ClientArrivals, ElementsAt, AtPlace, PlaceIn, Positive
<1>5. PlacesTaken(Positive(Numbers))'
  <2>1. PlacesTaken(Positive(Numbers'))
    BY <1>2 DEF FollowInv
  <2> QED BY <2>1
<1> QED BY <1>3, <1>4, <1>5 DEF FollowInv

(* A packet is carried behind all others.                                  *)
LEMMA FollowGrows ==
  ASSUME FollowInv, WayInv', inputArrived' = inputArrived,
         NEW r \in Records, carried' = Append(carried, r),
         r.packet # 0 => \A s \in 1 .. Len(carried) : carried[s].packet < r.packet
  PROVE  FollowInv' /\ ClientArrivals' = ClientArrivals
<1>1. WayInv
  BY DEF FollowInv
<1>2. PICK n \in Nat : n = Len(carried)
  BY <1>1, CarriedTypes, LenProperties
<1>3. /\ Len(carried') = n + 1 /\ carried'[n + 1] = r
      /\ \A s \in 1 .. n : carried'[s] = carried[s]
  BY <1>1, <1>2, CarriedTypes, AppendProperties
<1>4. Numbers' = Numbers
  BY <1>1, <1>2, <1>3, NumbersStay
<1>5. CarriedOrdered'
  <2> SUFFICES ASSUME NEW s \in 1 .. n + 1, NEW t \in 1 .. n + 1, s < t,
                      carried'[s].packet # 0, carried'[t].packet # 0
               PROVE  carried'[s].packet < carried'[t].packet
    BY <1>3 DEF CarriedOrdered
  <2>1. s \in 1 .. n /\ (t \in 1 .. n \/ t = n + 1)
    OBVIOUS
  <2>2. CASE t \in 1 .. n
    <3>1. carried'[s] = carried[s] /\ carried'[t] = carried[t]
      BY <1>3, <2>1, <2>2
    <3> QED BY <1>2, <2>1, <2>2, <3>1 DEF FollowInv, CarriedOrdered
  <2>3. CASE t = n + 1
    <3>1. carried'[s] = carried[s] /\ carried'[t] = r
      BY <1>3, <2>1, <2>3
    <3> QED BY <1>2, <2>1, <3>1
  <2> QED BY <2>1, <2>2, <2>3
<1>6. ClientArrivals' = ClientArrivals
  BY <1>4 DEF ClientArrivals, ElementsAt, AtPlace, PlaceIn, Positive
<1>7. PlacesTaken(Positive(Numbers))'
  <2>1. PlacesTaken(Positive(Numbers'))
    BY <1>4 DEF FollowInv
  <2> QED BY <2>1
<1> QED BY <1>5, <1>6, <1>7 DEF FollowInv

(* A packet arrives.                                                       *)
LEMMA FollowArrives ==
  ASSUME FollowInv, WayInv', Delivered
  PROVE  /\ FollowInv'
         /\ ClientArrivals' =
              IF carried[Head(inputTravelling)].packet = 0 THEN ClientArrivals
              ELSE Append(ClientArrivals, carried[Head(inputTravelling)].packet)
<1>1. WayInv /\ SharedInv /\ Shared!Arrive
  BY DEF FollowInv, WayInv, Delivered
<1>2. PICK x : x = Head(inputTravelling)
  OBVIOUS
<1>3. x \in OnWay /\ x \in 1 .. Len(carried)
  BY <1>1, <1>2, ArrivalIsOldest, AdmittedAreCarried
<1>4. carried' = carried /\ inputArrived' = Append(inputArrived, x)
  BY <1>1, <1>2 DEF Delivered, Shared!Arrive
<1>5. PICK y \in Nat : y = carried[x].packet
  BY <1>1, <1>3, CarriedTypes
<1>6. Numbers' = Append(Numbers, y)
  BY <1>1, <1>3, <1>4, <1>5, NumbersArrive
<1>7. Numbers \in Seq(Nat) /\ PlacesTaken(Positive(Numbers))
  BY <1>1, NumbersTyped DEF FollowInv
<1>8. /\ PlacesTaken(Positive(Append(Numbers, y)))
      /\ ElementsAt(Append(Numbers, y), Positive(Append(Numbers, y))) =
           IF y = 0 THEN ElementsAt(Numbers, Positive(Numbers))
           ELSE Append(ElementsAt(Numbers, Positive(Numbers)), y)
  BY <1>7, SelectionGrows
<1>9. PICK m : m = Append(Numbers, y)
  OBVIOUS
<1>10. PlacesTaken(Positive(Numbers))'
  <2>1. PlacesTaken(Positive(m))
    BY <1>8, <1>9
  <2>2. Numbers' = m
    BY <1>6, <1>9
  <2>3. PlacesTaken(Positive(Numbers'))
    BY <2>1, <2>2
  <2> QED BY <2>3
<1>11. ClientArrivals' = ElementsAt(m, Positive(m))
  <2>1. Numbers' = m
    BY <1>6, <1>9
  <2> QED BY <2>1 DEF ClientArrivals, ElementsAt, AtPlace, PlaceIn, Positive
<1>12. ClientArrivals' = IF y = 0 THEN ClientArrivals ELSE Append(ClientArrivals, y)
  BY <1>8, <1>9, <1>11 DEF ClientArrivals
<1>13. CarriedOrdered'
  BY <1>4 DEF FollowInv, CarriedOrdered
<1> QED BY <1>2, <1>5, <1>10, <1>12, <1>13 DEF FollowInv

-----------------------------------------------------------------------------
(* What is under way on the link is carried nowhere yet.                   *)
LEMMA UnderwayNotCarried ==
  ASSUME WayInv, NEW p \in underway
  PROVE  p \notin NumbersOf(carried, OnWay)
<1>1. \A y \in OnWay : y \in 1 .. Len(carried)
  BY AdmittedAreCarried
<1>2. \A y \in OnWay : carried[y].packet \in Nat /\ carried[y].packet < p
  BY <1>1, CarriedTypes DEF WayInv, CarriedSound
<1>3. p \in Nat
  BY UnderwayNumbers DEF WayInv
<1>4. \A y \in OnWay : carried[y].packet # p
  BY <1>2, <1>3
<1> QED BY <1>4 DEF NumbersOf

(* At the end of a transmission one packet is lost, or none.               *)
LEMMA LinkLoses ==
  ASSUME IInv, TransmissionEnds
  PROVE  \/ underway' = underway
         \/ \E p \in underway : underway' = underway \ {p}
<1>1. accepted' = accepted /\ arrived' = arrived /\ stopped' = stopped
  BY DEF TransmissionEnds
<1>2. [Fifo!Next]_(Fifo!vars)
  BY StepsAreFifoSteps DEF Next
<1>3. CASE Fifo!Accept
  BY <1>1, <1>3 DEF Fifo!Accept, IInv, TypeOK
<1>4. CASE Fifo!Lose
  BY <1>4 DEF Fifo!Lose
<1>5. CASE Fifo!Arrive
  BY <1>5 DEF Fifo!Arrive
<1>6. CASE Fifo!Close
  BY <1>1, <1>6 DEF Fifo!Close
<1>7. CASE UNCHANGED Fifo!vars
  BY <1>7 DEF Fifo!vars
<1> QED BY <1>2, <1>3, <1>4, <1>5, <1>6, <1>7 DEF Fifo!Next

(* The steps of the way, as its lossy FIFO path has them.                  *)
WayQuiet ==
  /\ accepted' = accepted /\ stopped' = stopped /\ ClientArrivals' = ClientArrivals
  /\ ClientUnderway' = ClientUnderway

(* Packet p of the client is dropped or lost somewhere on its way.         *)
WayLoses(p) ==
  /\ accepted' = accepted /\ stopped' = stopped /\ ClientArrivals' = ClientArrivals
  /\ p \in ClientUnderway /\ ClientUnderway' = ClientUnderway \ {p}

(* The first is a stuttering step of the lossy FIFO path,                  *)
LEMMA WayQuietly ==
  ASSUME WayQuiet
  PROVE  UNCHANGED Way!vars
BY DEF WayQuiet, Way!vars

(* the second one that loses a packet.                                     *)
LEMMA WayLosing ==
  ASSUME NEW p, WayLoses(p)
  PROVE  Way!Next
<1>1. Way!Lose
  BY DEF WayLoses, Way!Lose
<1> QED BY <1>1 DEF Way!Next

(* What both hops hold after a step that leaves the shared input alone.    *)
LEMMA InputAlone ==
  ASSUME WayInv, WayInv', UNCHANGED input, carried' = carried
  PROVE  ClientUnderway' = underway' \cup NumbersOf(carried, OnWay)
<1>1. ClientUnderway' = underway' \cup NumbersOf(carried', OnWay')
  BY UnderwayInNumbersPrimed
<1>2. OnWay' = OnWay
  BY DEF input, OnWay, Waiting, Elements
<1> QED BY <1>1, <1>2

(* Every action keeps the invariant and is a step of the lossy FIFO path.  *)
(* A packet the client sends is accepted there, or dropped before.         *)
LEMMA ClientSendsFollow ==
  ASSUME FollowInv, WayInv', ClientSends
  PROVE  FollowInv' /\ [Way!Next]_(Way!vars)
<1>1. WayInv /\ IInv /\ UNCHANGED input /\ carried' = carried
  BY DEF FollowInv, WayInv, ClientSends
<1>2. FollowInv' /\ ClientArrivals' = ClientArrivals
  <2>1. inputArrived' = inputArrived
    BY <1>1 DEF input
  <2> QED BY <1>1, <2>1, FollowKept
<1>3. /\ ClientUnderway = underway \cup NumbersOf(carried, OnWay)
      /\ ClientUnderway' = underway' \cup NumbersOf(carried, OnWay)
  BY <1>1, UnderwayInNumbers, InputAlone
<1>4. CASE OfferAccepted
  <2>1. accepted' = accepted + 1 /\ stopped = FALSE /\ stopped' = stopped
    BY <1>1, <1>4 DEF OfferAccepted, IInv, TypeOK
  <2>2. underway' = underway \cup {accepted + 1}
    BY <1>1, <1>4, <2>1, UnderwayMoves DEF Next
  <2>3. ClientUnderway' = ClientUnderway \cup {accepted + 1}
    BY <1>3, <2>2
  <2>4. Way!Accept
    BY <1>2, <2>1, <2>3 DEF Way!Accept
  <2> QED BY <1>2, <2>4 DEF Way!Next
<1>5. CASE OfferDropped
  <2>1. underway' = underway /\ accepted' = accepted /\ stopped' = stopped
    BY <1>5 DEF OfferDropped, underway, Elements
  <2>2. WayQuiet
    BY <1>2, <1>3, <2>1 DEF WayQuiet
  <2> QED BY <1>2, <2>2, WayQuietly
<1> QED BY <1>4, <1>5 DEF ClientSends

(* The link may lose the packet it has serialized.                         *)
LEMMA LinkSendsFollow ==
  ASSUME FollowInv, WayInv', LinkSends
  PROVE  FollowInv' /\ [Way!Next]_(Way!vars)
<1>1. WayInv /\ IInv /\ UNCHANGED input /\ carried' = carried /\ TransmissionEnds
  BY DEF FollowInv, WayInv, LinkSends
<1>2. FollowInv' /\ ClientArrivals' = ClientArrivals
  <2>1. inputArrived' = inputArrived
    BY <1>1 DEF input
  <2> QED BY <1>1, <2>1, FollowKept
<1>3. /\ ClientUnderway = underway \cup NumbersOf(carried, OnWay)
      /\ ClientUnderway' = underway' \cup NumbersOf(carried, OnWay)
  BY <1>1, UnderwayInNumbers, InputAlone
<1>4. accepted' = accepted /\ stopped' = stopped
  BY <1>1 DEF TransmissionEnds
<1>5. CASE underway' = underway
  <2>1. WayQuiet
    BY <1>2, <1>3, <1>4, <1>5 DEF WayQuiet
  <2> QED BY <1>2, <2>1, WayQuietly
<1>6. ASSUME NEW p \in underway, underway' = underway \ {p}
      PROVE  Way!Next
  <2>1. p \notin NumbersOf(carried, OnWay)
    BY <1>1, UnderwayNotCarried
  <2>2. WayLoses(p)
    BY <1>2, <1>3, <1>4, <1>6, <2>1 DEF WayLoses
  <2> QED BY <2>2, WayLosing
<1> QED BY <1>1, <1>2, <1>5, <1>6, LinkLoses

(* A packet handed over stays under way, on the other hop, unless the      *)
(* input turns it away.                                                    *)
LEMMA HandOverFollow ==
  ASSUME FollowInv, WayInv', HandOver
  PROVE  FollowInv' /\ [Way!Next]_(Way!vars)
<1>0. PICK p : p = Head(pipe)
  OBVIOUS
<1>1. /\ accepted' = accepted /\ stopped' = stopped
      /\ p \in underway /\ underway' = underway \ {p}
      /\ (\E selected \in BOOLEAN : TakenOver(p, selected)) \/ TurnedAway
  BY <1>0, HandOverMoves DEF FollowInv
<1>2. WayInv /\ SharedInv /\ ClientUnderway = underway \cup NumbersOf(carried, OnWay)
  BY UnderwayInNumbers DEF FollowInv, WayInv
<1>3. p \in Nat /\ p # 0 /\ p <= accepted /\ p \notin NumbersOf(carried, OnWay)
  BY <1>1, <1>2, UnderwayNumbers, UnderwayNotCarried DEF WayInv
<1>4. CASE TurnedAway
  <2>1. carried' = carried /\ inputArrived' = inputArrived /\ OnWay' = OnWay
    BY <1>4 DEF TurnedAway, Shared!OfferDropped, Shared!link, Shared!history, OnWay, Waiting, Elements
  <2>2. FollowInv' /\ ClientArrivals' = ClientArrivals
    BY <2>1, FollowKept
  <2>3. ClientUnderway' = underway' \cup NumbersOf(carried', OnWay')
    BY UnderwayInNumbersPrimed
  <2>4. ClientUnderway' = underway' \cup NumbersOf(carried, OnWay)
    BY <2>1, <2>3
  <2>5. WayLoses(p)
    BY <1>1, <1>2, <1>3, <2>2, <2>4 DEF WayLoses
  <2> QED BY <2>2, <2>5, WayLosing
<1>5. ASSUME NEW selected \in BOOLEAN, TakenOver(p, selected)
      PROVE  FollowInv' /\ WayQuiet
  <2> DEFINE r == [packet |-> p, ce |-> selected \/ p \in marked]
  <2>1. carried' = Append(carried, r) /\ Shared!OfferAccepted(clients)
    BY <1>5 DEF TakenOver
  <2>2. r \in Records /\ r.packet = p
    BY <1>3 DEF Records
  <2> HIDE DEF r
  <2>3. Entered(clients) /\ clients \in In
    BY <1>2, <2>1, Entering DEF In
  <2>4. inputArrived' = inputArrived
    BY <2>3 DEF Entered
  <2>5. OnWay' = OnWay \cup {Len(carried) + 1}
    BY <1>2, <2>3, EnteredIsOnWay DEF WayInv, CarriedSound
  <2>6. \A s \in 1 .. Len(carried) : carried[s].packet < p
    BY <1>1, <1>2 DEF WayInv, CarriedSound
  <2>7. FollowInv' /\ ClientArrivals' = ClientArrivals
    BY <2>1, <2>2, <2>4, <2>6, FollowGrows
  <2>8. NumbersOf(Append(carried, r), OnWay \cup {Len(carried) + 1}) = NumbersOf(carried, OnWay) \cup {p}
    <3>1. \A x \in OnWay : x \in 1 .. Len(carried)
      BY <1>2, AdmittedAreCarried
    <3>2. carried \in Seq(Records)
      BY <1>2, CarriedTypes
    <3>3. NumbersOf(Append(carried, r), OnWay \cup {Len(carried) + 1}) =
            NumbersOf(carried, OnWay) \cup ({r.packet} \ {0})
      BY <2>2, <3>1, <3>2, NumbersGrow
    <3> QED BY <1>3, <2>2, <3>3
  <2>9. ClientUnderway' = underway' \cup (NumbersOf(carried, OnWay) \cup {p})
    <3>1. ClientUnderway' = underway' \cup NumbersOf(carried', OnWay')
      BY UnderwayInNumbersPrimed
    <3> QED BY <2>1, <2>5, <2>8, <3>1
  <2>10. ClientUnderway' = ClientUnderway
    BY <1>1, <1>2, <2>9
  <2> QED BY <1>1, <2>7, <2>10 DEF WayQuiet
<1> QED BY <1>1, <1>4, <1>5, WayQuietly

(* A reply is none of the client's packets.                                *)
LEMMA ReplyFollow ==
  ASSUME FollowInv, WayInv', ReplyOffered
  PROVE  FollowInv' /\ [Way!Next]_(Way!vars)
<1>1. /\ UNCHANGED vars
      /\ \/ Shared!OfferAccepted(backends) /\ carried' = Append(carried, [packet |-> 0, ce |-> FALSE])
         \/ Shared!OfferDropped(backends) /\ carried' = carried
  BY DEF ReplyOffered, link
<1>2. accepted' = accepted /\ stopped' = stopped /\ underway' = underway
  BY <1>1 DEF vars, underway, Elements
<1>3. WayInv /\ SharedInv /\ ClientUnderway = underway \cup NumbersOf(carried, OnWay)
  BY UnderwayInNumbers DEF FollowInv, WayInv
<1>4. ClientUnderway' = underway' \cup NumbersOf(carried', OnWay')
  BY UnderwayInNumbersPrimed
<1>5. CASE Shared!OfferDropped(backends) /\ carried' = carried
  <2>1. inputArrived' = inputArrived /\ OnWay' = OnWay
    BY <1>5 DEF Shared!OfferDropped, Shared!link, Shared!history, OnWay, Waiting, Elements
  <2>2. FollowInv' /\ ClientArrivals' = ClientArrivals
    BY <1>5, <2>1, FollowKept
  <2>3. WayQuiet
    BY <1>2, <1>3, <1>4, <1>5, <2>1, <2>2 DEF WayQuiet
  <2> QED BY <2>2, <2>3, WayQuietly
<1>6. CASE /\ Shared!OfferAccepted(backends)
           /\ carried' = Append(carried, [packet |-> 0, ce |-> FALSE])
  <2> DEFINE r == [packet |-> 0, ce |-> FALSE]
  <2>1. carried' = Append(carried, r)
    BY <1>6
  <2>2. r \in Records /\ r.packet = 0
    BY DEF Records
  <2> HIDE DEF r
  <2>3. Entered(backends) /\ backends \in In
    BY <1>3, <1>6, Entering DEF In
  <2>4. inputArrived' = inputArrived
    BY <2>3 DEF Entered
  <2>5. OnWay' = OnWay \cup {Len(carried) + 1}
    BY <1>3, <2>3, EnteredIsOnWay DEF WayInv, CarriedSound
  <2>6. FollowInv' /\ ClientArrivals' = ClientArrivals
    BY <2>1, <2>2, <2>4, FollowGrows
  <2>7. NumbersOf(Append(carried, r), OnWay \cup {Len(carried) + 1}) = NumbersOf(carried, OnWay)
    <3>1. \A x \in OnWay : x \in 1 .. Len(carried)
      BY <1>3, AdmittedAreCarried
    <3>2. carried \in Seq(Records)
      BY <1>3, CarriedTypes
    <3>3. NumbersOf(Append(carried, r), OnWay \cup {Len(carried) + 1}) =
            NumbersOf(carried, OnWay) \cup ({r.packet} \ {0})
      BY <2>2, <3>1, <3>2, NumbersGrow
    <3> QED BY <2>2, <3>3
  <2>8. ClientUnderway' = ClientUnderway
    BY <1>2, <1>3, <1>4, <2>1, <2>5, <2>7
  <2>9. WayQuiet
    BY <1>2, <2>6, <2>8 DEF WayQuiet
  <2> QED BY <2>6, <2>9, WayQuietly
<1> QED BY <1>1, <1>5, <1>6

-----------------------------------------------------------------------------

(* The input may lose a packet, of the client or a reply.                  *)
LEMMA InputSendsFollow ==
  ASSUME FollowInv, WayInv', InputSends
  PROVE  FollowInv' /\ [Way!Next]_(Way!vars)
<1>1. UNCHANGED vars /\ carried' = carried /\ Shared!Transmitted
  BY DEF InputSends, link
<1>2. accepted' = accepted /\ stopped' = stopped /\ underway' = underway
  BY <1>1 DEF vars, underway, Elements
<1>3. WayInv /\ SharedInv /\ ClientUnderway = underway \cup NumbersOf(carried, OnWay)
  BY UnderwayInNumbers DEF FollowInv, WayInv
<1>4. ClientUnderway' = underway' \cup NumbersOf(carried', OnWay')
  BY UnderwayInNumbersPrimed
<1>5. Sent
  BY <1>1, <1>3, Sending
<1>6. FollowInv' /\ ClientArrivals' = ClientArrivals
  <2>1. inputArrived' = inputArrived
    BY <1>5 DEF Sent
  <2> QED BY <1>1, <2>1, FollowKept
<1>7. CASE OnWay' = OnWay
  <2>1. WayQuiet
    BY <1>1, <1>2, <1>3, <1>4, <1>6, <1>7 DEF WayQuiet
  <2> QED BY <1>6, <2>1, WayQuietly
<1>8. CASE OnWay' = OnWay \ {inputSending}
  <2>0. PICK x : x = inputSending
    OBVIOUS
  <2>1. x \in OnWay
    BY <1>5, <2>0 DEF Sent, OnWay
  <2>2. ClientUnderway' = underway \cup NumbersOf(carried, OnWay \ {x})
    BY <1>1, <1>2, <1>4, <1>8, <2>0
  <2>3. CASE carried[x].packet = 0
    <3>1. NumbersOf(carried, OnWay \ {x}) = NumbersOf(carried, OnWay)
      BY <2>1, <2>3, NumberLeaves
    <3>2. WayQuiet
      BY <1>2, <1>3, <1>6, <2>2, <3>1 DEF WayQuiet
    <3> QED BY <1>6, <3>2, WayQuietly
  <2>4. CASE carried[x].packet # 0
    <3>0. PICK p : p = carried[x].packet
      OBVIOUS
    <3>1. /\ p \in NumbersOf(carried, OnWay) /\ p \notin underway
          /\ NumbersOf(carried, OnWay \ {x}) = NumbersOf(carried, OnWay) \ {p}
      BY <2>1, <2>4, <3>0, NumberLeaves
    <3>2. WayLoses(p)
      BY <1>2, <1>3, <1>6, <2>2, <3>1 DEF WayLoses
    <3> QED BY <1>6, <3>2, WayLosing
  <2> QED BY <2>3, <2>4
<1> QED BY <1>3, <1>5, <1>7, <1>8, SentFromTransmitter

(* What arrives is the oldest of the client's packets on both hops.        *)
LEMMA DeliveredFollow ==
  ASSUME FollowInv, WayInv', Delivered
  PROVE  FollowInv' /\ [Way!Next]_(Way!vars)
<1>0. PICK x : x = Head(inputTravelling)
  OBVIOUS
<1>1. UNCHANGED vars /\ carried' = carried /\ Shared!Arrive
  BY DEF Delivered, link
<1>2. accepted' = accepted /\ stopped' = stopped /\ underway' = underway
  BY <1>1 DEF vars, underway, Elements
<1>3. WayInv /\ SharedInv /\ ClientUnderway = underway \cup NumbersOf(carried, OnWay)
  BY UnderwayInNumbers DEF FollowInv, WayInv
<1>4. x \in OnWay /\ OnWay' = OnWay \ {x} /\ \A y \in OnWay : x <= y
  BY <1>0, <1>1, <1>3, ArrivalIsOldest
<1>5. /\ FollowInv'
      /\ ClientArrivals' = IF carried[x].packet = 0 THEN ClientArrivals
                           ELSE Append(ClientArrivals, carried[x].packet)
  BY <1>0, FollowArrives
<1>6. ClientUnderway' = underway \cup NumbersOf(carried, OnWay \ {x})
  <2>1. ClientUnderway' = underway' \cup NumbersOf(carried', OnWay')
    BY UnderwayInNumbersPrimed
  <2> QED BY <1>1, <1>2, <1>4, <2>1
<1>7. CASE carried[x].packet = 0
  <2>1. NumbersOf(carried, OnWay \ {x}) = NumbersOf(carried, OnWay)
    BY <1>4, <1>7, NumberLeaves
  <2>2. WayQuiet
    BY <1>2, <1>3, <1>5, <1>6, <1>7, <2>1 DEF WayQuiet
  <2> QED BY <1>5, <2>2, WayQuietly
<1>8. CASE carried[x].packet # 0
  <2>0. PICK p : p = carried[x].packet
    OBVIOUS
  <2>1. /\ p \in NumbersOf(carried, OnWay) /\ p \notin underway
        /\ NumbersOf(carried, OnWay \ {x}) = NumbersOf(carried, OnWay) \ {p}
    BY <1>4, <1>8, <2>0, NumberLeaves
  <2>2. p \in ClientUnderway /\ ClientUnderway' = ClientUnderway \ {p}
    BY <1>3, <1>6, <2>1
  <2>3. \A y \in OnWay : /\ y \in 1 .. Len(carried) /\ y \in Nat
                         /\ carried[y].packet \in Nat
    BY <1>3, AdmittedAreCarried, CarriedTypes
  <2>4. p \in Nat
    BY <1>4, <2>0, <2>3
  <2>5. \A q \in underway : p <= q
    <3> SUFFICES ASSUME NEW q \in underway PROVE p <= q
      OBVIOUS
    <3>1. carried[x].packet < q
      BY <1>3, <1>4, <2>3 DEF WayInv, CarriedSound
    <3>2. q \in Nat
      BY <1>3, UnderwayNumbers DEF WayInv
    <3> QED BY <2>0, <2>4, <3>1, <3>2
  <2>6. \A y \in OnWay : carried[y].packet # 0 => p <= carried[y].packet
    <3> SUFFICES ASSUME NEW y \in OnWay, carried[y].packet # 0 PROVE p <= carried[y].packet
      OBVIOUS
    <3>1. CASE y = x
      BY <2>0, <2>4, <3>1
    <3>2. CASE y # x
      <4>1. x < y
        BY <1>4, <2>3, <3>2
      <4>2. carried[x].packet < carried[y].packet
        BY <1>4, <1>8, <2>3, <4>1 DEF FollowInv, CarriedOrdered
      <4>3. carried[y].packet \in Nat
        BY <2>3
      <4> QED BY <2>0, <2>4, <4>2, <4>3
    <3> QED BY <3>1, <3>2
  <2>7. \A q \in NumbersOf(carried, OnWay) : p <= q
    BY <2>6 DEF NumbersOf
  <2>8. \A q \in ClientUnderway : p <= q
    BY <1>3, <2>5, <2>7
  <2>9. ClientArrivals' = Append(ClientArrivals, p)
    BY <1>5, <1>8, <2>0
  <2>10. Way!Arrive
    BY <1>2, <2>2, <2>8, <2>9 DEF Way!Arrive
  <2> QED BY <1>5, <2>10 DEF Way!Next
<1> QED BY <1>7, <1>8

(* When the world stops nothing is under way on either hop.                *)
LEMMA StopFollow ==
  ASSUME FollowInv, WayInv', StopWorld
  PROVE  FollowInv' /\ [Way!Next]_(Way!vars)
<1>1. DiscardPending /\ Shared!DiscardPending /\ carried' = carried
  BY DEF StopWorld
<1>2. inputArrived' = inputArrived
  BY <1>1 DEF Shared!DiscardPending, Shared!history
<1>3. FollowInv' /\ ClientArrivals' = ClientArrivals
  BY <1>1, <1>2, FollowKept
<1>4. underway' = {}
  <2>1. Len(pipe') = 0 /\ Len(queue') = 0 /\ current' = 0
    BY <1>1 DEF DiscardPending
  <2> QED BY <2>1 DEF underway, Elements
<1>5. OnWay' = {}
  <2>1. /\ inputSending' = 0 /\ inputTravelling' = << >>
        /\ \A i \in In : inputQueue'[i] = << >>
    BY <1>1 DEF Shared!DiscardPending, In
  <2> QED BY <2>1, NothingLeft DEF OnWay, Waiting, In
<1>6. ClientUnderway' = {}
  <2>1. ClientUnderway' = underway' \cup NumbersOf(carried', OnWay')
    BY UnderwayInNumbersPrimed
  <2> QED BY <1>4, <1>5, <2>1 DEF NumbersOf
<1>7. accepted' = accepted /\ stopped = FALSE /\ stopped' = TRUE
  BY <1>1 DEF DiscardPending, FollowInv, WayInv, IInv, TypeOK
<1>8. Way!Close
  BY <1>3, <1>6, <1>7 DEF Way!Close
<1> QED BY <1>3, <1>8 DEF Way!Next

(* When nothing happens nothing is lost.                                   *)
LEMMA StandingFollows ==
  ASSUME FollowInv, WayInv', UNCHANGED way
  PROVE  FollowInv' /\ [Way!Next]_(Way!vars)
<1>1. WayInv /\ UNCHANGED input /\ UNCHANGED vars /\ carried' = carried
  BY DEF FollowInv, way, link
<1>2. inputArrived' = inputArrived /\ underway' = underway
  BY <1>1 DEF input, vars, underway, Elements
<1>3. FollowInv' /\ ClientArrivals' = ClientArrivals
  BY <1>1, <1>2, FollowKept
<1>4. ClientUnderway' = ClientUnderway
  BY <1>1, <1>2, UnderwayInNumbers, InputAlone
<1>5. WayQuiet
  BY <1>1, <1>3, <1>4 DEF vars, WayQuiet
<1> QED BY <1>3, <1>5, WayQuietly

(* Initially nothing is carried, and nothing is under way.                 *)
LEMMA FollowInitially ==
  ASSUME WayInit
  PROVE  FollowInv /\ Way!Init
<1>1. WayInv
  BY WayInitially
<1>2. /\ carried = << >> /\ inputArrived = << >> /\ accepted = 0 /\ stopped = FALSE
      /\ inputSending = 0 /\ inputTravelling = << >>
      /\ \A i \in In : inputQueue[i] = << >>
      /\ Len(pipe) = 0 /\ Len(queue) = 0 /\ current = 0
  BY DEF WayInit, Init, Shared!Init, In
<1>3. CarriedOrdered
  <2>1. Len(carried) = 0
    BY <1>2
  <2> QED BY <2>1 DEF CarriedOrdered
<1>4. Positive(Numbers) = {}
  <2>1. DOMAIN inputArrived = {}
    BY <1>2
  <2> QED BY <2>1 DEF Positive, Numbers
<1>5. Cardinality(Positive(Numbers)) = 0
  BY <1>4, FS_EmptySet
<1>6. PlacesTaken(Positive(Numbers))
  BY <1>5 DEF PlacesTaken
<1>7. ClientArrivals = << >>
  <2>1. ClientArrivals = [k \in 1 .. 0 |-> Numbers[CHOOSE i \in AtPlace(Positive(Numbers), k) : TRUE]]
    BY <1>5 DEF ClientArrivals, ElementsAt
  <2> QED BY <2>1
<1>8. ClientUnderway = {}
  <2>1. underway = {}
    BY <1>2 DEF underway, Elements
  <2>2. OnWay = {}
    BY <1>2, NothingLeft DEF OnWay, Waiting, In
  <2> QED BY <1>1, <2>1, <2>2, UnderwayInNumbers DEF NumbersOf
<1> QED BY <1>1, <1>2, <1>3, <1>6, <1>7, <1>8 DEF FollowInv, Way!Init

(* End to end, what a client sends over its own link and the shared input  *)
(* reaches the balancer at most once and in order, whatever is dropped or  *)
(* lost on either hop and however its packets alternate with the replies   *)
(* (clients.go:157-166, link.go, ingress.go: dispatch).                    *)
THEOREM WayIsLossyFifo == WaySpec => WayIsFifo
<1>1. WayInit => FollowInv /\ Way!Init
  BY FollowInitially
<1>2. FollowInv /\ WayInv' /\ [WayNext]_way => FollowInv' /\ [Way!Next]_(Way!vars)
  BY ClientSendsFollow, LinkSendsFollow, HandOverFollow, ReplyFollow, InputSendsFollow,
     DeliveredFollow, StopFollow, StandingFollows DEF WayNext
<1>3. WaySpec => Way!Spec
  BY <1>1, <1>2, WayInvariant, PTL DEF WaySpec, Way!Spec
<1> QED BY <1>3, HopsAreFifos, PTL DEF WayIsFifo
=============================================================================
