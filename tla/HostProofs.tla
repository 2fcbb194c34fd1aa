----------------------------- MODULE HostProofs -----------------------------
(***************************************************************************)
(* Proofs about Host for any number of cores, any queue size, any          *)
(* processing time and any number of packets, and about Backend, whose CPU *)
(* is a Host, for any intervals of the health check.                       *)
(***************************************************************************)
EXTENDS Backend, FiniteSetTheorems, SequenceTheorems, TLAPS

(* What is on a core is finite, so its size is a number.                   *)
LEMMA ActiveIsFinite ==
  ASSUME NEW S \in SUBSET Packets
  PROVE  IsFiniteSet(S) /\ Cardinality(S) \in Nat
<1>1. IsFiniteSet(Packets)
  BY HostAssumption, FS_Interval DEF Packets
<1> QED BY <1>1, FS_Subset, FS_CardinalityType

LEMMA Adding ==
  ASSUME NEW S \in SUBSET Packets, NEW p, p \notin S
  PROVE  Cardinality(S \cup {p}) = Cardinality(S) + 1
BY ActiveIsFinite, FS_AddElement

LEMMA Removing ==
  ASSUME NEW S \in SUBSET Packets, NEW p \in S
  PROVE  Cardinality(S \ {p}) = Cardinality(S) - 1
BY ActiveIsFinite, FS_RemoveElement

(* The queue after its oldest packet left it.                              *)
LEMMA Popped ==
  ASSUME NEW q \in Seq(Packets), q # << >>
  PROVE  /\ Head(q) = q[1] /\ Head(q) \in Packets
         /\ Len(q) \in Nat /\ Len(q) >= 1
         /\ Tail(q) \in Seq(Packets) /\ Len(Tail(q)) = Len(q) - 1
         /\ \A i \in 1 .. Len(Tail(q)) : i + 1 \in 1 .. Len(q) /\ Tail(q)[i] = q[i + 1]
<1>1. Len(q) \in Nat /\ Len(q) >= 1
  BY EmptySeq
<1>2. Head(q) = q[1] /\ q[1] \in Packets
  BY <1>1, ElementOfSeq
<1>3. Tail(q) \in Seq(Packets) /\ Len(Tail(q)) = Len(q) - 1
  BY HeadTailProperties
<1>4. \A i \in 1 .. Len(Tail(q)) : i + 1 \in 1 .. Len(q)
  BY <1>1, <1>3
<1>5. \A i \in 1 .. Len(Tail(q)) : Tail(q)[i] = q[i + 1]
  BY <1>1, <1>3, HeadTailProperties
<1> QED BY <1>1, <1>2, <1>3, <1>4, <1>5

(* The queue after a packet joined it.                                     *)
LEMMA Joined ==
  ASSUME NEW q \in Seq(Packets), NEW p \in Packets
  PROVE  /\ Append(q, p) \in Seq(Packets) /\ Append(q, p) # << >>
         /\ Len(q) \in Nat /\ Len(Append(q, p)) = Len(q) + 1
         /\ \A i \in 1 .. Len(q) : Append(q, p)[i] = q[i]
         /\ Append(q, p)[Len(q) + 1] = p
BY AppendProperties, EmptySeq

(* The accounting: closing an interval does not change what is reported.   *)
LEMMA Accounted ==
  ASSUME IInv, AccountBusyTime, UNCHANGED <<now, occupied>>,
         active' \in SUBSET Packets
  PROVE  /\ BusyTimeIsTrue' /\ busyTime' \in Nat /\ accountedAt' \in 0 .. now
<1>1. /\ Cardinality(active) \in Nat /\ Cardinality(active') \in Nat
      /\ now \in Nat /\ accountedAt \in Nat /\ busyTime \in Nat /\ occupied \in Nat
  BY ActiveIsFinite, HostAssumption DEF IInv, TypeOK
<1>2. busyTime' = occupied /\ accountedAt' = now
  BY DEF IInv, BusyTimeIsTrue, ReportedBusyTime, AccountBusyTime
<1>3. (now - now) * Cardinality(active') = 0
  BY <1>1
<1> QED BY <1>1, <1>2, <1>3 DEF BusyTimeIsTrue, ReportedBusyTime

(* The parts about waiting, when a packet leaves the queue's head.         *)
LEMMA StepKeeps ==
  ASSUME IInv, [Next]_vars
  PROVE  IInv'
<1> USE HostAssumption
<1>0. /\ Cardinality(active) \in Nat /\ Len(queue) \in Nat
      /\ offered \in Nat /\ accepted \in Nat /\ now \in Nat
      /\ active \in SUBSET Packets /\ queue \in Seq(Packets)
  BY ActiveIsFinite DEF IInv, TypeOK
<1>a. /\ cost \in Nat /\ started \in Nat /\ processed \in Nat
      /\ queueDropped \in Nat /\ discarded \in Nat /\ maxQueueWait \in Nat
  BY DEF IInv, TypeOK
<1>d. since \in [Packets -> Nat] /\ due \in [Packets -> Nat]
  BY DEF IInv, TypeOK
<1>b. /\ offered = accepted + queueDropped
      /\ accepted = processed + discarded + Cardinality(active) + Len(queue)
  BY DEF IInv, Conservation
<1>c. /\ queue # << >> => Cardinality(active) = Cores
      /\ Cardinality(active) <= Cores /\ Len(queue) <= QueueCapacity
  BY DEF IInv, NoIdleCore
<1>1. CASE SubmitBypass /\ UNCHANGED cost
  <2> USE <1>1 DEF SubmitBypass, timeVars
  <2>1. TypeOK'
    <3>1. accepted + 1 \in 0 .. MaxOffered /\ offered + 1 \in 0 .. MaxOffered
      BY SMTT(60) DEF IInv, TypeOK, Conservation
    <3> QED BY <3>1 DEF IInv, TypeOK
  <2>2. Conservation' /\ NoIdleCore'
    <3>1. Conservation'
      <4>1. /\ offered' = offered + 1 /\ accepted' = accepted + 1
            /\ processed' = processed + 1
            /\ UNCHANGED <<discarded, queueDropped, queue, active>>
        OBVIOUS
      <4> HIDE <1>1 DEF SubmitBypass
      <4>2. offered' = accepted' + queueDropped'
        <5>1. offered + 1 = (accepted + 1) + queueDropped
          BY <1>0, <1>a, <1>b
        <5> QED BY <4>1, <5>1
      <4>3. accepted' = processed' + discarded' + Cardinality(active') + Len(queue')
        <5>1. accepted + 1 = (processed + 1) + discarded + Cardinality(active) + Len(queue)
          BY <1>0, <1>a, <1>b
        <5> QED BY <4>1, <5>1
      <4> QED BY <4>2, <4>3 DEF Conservation
    <3>2. NoIdleCore'
      BY <1>c DEF NoIdleCore
    <3> QED BY <3>1, <3>2
  <2>3. ServedInOrder'
    BY DEF IInv, ServedInOrder
  <2>4. Numbered'
    <3>1. \A p \in Packets : p <= accepted => p <= accepted'
      BY <1>0 DEF Packets
    <3>2. \A i \in 1 .. Len(queue) : queue[i] \in Packets
      BY <1>0, ElementOfSeq
    <3> QED BY <1>0, <3>1, <3>2 DEF IInv, Numbered
  <2>5. BusyTimeIsTrue' /\ MaxQueueWaitIsTrue'
    BY DEF IInv, BusyTimeIsTrue, ReportedBusyTime, MaxQueueWaitIsTrue, ReportedMaxQueueWait
  <2> QED BY <2>1, <2>2, <2>3, <2>4, <2>5 DEF IInv
<1>2. CASE SubmitStarts /\ UNCHANGED cost
  <2> DEFINE n == accepted + 1
  <2>1. /\ n \in Packets /\ n \notin active /\ queue = << >>
        /\ offered + 1 \in 0 .. MaxOffered
    <3>1. n \in Packets /\ offered + 1 \in 0 .. MaxOffered
      <4>1. offered < MaxOffered /\ accepted <= offered /\ MaxOffered \in Nat
        BY <1>0, <1>2, <1>a, <1>b DEF SubmitStarts
      <4> QED BY <1>0, <4>1 DEF Packets
    <3>2. queue = << >>
      BY <1>0, <1>2 DEF SubmitStarts, IInv, NoIdleCore
    <3>3. n \notin active
      BY <1>0 DEF IInv, Numbered
    <3> QED BY <3>1, <3>2, <3>3
  <2>2. /\ active' \in SUBSET Packets /\ Cardinality(active') = Cardinality(active) + 1
        /\ active' = active \cup {n}
    BY <1>0, <1>2, <2>1, Adding DEF SubmitStarts
  <2>3. BusyTimeIsTrue' /\ busyTime' \in Nat /\ accountedAt' \in 0 .. now
    BY <1>2, <2>2, Accounted DEF SubmitStarts
  <2>4. /\ since' \in [Packets -> Nat] /\ due' \in [Packets -> Nat]
    BY <1>0, <1>2, <2>1 DEF SubmitStarts, IInv, TypeOK
  <2>5. TypeOK'
    <3>1. accepted' \in 0 .. MaxOffered /\ offered' \in 0 .. MaxOffered /\ started' \in Nat
      BY <1>0, <1>2, <2>1 DEF SubmitStarts, IInv, TypeOK, Packets
    <3> QED BY <1>2, <2>2, <2>3, <2>4, <3>1 DEF SubmitStarts, IInv, TypeOK
  <2>6. Conservation' /\ NoIdleCore'
    <3>1. Conservation'
      <4>1. /\ offered' = offered + 1 /\ accepted' = accepted + 1
            /\ UNCHANGED <<processed, discarded, queueDropped, queue>>
        BY <1>2 DEF SubmitStarts
      <4>2. offered' = accepted' + queueDropped'
        <5>1. offered + 1 = (accepted + 1) + queueDropped
          BY <1>0, <1>a, <1>b
        <5> QED BY <4>1, <5>1
      <4>3. accepted' = processed' + discarded' + Cardinality(active') + Len(queue')
        <5>1. accepted + 1 = processed + discarded + (Cardinality(active) + 1) + Len(queue)
          BY <1>0, <1>a, <1>b
        <5> QED BY <2>2, <4>1, <5>1
      <4> QED BY <4>2, <4>3 DEF Conservation
    <3>2. NoIdleCore'
      BY <1>c, <1>0, <1>2, <2>1, <2>2 DEF SubmitStarts, NoIdleCore
    <3> QED BY <3>1, <3>2
  <2>7. ServedInOrder' /\ MaxQueueWaitIsTrue'
    BY <1>2, <2>1 DEF SubmitStarts, IInv, ServedInOrder, MaxQueueWaitIsTrue,
       ReportedMaxQueueWait
  <2>8. Numbered'
    <3>1. \A p \in active' : p <= accepted'
      BY <1>0, <1>2, <2>2 DEF SubmitStarts, IInv, Numbered, Packets
    <3> QED BY <1>2, <2>1, <3>1 DEF SubmitStarts, Numbered
  <2> QED BY <2>3, <2>5, <2>6, <2>7, <2>8 DEF IInv
<1>3. CASE SubmitDrops /\ UNCHANGED cost
  <2> USE <1>3 DEF SubmitDrops, timeVars
  <2>1. TypeOK'
    BY DEF IInv, TypeOK
  <2>2. Conservation' /\ NoIdleCore'
    <3>1. Conservation'
      BY <1>0, <1>a, <1>b DEF Conservation
    <3>2. NoIdleCore'
      BY <1>c DEF NoIdleCore
    <3> QED BY <3>1, <3>2
  <2>3. ServedInOrder' /\ Numbered'
    BY DEF IInv, ServedInOrder, Numbered
  <2>4. BusyTimeIsTrue' /\ MaxQueueWaitIsTrue'
    BY DEF IInv, BusyTimeIsTrue, ReportedBusyTime, MaxQueueWaitIsTrue, ReportedMaxQueueWait
  <2> QED BY <2>1, <2>2, <2>3, <2>4 DEF IInv
<1>4. CASE SubmitWaits /\ UNCHANGED cost
  <2> DEFINE n == accepted + 1
  <2>1. n \in Packets /\ offered + 1 \in 0 .. MaxOffered
    <3>1. offered < MaxOffered /\ accepted <= offered /\ MaxOffered \in Nat
      BY <1>0, <1>4, <1>a, <1>b, SMTT(60) DEF SubmitWaits
    <3> QED BY <1>0, <3>1 DEF Packets
  <2>2. /\ queue' \in Seq(Packets) /\ queue' # << >> /\ Len(queue') = Len(queue) + 1
        /\ \A i \in 1 .. Len(queue) : queue'[i] = queue[i]
        /\ queue'[Len(queue) + 1] = n
    BY <1>0, <1>4, <2>1, Joined DEF SubmitWaits
  <2>3. /\ since' \in [Packets -> Nat] /\ since'[n] = now
        /\ \A p \in Packets : p # n => since'[p] = since[p]
    BY <1>0, <1>4, <2>1 DEF SubmitWaits, IInv, TypeOK
  <2>4. \A i \in 1 .. Len(queue) : queue[i] \in Packets /\ queue[i] <= accepted
    BY <1>0, ElementOfSeq DEF IInv, Numbered
  <2>5. \A i \in 1 .. Len(queue) : queue[i] < n /\ since'[queue[i]] = since[queue[i]]
    BY <1>0, <2>3, <2>4, SMTT(60) DEF Packets
  <2>6. TypeOK'
    <3>1. accepted' \in 0 .. MaxOffered /\ offered' \in 0 .. MaxOffered
      BY <1>4, <2>1 DEF SubmitWaits, Packets
    <3> QED BY <1>4, <2>2, <2>3, <3>1 DEF SubmitWaits, IInv, TypeOK, timeVars
  <2>7. Conservation' /\ NoIdleCore'
    <3>1. Conservation'
      <4>1. /\ offered' = offered + 1 /\ accepted' = accepted + 1
            /\ UNCHANGED <<processed, discarded, queueDropped, active>>
        BY <1>4 DEF SubmitWaits
      <4>2. offered' = accepted' + queueDropped'
        <5>1. offered + 1 = (accepted + 1) + queueDropped
          BY <1>0, <1>a, <1>b
        <5> QED BY <4>1, <5>1
      <4>3. accepted' = processed' + discarded' + Cardinality(active') + Len(queue')
        <5>1. accepted + 1 = processed + discarded + Cardinality(active) + (Len(queue) + 1)
          BY <1>0, <1>a, <1>b
        <5> QED BY <2>2, <4>1, <5>1
      <4> QED BY <4>2, <4>3 DEF Conservation
    <3>2. NoIdleCore'
      BY <1>c, <1>0, <1>4, <2>2 DEF SubmitWaits, NoIdleCore
    <3> QED BY <3>1, <3>2
  <2>8. \A i \in 1 .. Len(queue') : i \in 1 .. Len(queue) \/ i = Len(queue) + 1
    BY <1>0, <2>2
  <2>9. ServedInOrder'
    <3>1. \A i \in 1 .. Len(queue') : \A p \in active' : p < queue'[i]
      BY <1>0, <1>4, <2>2, <2>8 DEF SubmitWaits, IInv, ServedInOrder, Numbered, Packets
    <3>2. \A i, j \in 1 .. Len(queue') : i < j => queue'[i] < queue'[j]
      BY <1>0, <2>2, <2>5, <2>8 DEF IInv, ServedInOrder
    <3> QED BY <3>1, <3>2 DEF ServedInOrder
  <2>10. Numbered'
    <3>1. /\ \A p \in active' : p <= accepted'
      BY <1>0, <1>4 DEF SubmitWaits, IInv, Numbered, Packets
    <3>2. \A i \in 1 .. Len(queue') : queue'[i] <= accepted' /\ since'[queue'[i]] <= now'
      BY <1>0, <1>4, <2>2, <2>3, <2>4, <2>5, <2>8 DEF SubmitWaits, IInv, Numbered, Packets
    <3>3. \A i, j \in 1 .. Len(queue') : i < j => since'[queue'[i]] <= since'[queue'[j]]
      <4>1. \A i \in 1 .. Len(queue) : since[queue[i]] <= now
        BY DEF IInv, Numbered
      <4>2. \A i, j \in 1 .. Len(queue) : i < j => since[queue[i]] <= since[queue[j]]
        BY DEF IInv, Numbered
      <4>3. SUFFICES ASSUME NEW i \in 1 .. Len(queue'), NEW j \in 1 .. Len(queue'), i < j
                     PROVE  since'[queue'[i]] <= since'[queue'[j]]
        OBVIOUS
      <4>4. i \in 1 .. Len(queue)
        BY <1>0, <2>2, <4>3
      <4>5. since'[queue'[i]] = since[queue[i]]
        BY <2>2, <2>5, <4>4
      <4>6. CASE j \in 1 .. Len(queue)
        BY <2>2, <2>5, <4>2, <4>3, <4>4, <4>5, <4>6
      <4>7. CASE j = Len(queue) + 1
        BY <2>2, <2>3, <4>1, <4>4, <4>5, <4>7
      <4> QED BY <2>8, <4>3, <4>6, <4>7
    <3> QED BY <3>1, <3>2, <3>3 DEF Numbered
  <2>11. BusyTimeIsTrue'
    BY <1>4 DEF SubmitWaits, timeVars, IInv, BusyTimeIsTrue, ReportedBusyTime
  <2>12. MaxQueueWaitIsTrue'
    <3>1. Head(queue') = queue'[1]
      BY <2>2, Popped
    <3>2. CASE queue = << >>
      BY <1>0, <1>4, <2>2, <2>3, <3>1, <3>2 DEF SubmitWaits, IInv, TypeOK,
         MaxQueueWaitIsTrue, ReportedMaxQueueWait, Larger
    <3>3. CASE queue # << >>
      <4>1. Head(queue) = queue[1] /\ 1 \in 1 .. Len(queue)
        BY <1>0, <3>3, Popped
      <4>2. Head(queue') = Head(queue) /\ since'[Head(queue)] = since[Head(queue)]
        BY <2>2, <2>5, <3>1, <4>1
      <4> QED BY <1>4, <2>2, <3>3, <4>2 DEF SubmitWaits, IInv, MaxQueueWaitIsTrue,
           ReportedMaxQueueWait
    <3> QED BY <3>2, <3>3
  <2> QED BY <2>6, <2>7, <2>9, <2>10, <2>11, <2>12 DEF IInv
<1>5. ASSUME NEW p \in Packets, Complete(p), UNCHANGED cost, queue = << >>
      PROVE  IInv'
  <2>1. /\ active' \in SUBSET Packets /\ Cardinality(active') = Cardinality(active) - 1
        /\ active' \subseteq active
    BY <1>0, <1>5, Removing DEF Complete
  <2>2. BusyTimeIsTrue' /\ busyTime' \in Nat /\ accountedAt' \in 0 .. now
    BY <1>5, <2>1, Accounted DEF Complete
  <2>3. TypeOK'
    BY <1>5, <2>1, <2>2 DEF Complete, IInv, TypeOK
  <2>4. Conservation' /\ NoIdleCore'
    <3>1. Conservation'
      BY <1>a, <1>b, <1>0, <1>5, <2>1 DEF Complete, Conservation
    <3>2. NoIdleCore'
      BY <1>c, <1>0, <1>5, <2>1 DEF Complete, NoIdleCore
    <3> QED BY <3>1, <3>2
  <2>5. ServedInOrder' /\ Numbered' /\ MaxQueueWaitIsTrue'
    BY <1>5, <2>1 DEF Complete, IInv, ServedInOrder, Numbered, MaxQueueWaitIsTrue,
       ReportedMaxQueueWait
  <2> QED BY <2>2, <2>3, <2>4, <2>5 DEF IInv
<1>6. ASSUME NEW p \in Packets, Complete(p), UNCHANGED cost, queue # << >>
      PROVE  IInv'
  <2> DEFINE h == Head(queue)
  <2>1. /\ h = queue[1] /\ h \in Packets /\ Len(queue) >= 1 /\ 1 \in 1 .. Len(queue)
        /\ queue' = Tail(queue)
        /\ queue' \in Seq(Packets) /\ Len(queue') = Len(queue) - 1
        /\ \A i \in 1 .. Len(queue') : i + 1 \in 1 .. Len(queue) /\ queue'[i] = queue[i + 1]
    <3>1. queue' = Tail(queue)
      BY <1>6 DEF Complete
    <3>2. /\ h = queue[1] /\ h \in Packets /\ Len(queue) >= 1
          /\ Tail(queue) \in Seq(Packets) /\ Len(Tail(queue)) = Len(queue) - 1
          /\ \A i \in 1 .. Len(Tail(queue)) :
               i + 1 \in 1 .. Len(queue) /\ Tail(queue)[i] = queue[i + 1]
      BY <1>0, <1>6, Popped
    <3> QED BY <1>0, <3>1, <3>2
  <2>2. h \notin active
    BY <1>0, <2>1 DEF IInv, ServedInOrder, Packets
  <2>3. /\ active' = (active \ {p}) \cup {h} /\ active' \in SUBSET Packets
        /\ Cardinality(active') = Cardinality(active)
    <3>1. Cardinality(active \ {p}) = Cardinality(active) - 1
      BY <1>0, <1>6, Removing DEF Complete
    <3>2. Cardinality((active \ {p}) \cup {h}) = Cardinality(active \ {p}) + 1
      BY <1>0, <2>2, Adding
    <3>3. active' = (active \ {p}) \cup {h}
      BY <1>6 DEF Complete
    <3> QED BY <1>0, <2>1, <3>1, <3>2, <3>3
  <2>4. BusyTimeIsTrue' /\ busyTime' \in Nat /\ accountedAt' \in 0 .. now
    BY <1>6, <2>3, Accounted DEF Complete
  <2>5. /\ due' \in [Packets -> Nat] /\ maxQueueWait' \in Nat /\ started' \in Nat
    <3>1. since[h] \in Nat /\ since[h] <= now
      BY <2>1 DEF IInv, TypeOK, Numbered
    <3>2. due' = [due EXCEPT ![h] = now + cost] /\ now + cost \in Nat
      BY <1>0, <1>6, <1>a DEF Complete
    <3>3. due' \in [Packets -> Nat]
      BY <1>d, <2>1, <3>2
    <3>4. maxQueueWait' \in Nat /\ started' \in Nat
      BY <1>0, <1>6, <1>a, <3>1 DEF Complete, Larger
    <3> QED BY <3>3, <3>4
  <2>6. TypeOK'
    <3>1. UNCHANGED <<cost, now, since, stopped, offered, accepted, queueDropped,
                      discarded, occupied, longest>> /\ processed' \in Nat
      BY <1>6, <1>a DEF Complete
    <3> QED BY <2>1, <2>3, <2>4, <2>5, <3>1 DEF IInv, TypeOK
  <2>7. Conservation' /\ NoIdleCore'
    <3>1. Conservation'
      <4>1. /\ processed' = processed + 1
            /\ UNCHANGED <<offered, accepted, discarded, queueDropped>>
        BY <1>6 DEF Complete
      <4>2. Cardinality(active') = Cardinality(active) /\ Len(queue') = Len(queue) - 1
        BY <2>1, <2>3
      <4> QED BY <1>0, <1>a, <1>b, <4>1, <4>2 DEF Conservation
    <3>2. NoIdleCore'
      <4>1. Cardinality(active') = Cardinality(active) /\ Len(queue') = Len(queue) - 1
        BY <2>1, <2>3
      <4>2. Cardinality(active) = Cores
        BY <1>6, <1>c
      <4> QED BY <1>0, <1>c, <4>1, <4>2 DEF NoIdleCore
    <3> QED BY <3>1, <3>2
  <2>8. \A i \in 1 .. Len(queue') : 1 < i + 1
    BY <1>0, <2>1
  <2>9. ServedInOrder'
    <3>1. ASSUME NEW i \in 1 .. Len(queue') PROVE \A q \in active' : q < queue'[i]
      BY <1>0, <2>1, <2>3, <2>8, <3>1 DEF IInv, ServedInOrder
    <3>2. ASSUME NEW i \in 1 .. Len(queue'), NEW j \in 1 .. Len(queue'), i < j
          PROVE  queue'[i] < queue'[j]
      BY <1>0, <2>1, <3>2 DEF IInv, ServedInOrder
    <3> QED BY <3>1, <3>2 DEF ServedInOrder
  <2>10. Numbered'
    <3>1. \A q \in active' : q <= accepted
      BY <2>1, <2>3 DEF IInv, Numbered
    <3>2. ASSUME NEW i \in 1 .. Len(queue')
          PROVE  queue'[i] <= accepted /\ since[queue'[i]] <= now
      BY <2>1, <3>2 DEF IInv, Numbered
    <3>3. ASSUME NEW i \in 1 .. Len(queue'), NEW j \in 1 .. Len(queue'), i < j
          PROVE  since[queue'[i]] <= since[queue'[j]]
      BY <1>0, <2>1, <3>3 DEF IInv, Numbered
    <3> QED BY <1>6, <3>1, <3>2, <3>3 DEF Complete, Numbered
  <2>11. MaxQueueWaitIsTrue'
    <3>1. maxQueueWait' = longest
      BY <1>6 DEF Complete, IInv, MaxQueueWaitIsTrue, ReportedMaxQueueWait
    <3>2. CASE queue' = << >>
      BY <1>6, <3>1, <3>2 DEF Complete, MaxQueueWaitIsTrue, ReportedMaxQueueWait
    <3>3. CASE queue' # << >>
      <4>1. Head(queue') = queue'[1] /\ 1 \in 1 .. Len(queue') /\ Head(queue') \in Packets
        BY <2>1, <3>3, Popped
      <4>2. since[h] <= since[Head(queue')]
        BY <1>0, <2>1, <4>1, <2>8 DEF IInv, Numbered
      <4>3. now - since[Head(queue')] <= now - since[h]
        BY <1>0, <2>1, <4>1, <4>2 DEF IInv, TypeOK
      <4>4. now - since[h] <= maxQueueWait'
        <5>1. maxQueueWait' = Larger(maxQueueWait, now - since[h]) /\ since[h] \in Nat
          BY <1>6, <1>d, <2>1 DEF Complete
        <5> QED BY <1>0, <1>a, <5>1 DEF Larger
      <4>5. Larger(maxQueueWait', now - since[Head(queue')]) = maxQueueWait'
        BY <1>0, <2>1, <2>5, <4>1, <4>3, <4>4, SMTT(60) DEF Larger, IInv, TypeOK
      <4> QED BY <1>6, <3>1, <3>3, <4>5 DEF Complete, MaxQueueWaitIsTrue,
           ReportedMaxQueueWait
    <3> QED BY <3>2, <3>3
  <2> QED BY <2>4, <2>6, <2>7, <2>9, <2>10, <2>11 DEF IInv
<1>7. CASE (DiscardPending \/ Stop) /\ UNCHANGED cost
  <2>1. /\ active' = {} /\ queue' = << >> /\ Cardinality(active') = 0
        /\ active' \in SUBSET Packets /\ queue' \in Seq(Packets)
    BY <1>7, FS_EmptySet, EmptySeq DEF DiscardPending, Stop, Discard
  <2>2. BusyTimeIsTrue' /\ busyTime' \in Nat /\ accountedAt' \in 0 .. now
    BY <1>7, <2>1, Accounted DEF DiscardPending, Stop, Discard
  <2>3. maxQueueWait' = longest /\ UNCHANGED <<now, longest, since, accepted>>
    BY <1>7 DEF DiscardPending, Stop, Discard, IInv, MaxQueueWaitIsTrue
  <2>4. TypeOK'
    <3>1. discarded' \in Nat
      BY <1>0, <1>7, <1>a DEF DiscardPending, Stop, Discard
    <3>2. /\ UNCHANGED <<cost, now, since, due, offered, accepted, started, processed,
                         queueDropped, occupied, longest>>
          /\ stopped' \in BOOLEAN
      BY <1>7 DEF DiscardPending, Stop, Discard, IInv, TypeOK
    <3> QED BY <2>1, <2>2, <2>3, <3>1, <3>2 DEF IInv, TypeOK
  <2>5. Conservation' /\ NoIdleCore'
    <3>1. Conservation'
      BY <1>0, <1>7, <1>a, <1>b, <2>1, SMTT(60) DEF DiscardPending, Stop, Discard, Conservation
    <3>2. NoIdleCore'
      BY <2>1 DEF NoIdleCore
    <3> QED BY <3>1, <3>2
  <2>6. ServedInOrder' /\ Numbered' /\ MaxQueueWaitIsTrue'
    BY <2>1, <2>3 DEF ServedInOrder, Numbered, MaxQueueWaitIsTrue, ReportedMaxQueueWait
  <2> QED BY <2>2, <2>4, <2>5, <2>6 DEF IInv
<1>8. CASE Tick /\ UNCHANGED cost
  <2>1. /\ now' = now + 1 /\ UNCHANGED <<queue, active, since, accepted>>
    BY <1>8 DEF Tick, counters
  <2>2. queue # << >> => /\ Head(queue) = queue[1] /\ 1 \in 1 .. Len(queue)
                         /\ since[Head(queue)] \in Nat /\ since[Head(queue)] <= now
    BY <1>0, Popped DEF IInv, TypeOK, Numbered
  <2>3. TypeOK'
    BY <1>0, <1>8, <2>2, SMTT(60) DEF Tick, counters, timeVars, IInv, TypeOK, Larger
  <2>4. Conservation' /\ NoIdleCore' /\ ServedInOrder'
    BY <1>8 DEF Tick, counters, IInv, Conservation, NoIdleCore, ServedInOrder
  <2>5. Numbered'
    <3>1. \A i \in 1 .. Len(queue) : since[queue[i]] <= now + 1
      <4>1. \A i \in 1 .. Len(queue) : since[queue[i]] \in Nat
        BY <1>0, ElementOfSeq DEF IInv, TypeOK
      <4> QED BY <1>0, <4>1 DEF IInv, Numbered
    <3> QED BY <2>1, <3>1 DEF IInv, Numbered
  <2>6. BusyTimeIsTrue'
    <3>1. \A x, c \in Int : (x + 1) * c = x * c + c
      OBVIOUS
    <3>2. accountedAt \in Int /\ busyTime \in Int /\ now - accountedAt \in Int
      BY <1>0 DEF IInv, TypeOK
    <3>3. (now + 1 - accountedAt) * Cardinality(active)
            = (now - accountedAt) * Cardinality(active) + Cardinality(active)
      BY <1>0, <3>1, <3>2
    <3> QED BY <1>0, <1>8, <3>2, <3>3 DEF Tick, timeVars, IInv, BusyTimeIsTrue, ReportedBusyTime
  <2>7. MaxQueueWaitIsTrue'
    BY <1>0, <1>8, <2>2, SMTT(60) DEF Tick, IInv, TypeOK, MaxQueueWaitIsTrue,
       ReportedMaxQueueWait, Larger
  <2> QED BY <2>3, <2>4, <2>5, <2>6, <2>7 DEF IInv
<1>9. CASE UNCHANGED vars
  <2>1. TypeOK' /\ Conservation' /\ NoIdleCore'
    BY <1>9 DEF vars, counters, timeVars, IInv, TypeOK, Conservation, NoIdleCore
  <2>2. ServedInOrder' /\ Numbered'
    BY <1>9 DEF vars, counters, IInv, ServedInOrder, Numbered
  <2>3. BusyTimeIsTrue' /\ MaxQueueWaitIsTrue'
    BY <1>9 DEF vars, timeVars, IInv, BusyTimeIsTrue, ReportedBusyTime,
       MaxQueueWaitIsTrue, ReportedMaxQueueWait
  <2> QED BY <2>1, <2>2, <2>3 DEF IInv
<1> QED BY <1>1, <1>2, <1>3, <1>4, <1>5, <1>6, <1>7, <1>8, <1>9 DEF Next

LEMMA InitiallyInvariant == Init => IInv
<1> SUFFICES ASSUME Init PROVE IInv
  OBVIOUS
<1> USE HostAssumption DEF Init
<1>1. Cardinality(active) = 0 /\ Len(queue) = 0 /\ queue \in Seq(Packets)
  BY FS_EmptySet, EmptySeq
<1>2. TypeOK
  <2>1. since \in [Packets -> Nat] /\ due \in [Packets -> Nat]
    OBVIOUS
  <2>2. cost \in Nat /\ now \in 0 .. EndTime /\ accountedAt \in 0 .. now
    OBVIOUS
  <2>3. offered \in 0 .. MaxOffered /\ accepted \in 0 .. MaxOffered
    OBVIOUS
  <2>4. active \in SUBSET Packets /\ stopped \in BOOLEAN
    OBVIOUS
  <2>5. /\ started \in Nat /\ processed \in Nat /\ queueDropped \in Nat
        /\ discarded \in Nat /\ busyTime \in Nat /\ maxQueueWait \in Nat
        /\ occupied \in Nat /\ longest \in Nat
    OBVIOUS
  <2> HIDE DEF Init
  <2> QED BY <1>1, <2>1, <2>2, <2>3, <2>4, <2>5 DEF TypeOK
<1>3. Conservation /\ NoIdleCore
  BY <1>1 DEF Conservation, NoIdleCore
<1>4. ServedInOrder /\ Numbered
  BY <1>1 DEF ServedInOrder, Numbered
<1>5. BusyTimeIsTrue /\ MaxQueueWaitIsTrue
  BY <1>1 DEF BusyTimeIsTrue, ReportedBusyTime, MaxQueueWaitIsTrue, ReportedMaxQueueWait
<1> QED BY <1>2, <1>3, <1>4, <1>5 DEF IInv

(* The invariant the results below rest on.                                *)
THEOREM HostInvariant == Spec => []IInv
<1>1. IInv /\ [Next]_vars => IInv'
  BY StepKeeps
<1> QED BY <1>1, InitiallyInvariant, PTL DEF Spec

(* No packet is lost or counted twice (host.go:58-81, 108, 187).           *)
THEOREM PacketsAreConserved == Spec => []Conservation
<1>1. IInv => Conservation
  BY DEF IInv
<1> QED BY <1>1, HostInvariant, PTL

(* The cores are used whenever somebody waits, and in order of acceptance  *)
(* (host.go:101-118).                                                      *)
THEOREM CoresServeInOrder == Spec => [](NoIdleCore /\ ServedInOrder)
<1>1. IInv => NoIdleCore /\ ServedInOrder
  BY DEF IInv
<1> QED BY <1>1, HostInvariant, PTL

(* The reported busy time and longest wait are the real ones, at every     *)
(* moment and across discards (host.go:151-177, 186).                      *)
THEOREM StatisticsAreTrue == Spec => [](BusyTimeIsTrue /\ MaxQueueWaitIsTrue)
<1>1. IInv => BusyTimeIsTrue /\ MaxQueueWaitIsTrue
  BY DEF IInv
<1> QED BY <1>1, HostInvariant, PTL

-----------------------------------------------------------------------------
(* Backend: its CPU takes the steps of a Host.                             *)
THEOREM BackendRunsOnHost == BackendSpec => Spec
<1>1. BackendInit => Init
  BY DEF BackendInit
<1>2. [BackendNext]_machine => [Next]_vars
  <2> SUFFICES ASSUME [BackendNext]_machine PROVE [Next]_vars
    OBVIOUS
  <2>1. CASE HandlePacket
    BY <2>1 DEF HandlePacket, Next
  <2>2. CASE Processed
    BY <2>2 DEF Processed, Next
  <2>3. CASE MarkFailed
    BY <2>3 DEF MarkFailed, Next
  <2>4. CASE Shutdown
    BY <2>4 DEF Shutdown, Next
  <2>5. CASE MarkHealthy \/ HealthCheck
    BY <2>5 DEF MarkHealthy, HealthCheck, cpu
  <2>6. CASE TimePasses
    BY <2>6 DEF TimePasses, Next
  <2>7. CASE UNCHANGED machine
    BY <2>7 DEF machine, cpu
  <2> QED BY <2>1, <2>2, <2>3, <2>4, <2>5, <2>6, <2>7 DEF BackendNext
<1> QED BY <1>1, <1>2, PTL DEF BackendSpec, Spec

(* A machine that is down holds no work and, once crashed, sends no answer. *)
LEMMA QuietStaysQuiet ==
  ASSUME DownIsQuiet, [BackendNext]_machine
  PROVE  DownIsQuiet'
<1>1. CASE HandlePacket
  <2>1. Up /\ stopped' = stopped /\ UNCHANGED check
    BY <1>1 DEF HandlePacket, SubmitBypass, SubmitStarts, SubmitDrops, SubmitWaits
  <2> QED BY <2>1 DEF DownIsQuiet, Up, check
<1>2. CASE Processed
  <2>1. PICK p \in Packets : Complete(p)
    BY <1>2 DEF Processed
  <2>2. active # {} /\ stopped' = stopped /\ UNCHANGED check
    BY <1>2, <2>1 DEF Processed, Complete
  <2> QED BY <2>2 DEF DownIsQuiet, Up, check
<1>3. CASE MarkFailed
  BY <1>3 DEF DownIsQuiet, Up, MarkFailed, Probe!MarkFailed, DiscardPending, Discard
<1>4. CASE Shutdown
  BY <1>4 DEF DownIsQuiet, Up, Shutdown, Probe!ServerShutdown, Stop, Discard
<1>5. CASE MarkHealthy
  BY <1>5 DEF DownIsQuiet, Up, MarkHealthy, Probe!MarkHealthy, cpu, vars
<1>6. CASE HealthCheck
  <2>1. UNCHANGED <<serverActive, killed, active, queue, stopped>>
    BY <1>6 DEF HealthCheck, Probe!Check, Probe!Reply, Probe!Expire,
       Probe!BalancerShutdown, Probe!backend, cpu, vars
  <2>2. killed => replies' = {}
    BY <1>6 DEF HealthCheck, Probe!Check, Probe!Reply, Probe!Expire, Probe!Up,
       Probe!BalancerShutdown, Probe!backend, DownIsQuiet
  <2> QED BY <2>1, <2>2 DEF DownIsQuiet, Up
<1>7. CASE TimePasses
  BY <1>7 DEF DownIsQuiet, Up, TimePasses, Tick, Probe!Tick, Probe!backend
<1>8. CASE UNCHANGED machine
  BY <1>8 DEF DownIsQuiet, Up, machine, cpu, check, vars
<1> QED BY <1>1, <1>2, <1>3, <1>4, <1>5, <1>6, <1>7, <1>8 DEF BackendNext

-----------------------------------------------------------------------------
(* The invariant of the health check.  Rounds follow one another: an       *)
(* answer comes before time passes, and a timeout is of the last round and *)
(* ends before the next, so the tick and the timeout say the same time.    *)
Rounds ==
  /\ handle = serial
  /\ closed => timeouts = {} /\ tickIn = -1
  /\ ~closed => tickIn >= 0
  /\ \A r \in replies : r = serial /\ (closed \/ tickIn = HealthInterval)
  /\ \A t \in timeouts :
       t.round = serial /\ tickIn = t.left + HealthInterval - ProbeTimeout

(* How long the check may already have been wrong, by where the round is:  *)
(* a machine that is down is still believed healthy only since the last    *)
(* round, or since the one before while its timeout runs; one that is up   *)
(* misses its answer only if it came up after the probe.                   *)
Detection ==
  ~closed =>
    /\ ~Up /\ healthy =>
         downFor <= (IF timeouts = {} THEN 0 ELSE HealthInterval)
                    + HealthInterval - tickIn
    /\ Up /\ replies = {} /\ (~healthy \/ timeouts # {}) =>
         upFor <= HealthInterval - tickIn
    /\ Up /\ ~healthy => upFor <= HealthInterval

CheckInv == Probe!TypeOK /\ Rounds /\ Detection

ProbeNext == [Probe!Next]_(Probe!vars)

(* Every step of a backend is one of its check, or leaves the check alone. *)
LEMMA BackendStepChecks ==
  ASSUME [BackendNext]_machine
  PROVE  ProbeNext
<1> USE DEF ProbeNext
<1>1. CASE HandlePacket \/ Processed \/ UNCHANGED machine
  <2>1. UNCHANGED check
    BY <1>1 DEF HandlePacket, Processed, machine
  <2> QED BY <2>1 DEF check, Probe!vars, Probe!lb, Probe!backend, Probe!since
<1>2. CASE MarkFailed \/ Shutdown \/ MarkHealthy
  BY <1>2 DEF MarkFailed, Shutdown, MarkHealthy, Probe!Next
<1>3. CASE HealthCheck \/ TimePasses
  BY <1>3 DEF HealthCheck, TimePasses, Probe!Next
<1> QED BY <1>1, <1>2, <1>3 DEF BackendNext

LEMMA ProbeStaysTyped ==
  ASSUME CheckInv, ProbeNext
  PROVE  Probe!TypeOK'
<1> USE BackendAssumption DEF Probe!TypeOK, CheckInv, Probe!Cap
<1>1. CASE Probe!Check
  BY <1>1 DEF Probe!Check, Probe!since
<1>2. CASE \E r \in replies : Probe!Reply(r)
  BY <1>2 DEF Probe!Reply, Probe!since
<1>3. CASE \E t \in timeouts : Probe!Expire(t)
  BY <1>3 DEF Probe!Expire, Probe!since, Probe!backend
<1>4. CASE Probe!MarkFailed \/ Probe!MarkHealthy \/ Probe!ServerShutdown
  <2>1. UNCHANGED Probe!lb
    BY <1>4 DEF Probe!MarkFailed, Probe!MarkHealthy, Probe!ServerShutdown
  <2>2. /\ serverActive' \in BOOLEAN /\ killed' \in BOOLEAN
        /\ replies' \in SUBSET replies
        /\ upFor' \in {0, upFor} /\ downFor' \in {0, downFor}
    BY <1>4 DEF Probe!MarkFailed, Probe!MarkHealthy, Probe!ServerShutdown
  <2> QED BY <2>1, <2>2 DEF Probe!lb
<1>5. CASE Probe!BalancerShutdown
  BY <1>5 DEF Probe!BalancerShutdown, Probe!since, Probe!backend
<1>6. CASE Probe!Tick
  <2>1. timeouts' \in SUBSET [round : 1 .. MaxRounds, left : 0 .. ProbeTimeout]
    BY <1>6 DEF Probe!Tick
  <2>2. tickIn' \in -1 .. HealthInterval
    BY <1>6 DEF Probe!Tick
  <2>3. upFor' \in 0 .. Probe!Cap /\ downFor' \in 0 .. Probe!Cap
    BY <1>6 DEF Probe!Tick, Probe!Later
  <2> QED BY <1>6, <2>1, <2>2, <2>3 DEF Probe!Tick, Probe!backend
<1>7. CASE UNCHANGED Probe!vars
  BY <1>7 DEF Probe!vars, Probe!lb, Probe!backend, Probe!since
<1> QED BY <1>1, <1>2, <1>3, <1>4, <1>5, <1>6, <1>7 DEF ProbeNext, Probe!Next

LEMMA RoundsFollow ==
  ASSUME CheckInv, ProbeNext
  PROVE  Rounds'
<1> USE BackendAssumption DEF Probe!TypeOK, CheckInv, Rounds
<1>1. CASE Probe!Check
  BY <1>1 DEF Probe!Check
<1>2. CASE \E r \in replies : Probe!Reply(r)
  BY <1>2 DEF Probe!Reply
<1>3. CASE \E t \in timeouts : Probe!Expire(t)
  BY <1>3 DEF Probe!Expire, Probe!backend
<1>4. CASE Probe!MarkFailed \/ Probe!MarkHealthy \/ Probe!ServerShutdown
  <2>1. UNCHANGED Probe!lb
    BY <1>4 DEF Probe!MarkFailed, Probe!MarkHealthy, Probe!ServerShutdown
  <2>2. /\ serverActive' \in BOOLEAN /\ killed' \in BOOLEAN
        /\ replies' \in SUBSET replies
        /\ upFor' \in {0, upFor} /\ downFor' \in {0, downFor}
    BY <1>4 DEF Probe!MarkFailed, Probe!MarkHealthy, Probe!ServerShutdown
  <2> QED BY <2>1, <2>2 DEF Probe!lb
<1>5. CASE Probe!BalancerShutdown
  BY <1>5 DEF Probe!BalancerShutdown, Probe!backend
<1>6. CASE Probe!Tick
  BY <1>6 DEF Probe!Tick, Probe!backend
<1>7. CASE UNCHANGED Probe!vars
  BY <1>7 DEF Probe!vars, Probe!lb, Probe!backend
<1> QED BY <1>1, <1>2, <1>3, <1>4, <1>5, <1>6, <1>7 DEF ProbeNext, Probe!Next

LEMMA DetectionIsPrompt ==
  ASSUME CheckInv, ProbeNext
  PROVE  Detection'
<1> USE BackendAssumption
    DEF Probe!TypeOK, CheckInv, Rounds, Detection, Up, Probe!Up, Probe!Cap
<1>1. CASE Probe!Check
  <2>1. timeouts = {}
    BY <1>1 DEF Probe!Check
  <2>2. replies = {} /\ tickIn = 0 /\ tickIn' = HealthInterval
    BY <1>1 DEF Probe!Check
  <2>a. timeouts' # {}
    <3>1. [round |-> serial + 1, left |-> ProbeTimeout] \in timeouts'
      BY <1>1 DEF Probe!Check
    <3> QED BY <3>1
  <2>3. Up => replies' # {}
    BY <1>1 DEF Probe!Check
  <2>4. UNCHANGED <<closed, healthy, serverActive, killed, upFor, downFor>>
    BY <1>1 DEF Probe!Check, Probe!since
  <2> QED BY <2>1, <2>2, <2>a, <2>3, <2>4
<1>2. CASE \E r \in replies : Probe!Reply(r)
  BY <1>2 DEF Probe!Reply, Probe!since
<1>3. CASE \E t \in timeouts : Probe!Expire(t)
  BY <1>3 DEF Probe!Expire, Probe!backend, Probe!since
<1>4. CASE Probe!MarkFailed
  BY <1>4 DEF Probe!MarkFailed, Probe!lb
<1>5. CASE Probe!MarkHealthy
  BY <1>5 DEF Probe!MarkHealthy, Probe!lb
<1>6. CASE Probe!ServerShutdown
  BY <1>6 DEF Probe!ServerShutdown, Probe!lb
<1>7. CASE Probe!BalancerShutdown
  BY <1>7 DEF Probe!BalancerShutdown
<1>8. CASE Probe!Tick
  <2>1. /\ timeouts' = {} <=> timeouts = {}
        /\ UNCHANGED <<closed, healthy, serverActive, killed, replies>>
    BY <1>8 DEF Probe!Tick, Probe!backend
  <2>2. CASE closed
    BY <2>1, <2>2
  <2>3. CASE ~closed
    <3>1. tickIn' = tickIn - 1
      BY <1>8, <2>3 DEF Probe!Tick
    <3>2. /\ Up => upFor' <= upFor + 1
          /\ ~Up => downFor' <= downFor + 1
      BY <1>8 DEF Probe!Tick, Probe!Later
    <3>3. upFor' \in Nat /\ downFor' \in Nat
      BY <1>8 DEF Probe!Tick, Probe!Later
    <3>4. replies = {}
      BY <1>8 DEF Probe!Tick
    <3>5. ~Up /\ healthy =>
            downFor' <= (IF timeouts = {} THEN 0 ELSE HealthInterval)
                        + HealthInterval - tickIn'
      BY <2>3, <3>1, <3>2, <3>3
    <3>6. Up /\ (~healthy \/ timeouts # {}) => upFor' <= HealthInterval - tickIn'
      BY <2>3, <3>1, <3>2, <3>3, <3>4
    <3>7. tickIn' \in Nat
      BY <1>8, <2>3 DEF Probe!Tick
    <3>8. Up /\ ~healthy => upFor' <= HealthInterval
      BY <2>3, <3>1, <3>2, <3>3, <3>4, <3>7
    <3> QED
      <4> HIDE BackendAssumption DEF Probe!TypeOK, CheckInv, Rounds, Probe!Up, Probe!Cap
      <4> QED BY <2>1, <2>3, <3>4, <3>5, <3>6, <3>8
  <2> QED BY <2>2, <2>3
<1>9. CASE UNCHANGED Probe!vars
  BY <1>9 DEF Probe!vars, Probe!lb, Probe!backend, Probe!since
<1> QED BY <1>1, <1>2, <1>3, <1>4, <1>5, <1>6, <1>7, <1>8, <1>9
        DEF ProbeNext, Probe!Next

(* At any moment of any run the bounds hold.                               *)
LEMMA CheckStaysSound == BackendSpec => [](CheckInv /\ DownIsQuiet)
<1>1. BackendInit => CheckInv /\ DownIsQuiet
  <2> SUFFICES ASSUME BackendInit PROVE CheckInv /\ DownIsQuiet
    OBVIOUS
  <2> USE BackendAssumption DEF BackendInit, Probe!Init
  <2>1. Probe!TypeOK
    <3>1. serial \in 0 .. MaxRounds /\ handle \in 0 .. MaxRounds
      OBVIOUS
    <3>2. tickIn \in -1 .. HealthInterval
      OBVIOUS
    <3>3. upFor \in 0 .. Probe!Cap /\ downFor \in 0 .. Probe!Cap
      BY DEF Probe!Cap
    <3>4. timeouts = {} /\ replies = {}
      OBVIOUS
    <3> QED BY <3>1, <3>2, <3>3, <3>4 DEF Probe!TypeOK
  <2>2. Rounds /\ Detection
    BY DEF Rounds, Detection, Up
  <2>3. DownIsQuiet
    BY DEF Init, DownIsQuiet, Up
  <2> QED BY <2>1, <2>2, <2>3 DEF CheckInv
<1>2. CheckInv /\ DownIsQuiet /\ [BackendNext]_machine => (CheckInv /\ DownIsQuiet)'
  BY BackendStepChecks, ProbeStaysTyped, RoundsFollow, DetectionIsPrompt,
     QuietStaysQuiet DEF CheckInv
<1> QED BY <1>1, <1>2, PTL DEF BackendSpec

(* Every change of the machine is noticed within its bound, no timer is    *)
(* left behind, and a machine that is down is quiet (balancer.go:326-374,  *)
(* server.go:112-191).                                                     *)
THEOREM ChangesAreNoticedInTime == BackendSpec => []ChangesAreNoticed
<1>1. CheckInv /\ DownIsQuiet => ChangesAreNoticed
  <2> SUFFICES ASSUME CheckInv, DownIsQuiet PROVE ChangesAreNoticed
    OBVIOUS
  <2> USE BackendAssumption DEF CheckInv, Probe!TypeOK, Probe!Cap
  <2>1. Probe!DownIsNoticed
    <3>1. timeouts # {} => tickIn >= HealthInterval - ProbeTimeout
      BY DEF Rounds
    <3> QED BY <3>1 DEF Detection, Rounds, Up, Probe!DownIsNoticed, Probe!Up
  <2>2. Probe!UpIsNoticed
    BY DEF Detection, Up, Probe!UpIsNoticed, Probe!Up
  <2>3. Probe!ShutdownIsQuiet
    BY DEF Rounds, Probe!ShutdownIsQuiet
  <2> QED BY <2>1, <2>2, <2>3 DEF ChangesAreNoticed, Probe!ChangesAreNoticed
<1> QED BY <1>1, CheckStaysSound, PTL

(* A backend that was reachable during the whole wait for its answer is    *)
(* never marked unhealthy (balancer.go:332-342).                           *)
THEOREM AnswersCount == BackendSpec => AnswerIsNotOverruled
<1>1. CheckInv /\ [BackendNext]_machine =>
        [healthy /\ ~healthy' => ~Probe!Up \/ upFor <= ProbeTimeout]_(Probe!vars)
  <2> SUFFICES ASSUME CheckInv, [BackendNext]_machine, healthy, ~healthy', Probe!Up
               PROVE  upFor <= ProbeTimeout
    OBVIOUS
  <2> USE BackendAssumption DEF CheckInv, Probe!TypeOK
  <2>1. PICK t \in timeouts : Probe!Expire(t)
    BY BackendStepChecks DEF ProbeNext, Probe!Next, Probe!Check, Probe!Reply,
       Probe!MarkFailed, Probe!MarkHealthy, Probe!ServerShutdown,
       Probe!BalancerShutdown, Probe!Tick, Probe!vars, Probe!lb
  <2>2. ~closed /\ tickIn = HealthInterval - ProbeTimeout /\ t.left = 0
    BY <2>1 DEF Probe!Expire, Rounds
  <2>3. replies = {}
    BY <2>2 DEF Rounds
  <2> QED BY <2>1, <2>2, <2>3 DEF Detection, Up, Probe!Up, Probe!Cap
<1> QED BY <1>1, CheckStaysSound, PTL DEF BackendSpec, AnswerIsNotOverruled, Probe!AnswerIsNotOverruled
=============================================================================
