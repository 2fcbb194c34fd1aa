--------------------------- MODULE BalancerProofs ---------------------------
(***************************************************************************)
(* Proofs about the balancer and its outputs, which share no state.  About *)
(* the mappings (Balancer), for any keys, servers, limits, timeouts and    *)
(* bounds: no packet leaves on a mapping or for a client it does not       *)
(* belong to, idle mappings are swept in time, phases only advance, the    *)
(* tables agree and no server is over its limit, and a SYN is refused only *)
(* when no healthy server has room.  About the outputs (Egress), for any   *)
(* outputs, capacities, costs and times: the forwarding budget, the order  *)
(* in which its waiters are served, and the queues, the agenda and the     *)
(* count of every packet.                                                  *)
(***************************************************************************)
EXTENDS Balancer, Egress, FiniteSetTheorems, SequenceTheorems, TLAPS

(* The types the proofs need: the contents of the servers' lists and the   *)
(* rotation do not matter to them.                                         *)
RouteTypes ==
  /\ closed \in BOOLEAN
  /\ clients \in [Keys -> Nat] /\ clientOrder \in Seq(Keys \X Nat)
  /\ byKey \in [Keys -> Servers \cup {None}]
  /\ connection \in [Keys -> Nat] /\ made \in [Keys -> Nat]
  /\ phase \in [Keys -> Phases] /\ age \in [Keys -> Nat]
  /\ sweepIn \in 0 .. CleanupInterval
  /\ jobs \in Seq(Jobs) /\ delayed \in SUBSET Packets

(* The sweep visits k.                                                     *)
Listed(k) == \E i \in 1 .. Len(clientOrder) : clientOrder[i][1] = k

(* Mappings are numbered in the order in which they are made, and belong   *)
(* to registered clients, which the sweep finds.                           *)
Mappings ==
  \A k \in Keys :
    /\ byKey[k] # None <=> connection[k] # 0
    /\ connection[k] <= made[k]
    /\ byKey[k] # None => clients[k] # 0
    /\ clients[k] # 0 => Listed(k)

(* A packet that waits for the chaos latency knows the number of its       *)
(* mapping, and while that mapping lasts its server is the packet's.       *)
HeldBack ==
  \A p \in delayed :
    /\ p.mapping # 0 /\ p.mapping <= made[p.key]
    /\ connection[p.key] = p.mapping => byKey[p.key] \in {p.to, p.from}
    /\ p.admitted # 0 => p.admitted = p.mapping

BalancerInv ==
  RouteTypes /\ Mappings /\ HeldBack /\ SentWhereItBelongs /\ SweptInTime

-----------------------------------------------------------------------------
(* What the steps do to the routes.                                        *)

(* Most steps leave the routes alone and send nothing.                     *)
Quiet ==
  /\ UNCHANGED <<closed, clients, clientOrder, byKey, connection, made, phase,
                 age, sweepIn, delayed>>
  /\ sent' = {} \/ UNCHANGED sent

(* The mappings of some keys are forgotten, by a sweep or all together.    *)
Forgotten(gone) ==
  /\ byKey' = [k \in Keys |-> IF k \in gone THEN None ELSE byKey[k]]
  /\ connection' = [k \in Keys |-> IF k \in gone THEN 0 ELSE connection[k]]
  /\ phase' = [k \in Keys |-> IF k \in gone THEN "halfOpen" ELSE phase[k]]
  /\ age' = [k \in Keys |-> IF k \in gone THEN 0 ELSE age[k]]
  /\ sent' = {} /\ UNCHANGED <<made, delayed>>

(* The keys the sweep forgets.                                             *)
IdleKeys == {k \in Keys : Listed(k) /\ connection[k] # 0 /\ Expired(k)}

Swept ==
  /\ Forgotten(IdleKeys) /\ sweepIn' = CleanupInterval
  /\ UNCHANGED <<closed, registry, jobs>>

Cleared ==
  /\ Forgotten(Keys) /\ UNCHANGED sweepIn
  /\ \/ UNCHANGED <<closed, registry, jobs>>
     \/ /\ closed' = TRUE /\ clients' = [k \in Keys |-> 0]
        /\ clientOrder' = << >> /\ jobs' = << >>

Routed == jobs # << >> /\ Process /\ ProcessRouted(Head(jobs))
Mapped == jobs # << >> /\ Process /\ ProcessMapped(Head(jobs))

LEMMA KindsOfSteps ==
  ASSUME [Next]_vars
  PROVE  \/ Quiet \/ Routed \/ Mapped \/ Swept \/ Cleared \/ Tick
         \/ \E k \in Keys : AddClient(k)
         \/ \E p \in delayed : DelayedSend(p)
<1>1. CASE \E s \in Servers : AddServer(s) \/ HealthChanges(s)
  <2>1. PICK s \in Servers : AddServer(s) \/ HealthChanges(s)
    BY <1>1
  <2>2. /\ sent' = {}
        /\ UNCHANGED <<closed, clients, clientOrder, byKey, connection, made,
                       phase, age, sweepIn, delayed>>
    BY <2>1 DEF AddServer, HealthChanges, registry, routes
  <2>3. Quiet
    BY <2>2 DEF Quiet, registry
  <2> QED BY <2>3
<1>2. CASE \E k \in Keys, kind \in Arriving :
             \/ HandleClientPacket(k, kind)
             \/ \E s \in Servers : HandleServerPacket(s, k, kind)
  <2>1. PICK k \in Keys, kind \in Arriving :
          \/ HandleClientPacket(k, kind)
          \/ \E s \in Servers : HandleServerPacket(s, k, kind)
    BY <1>2
  <2>2. /\ sent' = {}
        /\ UNCHANGED <<closed, registry, routes, phase, age, sweepIn, delayed>>
    BY <2>1 DEF HandleClientPacket, HandleServerPacket
  <2> QED BY <2>2 DEF Quiet, registry, routes
<1>3. CASE Process
  <2>1. CASE ProcessDropped(Head(jobs)) \/ ProcessRefused(Head(jobs))
    BY <1>3, <2>1 DEF Process, ProcessDropped, ProcessRefused, Quiet, registry, routes
  <2>2. CASE ProcessRouted(Head(jobs)) \/ ProcessMapped(Head(jobs))
    BY <1>3, <2>2 DEF Process, Routed, Mapped
  <2> QED BY <1>3, <2>1, <2>2 DEF Process
<1>4. CASE Cleanup
  <2>1. Forget(IdleKeys)
    BY <1>4 DEF Cleanup, IdleKeys, Listed
  <2> QED BY <1>4, <2>1 DEF Cleanup, Forget, Swept, Forgotten
<1>5. CASE ClearConnections \/ Shutdown
  <2>1. Forgotten(Keys)
    BY <1>5 DEF ClearConnections, Shutdown, ClearConnectionTable, Forgotten
  <2> QED BY <1>5, <2>1 DEF ClearConnections, Shutdown, Cleared, registry
<1>6. CASE \E a \in Algorithms : SetAlgorithm(a)
  BY <1>6 DEF SetAlgorithm, Quiet, registry, routes
<1>7. CASE \E c \in ChaosConfigs : SetChaosConfig(c)
  BY <1>7 DEF SetChaosConfig, Quiet, registry, routes
<1>8. CASE UNCHANGED vars
  BY <1>8 DEF vars, Quiet, registry, routes
<1> QED BY <1>1, <1>2, <1>3, <1>4, <1>5, <1>6, <1>7, <1>8 DEF Next

(* The packet the CPU hands over.                                          *)
LEMMA HeadIsJob ==
  ASSUME RouteTypes, jobs # << >>
  PROVE  Head(jobs) \in Jobs /\ Tail(jobs) \in Seq(Jobs)
BY DEF RouteTypes

LEMMA JobsStayTyped ==
  ASSUME RouteTypes, [Next]_vars
  PROVE  jobs' \in Seq(Jobs)
<1> USE BalancerAssumption DEF RouteTypes
<1>1. CASE \E k \in Keys, kind \in Arriving : HandleClientPacket(k, kind)
  <2>1. PICK k \in Keys, kind \in Arriving : HandleClientPacket(k, kind)
    BY <1>1
  <2>2. [from |-> None, key |-> k, kind |-> kind, client |-> clients[k],
         mapping |-> connection[k]] \in Jobs
    BY DEF Jobs
  <2> QED BY <2>1, <2>2, AppendProperties DEF HandleClientPacket
<1>2. CASE \E k \in Keys, kind \in Arriving, s \in Servers :
             HandleServerPacket(s, k, kind)
  <2>1. PICK k \in Keys, kind \in Arriving, s \in Servers :
          HandleServerPacket(s, k, kind)
    BY <1>2
  <2>2. [from |-> s, key |-> k, kind |-> kind, client |-> clients[k],
         mapping |-> connection[k]] \in Jobs
    BY DEF Jobs
  <2> QED BY <2>1, <2>2, AppendProperties DEF HandleServerPacket
<1>3. CASE Process
  BY <1>3, HeadIsJob DEF Process
<1>4. CASE Shutdown
  BY <1>4 DEF Shutdown
<1>5. CASE UNCHANGED jobs
  BY <1>5
<1>6. CASE \E k \in Keys : AddClient(k)
  BY <1>5, <1>6 DEF AddClient
<1>7. CASE \E s \in Servers : AddServer(s) \/ HealthChanges(s)
  BY <1>5, <1>7 DEF AddServer, HealthChanges
<1>8. CASE \/ Cleanup \/ ClearConnections \/ Tick
           \/ \E p \in delayed : DelayedSend(p)
  BY <1>5, <1>8 DEF Cleanup, ClearConnections, Tick, DelayedSend
<1>9. CASE \/ \E a \in Algorithms : SetAlgorithm(a)
           \/ \E c \in ChaosConfigs : SetChaosConfig(c)
  BY <1>5, <1>9 DEF SetAlgorithm, SetChaosConfig
<1> QED BY <1>1, <1>2, <1>3, <1>4, <1>5, <1>6, <1>7, <1>8, <1>9 DEF Next, vars

(* What leaves the CPU is a packet of its job's mapping.                   *)
LEMMA OutgoingBelongs ==
  ASSUME NEW j \in Jobs, NEW s \in Servers, NEW mapping \in Nat
  PROVE  /\ Outgoing(j, s, mapping) \in Packets
         /\ Outgoing(j, s, mapping).key = j.key
         /\ Outgoing(j, s, mapping).client = j.client
         /\ Outgoing(j, s, mapping).mapping = mapping
         /\ Outgoing(j, s, mapping).admitted = j.mapping
         /\ j.from \in {None, s} =>
              s \in {Outgoing(j, s, mapping).to, Outgoing(j, s, mapping).from}
BY DEF Jobs, Packets, Outgoing

-----------------------------------------------------------------------------
(* Routed: the mapping of the SYN's key is new.                            *)
LEMMA RoutedMakesNew ==
  ASSUME BalancerInv, Routed
  PROVE  LET j == Head(jobs) k == j.key IN
         /\ j \in Jobs /\ ~closed /\ clients[k] # 0 /\ clients[k] = j.client
         /\ connection[k] = 0 /\ j.mapping = 0 /\ j.from = None
         /\ \E s \in Servers :
              /\ byKey' = [byKey EXCEPT ![k] = s]
              /\ Forward(Outgoing(j, s, made[k] + 1))
         /\ made' = [made EXCEPT ![k] = @ + 1]
         /\ connection' = [connection EXCEPT ![k] = made[k] + 1]
         /\ phase' = [phase EXCEPT ![k] = "halfOpen"]
         /\ age' = [age EXCEPT ![k] = 0]
         /\ UNCHANGED <<closed, registry, sweepIn>>
<1> DEFINE j == Head(jobs)
<1>1. j \in Jobs
  BY HeadIsJob DEF BalancerInv, Routed
<1>2. ProcessRouted(j) /\ Process
  BY DEF Routed
<1> HIDE DEF j
<1>3. Current(j) /\ j.from = None /\ byKey[j.key] = None
  BY <1>2 DEF ProcessRouted
<1>4. j.key \in Keys
  BY <1>1 DEF Jobs
<1>5. connection[j.key] = 0
  BY <1>3, <1>4 DEF BalancerInv, Mappings
<1>6. ~closed /\ clients[j.key] # 0 /\ clients[j.key] = j.client /\ j.mapping = 0
  BY <1>3, <1>5 DEF Current, HasClient
<1>7. /\ \E s \in Servers :
           /\ byKey' = [byKey EXCEPT ![j.key] = s]
           /\ Forward(Outgoing(j, s, made[j.key] + 1))
      /\ made' = [made EXCEPT ![j.key] = @ + 1]
      /\ connection' = [connection EXCEPT ![j.key] = made[j.key] + 1]
      /\ phase' = [phase EXCEPT ![j.key] = "halfOpen"]
      /\ age' = [age EXCEPT ![j.key] = 0]
  BY <1>2 DEF ProcessRouted
<1>8. UNCHANGED <<closed, registry, sweepIn>>
  BY <1>2 DEF Process
<1> QED BY <1>1, <1>3, <1>5, <1>6, <1>7, <1>8 DEF j

(* Mapped: the packet met its mapping, which the observer may advance.     *)
LEMMA MappedIsCurrent ==
  ASSUME BalancerInv, Mapped
  PROVE  LET j == Head(jobs) k == j.key IN
         /\ j \in Jobs /\ ~closed /\ clients[k] = j.client
         /\ connection[k] # 0 /\ byKey[k] \in Servers /\ j.from \in {None, byKey[k]}
         /\ j.mapping # 0 => j.mapping = connection[k]
         /\ Forward(Outgoing(j, byKey[k], connection[k]))
         /\ Observe(k, j.kind, j.from # None)
         /\ UNCHANGED <<closed, registry, byKey, connection, made, sweepIn>>
<1> DEFINE j == Head(jobs)
<1>1. j \in Jobs
  BY HeadIsJob DEF BalancerInv, Mapped
<1>2. ProcessMapped(j) /\ Process
  BY DEF Mapped
<1> HIDE DEF j
<1>3. Current(j) /\ byKey[j.key] # None /\ j.from \in {None, byKey[j.key]}
  BY <1>2 DEF ProcessMapped
<1>4. j.key \in Keys
  BY <1>1 DEF Jobs
<1>5. connection[j.key] # 0 /\ byKey[j.key] \in Servers
  BY <1>3, <1>4 DEF BalancerInv, Mappings, RouteTypes
<1>6. /\ ~closed /\ clients[j.key] = j.client
      /\ j.mapping # 0 => j.mapping = connection[j.key]
  BY <1>3 DEF Current, HasClient
<1>7. /\ Forward(Outgoing(j, byKey[j.key], connection[j.key]))
      /\ Observe(j.key, j.kind, j.from # None)
      /\ UNCHANGED <<byKey, connection, made>>
  BY <1>2 DEF ProcessMapped, routes
<1>8. UNCHANGED <<closed, registry, sweepIn>>
  BY <1>2 DEF Process
<1> QED BY <1>1, <1>3, <1>5, <1>6, <1>7, <1>8 DEF j

(* forward sends the packet, holds it back, or drops it.                   *)
LEMMA ForwardOutcomes ==
  ASSUME NEW p, Forward(p)
  PROVE  sent' \in {{}, {p}} /\ delayed' \in {delayed, delayed \cup {p}}
BY DEF Forward

LEMMA ObservedPhaseIsPhase ==
  ASSUME NEW old \in Phases, NEW kind, NEW fromServer \in BOOLEAN
  PROVE  /\ ObservedPhase(old, kind, fromServer) \in Phases
         /\ Rank(old) <= Rank(ObservedPhase(old, kind, fromServer))
BY DEF Phases, ObservedPhase, Rank

-----------------------------------------------------------------------------
LEMMA RoutesStayTyped ==
  ASSUME BalancerInv, [Next]_vars
  PROVE  RouteTypes'
<1> USE BalancerAssumption DEF BalancerInv, RouteTypes
<1>0. jobs' \in Seq(Jobs)
  BY JobsStayTyped
<1>1. CASE Quiet
  BY <1>0, <1>1 DEF Quiet, registry
<1>2. CASE Routed
  <2> DEFINE j == Head(jobs)
  <2>1. j \in Jobs
    BY <1>2, RoutedMakesNew
  <2>2. PICK s \in Servers : /\ byKey' = [byKey EXCEPT ![j.key] = s]
                             /\ Forward(Outgoing(j, s, made[j.key] + 1))
    BY <1>2, RoutedMakesNew
  <2>3. /\ made' = [made EXCEPT ![j.key] = @ + 1]
        /\ connection' = [connection EXCEPT ![j.key] = made[j.key] + 1]
        /\ phase' = [phase EXCEPT ![j.key] = "halfOpen"]
        /\ age' = [age EXCEPT ![j.key] = 0]
        /\ UNCHANGED <<closed, registry, sweepIn>>
    BY <1>2, RoutedMakesNew
  <2> HIDE DEF j
  <2>4. j.key \in Keys
    BY <2>1 DEF Jobs
  <2>5. delayed' \in SUBSET Packets
    <3>1. Outgoing(j, s, made[j.key] + 1) \in Packets
      BY <2>1, <2>4, OutgoingBelongs
    <3>2. delayed' \in {delayed, delayed \cup {Outgoing(j, s, made[j.key] + 1)}}
      BY <2>2, ForwardOutcomes
    <3>3. delayed \in SUBSET Packets
      OBVIOUS
    <3> HIDE DEF BalancerInv, RouteTypes
    <3> QED BY <3>1, <3>2, <3>3
  <2>6. byKey' \in [Keys -> Servers \cup {None}]
    BY <2>2, <2>4
  <2>7. made' \in [Keys -> Nat] /\ connection' \in [Keys -> Nat]
    <3>1. made[j.key] + 1 \in Nat
      BY <2>4
    <3>2. made \in [Keys -> Nat] /\ connection \in [Keys -> Nat]
      OBVIOUS
    <3> HIDE DEF BalancerInv, RouteTypes
    <3> QED BY <2>3, <3>1, <3>2
  <2>8. phase' \in [Keys -> Phases] /\ age' \in [Keys -> Nat]
    BY <2>3, <2>4 DEF Phases
  <2> QED BY <1>0, <2>3, <2>5, <2>6, <2>7, <2>8 DEF registry
<1>3. CASE Mapped
  <2> DEFINE j == Head(jobs)
  <2>1. /\ j \in Jobs /\ byKey[j.key] \in Servers
        /\ Forward(Outgoing(j, byKey[j.key], connection[j.key]))
        /\ Observe(j.key, j.kind, j.from # None)
        /\ UNCHANGED <<closed, registry, byKey, connection, made, sweepIn>>
    BY <1>3, MappedIsCurrent
  <2> HIDE DEF j
  <2>2. j.key \in Keys
    BY <2>1 DEF Jobs
  <2>3. delayed' \in SUBSET Packets
    <3>1. Outgoing(j, byKey[j.key], connection[j.key]) \in Packets
      BY <2>1, <2>2, OutgoingBelongs
    <3>2. delayed' \in {delayed, delayed \cup {Outgoing(j, byKey[j.key], connection[j.key])}}
      BY <2>1, ForwardOutcomes
    <3>3. delayed \in SUBSET Packets
      OBVIOUS
    <3> HIDE DEF BalancerInv, RouteTypes
    <3> QED BY <3>1, <3>2, <3>3
  <2>4. phase' \in [Keys -> Phases] /\ age' \in [Keys -> Nat]
    BY <2>1, <2>2, ObservedPhaseIsPhase DEF Observe
  <2> QED BY <1>0, <2>1, <2>3, <2>4 DEF registry
<1>4. CASE Swept
  BY <1>0, <1>4, SMTT(30) DEF Swept, Forgotten, registry, Phases
<1>5. CASE Cleared
  <2>1. /\ closed' \in BOOLEAN /\ clients' \in [Keys -> Nat]
        /\ clientOrder' \in Seq(Keys \X Nat) /\ sweepIn' = sweepIn
    <3>1. CASE UNCHANGED <<closed, registry, jobs>>
      BY <1>5, <3>1 DEF Cleared, registry
    <3>2. CASE /\ closed' = TRUE /\ clients' = [k \in Keys |-> 0]
               /\ clientOrder' = << >>
      BY <1>5, <3>2, EmptySeq DEF Cleared
    <3> QED BY <1>5, <3>1, <3>2 DEF Cleared
  <2> QED BY <1>0, <1>5, <2>1 DEF Cleared, Forgotten, Phases
<1>6. CASE Tick
  BY <1>0, <1>6 DEF Tick, registry, routes
<1>7. CASE \E k \in Keys : AddClient(k)
  <2>1. PICK k \in Keys : AddClient(k)
    BY <1>7
  <2>2. clients' = [clients EXCEPT ![k] = clients[k] + 1]
    BY <2>1 DEF AddClient
  <2>3. clientOrder' \in Seq(Keys \X Nat)
    <3>1. CASE clients[k] # 0
      <4> DEFINE R(e) == IF e = <<k, clients[k]>> THEN <<k, clients[k] + 1>> ELSE e
      <4>1. clientOrder' = [i \in DOMAIN clientOrder |-> R(clientOrder[i])]
        BY <2>1, <3>1 DEF AddClient
      <4>2. \A e \in Keys \X Nat : R(e) \in Keys \X Nat
        OBVIOUS
      <4>3. DOMAIN clientOrder = 1 .. Len(clientOrder) /\ Len(clientOrder) \in Nat
        OBVIOUS
      <4>4. \A i \in DOMAIN clientOrder : clientOrder[i] \in Keys \X Nat
        BY ElementOfSeq
      <4> HIDE DEF R
      <4>5. \A i \in 1 .. Len(clientOrder) : R(clientOrder[i]) \in Keys \X Nat
        BY <4>2, <4>3, <4>4
      <4>6. clientOrder' = [i \in 1 .. Len(clientOrder) |-> R(clientOrder[i])]
        BY <4>1, <4>3
      <4> QED BY <4>3, <4>5, <4>6, IsASeq
    <3>2. CASE clients[k] = 0
      BY <2>1, <3>2, AppendProperties DEF AddClient
    <3> QED BY <3>1, <3>2
  <2> QED BY <1>0, <2>1, <2>2, <2>3, SMTT(30) DEF AddClient, routes
<1>8. CASE \E p \in delayed : DelayedSend(p)
  BY <1>0, <1>8 DEF DelayedSend, registry, routes
<1> QED BY <1>1, <1>2, <1>3, <1>4, <1>5, <1>6, <1>7, <1>8, KindsOfSteps

LEMMA MappingsStaySound ==
  ASSUME BalancerInv, [Next]_vars
  PROVE  Mappings'
<1> USE BalancerAssumption DEF BalancerInv, RouteTypes, Mappings
<1>0. UNCHANGED clientOrder => \A k : Listed(k)' <=> Listed(k)
  BY DEF Listed
<1>1. CASE Quiet
  BY <1>0, <1>1 DEF Quiet
<1>2. CASE Routed
  <2> DEFINE j == Head(jobs)
  <2>1. j \in Jobs /\ clients[j.key] # 0
    BY <1>2, RoutedMakesNew
  <2>2. PICK s \in Servers : byKey' = [byKey EXCEPT ![j.key] = s]
    BY <1>2, RoutedMakesNew
  <2>3. /\ made' = [made EXCEPT ![j.key] = @ + 1]
        /\ connection' = [connection EXCEPT ![j.key] = made[j.key] + 1]
        /\ UNCHANGED <<clients, clientOrder>>
    BY <1>2, RoutedMakesNew DEF registry
  <2> HIDE DEF j
  <2>4. j.key \in Keys
    BY <2>1 DEF Jobs
  <2> SUFFICES ASSUME NEW k \in Keys PROVE Mappings!(k)'
    OBVIOUS
  <2>5. CASE k = j.key
    BY <1>0, <2>1, <2>2, <2>3, <2>4, <2>5
  <2>6. CASE k # j.key
    BY <1>0, <2>2, <2>3, <2>4, <2>6
  <2> QED BY <2>5, <2>6
<1>3. CASE Mapped
  <2>1. UNCHANGED <<registry, byKey, connection, made>>
    BY <1>3, MappedIsCurrent
  <2> QED BY <1>0, <2>1 DEF registry
<1>4. CASE Swept
  BY <1>0, <1>4 DEF Swept, Forgotten, registry
<1>5. CASE Cleared
  <2>1. /\ byKey' = [k \in Keys |-> None] /\ connection' = [k \in Keys |-> 0]
        /\ made' = made
    BY <1>5 DEF Cleared, Forgotten
  <2>2. \/ UNCHANGED <<clients, clientOrder>>
        \/ clients' = [k \in Keys |-> 0]
    BY <1>5 DEF Cleared, registry
  <2> QED BY <1>0, <2>1, <2>2
<1>6. CASE Tick
  BY <1>0, <1>6 DEF Tick, registry, routes
<1>7. CASE \E k \in Keys : AddClient(k)
  <2>1. PICK k \in Keys : AddClient(k)
    BY <1>7
  <2>2. /\ clients' = [clients EXCEPT ![k] = clients[k] + 1]
        /\ UNCHANGED <<byKey, connection, made>> /\ byKey[k] = None
    BY <2>1 DEF AddClient, routes
  <2>3. ASSUME NEW q \in Keys, clients'[q] # 0
        PROVE  Listed(q)'
    <3>1. CASE clients[k] # 0
      <4>1. PICK i \in 1 .. Len(clientOrder) : clientOrder[i][1] = q
        BY <2>2, <2>3, <3>1 DEF Listed
      <4>2. clientOrder' = [n \in DOMAIN clientOrder |->
               IF clientOrder[n] = <<k, clients[k]>> THEN <<k, clients[k] + 1>>
               ELSE clientOrder[n]]
        BY <2>1, <3>1 DEF AddClient
      <4>3. DOMAIN clientOrder = 1 .. Len(clientOrder) /\ Len(clientOrder) \in Nat
        OBVIOUS
      <4>4. clientOrder'[i][1] = q
        BY <4>1, <4>2, <4>3
      <4>5. Len(clientOrder') = Len(clientOrder)
        <5>1. DOMAIN clientOrder' = 1 .. Len(clientOrder)
          BY <4>2, <4>3
        <5>2. clientOrder' \in Seq(Keys \X Nat)
          BY RoutesStayTyped DEF RouteTypes
        <5> QED BY <4>3, <5>1, <5>2, LenProperties
      <4> QED BY <4>1, <4>4, <4>5 DEF Listed
    <3>2. CASE clients[k] = 0
      <4>1. clientOrder' = Append(clientOrder, <<k, 1>>)
        BY <2>1, <3>2 DEF AddClient
      <4>2. /\ Len(clientOrder) \in Nat /\ Len(clientOrder') = Len(clientOrder) + 1
            /\ \A i \in 1 .. Len(clientOrder) : clientOrder'[i] = clientOrder[i]
            /\ clientOrder'[Len(clientOrder) + 1] = <<k, 1>>
        <5>1. clientOrder \in Seq(Keys \X Nat) /\ <<k, 1>> \in Keys \X Nat
          OBVIOUS
        <5> HIDE DEF BalancerInv, RouteTypes, Mappings
        <5> QED BY <4>1, <5>1, AppendProperties
      <4>3. CASE q = k
        <5>1. Len(clientOrder) + 1 \in 1 .. Len(clientOrder')
          BY <4>2
        <5>2. clientOrder'[Len(clientOrder) + 1][1] = q
          BY <4>2, <4>3
        <5> QED BY <5>1, <5>2 DEF Listed
      <4>4. CASE q # k
        <5>1. PICK i \in 1 .. Len(clientOrder) : clientOrder[i][1] = q
          BY <2>2, <2>3, <4>4 DEF Listed
        <5>2. i \in 1 .. Len(clientOrder')
          BY <4>2, <5>1
        <5>3. clientOrder'[i] = clientOrder[i]
          BY <4>2
        <5> QED BY <5>1, <5>2, <5>3 DEF Listed
      <4> QED BY <4>3, <4>4
    <3> QED BY <3>1, <3>2
  <2> QED BY <2>2, <2>3
<1>8. CASE \E p \in delayed : DelayedSend(p)
  BY <1>0, <1>8 DEF DelayedSend, registry, routes
<1> QED BY <1>1, <1>2, <1>3, <1>4, <1>5, <1>6, <1>7, <1>8, KindsOfSteps

(* The new mapping has a number no packet has yet, and a forgotten one has *)
(* the number zero.                                                        *)
LEMMA HeldBackStaysSound ==
  ASSUME BalancerInv, [Next]_vars
  PROVE  HeldBack'
<1> USE DEF HeldBack
<1>0. /\ connection \in [Keys -> Nat] /\ made \in [Keys -> Nat]
      /\ byKey \in [Keys -> Servers \cup {None}]
      /\ \A p \in delayed : p.key \in Keys /\ p.mapping \in Nat
      /\ HeldBack
  BY DEF BalancerInv, RouteTypes, Packets
<1>1. CASE Quiet
  BY <1>0, <1>1 DEF Quiet
<1>2. CASE Routed
  <2> DEFINE j == Head(jobs)
  <2>1. j \in Jobs /\ j.mapping = 0 /\ j.from = None
    BY <1>2, RoutedMakesNew
  <2>2. PICK s \in Servers : /\ byKey' = [byKey EXCEPT ![j.key] = s]
                             /\ Forward(Outgoing(j, s, made[j.key] + 1))
    BY <1>2, RoutedMakesNew
  <2>3. /\ made' = [made EXCEPT ![j.key] = @ + 1]
        /\ connection' = [connection EXCEPT ![j.key] = made[j.key] + 1]
    BY <1>2, RoutedMakesNew
  <2> HIDE DEF j
  <2>4. j.key \in Keys
    BY <2>1 DEF Jobs
  <2> DEFINE out == Outgoing(j, s, made[j.key] + 1)
  <2>5. /\ out.key = j.key /\ out.mapping = made[j.key] + 1 /\ out.admitted = 0
        /\ s \in {out.to, out.from}
    <3>1. made[j.key] + 1 \in Nat
      BY <1>0, <2>4
    <3> QED BY <2>1, <3>1, OutgoingBelongs
  <2>6. delayed' \in {delayed, delayed \cup {out}}
    BY <2>2, ForwardOutcomes
  <2> HIDE DEF out
  <2> SUFFICES ASSUME NEW p \in delayed'
               PROVE  HeldBack!(p)'
    OBVIOUS
  <2>7. CASE p = out
    BY <1>0, <2>2, <2>3, <2>4, <2>5, <2>7
  <2>8. CASE p \in delayed
    <3>1. CASE p.key = j.key
      BY <1>0, <2>3, <2>4, <2>8, <3>1
    <3>2. CASE p.key # j.key
      BY <1>0, <2>2, <2>3, <2>4, <2>8, <3>2
    <3> QED BY <3>1, <3>2
  <2> QED BY <2>6, <2>7, <2>8
<1>3. CASE Mapped
  <2> DEFINE j == Head(jobs)
  <2>1. /\ j \in Jobs /\ connection[j.key] # 0 /\ byKey[j.key] \in Servers
        /\ j.from \in {None, byKey[j.key]}
        /\ j.mapping # 0 => j.mapping = connection[j.key]
        /\ Forward(Outgoing(j, byKey[j.key], connection[j.key]))
        /\ UNCHANGED <<byKey, connection, made>>
    BY <1>3, MappedIsCurrent
  <2> HIDE DEF j
  <2>2. j.key \in Keys
    BY <2>1 DEF Jobs
  <2> DEFINE out == Outgoing(j, byKey[j.key], connection[j.key])
  <2>3. /\ out.key = j.key /\ out.mapping = connection[j.key]
        /\ out.admitted = j.mapping /\ byKey[j.key] \in {out.to, out.from}
    <3>1. connection[j.key] \in Nat
      BY <1>0, <2>2
    <3> QED BY <2>1, <3>1, OutgoingBelongs
  <2>4. delayed' \in {delayed, delayed \cup {out}}
    BY <2>1, ForwardOutcomes
  <2>5. connection[j.key] <= made[j.key]
    BY <2>2 DEF BalancerInv, Mappings
  <2> HIDE DEF out
  <2> QED BY <1>0, <2>1, <2>3, <2>4, <2>5
<1>4. CASE \E gone \in SUBSET Keys : Forgotten(gone)
  BY <1>0, <1>4 DEF Forgotten
<1>5. CASE Swept \/ Cleared
  BY <1>4, <1>5 DEF Swept, Cleared, IdleKeys
<1>6. CASE Tick
  BY <1>0, <1>6 DEF Tick, routes
<1>7. CASE \E k \in Keys : AddClient(k)
  BY <1>0, <1>7 DEF AddClient, routes
<1>8. CASE \E p \in delayed : DelayedSend(p)
  BY <1>0, <1>8 DEF DelayedSend, routes
<1> QED BY <1>1, <1>2, <1>3, <1>5, <1>6, <1>7, <1>8, KindsOfSteps

(* What is sent in a step belongs to the state after it.                   *)
LEMMA SentBelongs ==
  ASSUME BalancerInv, [Next]_vars
  PROVE  SentWhereItBelongs'
<1> USE DEF SentWhereItBelongs
<1>0. /\ connection \in [Keys -> Nat] /\ made \in [Keys -> Nat]
      /\ byKey \in [Keys -> Servers \cup {None}] /\ SentWhereItBelongs
  BY DEF BalancerInv, RouteTypes
<1>1. CASE Quiet
  BY <1>0, <1>1 DEF Quiet
<1>2. CASE Routed
  <2> DEFINE j == Head(jobs)
  <2>1. /\ j \in Jobs /\ j.mapping = 0 /\ j.from = None /\ ~closed
        /\ clients[j.key] = j.client
    BY <1>2, RoutedMakesNew
  <2>2. PICK s \in Servers : /\ byKey' = [byKey EXCEPT ![j.key] = s]
                             /\ Forward(Outgoing(j, s, made[j.key] + 1))
    BY <1>2, RoutedMakesNew
  <2>3. /\ connection' = [connection EXCEPT ![j.key] = made[j.key] + 1]
        /\ closed' = closed /\ clients' = clients
    BY <1>2, RoutedMakesNew DEF registry
  <2> HIDE DEF j
  <2>4. j.key \in Keys
    BY <2>1 DEF Jobs
  <2> DEFINE out == Outgoing(j, s, made[j.key] + 1)
  <2>5. /\ out.key = j.key /\ out.mapping = made[j.key] + 1 /\ out.admitted = 0
        /\ out.client = j.client /\ s \in {out.to, out.from}
    <3>1. made[j.key] + 1 \in Nat
      BY <1>0, <2>4
    <3> QED BY <2>1, <3>1, OutgoingBelongs
  <2>6. sent' \in {{}, {out}}
    BY <2>2, ForwardOutcomes
  <2> HIDE DEF out
  <2> QED BY <1>0, <2>1, <2>2, <2>3, <2>4, <2>5, <2>6
<1>3. CASE Mapped
  <2> DEFINE j == Head(jobs)
  <2>1. /\ j \in Jobs /\ ~closed /\ clients[j.key] = j.client
        /\ byKey[j.key] \in Servers /\ j.from \in {None, byKey[j.key]}
        /\ j.mapping # 0 => j.mapping = connection[j.key]
        /\ Forward(Outgoing(j, byKey[j.key], connection[j.key]))
        /\ UNCHANGED <<closed, clients, byKey, connection>>
    BY <1>3, MappedIsCurrent DEF registry
  <2> HIDE DEF j
  <2>2. j.key \in Keys
    BY <2>1 DEF Jobs
  <2> DEFINE out == Outgoing(j, byKey[j.key], connection[j.key])
  <2>3. /\ out.key = j.key /\ out.mapping = connection[j.key]
        /\ out.client = j.client
        /\ out.admitted = j.mapping /\ byKey[j.key] \in {out.to, out.from}
    <3>1. connection[j.key] \in Nat
      BY <1>0, <2>2
    <3> QED BY <2>1, <3>1, OutgoingBelongs
  <2>4. sent' \in {{}, {out}}
    BY <2>1, ForwardOutcomes
  <2> HIDE DEF out
  <2> QED BY <2>1, <2>3, <2>4
<1>4. CASE Swept \/ Cleared
  BY <1>4 DEF Swept, Cleared, Forgotten
<1>6. CASE Tick
  BY <1>6 DEF Tick
<1>7. CASE \E k \in Keys : AddClient(k)
  BY <1>7 DEF AddClient
<1>8. CASE \E p \in delayed : DelayedSend(p)
  <2>1. PICK p \in delayed : DelayedSend(p)
    BY <1>8
  <2>2. /\ sent' = {q \in {p} : HasClient(p.key, p.client)
                                /\ connection[p.key] = p.mapping}
        /\ UNCHANGED <<closed, clients, byKey, connection>>
    BY <2>1 DEF DelayedSend, registry, routes
  <2>3. /\ connection[p.key] = p.mapping => byKey[p.key] \in {p.to, p.from}
        /\ p.admitted # 0 => p.admitted = p.mapping
    BY DEF BalancerInv, HeldBack
  <2> QED BY <2>2, <2>3 DEF HasClient
<1> QED BY <1>1, <1>2, <1>3, <1>4, <1>6, <1>7, <1>8, KindsOfSteps

(* Between two sweeps a mapping that has not expired grows no older than   *)
(* the time since the last one allows.                                     *)
LEMMA SweepsAreInTime ==
  ASSUME BalancerInv, [Next]_vars
  PROVE  SweptInTime'
<1> USE DEF SweptInTime
<1>0. /\ connection \in [Keys -> Nat] /\ phase \in [Keys -> Phases]
      /\ age \in [Keys -> Nat] /\ Timeout \in [Phases -> Nat]
      /\ sweepIn \in Nat /\ sweepIn <= CleanupInterval /\ CleanupInterval \in Nat
      /\ CleanupInterval > 0 /\ SweptInTime
  BY BalancerAssumption DEF BalancerInv, RouteTypes
<1>t. "halfOpen" \in Phases
  BY DEF Phases
<1>1. CASE Quiet
  BY <1>0, <1>1 DEF Quiet
<1>2. CASE Routed
  <2> DEFINE j == Head(jobs)
  <2>1. /\ j \in Jobs /\ ~closed
        /\ connection' = [connection EXCEPT ![j.key] = made[j.key] + 1]
        /\ phase' = [phase EXCEPT ![j.key] = "halfOpen"]
        /\ age' = [age EXCEPT ![j.key] = 0]
        /\ UNCHANGED <<closed, sweepIn>>
    BY <1>2, RoutedMakesNew
  <2> HIDE DEF j
  <2>2. j.key \in Keys
    BY <2>1 DEF Jobs
  <2> SUFFICES ASSUME NEW k \in Keys PROVE SweptInTime!(k)'
    OBVIOUS
  <2>3. CASE k = j.key
    BY <1>0, <1>t, <2>1, <2>2, <2>3
  <2>4. CASE k # j.key
    BY <1>0, <2>1, <2>2, <2>4
  <2> QED BY <2>3, <2>4
<1>3. CASE Mapped
  <2> DEFINE j == Head(jobs)
  <2>1. /\ j \in Jobs /\ Observe(j.key, j.kind, j.from # None)
        /\ UNCHANGED <<closed, connection, sweepIn>>
    BY <1>3, MappedIsCurrent
  <2> HIDE DEF j
  <2>2. j.key \in Keys
    BY <2>1 DEF Jobs
  <2>3. phase' \in [Keys -> Phases]
    BY RoutesStayTyped DEF RouteTypes
  <2>4. \A k \in Keys : \/ age'[k] = 0
                        \/ age'[k] = age[k] /\ phase'[k] = phase[k]
    BY <1>0, <2>1, <2>2 DEF Observe
  <2> SUFFICES ASSUME NEW k \in Keys PROVE SweptInTime!(k)'
    OBVIOUS
  <2>5. CASE age'[k] = 0
    BY <1>0, <2>1, <2>3, <2>5
  <2>6. CASE age'[k] = age[k] /\ phase'[k] = phase[k]
    BY <1>0, <2>1, <2>6
  <2> QED BY <2>4, <2>5, <2>6
<1>4. CASE Swept
  <2> SUFFICES ASSUME NEW k \in Keys, connection'[k] # 0, Timeout[phase'[k]] > 0
               PROVE  age'[k] < Timeout[phase'[k]] + CleanupInterval - sweepIn'
    OBVIOUS
  <2>1. k \notin IdleKeys /\ connection[k] # 0 /\ age'[k] = age[k] /\ phase'[k] = phase[k]
    BY <1>4 DEF Swept, Forgotten
  <2>2. Listed(k)
    BY <2>1 DEF BalancerInv, Mappings
  <2>3. age[k] < Timeout[phase[k]]
    BY <1>0, <2>1, <2>2 DEF IdleKeys, Expired
  <2>4. sweepIn' = CleanupInterval
    BY <1>4 DEF Swept
  <2> QED BY <1>0, <2>1, <2>3, <2>4
<1>5. CASE Cleared
  BY <1>5 DEF Cleared, Forgotten
<1>6. CASE Tick
  <2>1. /\ sweepIn' = sweepIn - 1 /\ sweepIn > 0
        /\ \A k \in Keys : age'[k] <= age[k] + 1
        /\ UNCHANGED <<closed, connection, phase>>
    BY <1>0, <1>6 DEF Tick, routes
  <2>2. age' \in [Keys -> Nat]
    BY RoutesStayTyped DEF RouteTypes
  <2> SUFFICES ASSUME NEW k \in Keys PROVE SweptInTime!(k)'
    OBVIOUS
  <2> QED BY <1>0, <2>1, <2>2
<1>7. CASE \E k \in Keys : AddClient(k)
  BY <1>0, <1>7 DEF AddClient, routes
<1>8. CASE \E p \in delayed : DelayedSend(p)
  BY <1>0, <1>8 DEF DelayedSend, routes
<1> QED BY <1>1, <1>2, <1>3, <1>4, <1>5, <1>6, <1>7, <1>8, KindsOfSteps

LEMMA PhasesAdvance ==
  ASSUME BalancerInv, [Next]_vars
  PROVE  \A k \in Keys : connection[k] # 0 /\ connection'[k] = connection[k]
                           => Rank(phase[k]) <= Rank(phase'[k])
<1>0. /\ connection \in [Keys -> Nat] /\ made \in [Keys -> Nat]
      /\ phase \in [Keys -> Phases]
      /\ \A f \in Phases : Rank(f) \in Nat
  BY DEF BalancerInv, RouteTypes, Phases, Rank
<1>1. CASE Quiet
  BY <1>0, <1>1 DEF Quiet
<1>2. CASE Routed
  <2>1. LET k == Head(jobs).key IN
        /\ connection[k] = 0 /\ phase' = [phase EXCEPT ![k] = "halfOpen"]
    BY <1>2, RoutedMakesNew
  <2> QED BY <1>0, <2>1
<1>3. CASE Mapped
  <2> DEFINE j == Head(jobs)
  <2>1. Observe(j.key, j.kind, j.from # None)
    BY <1>3, MappedIsCurrent
  <2> HIDE DEF j
  <2>2. \A k \in Keys : \/ phase'[k] = phase[k]
                        \/ phase'[k] = ObservedPhase(phase[k], j.kind, j.from # None)
    BY <1>0, <2>1 DEF Observe
  <2> SUFFICES ASSUME NEW k \in Keys PROVE Rank(phase[k]) <= Rank(phase'[k])
    OBVIOUS
  <2>3. phase[k] \in Phases /\ (j.from # None) \in BOOLEAN
    BY <1>0
  <2>4. Rank(phase[k]) <= Rank(ObservedPhase(phase[k], j.kind, j.from # None))
    BY <2>3, ObservedPhaseIsPhase
  <2>5. CASE phase'[k] = phase[k]
    BY <1>0, <2>5
  <2> QED BY <2>2, <2>4, <2>5
<1>4. CASE Swept \/ Cleared
  <2>1. \A k \in Keys : connection'[k] = 0 \/ phase'[k] = phase[k]
    BY <1>0, <1>4 DEF Swept, Cleared, Forgotten
  <2> QED BY <1>0, <2>1
<1>5. CASE Tick
  BY <1>0, <1>5 DEF Tick
<1>6. CASE \E k \in Keys : AddClient(k)
  BY <1>0, <1>6 DEF AddClient
<1>7. CASE \E p \in delayed : DelayedSend(p)
  BY <1>0, <1>7 DEF DelayedSend
<1> QED BY <1>1, <1>2, <1>3, <1>4, <1>5, <1>6, <1>7, KindsOfSteps

-----------------------------------------------------------------------------
LEMMA BalancerInitially ==
  ASSUME Init
  PROVE  BalancerInv
<1> USE BalancerAssumption DEF Init
<1>1. RouteTypes
  <2>1. /\ closed \in BOOLEAN /\ clients \in [Keys -> Nat]
        /\ byKey \in [Keys -> Servers \cup {None}]
    OBVIOUS
  <2>2. connection \in [Keys -> Nat] /\ made \in [Keys -> Nat]
    OBVIOUS
  <2>3. phase \in [Keys -> Phases] /\ age \in [Keys -> Nat]
    BY DEF Phases
  <2>4. /\ clientOrder \in Seq(Keys \X Nat) /\ jobs \in Seq(Jobs)
        /\ delayed \in SUBSET Packets
    BY EmptySeq
  <2>5. sweepIn \in 0 .. CleanupInterval
    OBVIOUS
  <2> QED BY <2>1, <2>2, <2>3, <2>4, <2>5 DEF RouteTypes
<1>2. Mappings /\ HeldBack
  BY DEF Mappings, HeldBack
<1>3. SentWhereItBelongs /\ SweptInTime
  BY DEF SentWhereItBelongs, SweptInTime
<1> QED BY <1>1, <1>2, <1>3 DEF BalancerInv

LEMMA BalancerStaysSound == Spec => []BalancerInv
<1>1. Init => BalancerInv
  BY BalancerInitially
<1>2. BalancerInv /\ [Next]_vars => BalancerInv'
  BY RoutesStayTyped, MappingsStaySound, HeldBackStaysSound, SentBelongs,
     SweepsAreInTime DEF BalancerInv
<1> QED BY <1>1, <1>2, PTL DEF Spec

(* Whatever happens to its client, its mapping or the balancer while a     *)
(* packet waits for the CPU and for the chaos latency, it leaves only      *)
(* where it belongs (balancer.go:137, 166, 178, 193).                      *)
THEOREM PacketsLeaveWhereTheyBelong == Spec => []SentWhereItBelongs
<1>1. BalancerInv => SentWhereItBelongs
  BY DEF BalancerInv
<1> QED BY <1>1, BalancerStaysSound, PTL

(* No mapping with an idle limit outlives it by more than one sweep        *)
(* interval (balancer.go:309-323).                                         *)
THEOREM IdleMappingsAreSwept == Spec => []SweptInTime
<1>1. BalancerInv => SweptInTime
  BY DEF BalancerInv
<1> QED BY <1>1, BalancerStaysSound, PTL

(* A mapping never returns to an earlier phase (connections.go:46-73).     *)
THEOREM PhasesOnlyAdvance == Spec => PhaseNeverGoesBack
<1>1. BalancerInv /\ [Next]_vars =>
        [\A k \in Keys : connection[k] # 0 /\ connection'[k] = connection[k]
                           => Rank(phase[k]) <= Rank(phase'[k])]_vars
  BY PhasesAdvance
<1> QED BY <1>1, BalancerStaysSound, PTL DEF Spec, PhaseNeverGoesBack

-----------------------------------------------------------------------------
(* The servers' lists, their limits and the choice of a server.            *)

(* The places of the positions are numbers up to how many there are, and a *)
(* later position has a later place.                                       *)
LEMMA PlacesAreOrdered ==
  ASSUME NEW I, IsFiniteSet(I), I \subseteq Nat, NEW i \in I
  PROVE  /\ PlaceIn(I, i) \in 1 .. Cardinality(I)
         /\ \A j \in I : i < j => PlaceIn(I, i) < PlaceIn(I, j)
<1> DEFINE U(k) == {n \in I : n <= k}
<1>1. \A k \in I : U(k) \in SUBSET I /\ k \in U(k) /\ PlaceIn(I, k) = Cardinality(U(k))
  BY DEF PlaceIn
<1>2. \A k \in I : IsFiniteSet(U(k)) /\ Cardinality(U(k)) <= Cardinality(I)
  BY <1>1, FS_Subset
<1>3. \A k \in I : Cardinality(U(k)) \in Nat /\ Cardinality(I) \in Nat
  BY <1>2, FS_CardinalityType
<1>4. \A k \in I : Cardinality(U(k)) # 0
  BY <1>1, <1>2, FS_EmptySet
<1>5. ASSUME NEW j \in I, i < j
      PROVE  Cardinality(U(i)) < Cardinality(U(j))
  <2>0. \A m \in Nat : m <= i => m <= j /\ m # j
    BY <1>5
  <2>1. U(i) \in SUBSET (U(j) \ {j})
    BY <2>0
  <2>2. IsFiniteSet(U(j) \ {j}) /\ Cardinality(U(j) \ {j}) = Cardinality(U(j)) - 1
    BY <1>1, <1>2, FS_RemoveElement
  <2>3. Cardinality(U(i)) <= Cardinality(U(j) \ {j})
    BY <2>1, <2>2, FS_Subset
  <2> HIDE DEF U
  <2> QED BY <1>3, <2>2, <2>3
<1>6. Cardinality(U(i)) \in 1 .. Cardinality(I)
  <2> HIDE DEF U
  <2> QED BY <1>2, <1>3, <1>4
<1> HIDE DEF U
<1> QED BY <1>1, <1>5, <1>6

(* Every place up to the number of positions is taken, by exactly one.     *)
LEMMA EveryPlaceIsTaken ==
  ASSUME NEW I, IsFiniteSet(I), I \subseteq Nat
  PROVE  /\ Cardinality(I) \in Nat
         /\ \A i, j \in I : PlaceIn(I, i) = PlaceIn(I, j) => i = j
         /\ \A k \in 1 .. Cardinality(I) : \E i \in I : PlaceIn(I, i) = k
<1> DEFINE n == Cardinality(I)
           f == [i \in I |-> PlaceIn(I, i)]
           T == {f[i] : i \in I}
<1>1. n \in Nat
  BY FS_CardinalityType
<1>2. \A i \in I : PlaceIn(I, i) \in 1 .. n
  BY PlacesAreOrdered
<1>3. ASSUME NEW i \in I, NEW j \in I, PlaceIn(I, i) = PlaceIn(I, j)
      PROVE  i = j
  <2>1. ~(i < j)
    <3>1. i < j => PlaceIn(I, i) < PlaceIn(I, j)
      BY PlacesAreOrdered
    <3>2. PlaceIn(I, i) \in Nat
      BY <1>1, <1>2
    <3> QED BY <1>3, <3>1, <3>2
  <2>2. ~(j < i)
    <3>1. j < i => PlaceIn(I, j) < PlaceIn(I, i)
      BY PlacesAreOrdered
    <3>2. PlaceIn(I, i) \in Nat
      BY <1>1, <1>2
    <3> QED BY <1>3, <3>1, <3>2
  <2>3. i \in Nat /\ j \in Nat
    OBVIOUS
  <2> QED BY <2>1, <2>2, <2>3
<1>4. f \in Bijection(I, T)
  <2>1. f \in [I -> T] /\ \A t \in T : \E i \in I : f[i] = t
    OBVIOUS
  <2>2. \A i, j \in I : f[i] = f[j] => i = j
    BY <1>3
  <2>3. DOMAIN f = I
    OBVIOUS
  <2> HIDE DEF T, f
  <2> QED BY <2>1, <2>2, <2>3 DEF Bijection, Injection, Surjection, IsInjective
<1>5. IsFiniteSet(T) /\ Cardinality(T) = n
  BY <1>4, FS_Bijection DEF ExistsBijection
<1>6. T \in SUBSET (1 .. n)
  BY <1>2
<1>7. IsFiniteSet(1 .. n) /\ Cardinality(1 .. n) = n
  BY <1>1, FS_Interval
<1>8. T = 1 .. n
  BY <1>5, <1>6, <1>7, FS_Subset
<1>9. \A k \in 1 .. n : \E i \in I : PlaceIn(I, i) = k
  BY <1>8
<1> HIDE DEF n, f, T
<1> QED BY <1>1, <1>3, <1>9 DEF n

(* e holds the elements of s at the positions I, once each.                *)
Selected(s, I, e) ==
  /\ Len(e) = Cardinality(I) /\ Cardinality(I) \in Nat /\ Cardinality(I) <= Len(s)
  /\ \A i \in I : PlaceIn(I, i) \in 1 .. Len(e) /\ e[PlaceIn(I, i)] = s[i]
  /\ \A k \in 1 .. Len(e) : \E i \in I : PlaceIn(I, i) = k /\ e[k] = s[i]

LEMMA Selects ==
  ASSUME NEW S, NEW s \in Seq(S), NEW I \in SUBSET DOMAIN s
  PROVE  ElementsAt(s, I) \in Seq(S) /\ Selected(s, I, ElementsAt(s, I))
<1> DEFINE n == Cardinality(I)
           e == ElementsAt(s, I)
<1>1. DOMAIN s = 1 .. Len(s) /\ Len(s) \in Nat
  OBVIOUS
<1>2. IsFiniteSet(1 .. Len(s)) /\ Cardinality(1 .. Len(s)) = Len(s)
  <2>1. PICK m \in Nat : m = Len(s)
    BY <1>1
  <2>2. IsFiniteSet(1 .. m) /\ Cardinality(1 .. m) = m
    BY FS_Interval
  <2> QED BY <2>1, <2>2
<1>3. IsFiniteSet(I) /\ n <= Len(s) /\ I \subseteq Nat
  BY <1>1, <1>2, FS_Subset
<1>4. /\ n \in Nat
      /\ \A i, j \in I : PlaceIn(I, i) = PlaceIn(I, j) => i = j
      /\ \A k \in 1 .. n : \E i \in I : PlaceIn(I, i) = k
  BY <1>3, EveryPlaceIsTaken
<1>5. ASSUME NEW i \in I
      PROVE  PlaceIn(I, i) \in 1 .. n /\ e[PlaceIn(I, i)] = s[i]
  <2>1. PlaceIn(I, i) \in 1 .. n
    BY <1>3, PlacesAreOrdered
  <2>2. AtPlace(I, PlaceIn(I, i)) = {i}
    BY <1>4 DEF AtPlace
  <2>3. (CHOOSE j \in AtPlace(I, PlaceIn(I, i)) : TRUE) = i
    BY <2>2
  <2> QED BY <2>1, <2>3 DEF ElementsAt
<1>6. e = [k \in 1 .. n |-> e[k]]
  BY DEF ElementsAt
<1>7. \A k \in 1 .. n : \E i \in I : PlaceIn(I, i) = k /\ e[k] = s[i]
  BY <1>4, <1>5
<1>8. \A k \in 1 .. n : e[k] \in S
  <2>1. \A i \in I : s[i] \in S
    BY <1>1
  <2> HIDE DEF e, n
  <2> QED BY <1>7, <2>1
<1>9. e \in Seq(S) /\ Len(e) = n
  <2> HIDE DEF e, n
  <2>1. e \in [1 .. n -> S]
    BY <1>6, <1>8
  <2>2. e \in Seq(S)
    BY <1>4, <2>1
  <2>3. DOMAIN e = 1 .. n
    BY <2>1
  <2> QED BY <1>4, <2>2, <2>3, LenProperties
<1> HIDE DEF e, n
<1> QED BY <1>3, <1>4, <1>5, <1>7, <1>9 DEF Selected, e, n

-----------------------------------------------------------------------------
(* What a step does to the servers' lists.                                 *)
ListsKept == UNCHANGED <<clients, table, byKey>>

ListsForgotten == \E gone \in SUBSET Keys : Forget(gone) /\ UNCHANGED clients

ListsEmptied == table' = [s \in Servers |-> << >>] /\ byKey' = [k \in Keys |-> None]

(* Only four kinds of steps touch the lists, the mappings or the clients.  *)
LEMMA KindsOfListSteps ==
  ASSUME [Next]_vars
  PROVE  \/ ListsKept \/ Routed \/ ListsForgotten \/ ListsEmptied
         \/ \E k \in Keys : AddClient(k)
<1>1. CASE \E s \in Servers : AddServer(s) \/ HealthChanges(s)
  BY <1>1 DEF AddServer, HealthChanges, registry, routes, ListsKept
<1>2. CASE \E k \in Keys, kind \in Arriving :
             \/ HandleClientPacket(k, kind)
             \/ \E s \in Servers : HandleServerPacket(s, k, kind)
  BY <1>2 DEF HandleClientPacket, HandleServerPacket, registry, routes, ListsKept
<1>3. CASE Process
  <2>1. CASE \/ ProcessDropped(Head(jobs)) \/ ProcessRefused(Head(jobs))
             \/ ProcessMapped(Head(jobs))
    <3>1. UNCHANGED routes
      BY <2>1 DEF ProcessDropped, ProcessRefused, ProcessMapped
    <3> QED BY <1>3, <3>1 DEF Process, registry, routes, ListsKept
  <2>2. CASE ProcessRouted(Head(jobs))
    BY <1>3, <2>2 DEF Process, Routed
  <2> QED BY <1>3, <2>1, <2>2 DEF Process
<1>4. CASE Cleanup
  BY <1>4 DEF Cleanup, registry, ListsForgotten
<1>5. CASE ClearConnections \/ Shutdown
  BY <1>5 DEF ClearConnections, Shutdown, ClearConnectionTable, ListsEmptied
<1>6. CASE \/ \E a \in Algorithms : SetAlgorithm(a)
           \/ \E c \in ChaosConfigs : SetChaosConfig(c)
  BY <1>6 DEF SetAlgorithm, SetChaosConfig, registry, routes, ListsKept
<1>7. CASE Tick \/ \E p \in delayed : DelayedSend(p)
  BY <1>7 DEF Tick, DelayedSend, registry, routes, ListsKept
<1>8. CASE UNCHANGED vars
  BY <1>8 DEF vars, registry, routes, ListsKept
<1> QED BY <1>1, <1>2, <1>3, <1>4, <1>5, <1>6, <1>7, <1>8 DEF Next

(* The list of a server, seen one entry at a time: cl are the registered   *)
(* clients and m says where each key is mapped.                            *)
ListOf(s, t, cl, m) ==
  /\ \A i \in 1 .. Len(t) : \E q \in Keys : m[q] = s /\ t[i] = <<q, cl[q]>>
  /\ \A q \in Keys : m[q] = s => \E i \in 1 .. Len(t) : t[i] = <<q, cl[q]>>
  /\ \A i, j \in 1 .. Len(t) : t[i] = t[j] => i = j

AllLists(t, cl, m) == \A s \in Servers : ListOf(s, t[s], cl, m)

(* Seen so, the lists and the mappings tell the same story as in           *)
(* TablesAgree.                                                            *)
LEMMA TablesEntryByEntry ==
  TablesAgree <=> /\ \A k \in Keys : /\ byKey[k] # None <=> connection[k] # 0
                                     /\ byKey[k] # None => clients[k] # 0
                  /\ AllLists(table, clients, byKey)
<1>1. ASSUME NEW s \in Servers
      PROVE  ListOf(s, table[s], clients, byKey) <=>
               /\ RangeOf(table[s]) = {<<k, clients[k]>> : k \in {j \in Keys : byKey[j] = s}}
               /\ \A i, j \in 1 .. Len(table[s]) : table[s][i] = table[s][j] => i = j
  <2> DEFINE t == table[s]
             A == {t[i] : i \in 1 .. Len(t)}
             B == {<<k, clients[k]>> : k \in {j \in Keys : byKey[j] = s}}
  <2>1. (A = B) <=> (\A x \in A : x \in B) /\ (\A x \in B : x \in A)
    OBVIOUS
  <2>2. (\A x \in A : x \in B) <=>
          \A i \in 1 .. Len(t) : \E q \in Keys : byKey[q] = s /\ t[i] = <<q, clients[q]>>
    OBVIOUS
  <2>3. (\A x \in B : x \in A) <=>
          \A q \in Keys : byKey[q] = s => \E i \in 1 .. Len(t) : t[i] = <<q, clients[q]>>
    OBVIOUS
  <2>4. RangeOf(t) = A
    BY DEF RangeOf
  <2> HIDE DEF A, B, t
  <2>5. ListOf(s, t, clients, byKey) <=>
          RangeOf(t) = B /\ \A i, j \in 1 .. Len(t) : t[i] = t[j] => i = j
    BY <2>1, <2>2, <2>3, <2>4 DEF ListOf
  <2> QED BY <2>5 DEF t, B
<1> QED BY <1>1 DEF TablesAgree, AllLists

(* A client that is new to the list of s is added at its end.              *)
LEMMA ListGrows ==
  ASSUME NEW s \in Servers, NEW k \in Keys, NEW t \in Seq(Keys \X Nat),
         NEW cl \in [Keys -> Nat], NEW m \in [Keys -> Servers \cup {None}],
         ListOf(s, t, cl, m), m[k] # s
  PROVE  ListOf(s, Append(t, <<k, cl[k]>>), cl, [m EXCEPT ![k] = s])
<1> DEFINE e == <<k, cl[k]>>
           u == Append(t, e)
           w == [m EXCEPT ![k] = s]
<1>1. /\ Len(t) \in Nat /\ Len(u) = Len(t) + 1 /\ u[Len(t) + 1] = e
      /\ \A i \in 1 .. Len(t) : u[i] = t[i]
  <2>1. e \in Keys \X Nat
    OBVIOUS
  <2> HIDE DEF e
  <2> QED BY <2>1, AppendProperties
<1>2. w[k] = s /\ \A q \in Keys : q # k => w[q] = m[q]
  OBVIOUS
<1>3. \A q \in Keys : <<q, cl[q]>> = e => q = k
  OBVIOUS
<1>4. PICK n \in Nat : n = Len(t)
  BY <1>1
<1>5. \A i \in 1 .. n : \E q \in Keys : m[q] = s /\ t[i] = <<q, cl[q]>>
  BY <1>4 DEF ListOf
<1>6. \A i \in 1 .. n : t[i] # e
  BY <1>3, <1>5
<1>7. Len(u) = n + 1 /\ u[n + 1] = e /\ \A i \in 1 .. n : u[i] = t[i]
  BY <1>1, <1>4
<1>8. e = <<k, cl[k]>>
  OBVIOUS
<1>9. \A q \in Keys : m[q] = s => \E i \in 1 .. n : t[i] = <<q, cl[q]>>
  BY <1>4 DEF ListOf
<1>10. \A i, j \in 1 .. n : t[i] = t[j] => i = j
  BY <1>4 DEF ListOf
<1>11. \A i \in 1 .. n + 1 : i \in 1 .. n \/ i = n + 1
  BY <1>4
<1> HIDE DEF e, u, w
<1>12. \A i \in 1 .. Len(u) : \E q \in Keys : w[q] = s /\ u[i] = <<q, cl[q]>>
  <2>1. \A i \in 1 .. n : \E q \in Keys : w[q] = s /\ u[i] = <<q, cl[q]>>
    <3> SUFFICES ASSUME NEW i \in 1 .. n
                 PROVE  \E q \in Keys : w[q] = s /\ u[i] = <<q, cl[q]>>
      OBVIOUS
    <3>1. PICK q \in Keys : m[q] = s /\ t[i] = <<q, cl[q]>>
      BY <1>5
    <3>2. w[q] = s
      BY <1>2, <3>1
    <3> QED BY <1>7, <3>1, <3>2
  <2>2. w[k] = s /\ u[n + 1] = <<k, cl[k]>>
    BY <1>2, <1>7, <1>8
  <2> QED BY <1>7, <1>11, <2>1, <2>2
<1>13. \A q \in Keys : w[q] = s => \E i \in 1 .. Len(u) : u[i] = <<q, cl[q]>>
  <2> SUFFICES ASSUME NEW q \in Keys, w[q] = s
               PROVE  \E i \in 1 .. n + 1 : u[i] = <<q, cl[q]>>
    BY <1>7
  <2>1. CASE q = k
    <3>1. n + 1 \in 1 .. n + 1
      BY <1>4
    <3> QED BY <1>7, <1>8, <2>1, <3>1
  <2>2. CASE q # k
    <3>1. PICK i \in 1 .. n : t[i] = <<q, cl[q]>>
      BY <1>2, <1>9, <2>2
    <3>2. i \in 1 .. n + 1
      BY <1>4
    <3> QED BY <1>7, <3>1, <3>2
  <2> QED BY <2>1, <2>2
<1>14. \A i, j \in 1 .. Len(u) : u[i] = u[j] => i = j
  BY <1>6, <1>7, <1>10, <1>11
<1>15. ListOf(s, u, cl, w)
  BY <1>12, <1>13, <1>14 DEF ListOf
<1> QED BY <1>15 DEF u, w, e

(* forgetRoute of the keys in gone: u is what it leaves of the list t of s, *)
(* and w where the keys are mapped then.                                   *)
EntriesForgotten(s, t, cl, m, gone, u, w) ==
  /\ u = ElementsAt(t, {i \in DOMAIN t : LET e == t[i] IN
                          ~(e[1] \in gone /\ m[e[1]] = s /\ e[2] = cl[e[1]])})
  /\ w = [q \in Keys |-> IF q \in gone THEN None ELSE m[q]]

(* When some entries of a list are taken out, the others stay, in order.   *)
LEMMA ListShrinks ==
  ASSUME NEW s \in Servers, NEW t \in Seq(Keys \X Nat),
         NEW cl \in [Keys -> Nat], NEW m \in [Keys -> Servers \cup {None}],
         NEW gone \in SUBSET Keys, NEW u, NEW w,
         EntriesForgotten(s, t, cl, m, gone, u, w), ListOf(s, t, cl, m)
  PROVE  /\ u \in Seq(Keys \X Nat) /\ Len(u) <= Len(t)
         /\ ListOf(s, u, cl, w)
<1> DEFINE I == {i \in DOMAIN t : LET e == t[i] IN
                  ~(e[1] \in gone /\ m[e[1]] = s /\ e[2] = cl[e[1]])}
<1>0. /\ I = {i \in DOMAIN t : ~(t[i][1] \in gone /\ m[t[i][1]] = s /\ t[i][2] = cl[t[i][1]])}
      /\ w = [q \in Keys |-> IF q \in gone THEN None ELSE m[q]]
      /\ u = ElementsAt(t, I)
  BY DEF EntriesForgotten
<1> HIDE DEF I
<1>1. DOMAIN t = 1 .. Len(t) /\ Len(t) \in Nat
  OBVIOUS
<1>2. \A i \in 1 .. Len(t) : \E q \in Keys :
        m[q] = s /\ t[i] = <<q, cl[q]>> /\ (i \in I <=> q \notin gone)
  <2> SUFFICES ASSUME NEW i \in 1 .. Len(t)
               PROVE  \E q \in Keys : m[q] = s /\ t[i] = <<q, cl[q]>> /\ (i \in I <=> q \notin gone)
    OBVIOUS
  <2>1. PICK q \in Keys : m[q] = s /\ t[i] = <<q, cl[q]>>
    BY DEF ListOf
  <2>2. t[i][1] = q /\ t[i][2] = cl[q]
    BY <2>1
  <2>3. i \in I <=> q \notin gone
    BY <1>0, <1>1, <2>1, <2>2
  <2> QED BY <2>1, <2>3
<1>3. I \in SUBSET DOMAIN t
  BY <1>0
<1>4. u \in Seq(Keys \X Nat) /\ Selected(t, I, u)
  BY <1>0, <1>3, Selects
<1>5. \A q \in Keys : w[q] = s <=> q \notin gone /\ m[q] = s
  BY <1>0, BalancerAssumption
<1>6. \A i \in I : i \in 1 .. Len(t)
  BY <1>1, <1>3
<1>7. \A k \in 1 .. Len(u) : \E q \in Keys : w[q] = s /\ u[k] = <<q, cl[q]>>
  <2> SUFFICES ASSUME NEW k \in 1 .. Len(u)
               PROVE  \E q \in Keys : w[q] = s /\ u[k] = <<q, cl[q]>>
    OBVIOUS
  <2>1. PICK i \in I : u[k] = t[i]
    BY <1>4 DEF Selected
  <2>2. PICK q \in Keys : m[q] = s /\ t[i] = <<q, cl[q]>> /\ (i \in I <=> q \notin gone)
    BY <1>2, <1>6, <2>1
  <2> QED BY <1>5, <2>1, <2>2
<1>8. ASSUME NEW q \in Keys, w[q] = s
      PROVE  \E k \in 1 .. Len(u) : u[k] = <<q, cl[q]>>
  <2>1. q \notin gone /\ m[q] = s
    BY <1>5, <1>8
  <2>2. PICK i \in 1 .. Len(t) : t[i] = <<q, cl[q]>>
    BY <2>1 DEF ListOf
  <2>3. i \in I
    BY <1>2, <2>1, <2>2
  <2>4. PlaceIn(I, i) \in 1 .. Len(u) /\ u[PlaceIn(I, i)] = t[i]
    BY <1>4, <2>3 DEF Selected
  <2> QED BY <2>2, <2>4
<1>9. \A i, j \in 1 .. Len(t) : t[i] = t[j] => i = j
  BY DEF ListOf
<1>10. ASSUME NEW k \in 1 .. Len(u), NEW l \in 1 .. Len(u), u[k] = u[l]
       PROVE  k = l
  <2>1. PICK i \in I : PlaceIn(I, i) = k /\ u[k] = t[i]
    BY <1>4 DEF Selected
  <2>2. PICK j \in I : PlaceIn(I, j) = l /\ u[l] = t[j]
    BY <1>4 DEF Selected
  <2>3. i = j
    BY <1>6, <1>9, <1>10, <2>1, <2>2
  <2> QED BY <2>1, <2>2, <2>3
<1>11. ListOf(s, u, cl, w)
  BY <1>7, <1>8, <1>10 DEF ListOf
<1> QED BY <1>4, <1>11 DEF Selected

-----------------------------------------------------------------------------
(* The types that BalancerInv does not speak of.                           *)
ChoiceTypes ==
  /\ servers \in Seq(Servers) /\ healthy \in SUBSET Servers
  /\ algorithm \in Algorithms /\ index \in Nat
  /\ chaos \in [drops : BOOLEAN, latency : BOOLEAN]

WithinBounds ==
  /\ \A k \in Keys : /\ clients[k] <= MaxInstances /\ made[k] <= MaxMappings
                     /\ age[k] <= MaxAge
  /\ Len(jobs) <= JobCapacity

TablesTyped == table \in [Servers -> Seq(Keys \X Nat)]

(* The inductive invariant: the lists are told entry by entry, and stand   *)
(* beside the mappings, which say that an unmapped key is in no list.      *)
RoutesInv ==
  /\ BalancerInv /\ ChoiceTypes /\ WithinBounds /\ TablesTyped
  /\ sent \in SUBSET Packets
  /\ AllLists(table, clients, byKey) /\ CapacityHolds

(* RoutesInv is RoutesAreSound together with what keeps it true.           *)
LEMMA RoutesInvSuffices ==
  ASSUME RoutesInv
  PROVE  RoutesAreSound
<1> USE BalancerAssumption DEF RoutesInv, BalancerInv, RouteTypes
<1>1. /\ clients \in [Keys -> 0 .. MaxInstances] /\ age \in [Keys -> 0 .. MaxAge]
      /\ made \in [Keys -> 0 .. MaxMappings]
  BY DEF WithinBounds
<1>2. connection \in [Keys -> 0 .. MaxMappings]
  <2>1. \A k \in Keys : connection[k] <= made[k] /\ made[k] <= MaxMappings
    BY DEF Mappings, WithinBounds
  <2> QED BY <2>1
<1>3. TypeOK
  BY <1>1, <1>2 DEF TypeOK, ChoiceTypes, WithinBounds, TablesTyped
<1>4. TablesAgree
  BY TablesEntryByEntry DEF Mappings
<1> QED BY <1>3, <1>4 DEF RoutesAreSound

(* The servers Pick chooses from.                                          *)
LEMMA CandidatesAreHealthy ==
  ASSUME servers \in Seq(Servers)
  PROVE  /\ Candidates \in Seq(Servers)
         /\ \A i \in 1 .. Len(servers) : servers[i] \in healthy =>
              servers[i] \in RangeOf(Candidates)
<1> DEFINE I == {i \in DOMAIN servers : servers[i] \in healthy}
<1>1. I \in SUBSET DOMAIN servers
  OBVIOUS
<1>2. Candidates = ElementsAt(servers, I)
  BY DEF Candidates
<1>3. DOMAIN servers = 1 .. Len(servers)
  OBVIOUS
<1>4. \A i \in 1 .. Len(servers) : servers[i] \in healthy => i \in I
  BY <1>3
<1> HIDE DEF I
<1>5. Candidates \in Seq(Servers) /\ Selected(servers, I, Candidates)
  BY <1>1, <1>2, Selects
<1>6. ASSUME NEW i \in I
      PROVE  servers[i] \in RangeOf(Candidates)
  <2>1. /\ PlaceIn(I, i) \in 1 .. Len(Candidates)
        /\ Candidates[PlaceIn(I, i)] = servers[i]
    BY <1>5 DEF Selected
  <2> QED BY <2>1 DEF RangeOf
<1> QED BY <1>4, <1>5, <1>6

(* Whichever algorithm picks, the server has room, and the rotation's next *)
(* position is a number.                                                   *)
LEMMA PickHasRoom ==
  ASSUME servers \in Seq(Servers), index \in Nat, NEW s \in Servers, Pick(s)
  PROVE  HasRoom(s) /\ index' \in Nat
<1>1. CASE algorithm = "roundRobin" /\ Candidates # << >>
  <2>0. PICK n \in Nat : n = Len(Candidates)
    BY CandidatesAreHealthy
  <2>1. n # 0
    BY <1>1, <2>0, CandidatesAreHealthy, EmptySeq
  <2>2. CASE UNCHANGED index /\ HasRoom(s)
    BY <2>2
  <2>3. CASE \E d \in 0 .. n - 1 : /\ FirstRoom(index % n, d)
                                  /\ s = RotationFrom(index % n, d)
                                  /\ index' = ((index % n) + d + 1) % n
    <3>1. PICK d \in 0 .. n - 1 : /\ FirstRoom(index % n, d)
                                  /\ s = RotationFrom(index % n, d)
                                  /\ index' = ((index % n) + d + 1) % n
      BY <2>3
    <3>2. HasRoom(s)
      BY <3>1 DEF FirstRoom
    <3>3. PICK a \in Nat : a = (index % n) + d + 1
      <4>1. PICK b \in Nat : b = index % n
        BY <2>1
      <4>2. b + d + 1 \in Nat
        OBVIOUS
      <4> QED BY <4>1, <4>2
    <3>4. a % n \in Nat
      BY <2>1
    <3> QED BY <3>1, <3>2, <3>3, <3>4
  <2> QED BY <2>0, <2>2, <2>3 DEF Pick
<1>2. CASE algorithm = "random"
  BY <1>2 DEF Pick
<1> QED BY <1>1, <1>2 DEF Pick

(* The servers, their health, the algorithm and the chaos settings keep    *)
(* their types.                                                            *)
LEMMA ChoiceStaysTyped ==
  ASSUME RoutesInv, [Next]_vars
  PROVE  ChoiceTypes'
<1> USE BalancerAssumption DEF ChoiceTypes
<1>0. ChoiceTypes
  BY DEF RoutesInv
<1>1. CASE \E s \in Servers : AddServer(s)
  <2>1. PICK s \in Servers : AddServer(s)
    BY <1>1
  <2>2. servers' \in Seq(Servers)
    BY <1>0, <2>1, AppendProperties DEF AddServer
  <2> QED BY <1>0, <2>1, <2>2 DEF AddServer, choice
<1>2. CASE \E s \in Servers : HealthChanges(s)
  <2>1. PICK s \in Servers : HealthChanges(s)
    BY <1>2
  <2>2. healthy' \in SUBSET Servers
    BY <1>0, <2>1 DEF HealthChanges
  <2> QED BY <1>0, <2>1, <2>2 DEF HealthChanges, choice, registry
<1>3. CASE Process
  <2>1. UNCHANGED <<servers, chaos>>
    BY <1>3 DEF Process, registry
  <2>2. CASE ProcessDropped(Head(jobs)) \/ ProcessMapped(Head(jobs))
    BY <1>0, <2>1, <2>2 DEF ProcessDropped, ProcessMapped, choice
  <2>3. CASE ProcessRefused(Head(jobs))
    <3>1. UNCHANGED <<healthy, algorithm>> /\ PickFails
      BY <2>3 DEF ProcessRefused
    <3>2. index' \in Nat
      <4>0. PICK n \in Nat : n = Len(Candidates)
        BY <1>0, CandidatesAreHealthy
      <4>1. CASE Candidates # << >>
        <5>1. n # 0
          BY <1>0, <4>0, <4>1, CandidatesAreHealthy, EmptySeq
        <5>2. index % n \in Nat
          BY <1>0, <5>1
        <5> QED BY <1>0, <3>1, <4>0, <5>2 DEF PickFails
      <4>2. CASE Candidates = << >>
        BY <1>0, <3>1, <4>2 DEF PickFails
      <4> QED BY <4>1, <4>2
    <3> QED BY <1>0, <2>1, <3>1, <3>2
  <2>4. CASE ProcessRouted(Head(jobs))
    <3>1. UNCHANGED <<healthy, algorithm>> /\ \E s \in Servers : Pick(s)
      BY <2>4 DEF ProcessRouted
    <3>2. index' \in Nat
      BY <1>0, <3>1, PickHasRoom
    <3> QED BY <1>0, <2>1, <3>1, <3>2
  <2> QED BY <1>3, <2>2, <2>3, <2>4 DEF Process
<1>4. CASE Shutdown
  <2>1. servers' \in Seq(Servers) /\ healthy' \in SUBSET Servers
    BY <1>4, EmptySeq DEF Shutdown
  <2> QED BY <1>0, <1>4, <2>1 DEF Shutdown, choice
<1>5. CASE \E a \in Algorithms : SetAlgorithm(a)
  BY <1>0, <1>5 DEF SetAlgorithm, registry
<1>6. CASE \E c \in ChaosConfigs : SetChaosConfig(c)
  <2>1. PICK c \in ChaosConfigs : SetChaosConfig(c)
    BY <1>6
  <2>2. c \in [drops : BOOLEAN, latency : BOOLEAN]
    OBVIOUS
  <2> QED BY <1>0, <2>1, <2>2 DEF SetChaosConfig, choice, registry
<1>7. CASE \E k \in Keys, kind \in Arriving :
             \/ HandleClientPacket(k, kind)
             \/ \E s \in Servers : HandleServerPacket(s, k, kind)
  BY <1>0, <1>7 DEF HandleClientPacket, HandleServerPacket, choice, registry
<1>8. CASE \E k \in Keys : AddClient(k)
  BY <1>0, <1>8 DEF AddClient, choice
<1>9. CASE \/ Cleanup \/ ClearConnections \/ Tick
           \/ \E p \in delayed : DelayedSend(p)
  BY <1>0, <1>9 DEF Cleanup, ClearConnections, Tick, DelayedSend, choice, registry
<1>10. CASE UNCHANGED vars
  BY <1>0, <1>10 DEF vars, choice, registry
<1> QED BY <1>1, <1>2, <1>3, <1>4, <1>5, <1>6, <1>7, <1>8, <1>9, <1>10 DEF Next

(* No step goes over a bound: the guards stop it before.                   *)
LEMMA BoundsAreKept ==
  ASSUME RoutesInv, [Next]_vars
  PROVE  WithinBounds'
<1> USE BalancerAssumption
<1>0. /\ \A k \in Keys : /\ clients[k] <= MaxInstances /\ made[k] <= MaxMappings
                         /\ age[k] <= MaxAge
      /\ Len(jobs) <= JobCapacity /\ Len(jobs) \in Nat
      /\ clients \in [Keys -> Nat] /\ made \in [Keys -> Nat] /\ age \in [Keys -> Nat]
  BY DEF RoutesInv, WithinBounds, BalancerInv, RouteTypes
<1>1. \A k \in Keys : clients'[k] <= MaxInstances
  <2>1. CASE UNCHANGED clients
    BY <1>0, <2>1
  <2>2. CASE clients' = [k \in Keys |-> 0]
    BY <2>2
  <2>3. CASE \E k \in Keys : AddClient(k)
    <3>1. PICK k \in Keys : AddClient(k)
      BY <2>3
    <3>2. clients[k] < MaxInstances /\ clients' = [clients EXCEPT ![k] = clients[k] + 1]
      BY <3>1 DEF AddClient
    <3> QED BY <1>0, <3>2
  <2>4. BalancerInv
    BY DEF RoutesInv
  <2>5. Routed => UNCHANGED clients
    BY DEF Routed, Process, registry
  <2>6. Mapped => UNCHANGED clients
    BY DEF Mapped, Process, registry
  <2>7. Quiet \/ Swept \/ Tick \/ (\E p \in delayed : DelayedSend(p)) => UNCHANGED clients
    BY DEF Quiet, Swept, Tick, DelayedSend, registry
  <2>8. Cleared => UNCHANGED clients \/ clients' = [k \in Keys |-> 0]
    BY DEF Cleared, registry
  <2> QED BY <2>1, <2>2, <2>3, <2>5, <2>6, <2>7, <2>8, KindsOfSteps
<1>2. \A k \in Keys : made'[k] <= MaxMappings
  <2>1. CASE UNCHANGED made
    BY <1>0, <2>1
  <2>2. CASE Routed
    <3>1. PICK k \in Keys : made[k] < MaxMappings /\ made' = [made EXCEPT ![k] = @ + 1]
      <4>1. Head(jobs) \in Jobs
        BY <2>2, HeadIsJob DEF Routed, RoutesInv, BalancerInv
      <4> QED BY <2>2, <4>1 DEF Routed, ProcessRouted, Jobs
    <3> QED BY <1>0, <3>1
  <2>3. BalancerInv
    BY DEF RoutesInv
  <2>4. Mapped => UNCHANGED made
    BY DEF Mapped, ProcessMapped, routes
  <2>5. Quiet \/ Swept \/ Cleared \/ Tick => UNCHANGED made
    BY DEF Quiet, Swept, Cleared, Forgotten, Tick, routes
  <2>6. (\E k \in Keys : AddClient(k)) \/ (\E p \in delayed : DelayedSend(p)) => UNCHANGED made
    BY DEF AddClient, DelayedSend, routes
  <2> QED BY <2>1, <2>2, <2>4, <2>5, <2>6, KindsOfSteps
<1>3. \A k \in Keys : age'[k] <= MaxAge
  <2>1. CASE \A k \in Keys : age'[k] \in {0, age[k]}
    <3> SUFFICES ASSUME NEW k \in Keys PROVE age'[k] <= MaxAge
      OBVIOUS
    <3>1. age'[k] = 0 \/ age'[k] = age[k]
      BY <2>1
    <3>2. 0 <= MaxAge
      OBVIOUS
    <3> QED BY <1>0, <3>1, <3>2
  <2>2. CASE Tick
    <3> SUFFICES ASSUME NEW k \in Keys PROVE age'[k] <= MaxAge
      OBVIOUS
    <3>1. \/ age'[k] = age[k]
          \/ age'[k] = age[k] + 1 /\ age[k] < MaxAge
      BY <2>2 DEF Tick
    <3> QED BY <1>0, <3>1
  <2>3. CASE Routed \/ Mapped
    <3>1. \A k \in Keys : age'[k] \in {0, age[k]}
      BY <1>0, <2>3 DEF Routed, Mapped, ProcessRouted, ProcessMapped, Observe
    <3> QED BY <2>1, <3>1
  <2>4. Swept \/ Cleared => \A k \in Keys : age'[k] \in {0, age[k]}
    BY DEF Swept, Cleared, Forgotten
  <2>5. Quiet \/ (\E k \in Keys : AddClient(k)) \/ (\E p \in delayed : DelayedSend(p))
          => UNCHANGED age
    BY DEF Quiet, AddClient, DelayedSend
  <2>6. BalancerInv
    BY DEF RoutesInv
  <2> QED BY <2>1, <2>2, <2>3, <2>4, <2>5, KindsOfSteps
<1>4. Len(jobs') <= JobCapacity
  <2>0. jobs \in Seq(Jobs)
    BY DEF RoutesInv, BalancerInv, RouteTypes
  <2>1. CASE UNCHANGED jobs
    BY <1>0, <2>1
  <2>2. CASE \E j : jobs' = Append(jobs, j) /\ Len(jobs) < JobCapacity
    <3>1. PICK j : jobs' = Append(jobs, j) /\ Len(jobs) < JobCapacity
      BY <2>2
    <3>2. Len(jobs') = Len(jobs) + 1
      BY <2>0, <3>1
    <3> QED BY <1>0, <3>1, <3>2
  <2>3. CASE Process
    <3>1. jobs # << >> /\ jobs' = Tail(jobs)
      BY <2>3 DEF Process
    <3>2. Len(jobs') = Len(jobs) - 1
      BY <2>0, <3>1
    <3> QED BY <1>0, <3>2
  <2>4. CASE Shutdown
    <3>1. jobs' = << >>
      BY <2>4 DEF Shutdown
    <3> QED BY <3>1, EmptySeq
  <2>5. CASE \E k \in Keys, kind \in Arriving :
               \/ HandleClientPacket(k, kind)
               \/ \E s \in Servers : HandleServerPacket(s, k, kind)
    BY <2>2, <2>5 DEF HandleClientPacket, HandleServerPacket
  <2>6. CASE \/ \E k \in Keys : AddClient(k)
             \/ \E s \in Servers : AddServer(s) \/ HealthChanges(s)
    BY <2>1, <2>6 DEF AddClient, AddServer, HealthChanges
  <2>7. CASE \/ Cleanup \/ ClearConnections \/ Tick
             \/ \E p \in delayed : DelayedSend(p)
    BY <2>1, <2>7 DEF Cleanup, ClearConnections, Tick, DelayedSend
  <2>8. CASE \/ \E a \in Algorithms : SetAlgorithm(a)
             \/ \E c \in ChaosConfigs : SetChaosConfig(c)
    BY <2>1, <2>8 DEF SetAlgorithm, SetChaosConfig
  <2> QED BY <2>1, <2>3, <2>4, <2>5, <2>6, <2>7, <2>8 DEF Next, vars
<1> QED BY <1>1, <1>2, <1>3, <1>4 DEF WithinBounds

(* Only packets are handed to a Sender.                                    *)
LEMMA SentStaysTyped ==
  ASSUME RoutesInv, [Next]_vars
  PROVE  sent' \in SUBSET Packets
<1>0. BalancerInv /\ sent \in SUBSET Packets /\ delayed \in SUBSET Packets
  BY DEF RoutesInv, BalancerInv, RouteTypes
<1>r. /\ made \in [Keys -> Nat] /\ connection \in [Keys -> Nat]
      /\ byKey \in [Keys -> Servers \cup {None}]
  BY DEF RoutesInv, BalancerInv, RouteTypes
<1>1. CASE Routed
  <2> DEFINE j == Head(jobs)
  <2>1. j \in Jobs
    BY <1>0, <1>1, RoutedMakesNew
  <2>2. PICK s \in Servers : Forward(Outgoing(j, s, made[j.key] + 1))
    BY <1>0, <1>1, RoutedMakesNew
  <2> HIDE DEF j
  <2>3. made[j.key] + 1 \in Nat
    BY <1>r, <2>1 DEF Jobs
  <2>4. Outgoing(j, s, made[j.key] + 1) \in Packets
    BY <2>1, <2>3, OutgoingBelongs
  <2>5. sent' \in {{}, {Outgoing(j, s, made[j.key] + 1)}}
    BY <2>2, ForwardOutcomes
  <2> QED BY <2>4, <2>5
<1>2. CASE Mapped
  <2> DEFINE j == Head(jobs)
  <2>1. /\ j \in Jobs /\ byKey[j.key] \in Servers
        /\ Forward(Outgoing(j, byKey[j.key], connection[j.key]))
    BY <1>0, <1>2, MappedIsCurrent
  <2> HIDE DEF j
  <2>2. connection[j.key] \in Nat
    BY <1>r, <2>1 DEF Jobs
  <2>3. Outgoing(j, byKey[j.key], connection[j.key]) \in Packets
    BY <2>1, <2>2, OutgoingBelongs
  <2>4. sent' \in {{}, {Outgoing(j, byKey[j.key], connection[j.key])}}
    BY <2>1, ForwardOutcomes
  <2> QED BY <2>3, <2>4
<1>3. CASE \E p \in delayed : DelayedSend(p)
  BY <1>0, <1>3 DEF DelayedSend
<1>4. Quiet \/ Swept \/ Cleared \/ Tick => sent' \in {{}, sent}
  BY DEF Quiet, Swept, Cleared, Forgotten, Tick
<1>5. (\E k \in Keys : AddClient(k)) => sent' = {}
  BY DEF AddClient
<1> QED BY <1>0, <1>1, <1>2, <1>3, <1>4, <1>5, KindsOfSteps

(* Routed: the client of an unmapped key joins the list of a server that   *)
(* has room.                                                               *)
LEMMA RoutedList ==
  ASSUME RoutesInv, Routed
  PROVE  \E s \in Servers, k \in Keys :
           /\ HasRoom(s) /\ byKey[k] = None
           /\ table' = [table EXCEPT ![s] = Append(@, <<k, clients[k]>>)]
           /\ byKey' = [byKey EXCEPT ![k] = s]
           /\ clients' = clients
<1> DEFINE j == Head(jobs)
<1>1. ProcessRouted(j) /\ clients' = clients
  BY DEF Routed, Process, registry
<1>2. j \in Jobs
  BY HeadIsJob DEF RoutesInv, BalancerInv, Routed
<1> HIDE DEF j
<1>3. PICK s \in Servers : /\ Pick(s)
                           /\ table' = [table EXCEPT ![s] = Append(@, <<j.key, clients[j.key]>>)]
                           /\ byKey' = [byKey EXCEPT ![j.key] = s]
  BY <1>1 DEF ProcessRouted
<1>4. j.key \in Keys /\ byKey[j.key] = None
  BY <1>1, <1>2 DEF ProcessRouted, Jobs
<1>5. HasRoom(s)
  <2>1. servers \in Seq(Servers) /\ index \in Nat
    BY DEF RoutesInv, ChoiceTypes
  <2> QED BY <1>3, <2>1, PickHasRoom
<1> QED BY <1>1, <1>3, <1>4, <1>5

-----------------------------------------------------------------------------
(* A new client of k is in no list, since k is not mapped.                 *)
LEMMA ListsOfOtherClients ==
  ASSUME NEW s \in Servers, NEW t, NEW cl, NEW new, NEW m, NEW k \in Keys,
         m[k] # s, \A q \in Keys : q # k => new[q] = cl[q],
         ListOf(s, t, cl, m)
  PROVE  ListOf(s, t, new, m)
<1>1. \A q \in Keys : m[q] = s => <<q, cl[q]>> = <<q, new[q]>>
  OBVIOUS
<1> QED BY <1>1 DEF ListOf

(* A list does not change with the mappings of other servers.              *)
LEMMA ListsOfOtherServers ==
  ASSUME NEW s \in Servers, NEW t, NEW cl, NEW m, NEW w,
         \A q \in Keys : w[q] = s <=> m[q] = s,
         ListOf(s, t, cl, m)
  PROVE  ListOf(s, t, cl, w)
BY DEF ListOf

(* Route, forgetRoute, a cleared table and a client that takes the place   *)
(* of another leave every list with the clients mapped to its server, once *)
(* each, and within the limit.                                             *)
LEMMA ListsStayTrue ==
  ASSUME RoutesInv, [Next]_vars
  PROVE  TablesTyped' /\ AllLists(table, clients, byKey)' /\ CapacityHolds'
<1>0. /\ table \in [Servers -> Seq(Keys \X Nat)] /\ clients \in [Keys -> Nat]
      /\ byKey \in [Keys -> Servers \cup {None}]
      /\ \A s \in Servers : ListOf(s, table[s], clients, byKey)
      /\ \A s \in Servers : Limit[s] > 0 => Len(table[s]) <= Limit[s]
      /\ Limit \in [Servers -> Nat] /\ None \notin Servers
  BY BalancerAssumption DEF RoutesInv, TablesTyped, AllLists, CapacityHolds,
                            BalancerInv, RouteTypes
<1>1. SUFFICES /\ table' \in [Servers -> Seq(Keys \X Nat)]
               /\ \A s \in Servers : /\ ListOf(s, table'[s], clients', byKey')
                                     /\ Limit[s] > 0 => Len(table'[s]) <= Limit[s]
  BY DEF TablesTyped, AllLists, CapacityHolds, ListOf
<1>2. CASE ListsKept
  BY <1>0, <1>2 DEF ListsKept
<1>3. CASE Routed
  <2>1. PICK s \in Servers, k \in Keys :
           /\ HasRoom(s) /\ byKey[k] = None
           /\ table' = [table EXCEPT ![s] = Append(@, <<k, clients[k]>>)]
           /\ byKey' = [byKey EXCEPT ![k] = s]
           /\ clients' = clients
    BY <1>3, RoutedList
  <2> DEFINE t == table[s]
             u == Append(t, <<k, clients[k]>>)
  <2>2. t \in Seq(Keys \X Nat) /\ ListOf(s, t, clients, byKey) /\ byKey[k] # s
    BY <1>0, <2>1
  <2> HIDE DEF t
  <2>3. ListOf(s, u, clients, byKey')
    BY <1>0, <2>1, <2>2, ListGrows
  <2>4. u \in Seq(Keys \X Nat) /\ Len(t) \in Nat /\ Len(u) = Len(t) + 1
    <3>1. <<k, clients[k]>> \in Keys \X Nat
      BY <1>0
    <3> QED BY <2>2, <3>1, AppendProperties
  <2>5. Limit[s] > 0 => Len(u) <= Limit[s]
    <3>1. Limit[s] = 0 \/ Len(t) < Limit[s]
      BY <2>1 DEF HasRoom, t
    <3>2. Limit[s] \in Nat
      BY <1>0
    <3> HIDE DEF u
    <3> QED BY <2>4, <3>1, <3>2
  <2>6. table' = [table EXCEPT ![s] = u]
    BY <2>1 DEF t
  <2> HIDE DEF u
  <2>7. ASSUME NEW r \in Servers, r # s
        PROVE  ListOf(r, table'[r], clients', byKey')
    <3>1. table'[r] = table[r]
      BY <1>0, <2>6, <2>7
    <3>2. \A q \in Keys : byKey'[q] = r <=> byKey[q] = r
      BY <1>0, <2>1, <2>7
    <3>3. ListOf(r, table[r], clients, byKey)
      BY <1>0
    <3>4. ListOf(r, table[r], clients, byKey')
      BY <3>2, <3>3, ListsOfOtherServers
    <3>5. clients' = clients
      BY <2>1
    <3> QED BY <3>1, <3>4, <3>5
  <2>8. table'[s] = u /\ \A r \in Servers : r # s => table'[r] = table[r]
    BY <1>0, <2>6
  <2>9. table' \in [Servers -> Seq(Keys \X Nat)]
    BY <1>0, <2>4, <2>6
  <2> QED BY <1>0, <2>1, <2>3, <2>5, <2>7, <2>8, <2>9
<1>4. CASE ListsForgotten
  <2>1. PICK gone \in SUBSET Keys : Forget(gone) /\ clients' = clients
    BY <1>4 DEF ListsForgotten
  <2>2. byKey' = [q \in Keys |-> IF q \in gone THEN None ELSE byKey[q]]
    BY <2>1 DEF Forget
  <2>3. ASSUME NEW s \in Servers
        PROVE  /\ table'[s] \in Seq(Keys \X Nat)
               /\ ListOf(s, table'[s], clients, byKey')
               /\ Limit[s] > 0 => Len(table'[s]) <= Limit[s]
    <3> DEFINE t == table[s]
               u == table'[s]
               w == byKey'
    <3>1. EntriesForgotten(s, t, clients, byKey, gone, u, w)
      BY <2>1, <2>2 DEF Forget, EntriesForgotten
    <3>3. t \in Seq(Keys \X Nat) /\ ListOf(s, t, clients, byKey)
      BY <1>0
    <3>4. /\ clients \in [Keys -> Nat] /\ byKey \in [Keys -> Servers \cup {None}]
      BY <1>0
    <3> HIDE DEF t, u, w
    <3>5. u \in Seq(Keys \X Nat) /\ Len(u) <= Len(t) /\ ListOf(s, u, clients, w)
      BY <3>1, <3>3, <3>4, ListShrinks
    <3>6. Len(u) \in Nat /\ Len(t) \in Nat
      BY <3>3, <3>5
    <3>7. Limit[s] > 0 => Len(t) <= Limit[s]
      BY <1>0 DEF t
    <3>8. Limit[s] \in Nat
      BY <1>0
    <3> QED BY <3>5, <3>6, <3>7, <3>8 DEF u, w
  <2>4. table' = [s \in Servers |-> table'[s]]
    BY <2>1 DEF Forget
  <2>5. table' \in [Servers -> Seq(Keys \X Nat)]
    BY <2>3, <2>4
  <2> QED BY <2>1, <2>3, <2>5
<1>5. CASE ListsEmptied
  <2>1. << >> \in Seq(Keys \X Nat) /\ Len(<< >>) = 0
    BY EmptySeq
  <2>2. \A s \in Servers : table'[s] = << >> /\ \A q \in Keys : byKey'[q] # s
    BY <1>0, <1>5 DEF ListsEmptied
  <2>3. table' \in [Servers -> Seq(Keys \X Nat)]
    BY <1>5, <2>1 DEF ListsEmptied
  <2>4. ASSUME NEW s \in Servers
        PROVE  /\ ListOf(s, table'[s], clients', byKey')
               /\ Limit[s] > 0 => Len(table'[s]) <= Limit[s]
    <3>1. Len(table'[s]) = 0
      BY <2>1, <2>2
    <3>2. \A i \in 1 .. Len(table'[s]) : FALSE
      BY <3>1
    <3>3. ListOf(s, table'[s], clients', byKey')
      BY <2>2, <3>2 DEF ListOf
    <3>4. Limit[s] \in Nat
      BY <1>0
    <3> QED BY <3>1, <3>3, <3>4
  <2> QED BY <2>3, <2>4
<1>6. CASE \E k \in Keys : AddClient(k)
  <2>1. PICK k \in Keys : AddClient(k)
    BY <1>6
  <2>2. /\ byKey[k] = None /\ table' = table /\ byKey' = byKey
        /\ clients' = [clients EXCEPT ![k] = clients[k] + 1]
    BY <2>1 DEF AddClient, routes
  <2>3. \A q \in Keys : q # k => clients'[q] = clients[q]
    BY <1>0, <2>2
  <2>4. ASSUME NEW s \in Servers
        PROVE  ListOf(s, table[s], clients', byKey)
    <3>1. byKey[k] # s /\ ListOf(s, table[s], clients, byKey)
      BY <1>0, <2>2
    <3> QED BY <2>3, <3>1, ListsOfOtherClients
  <2> QED BY <1>0, <2>2, <2>4
<1> QED BY <1>2, <1>3, <1>4, <1>5, <1>6, KindsOfListSteps

(* RoutesInv is inductive.                                                 *)
LEMMA RoutesStaySound == Spec => []RoutesInv
<1>1. Init => RoutesInv
  <2> SUFFICES ASSUME Init PROVE RoutesInv
    OBVIOUS
  <2>1. BalancerInv
    BY BalancerInitially
  <2> USE BalancerAssumption DEF Init
  <2>2. ChoiceTypes
    BY EmptySeq DEF ChoiceTypes, NoChaos
  <2>3. WithinBounds
    BY EmptySeq DEF WithinBounds
  <2>4. TablesTyped /\ sent \in SUBSET Packets
    BY EmptySeq DEF TablesTyped
  <2>5. Len(<< >>) = 0
    OBVIOUS
  <2>6. AllLists(table, clients, byKey)
    BY <2>5 DEF AllLists, ListOf
  <2>7. CapacityHolds
    BY <2>5 DEF CapacityHolds
  <2> QED BY <2>1, <2>2, <2>3, <2>4, <2>6, <2>7 DEF RoutesInv
<1>2. RoutesInv /\ [Next]_vars => RoutesInv'
  <2> SUFFICES ASSUME RoutesInv, [Next]_vars PROVE RoutesInv'
    OBVIOUS
  <2>1. BalancerInv'
    BY RoutesStayTyped, MappingsStaySound, HeldBackStaysSound, SentBelongs,
       SweepsAreInTime DEF BalancerInv, RoutesInv
  <2> QED BY <2>1, ChoiceStaysTyped, BoundsAreKept, SentStaysTyped, ListsStayTrue
          DEF RoutesInv
<1> QED BY <1>1, <1>2, PTL DEF Spec

(* The servers' lists, the mapped keys and the connection states agree     *)
(* after any history of routing, forgetting, clearing and registering      *)
(* anew, and no server is over its limit (balancer.go:80-102, 238-266;     *)
(* round-robin.go:28, random.go:21).                                       *)
THEOREM RoutesAlwaysSound == Spec => []RoutesAreSound
<1>1. RoutesInv => RoutesAreSound
  BY RoutesInvSuffices
<1> QED BY <1>1, RoutesStaySound, PTL

(* The CPU takes a packet out of its queue only by processing it, and the  *)
(* SYN of an unmapped key is then routed or, with every candidate full,    *)
(* refused.                                                                *)
LEMMA RefusedOnlyWhenFull ==
  ASSUME RoutesInv, [Next]_vars,
         jobs # << >>, jobs' = Tail(jobs), ~closed',
         Current(Head(jobs)), Head(jobs).from = None, Head(jobs).kind = "SYN",
         byKey[Head(jobs).key] = None,
         \E s \in RangeOf(servers) : s \in healthy /\ HasRoom(s)
  PROVE  byKey'[Head(jobs).key] # None
<1> DEFINE j == Head(jobs)
<1>0. jobs \in Seq(Jobs) /\ j \in Jobs /\ servers \in Seq(Servers)
  BY HeadIsJob DEF RoutesInv, BalancerInv, RouteTypes, ChoiceTypes
<1>1. PICK n \in Nat : Len(jobs) = n
  BY <1>0
<1>12. Len(jobs') = n - 1
  BY <1>0, <1>1
<1>2. ~UNCHANGED jobs
  <2>1. n - 1 # n
    OBVIOUS
  <2> QED BY <1>1, <1>12, <2>1
<1>3. \A e : jobs' # Append(jobs, e)
  <2>1. \A e : Len(Append(jobs, e)) = n + 1
    BY <1>0, <1>1
  <2>2. n - 1 # n + 1
    OBVIOUS
  <2> QED BY <1>12, <2>1, <2>2
<1>4. Process
  <2>1. CASE \E k \in Keys, kind \in Arriving :
               \/ HandleClientPacket(k, kind)
               \/ \E s \in Servers : HandleServerPacket(s, k, kind)
    BY <1>3, <2>1 DEF HandleClientPacket, HandleServerPacket
  <2>2. CASE \/ \E k \in Keys : AddClient(k)
             \/ \E s \in Servers : AddServer(s) \/ HealthChanges(s)
    BY <1>2, <2>2 DEF AddClient, AddServer, HealthChanges
  <2>3. CASE \/ Cleanup \/ ClearConnections \/ Tick
             \/ \E p \in delayed : DelayedSend(p)
    BY <1>2, <2>3 DEF Cleanup, ClearConnections, Tick, DelayedSend
  <2>4. CASE \/ \E a \in Algorithms : SetAlgorithm(a)
             \/ \E c \in ChaosConfigs : SetChaosConfig(c)
    BY <1>2, <2>4 DEF SetAlgorithm, SetChaosConfig
  <2>5. CASE Shutdown
    BY <2>5 DEF Shutdown
  <2>6. CASE UNCHANGED vars
    BY <1>2, <2>6 DEF vars
  <2> QED BY <2>1, <2>2, <2>3, <2>4, <2>5, <2>6 DEF Next
<1>5. CASE ProcessRefused(j)
  <2>1. PICK s \in RangeOf(servers) : s \in healthy /\ HasRoom(s)
    OBVIOUS
  <2>2. s \in RangeOf(Candidates)
    BY <1>0, <2>1, CandidatesAreHealthy DEF RangeOf
  <2> QED BY <1>5, <2>1, <2>2 DEF ProcessRefused, PickFails
<1>6. CASE ProcessRouted(j)
  <2>1. PICK s \in Servers : byKey' = [byKey EXCEPT ![j.key] = s]
    BY <1>6 DEF ProcessRouted
  <2>2. j.key \in Keys /\ byKey \in [Keys -> Servers \cup {None}]
    BY <1>0 DEF Jobs, RoutesInv, BalancerInv, RouteTypes
  <2> HIDE DEF j
  <2>3. byKey'[j.key] = s
    BY <2>1, <2>2
  <2> QED BY <2>3, BalancerAssumption DEF j
<1>7. ~ProcessDropped(j) /\ ~ProcessMapped(j)
  BY DEF ProcessDropped, ProcessMapped
<1> QED BY <1>4, <1>5, <1>6, <1>7 DEF Process

(* A SYN that meets a healthy server with room is routed, wherever the     *)
(* rotation stood and whatever became of the servers meanwhile (round-     *)
(* robin.go:22-31).                                                        *)
THEOREM RoomIsAlwaysFound == Spec => RoomIsFound
<1>1. RoutesInv /\ [Next]_vars =>
        [LET j == Head(jobs) IN
         /\ jobs # << >> /\ jobs' = Tail(jobs) /\ ~closed'
         /\ Current(j) /\ j.from = None /\ j.kind = "SYN" /\ byKey[j.key] = None
         /\ \E s \in RangeOf(servers) : s \in healthy /\ HasRoom(s)
         => byKey'[j.key] # None]_vars
  BY RefusedOnlyWhenFull
<1> QED BY <1>1, RoutesStaySound, PTL DEF Spec, RoomIsFound

-----------------------------------------------------------------------------
(* The budget of the outputs.                                              *)

(* The length of the running interval is a number, and it is empty when it *)
(* has just begun.                                                         *)
LEMMA IntervalLength ==
  ASSUME BudgetNumbers
  PROVE  /\ CurrentBudgetWait \in Nat
         /\ budgetWaitStartedAt = now => CurrentBudgetWait = 0
<1> DEFINE end == IF grantBeyondEnd THEN now ELSE Lesser(now, nextGrantAt)
<1>1. end \in Nat /\ end <= now
  BY DEF BudgetNumbers, Lesser
<1>2. CurrentBudgetWait = IF budgetWaiting /\ end > budgetWaitStartedAt
                          THEN end - budgetWaitStartedAt ELSE 0
  BY DEF CurrentBudgetWait
<1>3. budgetWaitStartedAt \in Nat /\ now \in Nat
  BY DEF BudgetNumbers
<1> HIDE DEF end
<1> QED BY <1>1, <1>2, <1>3

(* An interval that begins in a step is empty after it.                    *)
LEMMA EmptyInterval ==
  ASSUME budgetWaitStartedAt' = now', now' \in Nat, nextGrantAt' \in Nat
  PROVE  CurrentBudgetWait' = 0
<1> DEFINE end == IF grantBeyondEnd' THEN now' ELSE Lesser(now', nextGrantAt')
<1>1. end \in Nat /\ end <= now'
  BY DEF Lesser
<1>2. CurrentBudgetWait' = IF budgetWaiting' /\ end > budgetWaitStartedAt'
                           THEN end - budgetWaitStartedAt' ELSE 0
  BY DEF CurrentBudgetWait
<1> HIDE DEF end
<1>3. ~(end > budgetWaitStartedAt')
  BY <1>1
<1> QED BY <1>2, <1>3

(* Closing the interval adds it to the total and begins an empty one.      *)
LEMMA IntervalCloses ==
  ASSUME BudgetInv, NEW readyNow, AccountBudgetWait(readyNow),
         now' = now, nextGrantAt' = nextGrantAt, grantBeyondEnd' = grantBeyondEnd,
         accepted' \in Nat, dispatching' \in BOOLEAN, blocked' = blocked
  PROVE  /\ BudgetNumbers'
         /\ budgetWaitStartedAt' = now'
         /\ budgetWait' + CurrentBudgetWait' = blocked'
<1>1. CurrentBudgetWait \in Nat
  BY IntervalLength DEF BudgetInv
<1>2. budgetWaitStartedAt' = now /\ budgetWait' = blocked /\ budgetWaiting' \in BOOLEAN
  BY DEF AccountBudgetWait, BudgetInv, IntervalInv
<1>3. BudgetNumbers'
  BY <1>2 DEF BudgetInv, BudgetNumbers
<1>4. budgetWaitStartedAt' = now'
  BY <1>2
<1>5. CurrentBudgetWait' = 0
  BY <1>3, <1>4, EmptyInterval DEF BudgetNumbers
<1> QED BY <1>2, <1>3, <1>5 DEF BudgetNumbers

(* The interval while nothing it depends on changes.                       *)
LEMMA IntervalKept ==
  ASSUME BudgetInv,
         UNCHANGED <<now, nextGrantAt, grantBeyondEnd, accounting, dispatching,
                     ready, blocked>>
  PROVE  IntervalInv'
BY DEF BudgetInv, IntervalInv, CurrentBudgetWait, Lesser, accounting

THEOREM BudgetInitially == EgressInit => BudgetInv
<1> SUFFICES ASSUME EgressInit PROVE BudgetInv
  OBVIOUS
<1>1. BudgetNumbers /\ BudgetQueues
  <2>1. BudgetNumbers
    BY DEF EgressInit, BudgetNumbers
  <2>2. << >> \in Seq([id : Nat \ {0}, size : Sizes])
    BY EmptySeq
  <2>3. BudgetQueues
    BY <2>2 DEF EgressInit, BudgetQueues
  <2> QED BY <2>1, <2>3
<1>2. HeapIsExact
  BY DEF EgressInit, HeapIsExact
<1>3. IntervalInv
  BY DEF EgressInit, IntervalInv, CurrentBudgetWait, Lesser
<1> QED BY <1>1, <1>2, <1>3 DEF BudgetInv

(* Every step keeps the inductive invariant.                               *)
THEOREM BudgetInductive == BudgetInv /\ [EgressNext]_egressVars => BudgetInv'
<1> SUFFICES ASSUME BudgetInv, [EgressNext]_egressVars PROVE BudgetInv'
  OBVIOUS
<1>a. BudgetNumbers /\ BudgetQueues /\ HeapIsExact /\ IntervalInv
  BY DEF BudgetInv
<1>1. CASE DispatchNext
  <2>1. PICK o \in ready :
          LET p == Head(queue[o]) IN
          /\ ready' = ready \ {o}
          /\ queue' = [queue EXCEPT ![o] = Tail(@)]
          /\ sending' = [sending EXCEPT ![o] = p.id]
          /\ ReserveBudget(Cost[p.size])
    BY <1>1 DEF DispatchNext
  <2> DEFINE p == Head(queue[o])
  <2>2. o \in Outputs /\ queue[o] # << >>
    BY <1>a, <2>1 DEF HeapIsExact
  <2>3. queue[o] \in Seq([id : Nat \ {0}, size : Sizes])
    BY <1>a, <2>2 DEF BudgetQueues
  <2>4. p \in [id : Nat \ {0}, size : Sizes] /\ Tail(queue[o]) \in Seq([id : Nat \ {0}, size : Sizes])
    BY <2>2, <2>3, HeadTailProperties
  <2>5. Cost[p.size] \in Nat
    BY <2>4, EgressAssumption
  <2>6. nextGrantAt' \in Nat /\ grantBeyondEnd' \in BOOLEAN
    <3>1. EndTime \in Nat /\ now \in Nat
      BY <1>a, EgressAssumption DEF BudgetNumbers
    <3>2. /\ grantBeyondEnd' = (Cost[p.size] > EndTime - now)
          /\ nextGrantAt' = IF Cost[p.size] > EndTime - now THEN EndTime ELSE now + Cost[p.size]
      BY <2>1 DEF ReserveBudget
    <3> HIDE DEF p
    <3> QED BY <2>5, <3>1, <3>2
  <2>7. BudgetNumbers' /\ BudgetQueues'
    <3>1. BudgetNumbers'
      BY <1>1, <1>a, <2>6 DEF DispatchNext, BudgetNumbers, accounting, history
    <3>2. BudgetQueues'
      BY <1>a, <2>1, <2>2, <2>4 DEF BudgetQueues
    <3> QED BY <3>1, <3>2
  <2>8. HeapIsExact'
    BY <1>a, <2>1, <2>2, <2>4 DEF HeapIsExact, BudgetQueues
  <2>9. IntervalInv'
    <3>1. /\ now' = now /\ blocked' = blocked /\ dispatching /\ dispatching'
          /\ budgetWait' = budgetWait /\ budgetWaitStartedAt' = budgetWaitStartedAt
      BY <1>1 DEF DispatchNext, accounting, history
    <3>2. budgetWaitStartedAt = now
      BY <1>a, <3>1 DEF IntervalInv
    <3>3. CurrentBudgetWait = 0
      BY <1>a, <3>2, IntervalLength
    <3>4. budgetWaitStartedAt' = now'
      BY <3>1, <3>2
    <3>5. CurrentBudgetWait' = 0
      BY <2>7, <3>4, EmptyInterval DEF BudgetNumbers
    <3> QED BY <1>a, <3>1, <3>2, <3>3, <3>5 DEF IntervalInv, BudgetNumbers
  <2> QED BY <2>7, <2>8, <2>9 DEF BudgetInv
<1>2. CASE DispatchReturns
  <2>1. /\ now' = now /\ blocked' = blocked /\ nextGrantAt' = nextGrantAt
        /\ grantBeyondEnd' = grantBeyondEnd /\ dispatching' = FALSE
        /\ ready' = ready /\ queue' = queue /\ sending' = sending /\ accepted' = accepted
        /\ AccountBudgetWait(ready) /\ (ready = {} \/ BudgetUnavailable)
    BY <1>2 DEF DispatchReturns, counters
  <2>2. /\ BudgetNumbers' /\ budgetWaitStartedAt' = now'
        /\ budgetWait' + CurrentBudgetWait' = blocked'
    BY <1>a, <2>1, IntervalCloses DEF BudgetNumbers
  <2>3. BudgetNumbers' /\ BudgetQueues'
    BY <1>a, <2>1, <2>2 DEF BudgetQueues
  <2>4. HeapIsExact'
    BY <1>a, <2>1 DEF HeapIsExact
  <2>5. IntervalInv'
    <3>1. budgetWaiting' <=> ready' # {}
      BY <2>1 DEF AccountBudgetWait
    <3>2. budgetWaitStartedAt' <= now'
      BY <2>2 DEF BudgetNumbers
    <3> QED BY <2>1, <2>2, <3>1, <3>2 DEF IntervalInv
  <2> QED BY <2>3, <2>4, <2>5 DEF BudgetInv
<1>3. ASSUME NEW o \in Outputs, OfferDropped(o) PROVE BudgetInv'
  <2>1. BudgetNumbers' /\ BudgetQueues' /\ HeapIsExact'
    BY <1>3, <1>a DEF OfferDropped, BudgetNumbers, BudgetQueues, HeapIsExact, budget, accounting, history
  <2>2. IntervalInv'
    BY <1>3, IntervalKept DEF OfferDropped, budget, history
  <2> QED BY <2>1, <2>2 DEF BudgetInv
<1>4. ASSUME NEW o \in Outputs, OfferAccepted(o) PROVE BudgetInv'
  <2> DEFINE readyNow == IF sending[o] = 0 THEN ready \cup {o} ELSE ready
  <2>1. /\ now' = now /\ blocked' = blocked /\ nextGrantAt' = nextGrantAt
        /\ grantBeyondEnd' = grantBeyondEnd /\ dispatching' = TRUE
        /\ ready' = readyNow /\ sending' = sending /\ accepted' = accepted + 1
        /\ AccountBudgetWait(readyNow)
    BY <1>4 DEF OfferAccepted, BeginDispatch, budget
  <2>2. PICK s \in Sizes : queue' = [queue EXCEPT ![o] = Append(@, [id |-> accepted + 1, size |-> s])]
    BY <1>4 DEF OfferAccepted
  <2>3. [id |-> accepted + 1, size |-> s] \in [id : Nat \ {0}, size : Sizes]
    BY <1>a DEF BudgetNumbers
  <2>4. queue[o] \in Seq([id : Nat \ {0}, size : Sizes])
    BY <1>a, <1>4 DEF BudgetQueues
  <2>5. /\ queue'[o] \in Seq([id : Nat \ {0}, size : Sizes])
        /\ queue'[o] # << >>
    BY <1>a, <1>4, <2>2, <2>3, <2>4, AppendProperties DEF BudgetQueues
  <2>6. /\ BudgetNumbers' /\ budgetWaitStartedAt' = now'
        /\ budgetWait' + CurrentBudgetWait' = blocked'
    BY <1>a, <2>1, IntervalCloses DEF BudgetNumbers
  <2>7. queue' \in [Outputs -> Seq([id : Nat \ {0}, size : Sizes])]
    BY <1>a, <2>2, <2>3, <2>4, AppendProperties DEF BudgetQueues
  <2>8. BudgetNumbers' /\ BudgetQueues'
    BY <1>a, <2>1, <2>6, <2>7 DEF BudgetQueues
  <2>9. HeapIsExact'
    BY <1>a, <1>4, <2>1, <2>2, <2>5 DEF HeapIsExact, BudgetQueues
  <2>10. IntervalInv'
    BY <2>1, <2>6, <2>8 DEF IntervalInv, BudgetNumbers
  <2> QED BY <2>8, <2>9, <2>10 DEF BudgetInv
<1>5. ASSUME NEW o \in Outputs, Transmitted(o) PROVE BudgetInv'
  <2> DEFINE readyNow == IF queue[o] # << >> THEN ready \cup {o} ELSE ready \ {o}
  <2>1. /\ now' = now /\ blocked' = blocked /\ nextGrantAt' = nextGrantAt
        /\ grantBeyondEnd' = grantBeyondEnd /\ dispatching' = TRUE
        /\ ready' = readyNow /\ sending' = [sending EXCEPT ![o] = 0]
        /\ accepted' = accepted /\ queue' = queue
        /\ AccountBudgetWait(readyNow)
    BY <1>5 DEF Transmitted, BeginDispatch, budget, history
  <2>2. /\ BudgetNumbers' /\ budgetWaitStartedAt' = now'
        /\ budgetWait' + CurrentBudgetWait' = blocked'
    BY <1>a, <2>1, IntervalCloses DEF BudgetNumbers
  <2>3. BudgetNumbers' /\ BudgetQueues'
    BY <1>a, <1>5, <2>1, <2>2 DEF BudgetQueues
  <2>4. HeapIsExact'
    BY <1>a, <1>5, <2>1 DEF HeapIsExact, BudgetQueues
  <2>5. IntervalInv'
    BY <2>1, <2>2, <2>3 DEF IntervalInv, BudgetNumbers
  <2> QED BY <2>3, <2>4, <2>5 DEF BudgetInv
<1>6. ASSUME NEW o \in Outputs, Arrive(o) PROVE BudgetInv'
  <2>1. BudgetNumbers' /\ BudgetQueues' /\ HeapIsExact'
    BY <1>6, <1>a DEF Arrive, BudgetNumbers, BudgetQueues, HeapIsExact, budget, accounting, history
  <2>2. IntervalInv'
    BY <1>6, IntervalKept DEF Arrive, budget, history
  <2> QED BY <2>1, <2>2 DEF BudgetInv
<1>7. CASE WakeUp
  <2>1. /\ now' = now /\ blocked' = blocked /\ nextGrantAt' = nextGrantAt
        /\ grantBeyondEnd' = grantBeyondEnd /\ dispatching' = TRUE
        /\ ready' = ready /\ queue' = queue /\ sending' = sending /\ accepted' = accepted
        /\ AccountBudgetWait(ready)
    BY <1>7 DEF WakeUp, BeginDispatch, counters, history
  <2>2. /\ BudgetNumbers' /\ budgetWaitStartedAt' = now'
        /\ budgetWait' + CurrentBudgetWait' = blocked'
    BY <1>a, <2>1, IntervalCloses DEF BudgetNumbers
  <2>3. BudgetNumbers' /\ BudgetQueues'
    BY <1>a, <2>1, <2>2 DEF BudgetQueues
  <2>4. HeapIsExact'
    BY <1>a, <2>1 DEF HeapIsExact
  <2>5. IntervalInv'
    BY <2>1, <2>2, <2>3 DEF IntervalInv, BudgetNumbers
  <2> QED BY <2>3, <2>4, <2>5 DEF BudgetInv
<1>8. CASE TimePasses
  <2>1. /\ now' = now + 1 /\ now < EndTime /\ ~dispatching /\ dispatching' = dispatching
        /\ blocked' = IF BudgetBlocked THEN blocked + 1 ELSE blocked
        /\ ready' = ready /\ queue' = queue /\ sending' = sending /\ accepted' = accepted
        /\ nextGrantAt' = nextGrantAt /\ grantBeyondEnd' = grantBeyondEnd
        /\ budgetWait' = budgetWait /\ budgetWaiting' = budgetWaiting
        /\ budgetWaitStartedAt' = budgetWaitStartedAt
    BY <1>8 DEF TimePasses, Idle, budget, accounting, counters
  <2>2. BudgetNumbers' /\ BudgetQueues'
    <3>1. BudgetNumbers'
      BY <1>a, <2>1 DEF BudgetNumbers
    <3>2. BudgetQueues'
      BY <1>a, <2>1 DEF BudgetQueues
    <3> QED BY <3>1, <3>2
  <2>3. HeapIsExact'
    BY <1>a, <2>1 DEF HeapIsExact
  <2>4. budgetWaiting <=> ready # {}
    BY <1>a, <2>1 DEF IntervalInv
  <2>5. CurrentBudgetWait' = IF BudgetBlocked THEN CurrentBudgetWait + 1 ELSE CurrentBudgetWait
    BY <1>a, <2>1, <2>4
       DEF CurrentBudgetWait, Lesser, BudgetBlocked, BudgetUnavailable, BudgetNumbers, IntervalInv
  <2>6. CurrentBudgetWait \in Nat
    BY <1>a, IntervalLength
  <2>7. budgetWait' + CurrentBudgetWait' = blocked'
    BY <1>a, <2>1, <2>5, <2>6 DEF BudgetNumbers, IntervalInv
  <2>8. IntervalInv'
    BY <1>a, <2>1, <2>4, <2>7 DEF IntervalInv, BudgetNumbers
  <2> QED BY <2>2, <2>3, <2>8 DEF BudgetInv
<1>9. CASE Stop
  <2>1. /\ now' = now /\ blocked' = blocked /\ ~dispatching /\ dispatching' = dispatching
        /\ ready' = {} /\ budgetWaiting' = FALSE /\ accepted' = accepted
        /\ budgetWait' = budgetWait + CurrentBudgetWait
        /\ budgetWaitStartedAt' = budgetWaitStartedAt
        /\ nextGrantAt' = now /\ grantBeyondEnd' = FALSE
        /\ queue' = [o \in Outputs |-> << >>] /\ sending' = [o \in Outputs |-> 0]
    BY <1>9 DEF Stop, Idle
  <2>2. CurrentBudgetWait \in Nat
    BY <1>a, IntervalLength
  <2>3. BudgetNumbers' /\ BudgetQueues'
    <3>1. BudgetNumbers'
      <4>1. budgetWait + CurrentBudgetWait \in Nat
        BY <1>a, <2>2 DEF BudgetNumbers
      <4>2. budgetWait' \in Nat
        BY <2>1, <4>1
      <4> QED BY <1>a, <2>1, <4>2 DEF BudgetNumbers
    <3>2. << >> \in Seq([id : Nat \ {0}, size : Sizes])
      BY EmptySeq
    <3>3. BudgetQueues'
      BY <2>1, <3>2 DEF BudgetQueues
    <3> QED BY <3>1, <3>3
  <2>4. HeapIsExact'
    BY <2>1 DEF HeapIsExact
  <2>5. CurrentBudgetWait' = 0
    BY <2>1 DEF CurrentBudgetWait
  <2>6. IntervalInv'
    BY <1>a, <2>1, <2>2, <2>5 DEF IntervalInv, BudgetNumbers
  <2> QED BY <2>3, <2>4, <2>6 DEF BudgetInv
<1>10. CASE UNCHANGED egressVars
  <2>1. BudgetNumbers' /\ BudgetQueues' /\ HeapIsExact'
    BY <1>10, <1>a DEF egressVars, BudgetNumbers, BudgetQueues, HeapIsExact, budget, accounting, counters, history
  <2>2. IntervalInv'
    BY <1>10, IntervalKept DEF egressVars, budget, history
  <2> QED BY <2>1, <2>2 DEF BudgetInv
<1> QED BY <1>1, <1>2, <1>3, <1>4, <1>5, <1>6, <1>7, <1>8, <1>9, <1>10 DEF EgressNext

(* The inductive invariant holds in every state of the dispatcher.         *)
THEOREM BudgetAlways == EgressSpec => []BudgetInv
BY BudgetInitially, BudgetInductive, PTL DEF EgressSpec

(* The budget wait that Stats reports is, outside dispatch, exactly the    *)
(* time during which ready traffic was held back by the shared budget.     *)
THEOREM BudgetWaitTheorem == EgressSpec => []BudgetWaitIsTrue
<1>1. BudgetInv => BudgetWaitIsTrue
  BY DEF BudgetInv, IntervalInv, BudgetWaitIsTrue, ReportedBudgetWait
<1> QED BY <1>1, BudgetAlways, PTL

(* The heap of dispatch holds exactly the outputs that could send.         *)
THEOREM HeapTheorem == EgressSpec => []HeapIsExact
<1>1. BudgetInv => HeapIsExact
  BY DEF BudgetInv
<1> QED BY <1>1, BudgetAlways, PTL

-----------------------------------------------------------------------------
(* The queues, links and agenda of the outputs.                            *)

(* The sequence t is s with e after its first k elements.                  *)
InsertedAt(s, t, e, k) ==
  /\ Len(t) = Len(s) + 1
  /\ \A i \in DOMAIN t : t[i] = IF i <= k THEN s[i] ELSE IF i = k + 1 THEN e ELSE s[i - 1]

(* The sequence t is s without its element k.                              *)
RemovedAt(s, t, k) ==
  /\ Len(t) = Len(s) - 1
  /\ \A i \in DOMAIN t : t[i] = IF i < k THEN s[i] ELSE s[i + 1]

(* The set of the first n positive numbers is finite and has n elements.   *)
LEMMA CountOfInterval ==
  ASSUME NEW n \in Nat
  PROVE  IsFiniteSet(1 .. n) /\ Cardinality(1 .. n) = n
<1>1. 1 \in Int /\ n \in Int
  OBVIOUS
<1>2. IsFiniteSet(1 .. n) /\ Cardinality(1 .. n) = IF 1 > n THEN 0 ELSE n - 1 + 1
  BY <1>1, FS_Interval, Zenon
<1> QED BY <1>2

(* The number of events at or before a time is at most the length of the   *)
(* agenda.                                                                 *)
LEMMA SomeAreEarlier ==
  ASSUME NEW s \in Seq(Events), NEW e
  PROVE  Cardinality({i \in DOMAIN s : s[i].at <= e.at}) \in 0 .. Len(s)
<1> DEFINE S == {i \in DOMAIN s : s[i].at <= e.at}
<1>1. S \in SUBSET (1 .. Len(s)) /\ Len(s) \in Nat
  OBVIOUS
<1>2. /\ IsFiniteSet(1 .. Len(s)) /\ Cardinality(1 .. Len(s)) = Len(s)
  <2>1. \A b \in Nat : IsFiniteSet(1 .. b) /\ Cardinality(1 .. b) = b
    BY CountOfInterval
  <2> QED BY <1>1, <2>1
<1>3. Cardinality(S) \in Nat /\ Cardinality(S) <= Len(s)
  <2> HIDE DEF S
  <2> QED BY <1>1, <1>2, FS_Subset, FS_CardinalityType
<1> QED BY <1>1, <1>3

(* Cutting a sequence in two and joining it around an element inserts it.  *)
LEMMA InsertionPlace ==
  ASSUME NEW P, NEW s \in Seq(P), NEW e \in P, NEW k \in 0 .. Len(s)
  PROVE  LET t == SubSeq(s, 1, k) \o <<e>> \o SubSeq(s, k + 1, Len(s))
         IN  t \in Seq(P) /\ InsertedAt(s, t, e, k)
<1> DEFINE a == SubSeq(s, 1, k)
           b == SubSeq(s, k + 1, Len(s))
           t == a \o <<e>> \o b
<1>0. Len(s) \in Nat /\ k \in Nat /\ k <= Len(s)
  OBVIOUS
<1>1. a \in Seq(P) /\ Len(a) = k /\ \A i \in 1 .. k : a[i] = s[i]
  BY <1>0, SubSeqProperties
<1>2. b \in Seq(P) /\ Len(b) = Len(s) - k /\ \A i \in 1 .. Len(s) - k : b[i] = s[k + i]
  BY <1>0, SubSeqProperties
<1>3. t \in Seq(P) /\ Len(t) = Len(s) + 1
  <2> HIDE DEF a, b
  <2>1. a \o <<e>> \in Seq(P) /\ Len(a \o <<e>>) = k + 1
    BY <1>0, <1>1
  <2>2. t \in Seq(P) /\ Len(t) = Len(a \o <<e>>) + Len(b)
    BY <1>2, <2>1, ConcatProperties
  <2> QED BY <1>0, <1>2, <2>1, <2>2
<1>4. ASSUME NEW i \in DOMAIN t
      PROVE  t[i] = IF i <= k THEN s[i] ELSE IF i = k + 1 THEN e ELSE s[i - 1]
  <2> HIDE DEF a, b
  <2>z. t \in Seq(P) /\ DOMAIN t = 1 .. Len(t)
    BY <1>3
  <2> DEFINE c == a \o <<e>>
  <2>c. /\ c \in Seq(P) /\ Len(c) = k + 1
        /\ \A j \in 1 .. k + 1 : c[j] = IF j <= k THEN a[j] ELSE e
    BY <1>0, <1>1
  <2> HIDE DEF c
  <2>a. t = c \o b
    BY DEF c
  <2> HIDE DEF t
  <2>0. i \in 1 .. Len(s) + 1
    BY <1>3, <2>z
  <2>d. \A j \in 1 .. Len(c) + Len(b) :
           t[j] = IF j <= Len(c) THEN c[j] ELSE b[j - Len(c)]
    BY <1>2, <2>a, <2>c, ConcatProperties
  <2>e. Len(c) = k + 1 /\ Len(c) + Len(b) = Len(s) + 1
    BY <1>0, <1>2, <2>c
  <2>f. t[i] = IF i <= k + 1 THEN c[i] ELSE b[i - (k + 1)]
    BY <2>0, <2>d, <2>e
  <2>1. CASE i <= k
    BY <1>0, <1>1, <2>0, <2>1, <2>c, <2>f
  <2>2. CASE i = k + 1
    BY <1>0, <2>0, <2>2, <2>c, <2>f
  <2>3. CASE i > k + 1
    <3>1. t[i] = b[i - (k + 1)]
      BY <1>0, <2>0, <2>3, <2>f
    <3>2. i - (k + 1) \in 1 .. Len(s) - k /\ k + (i - (k + 1)) = i - 1
      BY <1>0, <2>0, <2>3
    <3>3. b[i - (k + 1)] = s[i - 1]
      BY <1>2, <3>2
    <3>4. ~(i <= k) /\ i # k + 1
      BY <1>0, <2>0, <2>3
    <3> QED BY <3>1, <3>3, <3>4
  <2> QED BY <1>0, <2>0, <2>1, <2>2, <2>3
<1> QED BY <1>3, <1>4 DEF InsertedAt

(* Scheduling an event inserts it, unless it lies beyond the end of the    *)
(* run.                                                                    *)
LEMMA ScheduledInserts ==
  ASSUME NEW s \in Seq(Events), NEW e \in Events
  PROVE  /\ Scheduled(s, e) \in Seq(Events)
         /\ \/ e.at > EndTime /\ Scheduled(s, e) = s
            \/ \E k \in 0 .. Len(s) : InsertedAt(s, Scheduled(s, e), e, k)
<1>1. CASE e.at > EndTime
  BY <1>1 DEF Scheduled
<1>2. CASE ~(e.at > EndTime)
  <2> DEFINE k == Cardinality({i \in DOMAIN s : s[i].at <= e.at})
  <2>1. k \in 0 .. Len(s)
    BY SomeAreEarlier
  <2>2. Scheduled(s, e) = SubSeq(s, 1, k) \o <<e>> \o SubSeq(s, k + 1, Len(s))
    BY <1>2 DEF Scheduled
  <2> HIDE DEF k
  <2> QED BY <2>1, <2>2, InsertionPlace
<1> QED BY <1>1, <1>2

(* Joining what lies before and behind an element removes it.              *)
LEMMA RemovalPlace ==
  ASSUME NEW P, NEW s \in Seq(P), NEW k \in DOMAIN s
  PROVE  LET t == SubSeq(s, 1, k - 1) \o SubSeq(s, k + 1, Len(s))
         IN  t \in Seq(P) /\ RemovedAt(s, t, k)
<1> DEFINE a == SubSeq(s, 1, k - 1)
           b == SubSeq(s, k + 1, Len(s))
           t == a \o b
<1>0. Len(s) \in Nat /\ k \in Nat /\ 1 <= k /\ k <= Len(s)
  OBVIOUS
<1>1. a \in Seq(P) /\ Len(a) = k - 1 /\ \A i \in 1 .. k - 1 : a[i] = s[i]
  BY <1>0, SubSeqProperties
<1>2. b \in Seq(P) /\ Len(b) = Len(s) - k /\ \A i \in 1 .. Len(s) - k : b[i] = s[k + i]
  BY <1>0, SubSeqProperties
<1>3. t \in Seq(P) /\ Len(t) = Len(s) - 1
  <2> HIDE DEF a, b
  <2> QED BY <1>0, <1>1, <1>2
<1>4. ASSUME NEW i \in DOMAIN t
      PROVE  t[i] = IF i < k THEN s[i] ELSE s[i + 1]
  <2> HIDE DEF a, b
  <2>z. t \in Seq(P) /\ DOMAIN t = 1 .. Len(t)
    BY <1>3
  <2>a. t = a \o b
    OBVIOUS
  <2> HIDE DEF t
  <2>0. i \in 1 .. Len(s) - 1
    BY <1>3, <2>z
  <2>d. \A j \in 1 .. Len(a) + Len(b) :
           t[j] = IF j <= Len(a) THEN a[j] ELSE b[j - Len(a)]
    BY <1>1, <1>2, <2>a, ConcatProperties
  <2>e. Len(a) = k - 1 /\ Len(a) + Len(b) = Len(s) - 1
    BY <1>0, <1>1, <1>2
  <2>f. t[i] = IF i <= k - 1 THEN a[i] ELSE b[i - (k - 1)]
    BY <2>0, <2>d, <2>e
  <2>1. CASE i < k
    BY <1>0, <1>1, <2>0, <2>1, <2>f
  <2>2. CASE i >= k
    <3>1. t[i] = b[i - (k - 1)]
      BY <1>0, <2>0, <2>2, <2>f
    <3>2. i - (k - 1) \in 1 .. Len(s) - k /\ k + (i - (k - 1)) = i + 1
      BY <1>0, <2>0, <2>2
    <3>3. b[i - (k - 1)] = s[i + 1]
      BY <1>2, <3>2
    <3>4. ~(i < k)
      BY <1>0, <2>0, <2>2
    <3> QED BY <3>1, <3>3, <3>4
  <2> QED BY <1>0, <2>0, <2>1, <2>2
<1> QED BY <1>3, <1>4 DEF RemovedAt

(* The tail of the agenda is the agenda without its first element.         *)
LEMMA TailRemoves ==
  ASSUME NEW P, NEW s \in Seq(P), s # << >>
  PROVE  Tail(s) \in Seq(P) /\ RemovedAt(s, Tail(s), 1) /\ 1 \in DOMAIN s /\ Head(s) = s[1]
BY HeadTailProperties DEF RemovedAt

(* Cancelling removes one event of that kind, if there is one.             *)
LEMMA CancelledRemoves ==
  ASSUME NEW s \in Seq(Events), NEW what
  PROVE  /\ Cancelled(s, what) \in Seq(Events)
         /\ \/ Cancelled(s, what) = s /\ \A i \in DOMAIN s : s[i].what # what
            \/ \E k \in DOMAIN s : s[k].what = what /\ RemovedAt(s, Cancelled(s, what), k)
<1> DEFINE found == {i \in DOMAIN s : s[i].what = what}
<1>1. CASE found = {}
  BY <1>1 DEF Cancelled
<1>2. CASE found # {}
  <2>1. PICK k : k = CHOOSE i \in found : TRUE
    OBVIOUS
  <2>2. k \in DOMAIN s /\ s[k].what = what
    BY <1>2, <2>1
  <2>3. Cancelled(s, what) = SubSeq(s, 1, k - 1) \o SubSeq(s, k + 1, Len(s))
    BY <1>2, <2>1 DEF Cancelled
  <2> QED BY <2>2, <2>3, RemovalPlace
<1> QED BY <1>1, <1>2

(* An inserted event is the only new element, and when no other ends the   *)
(* same, still no two do.                                                  *)
LEMMA ElementsInserted ==
  ASSUME NEW P, NEW s \in Seq(P), NEW t \in Seq(P), NEW e, NEW k \in 0 .. Len(s),
         InsertedAt(s, t, e, k)
  PROVE  /\ Elements(t) = Elements(s) \cup {e}
         /\ NoTwoEndTheSame(s) /\ (\A f \in Elements(s) : ~SameEnd(f, e))
              => NoTwoEndTheSame(t)
<1>0. /\ DOMAIN s = 1 .. Len(s) /\ DOMAIN t = 1 .. Len(s) + 1 /\ Len(s) \in Nat
      /\ k \in Nat /\ k <= Len(s)
      /\ \A i \in DOMAIN t : t[i] = IF i <= k THEN s[i] ELSE IF i = k + 1 THEN e ELSE s[i - 1]
  BY DEF InsertedAt
<1> DEFINE from(i) == IF i <= k THEN i ELSE i - 1
<1>1. \A i \in DOMAIN t : (i = k + 1 /\ t[i] = e) \/ (i # k + 1 /\ from(i) \in DOMAIN s /\ t[i] = s[from(i)])
  BY <1>0
<1>2. \A i \in DOMAIN s : \E j \in DOMAIN t : t[j] = s[i]
  <2> TAKE i \in DOMAIN s
  <2>1. CASE i <= k
    BY <1>0, <2>1
  <2>2. CASE i > k
    <3>1. i + 1 \in DOMAIN t /\ ~(i + 1 <= k) /\ i + 1 # k + 1 /\ (i + 1) - 1 = i
      BY <1>0, <2>2
    <3> QED BY <1>0, <3>1
  <2> QED BY <1>0, <2>1, <2>2
<1>3. k + 1 \in DOMAIN t /\ t[k + 1] = e
  BY <1>0
<1>4. \A i, j \in DOMAIN t : i # k + 1 /\ j # k + 1 /\ from(i) = from(j) => i = j
  BY <1>0
<1>5. Elements(t) = Elements(s) \cup {e}
  <2> HIDE DEF from
  <2> QED BY <1>1, <1>2, <1>3 DEF Elements
<1>6. ASSUME NoTwoEndTheSame(s), \A f \in Elements(s) : ~SameEnd(f, e),
             NEW i \in DOMAIN t, NEW j \in DOMAIN t, SameEnd(t[i], t[j])
      PROVE  i = j
  <2>1. SameEnd(t[j], t[i])
    BY <1>6 DEF SameEnd
  <2> HIDE DEF from
  <2>2. \A n \in DOMAIN s : ~SameEnd(s[n], e)
    BY <1>6 DEF Elements
  <2>3. CASE i = k + 1 \/ j = k + 1
    BY <1>1, <1>6, <2>1, <2>2, <2>3
  <2>4. CASE i # k + 1 /\ j # k + 1
    BY <1>1, <1>4, <1>6, <2>4 DEF NoTwoEndTheSame
  <2> QED BY <2>3, <2>4
<1> QED BY <1>5, <1>6 DEF NoTwoEndTheSame

(* Where no two events end the same, a removed one is gone with everything *)
(* that ends the same.                                                     *)
LEMMA ElementsRemoved ==
  ASSUME NEW P, NEW s \in Seq(P), NEW t \in Seq(P), NEW k \in DOMAIN s,
         RemovedAt(s, t, k), NoTwoEndTheSame(s)
  PROVE  /\ NoTwoEndTheSame(t)
         /\ Elements(t) = Elements(s) \ {s[k]}
         /\ \A e \in Elements(t) : ~SameEnd(e, s[k])
<1>0. /\ DOMAIN s = 1 .. Len(s) /\ DOMAIN t = 1 .. Len(s) - 1 /\ Len(s) \in Nat
      /\ k \in Nat /\ 1 <= k /\ k <= Len(s)
      /\ \A i \in DOMAIN t : t[i] = IF i < k THEN s[i] ELSE s[i + 1]
  BY DEF RemovedAt
<1> DEFINE from(i) == IF i < k THEN i ELSE i + 1
<1>1. \A i \in DOMAIN t : from(i) \in DOMAIN s /\ from(i) # k /\ t[i] = s[from(i)]
  BY <1>0
<1>2. \A i \in DOMAIN s : i # k => \E j \in DOMAIN t : t[j] = s[i]
  <2> SUFFICES ASSUME NEW i \in DOMAIN s, i # k PROVE \E j \in DOMAIN t : t[j] = s[i]
    OBVIOUS
  <2>1. CASE i < k
    BY <1>0, <2>1
  <2>2. CASE i > k
    <3>1. i - 1 \in DOMAIN t /\ ~(i - 1 < k) /\ (i - 1) + 1 = i
      BY <1>0, <2>2
    <3> QED BY <1>0, <3>1
  <2> QED BY <1>0, <2>1, <2>2
<1>4. \A i, j \in DOMAIN t : from(i) = from(j) => i = j
  BY <1>0
<1> HIDE DEF from
<1>5. NoTwoEndTheSame(t)
  BY <1>1, <1>4 DEF NoTwoEndTheSame
<1>6. \A i \in DOMAIN s : SameEnd(s[i], s[k]) => i = k
  BY DEF NoTwoEndTheSame
<1>7. \A e \in Elements(t) : ~SameEnd(e, s[k])
  BY <1>1, <1>6 DEF Elements
<1>8. SameEnd(s[k], s[k])
  BY DEF SameEnd
<1>9. Elements(t) = Elements(s) \ {s[k]}
  <2>1. Elements(t) \subseteq Elements(s)
    BY <1>1 DEF Elements
  <2>2. s[k] \notin Elements(t)
    BY <1>7, <1>8
  <2>3. ASSUME NEW e \in Elements(s), e # s[k] PROVE e \in Elements(t)
    BY <1>2, <2>3 DEF Elements
  <2> QED BY <2>1, <2>2, <2>3
<1> QED BY <1>5, <1>7, <1>9

(* The queues w are q with r appended to that of o.                        *)
AppendedTo(q, w, o, r) == w[o] = Append(q[o], r) /\ \A p \in Outputs : p # o => w[p] = q[p]
(* The queues w are q without the head of that of o.                       *)
HeadTaken(q, w, o) == w[o] = Tail(q[o]) /\ \A p \in Outputs : p # o => w[p] = q[p]

(* A number is queued when it is that of a waiting packet.                 *)
LEMMA IsQueued ==
  ASSUME NEW q, NEW x
  PROVE  x \in QueuedIn(q) <=> \E o \in Outputs : \E i \in DOMAIN q[o] : q[o][i].id = x
BY DEF QueuedIn

(* Appending a packet adds its number, and a new number keeps the numbers  *)
(* different.                                                              *)
LEMMA AppendQueues ==
  ASSUME NEW P, NEW q \in [Outputs -> Seq(P)], NEW o \in Outputs, NEW r \in P,
         NEW w, AppendedTo(q, w, o, r)
  PROVE  /\ QueuedIn(w) = QueuedIn(q) \cup {r.id}
         /\ IdsDiffer(q) /\ r.id \notin QueuedIn(q) => IdsDiffer(w)
<1>1. /\ \A p \in Outputs : p # o => w[p] = q[p]
      /\ w[o] = Append(q[o], r) /\ q[o] \in Seq(P)
  BY DEF AppendedTo
<1>2. PICK n \in Nat : n = Len(q[o])
  BY <1>1
<1>3. /\ DOMAIN q[o] = 1 .. n /\ DOMAIN w[o] = 1 .. n + 1
      /\ \A i \in 1 .. n : w[o][i] = q[o][i]
      /\ w[o][n + 1] = r
  BY <1>1, <1>2, AppendProperties
<1>4. \A i \in DOMAIN w[o] : (i \in DOMAIN q[o] /\ w[o][i] = q[o][i]) \/ (i = n + 1 /\ w[o][i] = r)
  BY <1>2, <1>3
<1>5. \A i \in DOMAIN q[o] : i \in DOMAIN w[o] /\ w[o][i] = q[o][i]
  BY <1>2, <1>3
<1>6. n + 1 \in DOMAIN w[o] /\ w[o][n + 1] = r
  BY <1>2, <1>3
<1>7. QueuedIn(w) \subseteq QueuedIn(q) \cup {r.id}
  <2> SUFFICES ASSUME NEW a \in Outputs, NEW i \in DOMAIN w[a]
               PROVE  w[a][i].id \in QueuedIn(q) \cup {r.id}
    BY IsQueued
  <2>1. (i \in DOMAIN q[a] /\ w[a][i] = q[a][i]) \/ (a = o /\ i = n + 1 /\ w[a][i] = r)
    BY <1>1, <1>4
  <2> QED BY <2>1, IsQueued
<1>8. QueuedIn(q) \cup {r.id} \subseteq QueuedIn(w)
  <2>1. r.id \in QueuedIn(w)
    BY <1>6, IsQueued
  <2>2. ASSUME NEW a \in Outputs, NEW i \in DOMAIN q[a] PROVE q[a][i].id \in QueuedIn(w)
    <3>1. i \in DOMAIN w[a] /\ w[a][i] = q[a][i]
      BY <1>1, <1>5
    <3> QED BY <3>1, IsQueued
  <2> QED BY <2>1, <2>2, IsQueued
<1>9. ASSUME IdsDiffer(q), r.id \notin QueuedIn(q) PROVE IdsDiffer(w)
  <2> SUFFICES ASSUME NEW a \in Outputs, NEW b \in Outputs,
                      NEW i \in DOMAIN w[a], NEW j \in DOMAIN w[b], w[a][i].id = w[b][j].id
               PROVE  a = b /\ i = j
    BY DEF IdsDiffer
  <2>1. (i \in DOMAIN q[a] /\ w[a][i] = q[a][i]) \/ (a = o /\ i = n + 1 /\ w[a][i] = r)
    BY <1>1, <1>4
  <2>2. (j \in DOMAIN q[b] /\ w[b][j] = q[b][j]) \/ (b = o /\ j = n + 1 /\ w[b][j] = r)
    BY <1>1, <1>4
  <2>3. \A c \in Outputs : \A k \in DOMAIN q[c] : q[c][k].id # r.id
    BY <1>9, IsQueued
  <2> QED BY <1>9, <2>1, <2>2, <2>3 DEF IdsDiffer
<1> QED BY <1>7, <1>8, <1>9

(* Taking a head removes its number and no other.                          *)
LEMMA TailQueues ==
  ASSUME NEW P, NEW q \in [Outputs -> Seq(P)], NEW o \in Outputs, q[o] # << >>, IdsDiffer(q),
         NEW w, HeadTaken(q, w, o)
  PROVE  /\ QueuedIn(w) = QueuedIn(q) \ {Head(q[o]).id}
         /\ Head(q[o]).id \in QueuedIn(q)
         /\ IdsDiffer(w)
<1> DEFINE h == Head(q[o]).id
<1>1. /\ \A p \in Outputs : p # o => w[p] = q[p]
      /\ w[o] = Tail(q[o]) /\ q[o] \in Seq(P)
  BY DEF HeadTaken
<1>2. PICK n \in Nat : n = Len(q[o]) /\ n >= 1
  BY <1>1, EmptySeq, HeadTailProperties
<1>3. /\ DOMAIN q[o] = 1 .. n /\ DOMAIN w[o] = 1 .. n - 1
      /\ \A i \in 1 .. n - 1 : w[o][i] = q[o][i + 1]
      /\ h = q[o][1].id
  BY <1>1, <1>2, HeadTailProperties
<1>4. \A i \in DOMAIN w[o] : i + 1 \in DOMAIN q[o] /\ i + 1 # 1 /\ w[o][i] = q[o][i + 1]
  BY <1>2, <1>3
<1>5. \A i \in DOMAIN q[o] : i # 1 => \E j \in DOMAIN w[o] : w[o][j] = q[o][i]
  <2> SUFFICES ASSUME NEW i \in 1 .. n, i # 1 PROVE \E j \in DOMAIN w[o] : w[o][j] = q[o][i]
    BY <1>3
  <2>1. i - 1 \in 1 .. n - 1 /\ (i - 1) + 1 = i
    BY <1>2
  <2> QED BY <1>3, <2>1
<1>6. 1 \in DOMAIN q[o]
  BY <1>2, <1>3
<1>7. \A i, j \in DOMAIN w[o] : i + 1 = j + 1 => i = j
  BY <1>2, <1>3
<1> HIDE DEF h
<1>8. h \in QueuedIn(q)
  BY <1>3, <1>6, IsQueued
<1>9. QueuedIn(w) \subseteq QueuedIn(q) \ {h}
  <2> SUFFICES ASSUME NEW a \in Outputs, NEW i \in DOMAIN w[a]
               PROVE  w[a][i].id \in QueuedIn(q) /\ w[a][i].id # h
    BY IsQueued
  <2>1. CASE a = o
    <3>1. i + 1 \in DOMAIN q[o] /\ i + 1 # 1 /\ w[a][i] = q[o][i + 1]
      BY <1>4, <2>1
    <3> QED BY <1>3, <1>6, <3>1, IsQueued DEF IdsDiffer
  <2>2. CASE a # o
    <3>1. i \in DOMAIN q[a] /\ w[a][i] = q[a][i]
      BY <1>1, <2>2
    <3> QED BY <1>3, <1>6, <2>2, <3>1, IsQueued DEF IdsDiffer
  <2> QED BY <2>1, <2>2
<1>10. QueuedIn(q) \ {h} \subseteq QueuedIn(w)
  <2> SUFFICES ASSUME NEW a \in Outputs, NEW i \in DOMAIN q[a], q[a][i].id # h
               PROVE  q[a][i].id \in QueuedIn(w)
    BY IsQueued
  <2>1. CASE a = o
    <3>1. PICK j \in DOMAIN w[o] : w[o][j] = q[o][i]
      BY <1>3, <1>5, <2>1
    <3> QED BY <2>1, <3>1, IsQueued
  <2>2. CASE a # o
    BY <1>1, <2>2, IsQueued
  <2> QED BY <2>1, <2>2
<1>11. IdsDiffer(w)
  <2> SUFFICES ASSUME NEW a \in Outputs, NEW b \in Outputs,
                      NEW i \in DOMAIN w[a], NEW j \in DOMAIN w[b], w[a][i].id = w[b][j].id
               PROVE  a = b /\ i = j
    BY DEF IdsDiffer
  <2>1. (a = o /\ i + 1 \in DOMAIN q[a] /\ w[a][i] = q[a][i + 1])
        \/ (a # o /\ i \in DOMAIN q[a] /\ w[a][i] = q[a][i])
    BY <1>1, <1>4
  <2>2. (b = o /\ j + 1 \in DOMAIN q[b] /\ w[b][j] = q[b][j + 1])
        \/ (b # o /\ j \in DOMAIN q[b] /\ w[b][j] = q[b][j])
    BY <1>1, <1>4
  <2>3. a = b
    BY <2>1, <2>2 DEF IdsDiffer
  <2>4. CASE a = o
    <3>1. i + 1 = j + 1
      BY <2>1, <2>2, <2>3, <2>4 DEF IdsDiffer
    <3> QED BY <1>7, <2>3, <2>4, <3>1
  <2>5. CASE a # o
    BY <2>1, <2>2, <2>3, <2>5 DEF IdsDiffer
  <2> QED BY <2>3, <2>4, <2>5
<1> QED BY <1>8, <1>9, <1>10, <1>11 DEF h

(* The waiting packets; the bound on their numbers follows from the        *)
(* counters.                                                               *)
WaitingPackets == [id : Nat \ {0}, size : Sizes]
(* What the proof says of where packets are and how many there are.        *)
AllPlaces == PlacesInv /\ CountsInv /\ Conservation
(* The inductive invariant; QueuesAreSound states it with its              *)
(* consequences.                                                           *)
EgressInv == EgressTypeOK /\ BudgetInv /\ Conservation /\ DispatchInv

(* A packet in flight waits, is serialized or travels.                     *)
LEMMA IsInFlight ==
  ASSUME NEW x
  PROVE  x \in InFlight <=> \/ x \in Queued
                            \/ \E o \in Outputs : sending[o] # 0 /\ sending[o] = x
                            \/ \E o \in Outputs : x \in travelling[o]
BY DEF InFlight

(* The same of the next state.                                             *)
LEMMA IsInFlightNext ==
  ASSUME NEW x
  PROVE  x \in InFlight' <=> \/ x \in Queued'
                             \/ \E o \in Outputs : sending'[o] # 0 /\ sending'[o] = x
                             \/ \E o \in Outputs : x \in travelling'[o]
BY DEF InFlight

(* Packets in flight have been admitted, so there are finitely many.       *)
LEMMA InFlightIsFinite ==
  ASSUME PlacesInv, accepted \in Nat
  PROVE  /\ InFlight \subseteq 1 .. accepted /\ IsFiniteSet(InFlight)
         /\ IsFiniteSet(Queued) /\ Cardinality(Queued) \in Nat
         /\ Cardinality(InFlight) \in Nat
         /\ Cardinality(InFlight) <= accepted /\ Cardinality(Queued) <= accepted
<1>1. InFlight \subseteq 1 .. accepted
  <2> SUFFICES ASSUME NEW x \in InFlight PROVE x \in 1 .. accepted
    OBVIOUS
  <2>1. CASE x \in Queued
    BY <2>1 DEF PlacesInv
  <2>2. ASSUME NEW o \in Outputs, sending[o] # 0, sending[o] = x PROVE x \in 1 .. accepted
    <3>1. sending[o] \in 0 .. accepted
      BY DEF PlacesInv
    <3> QED BY <2>2, <3>1
  <2>3. ASSUME NEW o \in Outputs, x \in travelling[o] PROVE x \in 1 .. accepted
    BY <2>3 DEF PlacesInv
  <2> QED BY <2>1, <2>2, <2>3, IsInFlight
<1>2. Queued \subseteq 1 .. accepted
  BY DEF PlacesInv
<1>3. IsFiniteSet(1 .. accepted) /\ Cardinality(1 .. accepted) = accepted
  BY CountOfInterval
<1>4. \A S : S \subseteq 1 .. accepted =>
        IsFiniteSet(S) /\ Cardinality(S) \in Nat /\ Cardinality(S) <= accepted
  BY <1>3, FS_Subset, FS_CardinalityType
<1> QED BY <1>1, <1>2, <1>4

(* The counters are numbers.                                               *)
EgressNumbers ==
  /\ accepted \in Nat /\ queuedPackets \in Nat /\ forwarded \in Nat
  /\ offered \in Nat /\ dropped \in Nat /\ delivered \in Nat /\ lost \in Nat
  /\ discarded \in Nat

(* The parts of the invariant the lemmas about packets use.                *)
LEMMA EgressParts ==
  ASSUME EgressInv
  PROVE  /\ PlacesInv /\ CountsInv /\ Conservation /\ HeapIsExact
         /\ queue \in [Outputs -> Seq(WaitingPackets)] /\ sending \in [Outputs -> Nat]
         /\ travelling \in [Outputs -> SUBSET Ids]
         /\ EgressNumbers
<1>1. PlacesInv /\ CountsInv /\ Conservation /\ HeapIsExact
  BY DEF EgressInv, DispatchInv, BudgetInv
<1>2. queue \in [Outputs -> Seq(WaitingPackets)] /\ sending \in [Outputs -> Nat]
  BY DEF EgressInv, BudgetInv, BudgetQueues, WaitingPackets
<1>3. travelling \in [Outputs -> SUBSET Ids] /\ EgressTypeOK
  BY DEF EgressInv, EgressTypeOK
<1>4. EgressNumbers
  BY <1>3, EgressAssumption DEF EgressTypeOK, EgressNumbers
<1> QED BY <1>1, <1>2, <1>3, <1>4

(* DispatchNext moves one packet from its queue to its link.               *)
LEMMA PlacesAfterDispatch ==
  ASSUME EgressInv, DispatchNext
  PROVE  AllPlaces'
<1>0. /\ PlacesInv /\ CountsInv /\ Conservation /\ HeapIsExact
      /\ queue \in [Outputs -> Seq(WaitingPackets)] /\ sending \in [Outputs -> Nat]
      /\ travelling \in [Outputs -> SUBSET Ids]
      /\ accepted \in Nat /\ queuedPackets \in Nat /\ forwarded \in Nat
      /\ offered \in Nat /\ dropped \in Nat /\ delivered \in Nat /\ lost \in Nat
      /\ discarded \in Nat
  BY EgressParts DEF EgressNumbers
<1>1. PICK o \in ready :
        /\ queue' = [queue EXCEPT ![o] = Tail(@)]
        /\ sending' = [sending EXCEPT ![o] = Head(queue[o]).id]
        /\ queuedPackets' = queuedPackets - 1 /\ forwarded' = forwarded + 1
  BY DEF DispatchNext
<1>2. /\ travelling' = travelling /\ accepted' = accepted /\ stopped' = stopped
      /\ discarded' = discarded /\ offered' = offered /\ dropped' = dropped
      /\ delivered' = delivered /\ lost' = lost
  BY DEF DispatchNext, history
<1>3. o \in Outputs /\ queue[o] # << >> /\ sending[o] = 0
  BY <1>0 DEF HeapIsExact
<1>4. PICK id : id = Head(queue[o]).id
  OBVIOUS
<1>5. id \in Queued /\ Queued' = Queued \ {id} /\ IdsDiffer(queue')
  <2>1. HeadTaken(queue, queue', o)
    BY <1>0, <1>1, <1>3 DEF HeadTaken
  <2>2. queue \in [Outputs -> Seq(WaitingPackets)] /\ IdsDiffer(queue)
    BY <1>0 DEF PlacesInv
  <2> QED BY <1>3, <1>4, <2>1, <2>2, TailQueues DEF Queued
<1>6. /\ id \in 1 .. accepted
      /\ \A p \in Outputs : sending[p] # id /\ id \notin travelling[p]
  BY <1>0, <1>5 DEF PlacesInv
<1>7. /\ sending'[o] = id /\ \A p \in Outputs : p # o => sending'[p] = sending[p]
  BY <1>0, <1>1, <1>3, <1>4
<1>8. PlacesInv'
  <2>1. Queued' \subseteq 1 .. accepted' /\ IdsDiffer(queue)'
    BY <1>0, <1>2, <1>5 DEF PlacesInv
  <2>2. ASSUME NEW a \in Outputs, NEW b \in Outputs
        PROVE  /\ sending'[a] \in 0 .. accepted' /\ travelling'[a] \subseteq 1 .. accepted'
               /\ sending'[a] \notin Queued' /\ travelling'[a] \cap Queued' = {}
               /\ sending'[a] # 0 /\ sending'[a] = sending'[b] => a = b
               /\ sending'[a] \notin travelling'[b]
               /\ a # b => travelling'[a] \cap travelling'[b] = {}
    <3>1. sending'[a] \in 0 .. accepted' /\ travelling'[a] \subseteq 1 .. accepted'
      BY <1>0, <1>2, <1>6, <1>7 DEF PlacesInv
    <3>2. sending'[a] \notin Queued' /\ travelling'[a] \cap Queued' = {}
      BY <1>0, <1>2, <1>5, <1>7 DEF PlacesInv
    <3>3. sending'[a] # 0 /\ sending'[a] = sending'[b] => a = b
      BY <1>0, <1>6, <1>7 DEF PlacesInv
    <3>4. sending'[a] \notin travelling'[b]
      BY <1>0, <1>2, <1>6, <1>7 DEF PlacesInv
    <3>5. a # b => travelling'[a] \cap travelling'[b] = {}
      BY <1>0, <1>2 DEF PlacesInv
    <3> QED BY <3>1, <3>2, <3>3, <3>4, <3>5
  <2> QED BY <2>1, <2>2 DEF PlacesInv
<1>9. InFlight' = InFlight
  <2>1. \A x : x \in InFlight' <=> x \in InFlight
    <3> TAKE x
    <3>1. CASE x = id
      BY <1>3, <1>5, <1>6, <1>7, <3>1, IsInFlight, IsInFlightNext
    <3>2. CASE x # id
      BY <1>2, <1>3, <1>5, <1>7, <3>2, IsInFlight, IsInFlightNext
    <3> QED BY <3>1, <3>2
  <2> QED BY <2>1
<1>10. Cardinality(Queued') = Cardinality(Queued) - 1
  <2>1. IsFiniteSet(Queued)
    BY <1>0, InFlightIsFinite
  <2> QED BY <1>5, <2>1, FS_RemoveElement
<1>11. CountsInv' /\ Conservation'
  <2>1. CountsInv'
    BY <1>0, <1>1, <1>2, <1>10 DEF CountsInv
  <2>2. Conservation'
    BY <1>0, <1>1, <1>2, <1>9 DEF Conservation
  <2> QED BY <2>1, <2>2
<1> QED BY <1>8, <1>11 DEF AllPlaces

(* An admitted packet is a new one, and it waits.                          *)
LEMMA PlacesAfterOffer ==
  ASSUME EgressInv, NEW o \in Outputs, OfferAccepted(o)
  PROVE  AllPlaces'
<1>0. /\ PlacesInv /\ CountsInv /\ Conservation /\ HeapIsExact
      /\ queue \in [Outputs -> Seq(WaitingPackets)] /\ sending \in [Outputs -> Nat]
      /\ travelling \in [Outputs -> SUBSET Ids]
      /\ accepted \in Nat /\ queuedPackets \in Nat /\ forwarded \in Nat
      /\ offered \in Nat /\ dropped \in Nat /\ delivered \in Nat /\ lost \in Nat
      /\ discarded \in Nat
  BY EgressParts DEF EgressNumbers
<1> DEFINE id == accepted + 1
<1>1. PICK s \in Sizes : queue' = [queue EXCEPT ![o] = Append(@, [id |-> id, size |-> s])]
  BY DEF OfferAccepted
<1>2. /\ travelling' = travelling /\ sending' = sending /\ accepted' = id /\ stopped' = stopped
      /\ discarded' = discarded /\ offered' = offered + 1 /\ dropped' = dropped
      /\ delivered' = delivered /\ lost' = lost
      /\ queuedPackets' = queuedPackets + 1 /\ forwarded' = forwarded
  BY DEF OfferAccepted
<1>3. /\ id \notin Queued /\ id # 0 /\ id \in Nat
      /\ \A p \in Outputs : sending[p] # id /\ id \notin travelling[p]
  BY <1>0 DEF PlacesInv
<1>4. [id |-> id, size |-> s] \in WaitingPackets
  BY <1>3 DEF WaitingPackets
<1> HIDE DEF id
<1>5. Queued' = Queued \cup {id} /\ IdsDiffer(queue')
  <2>1. PICK r \in WaitingPackets : r = [id |-> id, size |-> s]
    BY <1>4
  <2>2. r.id = id
    BY <2>1
  <2>3. queue' = [queue EXCEPT ![o] = Append(@, r)]
    BY <1>1, <2>1
  <2>4. /\ QueuedIn(queue') = QueuedIn(queue) \cup {r.id}
        /\ IdsDiffer(queue) /\ r.id \notin QueuedIn(queue) => IdsDiffer(queue')
    <3>1. queue \in [Outputs -> Seq(WaitingPackets)]
      BY <1>0
    <3>2. AppendedTo(queue, queue', o, r)
      BY <2>3, <3>1 DEF AppendedTo
    <3> QED BY <3>1, <3>2, AppendQueues
  <2> QED BY <1>0, <1>3, <2>2, <2>4 DEF Queued, PlacesInv
<1>8. PlacesInv'
  <2>1. Queued' \subseteq 1 .. accepted' /\ IdsDiffer(queue)'
    BY <1>0, <1>2, <1>5 DEF PlacesInv, id
  <2>2. ASSUME NEW a \in Outputs, NEW b \in Outputs
        PROVE  /\ sending'[a] \in 0 .. accepted' /\ travelling'[a] \subseteq 1 .. accepted'
               /\ sending'[a] \notin Queued' /\ travelling'[a] \cap Queued' = {}
               /\ sending'[a] # 0 /\ sending'[a] = sending'[b] => a = b
               /\ sending'[a] \notin travelling'[b]
               /\ a # b => travelling'[a] \cap travelling'[b] = {}
    <3>1. sending'[a] \in 0 .. accepted' /\ travelling'[a] \subseteq 1 .. accepted'
      BY <1>0, <1>2 DEF PlacesInv, id
    <3>2. sending'[a] \notin Queued' /\ travelling'[a] \cap Queued' = {}
      BY <1>0, <1>2, <1>3, <1>5 DEF PlacesInv
    <3>3. sending'[a] # 0 /\ sending'[a] = sending'[b] => a = b
      BY <1>0, <1>2 DEF PlacesInv
    <3>4. sending'[a] \notin travelling'[b] /\ (a # b => travelling'[a] \cap travelling'[b] = {})
      BY <1>0, <1>2 DEF PlacesInv
    <3> QED BY <3>1, <3>2, <3>3, <3>4
  <2> QED BY <2>1, <2>2 DEF PlacesInv
<1>9. InFlight' = InFlight \cup {id} /\ id \notin InFlight
  <2>1. \A x : x \in InFlight' <=> x \in InFlight \/ x = id
    BY <1>2, <1>5, IsInFlight, IsInFlightNext
  <2>2. id \notin InFlight
    BY <1>3, IsInFlight
  <2> QED BY <2>1, <2>2
<1>10. /\ Cardinality(Queued') = Cardinality(Queued) + 1
       /\ Cardinality(InFlight') = Cardinality(InFlight) + 1
       /\ Cardinality(InFlight) \in Nat
  <2>1. IsFiniteSet(Queued) /\ IsFiniteSet(InFlight) /\ Cardinality(InFlight) \in Nat
    BY <1>0, InFlightIsFinite
  <2>2. Cardinality(Queued') = Cardinality(Queued) + 1
    BY <1>3, <1>5, <2>1, FS_AddElement
  <2>3. Cardinality(InFlight') = Cardinality(InFlight) + 1
    BY <1>9, <2>1, FS_AddElement
  <2> QED BY <2>1, <2>2, <2>3
<1>11. CountsInv' /\ Conservation'
  <2>1. CountsInv'
    BY <1>0, <1>2, <1>10 DEF CountsInv
  <2>2. Conservation'
    <3>1. offered' = accepted' + dropped'
      BY <1>0, <1>2 DEF Conservation, id
    <3>2. accepted' = Cardinality(InFlight') + delivered' + lost' + discarded'
      <4>1. accepted = Cardinality(InFlight) + delivered + lost + discarded
        BY <1>0 DEF Conservation
      <4>2. accepted' = accepted + 1
        BY <1>2 DEF id
      <4>3. Cardinality(InFlight') + delivered + lost + discarded =
              Cardinality(InFlight) + 1 + delivered + lost + discarded
        BY <1>10
      <4> QED BY <1>0, <1>2, <1>10, <4>1, <4>2, <4>3
    <3>3. ~stopped' => forwarded' + queuedPackets' = accepted'
      BY <1>0, <1>2 DEF Conservation, id
    <3> QED BY <3>1, <3>2, <3>3 DEF Conservation
  <2> QED BY <2>1, <2>2
<1> QED BY <1>8, <1>11 DEF AllPlaces

(* The event that is due is an event of the agenda.                        *)
LEMMA HeadIsElement ==
  ASSUME EgressInv, Due
  PROVE  /\ agenda \in Seq(Events) /\ agenda # << >> /\ Head(agenda) \in Elements(agenda)
         /\ Head(agenda) \in Events
<1>1. agenda \in Seq(Events) /\ agenda # << >>
  BY DEF EgressInv, EgressTypeOK, Due
<1>2. 1 \in DOMAIN agenda /\ Head(agenda) = agenda[1]
  BY <1>1, TailRemoves
<1>3. agenda[1] \in Events
  BY <1>1, <1>2
<1> QED BY <1>1, <1>2, <1>3 DEF Elements

(* A packet that moves from one account to another.                        *)
LEMMA OneFieldForAnother ==
  ASSUME NEW c \in Nat, NEW d \in Nat, NEW l \in Nat, NEW x \in Nat,
         NEW cNext \in Nat, NEW lNext \in Nat, cNext + lNext = c + l
  PROVE  c + d + l + x = cNext + d + lNext + x
OBVIOUS

(* When serialization ends the packet is lost or travels.                  *)
LEMMA PlacesAfterSending ==
  ASSUME EgressInv, NEW o \in Outputs, Transmitted(o)
  PROVE  AllPlaces'
<1>0. /\ PlacesInv /\ CountsInv /\ Conservation /\ HeapIsExact
      /\ queue \in [Outputs -> Seq(WaitingPackets)] /\ sending \in [Outputs -> Nat]
      /\ travelling \in [Outputs -> SUBSET Ids]
      /\ accepted \in Nat /\ queuedPackets \in Nat /\ forwarded \in Nat
      /\ offered \in Nat /\ dropped \in Nat /\ delivered \in Nat /\ lost \in Nat
      /\ discarded \in Nat
  BY EgressParts DEF EgressNumbers
<1> DEFINE id == sending[o]
<1>1. /\ queue' = queue /\ accepted' = accepted /\ stopped' = stopped
      /\ discarded' = discarded /\ offered' = offered /\ dropped' = dropped
      /\ delivered' = delivered /\ queuedPackets' = queuedPackets /\ forwarded' = forwarded
  BY DEF Transmitted, history
<1>2. id # 0
  <2>1. Head(agenda) \in Elements(agenda)
    BY HeadIsElement DEF Transmitted
  <2>2. EventsInv
    BY DEF EgressInv, DispatchInv
  <2> QED BY <2>1, <2>2 DEF EventsInv, Transmitted
<1>3. /\ sending'[o] = 0 /\ \A p \in Outputs : p # o => sending'[p] = sending[p]
  BY <1>0 DEF Transmitted
<1>4. Queued' = Queued
  BY <1>1 DEF Queued
<1>5. /\ id \in 1 .. accepted /\ id \notin Queued
      /\ \A p \in Outputs : p # o => sending[p] # id
      /\ \A p \in Outputs : id \notin travelling[p]
  BY <1>0, <1>2 DEF PlacesInv
<1>6. \A p \in Outputs : p # o => travelling'[p] = travelling[p]
  BY <1>0 DEF Transmitted
<1>7. \/ lost' = lost /\ travelling'[o] = travelling[o] \cup {id}
      \/ lost' = lost + 1 /\ travelling'[o] = travelling[o]
  BY <1>0 DEF Transmitted
<1> HIDE DEF id
<1>8. PlacesInv'
  <2>1. Queued' \subseteq 1 .. accepted' /\ IdsDiffer(queue)'
    BY <1>0, <1>1, <1>4 DEF PlacesInv
  <2>2. ASSUME NEW a \in Outputs, NEW b \in Outputs
        PROVE  /\ sending'[a] \in 0 .. accepted' /\ travelling'[a] \subseteq 1 .. accepted'
               /\ sending'[a] \notin Queued' /\ travelling'[a] \cap Queued' = {}
               /\ sending'[a] # 0 /\ sending'[a] = sending'[b] => a = b
               /\ sending'[a] \notin travelling'[b]
               /\ a # b => travelling'[a] \cap travelling'[b] = {}
    <3>0. /\ sending[a] \in 0 .. accepted /\ travelling[a] \subseteq 1 .. accepted
          /\ sending[a] \notin Queued /\ travelling[a] \cap Queued = {}
          /\ sending[a] # 0 /\ sending[a] = sending[b] => a = b
          /\ sending[a] \notin travelling[b]
          /\ a # b => travelling[a] \cap travelling[b] = {}
          /\ travelling[b] \subseteq 1 .. accepted /\ Queued \subseteq 1 .. accepted
      BY <1>0 DEF PlacesInv
    <3>z. 0 \notin 1 .. accepted /\ 0 \in 0 .. accepted
      BY <1>0
    <3>s. sending'[a] = 0 \/ (a # o /\ sending'[a] = sending[a] /\ sending[a] # id)
      BY <1>3, <1>5
    <3>t. \A c \in Outputs :
            \/ travelling'[c] = travelling[c]
            \/ c = o /\ travelling'[c] = travelling[c] \cup {id}
      BY <1>6, <1>7
    <3>1. sending'[a] \in 0 .. accepted' /\ travelling'[a] \subseteq 1 .. accepted'
      BY <1>1, <1>5, <3>0, <3>z, <3>s, <3>t
    <3>2. sending'[a] \notin Queued' /\ travelling'[a] \cap Queued' = {}
      BY <1>4, <1>5, <3>0, <3>z, <3>s, <3>t
    <3>3. sending'[a] # 0 /\ sending'[a] = sending'[b] => a = b
      BY <1>3, <3>0
    <3>4. sending'[a] \notin travelling'[b]
      BY <1>5, <3>0, <3>z, <3>s, <3>t
    <3>5. a # b => travelling'[a] \cap travelling'[b] = {}
      BY <1>5, <3>0, <3>t
    <3> QED BY <3>1, <3>2, <3>3, <3>4, <3>5
  <2> QED BY <2>1, <2>2 DEF PlacesInv
<1>9. id \in InFlight
  BY <1>2, IsInFlight DEF id
<1>10. IsFiniteSet(InFlight) /\ Cardinality(InFlight) \in Nat
  BY <1>0, InFlightIsFinite
<1>11. Cardinality(InFlight') + lost' = Cardinality(InFlight) + lost
  <2>1. CASE lost' = lost /\ travelling'[o] = travelling[o] \cup {id}
    <3>1. \A x : x \in InFlight' <=> x \in InFlight
      <4> TAKE x
      <4>1. CASE x = id
        BY <1>9, <2>1, <4>1, IsInFlightNext
      <4>2. CASE x # id
        <5>1. \A p \in Outputs : x \in travelling'[p] <=> x \in travelling[p]
          BY <1>6, <2>1, <4>2
        <5>2. \A p \in Outputs : (sending'[p] # 0 /\ sending'[p] = x) <=> (sending[p] # 0 /\ sending[p] = x)
          BY <1>3, <4>2 DEF id
        <5> QED BY <1>4, <5>1, <5>2, IsInFlight, IsInFlightNext
      <4> QED BY <4>1, <4>2
    <3>2. InFlight' = InFlight
      BY <3>1
    <3> QED BY <2>1, <3>2
  <2>2. CASE lost' = lost + 1 /\ travelling'[o] = travelling[o]
    <3>1. \A x : x \in InFlight' <=> x \in InFlight \ {id}
      <4> TAKE x
      <4>1. CASE x = id
        <5>1. \A p \in Outputs : x \notin travelling'[p] /\ ~(sending'[p] # 0 /\ sending'[p] = x)
          BY <1>3, <1>5, <1>6, <2>2, <4>1
        <5> QED BY <1>4, <1>5, <4>1, <5>1, IsInFlightNext
      <4>2. CASE x # id
        <5>1. \A p \in Outputs : x \in travelling'[p] <=> x \in travelling[p]
          BY <1>6, <2>2
        <5>2. \A p \in Outputs : (sending'[p] # 0 /\ sending'[p] = x) <=> (sending[p] # 0 /\ sending[p] = x)
          BY <1>3, <4>2 DEF id
        <5> QED BY <1>4, <4>2, <5>1, <5>2, IsInFlight, IsInFlightNext
      <4> QED BY <4>1, <4>2
    <3>2. InFlight' = InFlight \ {id}
      BY <3>1
    <3>3. Cardinality(InFlight') = Cardinality(InFlight) - 1
      BY <1>9, <1>10, <3>2, FS_RemoveElement
    <3> QED BY <1>0, <1>10, <2>2, <3>3
  <2> QED BY <1>7, <2>1, <2>2
<1>12. IsFiniteSet(InFlight') /\ Cardinality(InFlight') \in Nat /\ lost' \in Nat
  <2>1. InFlight' \subseteq InFlight
    <3> SUFFICES ASSUME NEW x, x \in InFlight' PROVE x \in InFlight
      OBVIOUS
    <3>1. CASE x = id
      BY <1>9, <3>1
    <3>2. CASE x # id
      <4>1. \A p \in Outputs : x \in travelling'[p] => x \in travelling[p]
        BY <1>6, <1>7, <3>2
      <4>2. \A p \in Outputs : (sending'[p] # 0 /\ sending'[p] = x) => (sending[p] # 0 /\ sending[p] = x)
        BY <1>3
      <4> QED BY <1>4, <4>1, <4>2, IsInFlight, IsInFlightNext
    <3> QED BY <3>1, <3>2
  <2>2. lost' \in Nat
    BY <1>0, <1>7
  <2> QED BY <1>10, <2>1, <2>2, FS_Subset, FS_CardinalityType
<1>13. CountsInv' /\ Conservation'
  <2>1. CountsInv'
    BY <1>0, <1>1, <1>4 DEF CountsInv
  <2>2. accepted' = Cardinality(InFlight') + delivered' + lost' + discarded'
    <3>1. accepted = Cardinality(InFlight) + delivered + lost + discarded
      BY <1>0 DEF Conservation
    <3>2. accepted' = accepted /\ delivered' = delivered /\ discarded' = discarded
      BY <1>1
    <3>3. /\ delivered \in Nat /\ lost \in Nat /\ discarded \in Nat
          /\ Cardinality(InFlight) \in Nat /\ Cardinality(InFlight') \in Nat
          /\ lost' \in Nat
      BY <1>0, <1>10, <1>12
    <3>4. accepted = Cardinality(InFlight') + delivered + lost' + discarded
      BY <1>11, <3>1, <3>3, OneFieldForAnother
    <3> QED BY <3>2, <3>4
  <2>3. Conservation'
    BY <1>0, <1>1, <2>2 DEF Conservation
  <2> QED BY <2>1, <2>3
<1> QED BY <1>8, <1>13 DEF AllPlaces

(* An arriving packet leaves its link and is delivered.                    *)
LEMMA PlacesAfterArrival ==
  ASSUME EgressInv, NEW o \in Outputs, Arrive(o)
  PROVE  AllPlaces'
<1>0. /\ PlacesInv /\ CountsInv /\ Conservation /\ HeapIsExact
      /\ queue \in [Outputs -> Seq(WaitingPackets)] /\ sending \in [Outputs -> Nat]
      /\ travelling \in [Outputs -> SUBSET Ids]
      /\ accepted \in Nat /\ queuedPackets \in Nat /\ forwarded \in Nat
      /\ offered \in Nat /\ dropped \in Nat /\ delivered \in Nat /\ lost \in Nat
      /\ discarded \in Nat
  BY EgressParts DEF EgressNumbers
<1> DEFINE id == Head(agenda).id
<1>1. /\ queue' = queue /\ accepted' = accepted /\ stopped' = stopped /\ sending' = sending
      /\ discarded' = discarded /\ offered' = offered /\ dropped' = dropped /\ lost' = lost
      /\ delivered' = delivered + 1 /\ queuedPackets' = queuedPackets /\ forwarded' = forwarded
  BY DEF Arrive, history
<1>2. id \in travelling[o]
  <2>1. Head(agenda) \in Elements(agenda)
    BY HeadIsElement DEF Arrive
  <2>2. EventsInv
    BY DEF EgressInv, DispatchInv
  <2> QED BY <2>1, <2>2 DEF EventsInv, Arrive
<1>3. /\ travelling'[o] = travelling[o] \ {id}
      /\ \A p \in Outputs : p # o => travelling'[p] = travelling[p]
  BY <1>0 DEF Arrive
<1> HIDE DEF id
<1>4. Queued' = Queued
  BY <1>1 DEF Queued
<1>5. \A p \in Outputs : travelling'[p] \subseteq travelling[p]
  BY <1>3
<1>8. PlacesInv'
  <2>1. Queued' \subseteq 1 .. accepted' /\ IdsDiffer(queue)'
    BY <1>0, <1>1, <1>4 DEF PlacesInv
  <2>2. ASSUME NEW a \in Outputs, NEW b \in Outputs
        PROVE  /\ sending'[a] \in 0 .. accepted' /\ travelling'[a] \subseteq 1 .. accepted'
               /\ sending'[a] \notin Queued' /\ travelling'[a] \cap Queued' = {}
               /\ sending'[a] # 0 /\ sending'[a] = sending'[b] => a = b
               /\ sending'[a] \notin travelling'[b]
               /\ a # b => travelling'[a] \cap travelling'[b] = {}
    <3>0. /\ sending[a] \in 0 .. accepted /\ travelling[a] \subseteq 1 .. accepted
          /\ sending[a] \notin Queued /\ travelling[a] \cap Queued = {}
          /\ sending[a] # 0 /\ sending[a] = sending[b] => a = b
          /\ sending[a] \notin travelling[b]
          /\ a # b => travelling[a] \cap travelling[b] = {}
      BY <1>0 DEF PlacesInv
    <3>1. sending'[a] \in 0 .. accepted' /\ travelling'[a] \subseteq 1 .. accepted'
      BY <1>1, <1>5, <3>0
    <3>2. sending'[a] \notin Queued' /\ travelling'[a] \cap Queued' = {}
      BY <1>1, <1>4, <1>5, <3>0
    <3>3. (sending'[a] # 0 /\ sending'[a] = sending'[b] => a = b) /\ sending'[a] \notin travelling'[b]
      BY <1>1, <1>5, <3>0
    <3>5. a # b => travelling'[a] \cap travelling'[b] = {}
      BY <1>5, <3>0
    <3> QED BY <3>1, <3>2, <3>3, <3>5
  <2> QED BY <2>1, <2>2 DEF PlacesInv
<1>9. InFlight' = InFlight \ {id} /\ id \in InFlight
  <2>0. id \in InFlight
    BY <1>2, IsInFlight
  <2>1. /\ id \notin Queued /\ \A p \in Outputs : sending[p] # id
        /\ \A p \in Outputs : p # o => id \notin travelling[p]
    BY <1>0, <1>2 DEF PlacesInv
  <2>2. \A x : x \in InFlight' <=> x \in InFlight \ {id}
    <3> TAKE x
    <3>1. CASE x = id
      <4>1. \A p \in Outputs : x \notin travelling'[p]
        BY <1>3, <2>1, <3>1
      <4> QED BY <1>1, <1>4, <2>1, <3>1, <4>1, IsInFlightNext
    <3>2. CASE x # id
      <4>1. \A p \in Outputs : x \in travelling'[p] <=> x \in travelling[p]
        BY <1>3, <3>2
      <4> QED BY <1>1, <1>4, <3>2, <4>1, IsInFlight, IsInFlightNext
    <3> QED BY <3>1, <3>2
  <2> QED BY <2>0, <2>2
<1>10. Cardinality(InFlight') = Cardinality(InFlight) - 1 /\ Cardinality(InFlight) \in Nat
  <2>1. IsFiniteSet(InFlight) /\ Cardinality(InFlight) \in Nat
    BY <1>0, InFlightIsFinite
  <2> QED BY <1>9, <2>1, FS_RemoveElement
<1>11. CountsInv' /\ Conservation'
  <2>1. CountsInv'
    BY <1>0, <1>1, <1>4 DEF CountsInv
  <2>2. accepted' = Cardinality(InFlight') + delivered' + lost' + discarded'
    <3>1. accepted = Cardinality(InFlight) + delivered + lost + discarded
      BY <1>0 DEF Conservation
    <3> QED BY <1>0, <1>1, <1>10, <3>1
  <2>3. Conservation'
    BY <1>0, <1>1, <2>2 DEF Conservation
  <2> QED BY <2>1, <2>3
<1> QED BY <1>8, <1>11 DEF AllPlaces

(* Stop abandons exactly the packets in flight.                            *)
LEMMA PlacesAfterStop ==
  ASSUME EgressInv, Stop
  PROVE  AllPlaces'
<1>0. /\ PlacesInv /\ CountsInv /\ Conservation /\ HeapIsExact
      /\ queue \in [Outputs -> Seq(WaitingPackets)] /\ sending \in [Outputs -> Nat]
      /\ travelling \in [Outputs -> SUBSET Ids]
      /\ accepted \in Nat /\ queuedPackets \in Nat /\ forwarded \in Nat
      /\ offered \in Nat /\ dropped \in Nat /\ delivered \in Nat /\ lost \in Nat
      /\ discarded \in Nat
  BY EgressParts DEF EgressNumbers
<1>1. /\ \A o \in Outputs : queue'[o] = << >> /\ sending'[o] = 0 /\ travelling'[o] = {}
      /\ stopped' = TRUE /\ queuedPackets' = 0 /\ discarded' = Cardinality(InFlight)
      /\ accepted' = accepted /\ offered' = offered /\ dropped' = dropped
      /\ delivered' = delivered /\ lost' = lost /\ ~stopped
  BY DEF Stop, Idle
<1>2. Queued' = {} /\ InFlight' = {}
  <2>1. \A x : x \notin Queued'
    <3> TAKE x
    <3>1. \A o \in Outputs : \A i \in DOMAIN queue'[o] : FALSE
      BY <1>1
    <3> QED BY <3>1, IsQueued DEF Queued
  <2>2. \A x : x \notin InFlight'
    BY <1>1, <2>1, IsInFlightNext
  <2> QED BY <2>1, <2>2
<1>3. PlacesInv'
  <2>1. IdsDiffer(queue')
    BY <1>1 DEF IdsDiffer
  <2>2. 0 \in 0 .. accepted
    BY <1>0
  <2> QED BY <1>1, <1>2, <2>1, <2>2 DEF PlacesInv
<1>4. CountsInv'
  BY <1>1, <1>2, FS_EmptySet DEF CountsInv
<1>5. Conservation'
  <2>1. discarded = 0 /\ accepted = Cardinality(InFlight) + delivered + lost + discarded
    BY <1>0, <1>1 DEF CountsInv, Conservation
  <2>2. Cardinality(InFlight) \in Nat /\ Cardinality(InFlight') = 0
    BY <1>0, <1>2, InFlightIsFinite, FS_EmptySet
  <2>3. accepted' = Cardinality(InFlight') + delivered' + lost' + discarded'
    BY <1>0, <1>1, <2>1, <2>2
  <2> QED BY <1>0, <1>1, <2>3 DEF Conservation
<1> QED BY <1>3, <1>4, <1>5 DEF AllPlaces

(* Other steps move no packet.                                             *)
LEMMA PlacesUntouched ==
  ASSUME EgressInv, UNCHANGED <<queue, sending, travelling, stopped, accepted, queuedPackets,
                                forwarded, delivered, lost, discarded>>,
         offered' = accepted' + dropped'
  PROVE  AllPlaces'
<1>1. PlacesInv /\ CountsInv /\ Conservation
  BY EgressParts
<1>2. Queued' = Queued /\ InFlight' = InFlight
  BY DEF Queued, InFlight
<1>3. PlacesInv'
  BY <1>1, <1>2 DEF PlacesInv
<1>4. CountsInv' /\ Conservation'
  BY <1>1, <1>2 DEF CountsInv, Conservation
<1> QED BY <1>3, <1>4 DEF AllPlaces

(* Every step keeps each packet in one place and the counters true.        *)
LEMMA PlacesAlways ==
  ASSUME EgressInv, [EgressNext]_egressVars
  PROVE  AllPlaces'
<1>0. /\ offered = accepted + dropped /\ offered \in Nat /\ accepted \in Nat /\ dropped \in Nat
  BY EgressParts DEF Conservation, EgressNumbers
<1>1. CASE DispatchNext
  BY <1>1, PlacesAfterDispatch
<1>2. CASE DispatchReturns
  BY <1>0, <1>2, PlacesUntouched DEF DispatchReturns, counters
<1>3. ASSUME NEW o \in Outputs, OfferDropped(o) PROVE AllPlaces'
  <2>1. offered' = accepted' + dropped'
    BY <1>0, <1>3 DEF OfferDropped
  <2> QED BY <1>3, <2>1, PlacesUntouched DEF OfferDropped, history
<1>4. ASSUME NEW o \in Outputs, OfferAccepted(o) PROVE AllPlaces'
  BY <1>4, PlacesAfterOffer
<1>5. ASSUME NEW o \in Outputs, Transmitted(o) PROVE AllPlaces'
  BY <1>5, PlacesAfterSending
<1>6. ASSUME NEW o \in Outputs, Arrive(o) PROVE AllPlaces'
  BY <1>6, PlacesAfterArrival
<1>7. CASE WakeUp
  BY <1>0, <1>7, PlacesUntouched DEF WakeUp, counters, history
<1>8. CASE TimePasses
  BY <1>0, <1>8, PlacesUntouched DEF TimePasses, counters
<1>9. CASE Stop
  BY <1>9, PlacesAfterStop
<1>10. CASE UNCHANGED egressVars
  BY <1>0, <1>10, PlacesUntouched DEF egressVars, counters, history
<1> QED BY <1>1, <1>2, <1>3, <1>4, <1>5, <1>6, <1>7, <1>8, <1>9, <1>10 DEF EgressNext

(* The fields of an event.                                                 *)
LEMMA SentEvents ==
  ASSUME NEW e \in Events
  PROVE  /\ e.at \in 0 .. EndTime /\ e.what \in {"wake", "sent", "arrive"}
         /\ e.what = "sent" => e.output \in Outputs
         /\ e.what = "arrive" => e.output \in Outputs /\ e.id \in Ids
BY DEF Events

(* The parts of the invariant the lemmas about the agenda use.             *)
LEMMA AgendaParts ==
  ASSUME EgressInv
  PROVE  /\ agenda \in Seq(Events) /\ EventsInv /\ NoTwoEndTheSame(agenda)
         /\ \A e \in Elements(agenda) : e \in Events
         /\ \A e \in Elements(agenda) :
              /\ e.what = "sent" => sending[e.output] # 0
              /\ e.what = "arrive" => e.id \in travelling[e.output]
              /\ e.what = "wake" => wakeEvent /\ e.at = wakeAt
         /\ wakeEvent => \E e \in Elements(agenda) : e.what = "wake"
         /\ now \in 0 .. EndTime /\ nextGrantAt \in 0 .. EndTime /\ wakeAt \in 0 .. EndTime
         /\ EndTime \in Nat
<1>1. agenda \in Seq(Events) /\ EventsInv
  BY DEF EgressInv, DispatchInv, EgressTypeOK
<1>2. \A e \in Elements(agenda) : e \in Events
  BY <1>1 DEF Elements
<1>3. now \in 0 .. EndTime /\ nextGrantAt \in 0 .. EndTime /\ wakeAt \in 0 .. EndTime
  BY DEF EgressInv, EgressTypeOK
<1> QED BY <1>1, <1>2, <1>3, EgressAssumption DEF EventsInv

(* Scheduling an event that ends something new keeps the agenda sound.     *)
LEMMA AgendaAfterScheduling ==
  ASSUME NEW s \in Seq(Events), NEW e, e.at <= EndTime => e \in Events, e.at \in Nat,
         NoTwoEndTheSame(s), \A f \in Elements(s) : ~SameEnd(f, e)
  PROVE  /\ Scheduled(s, e) \in Seq(Events) /\ NoTwoEndTheSame(Scheduled(s, e))
         /\ \A f \in Elements(Scheduled(s, e)) : f \in Elements(s) \/ f = e
         /\ \A f \in Elements(s) : f \in Elements(Scheduled(s, e))
         /\ e.at <= EndTime => e \in Elements(Scheduled(s, e))
<1>1. CASE e.at <= EndTime
  <2>1. PICK t : t = Scheduled(s, e)
    OBVIOUS
  <2>2. ~(e.at > EndTime)
    BY <1>1, EgressAssumption
  <2>3. e \in Events
    BY <1>1
  <2>4. t \in Seq(Events) /\ \E k \in 0 .. Len(s) : InsertedAt(s, t, e, k)
    BY <2>1, <2>2, <2>3, ScheduledInserts
  <2>5. NoTwoEndTheSame(t) /\ Elements(t) = Elements(s) \cup {e}
    BY <2>4, ElementsInserted
  <2> QED BY <2>1, <2>4, <2>5
<1>2. CASE ~(e.at <= EndTime)
  <2>1. e.at > EndTime
    BY <1>2, EgressAssumption
  <2>2. Scheduled(s, e) = s
    BY <2>1 DEF Scheduled
  <2> QED BY <1>2, <2>2
<1> QED BY <1>1, <1>2

(* Without the event that is due nothing of the agenda ends the same.      *)
LEMMA AgendaAfterHead ==
  ASSUME EgressInv, Due
  PROVE  /\ Tail(agenda) \in Seq(Events) /\ NoTwoEndTheSame(Tail(agenda))
         /\ \A f \in Elements(Tail(agenda)) :
              f \in Elements(agenda) /\ f \in Events /\ ~SameEnd(f, Head(agenda))
         /\ \A f \in Elements(agenda) : f # Head(agenda) => f \in Elements(Tail(agenda))
<1>1. agenda \in Seq(Events) /\ agenda # << >> /\ NoTwoEndTheSame(agenda)
      /\ \A e \in Elements(agenda) : e \in Events
  BY AgendaParts, HeadIsElement
<1>2. PICK t : t = Tail(agenda)
  OBVIOUS
<1>3. t \in Seq(Events) /\ RemovedAt(agenda, t, 1) /\ 1 \in DOMAIN agenda /\ Head(agenda) = agenda[1]
  BY <1>1, <1>2, TailRemoves
<1>4. /\ NoTwoEndTheSame(t) /\ Elements(t) = Elements(agenda) \ {agenda[1]}
      /\ \A e \in Elements(t) : ~SameEnd(e, agenda[1])
  BY <1>1, <1>3, ElementsRemoved
<1> QED BY <1>1, <1>2, <1>3, <1>4

(* After cancelling no wake-up is left, and every other event is.          *)
LEMMA AgendaAfterCancelling ==
  ASSUME EgressInv
  PROVE  LET others == Cancelled(agenda, "wake")
         IN  /\ others \in Seq(Events) /\ NoTwoEndTheSame(others)
             /\ \A f \in Elements(others) : f \in Elements(agenda) /\ f.what # "wake"
             /\ \A f \in Elements(agenda) : f.what # "wake" => f \in Elements(others)
<1>1. agenda \in Seq(Events) /\ NoTwoEndTheSame(agenda)
  BY AgendaParts
<1>2. PICK t : t = Cancelled(agenda, "wake")
  OBVIOUS
<1>3. /\ t \in Seq(Events)
      /\ \/ t = agenda /\ \A i \in DOMAIN agenda : agenda[i].what # "wake"
         \/ \E k \in DOMAIN agenda : agenda[k].what = "wake" /\ RemovedAt(agenda, t, k)
  BY <1>1, <1>2, CancelledRemoves
<1>4. CASE t = agenda /\ \A i \in DOMAIN agenda : agenda[i].what # "wake"
  BY <1>1, <1>2, <1>4 DEF Elements
<1>5. ASSUME NEW k \in DOMAIN agenda, agenda[k].what = "wake", RemovedAt(agenda, t, k)
      PROVE  /\ NoTwoEndTheSame(t)
             /\ \A f \in Elements(t) : f \in Elements(agenda) /\ f.what # "wake"
             /\ \A f \in Elements(agenda) : f.what # "wake" => f \in Elements(t)
  <2>1. /\ NoTwoEndTheSame(t) /\ Elements(t) = Elements(agenda) \ {agenda[k]}
        /\ \A e \in Elements(t) : ~SameEnd(e, agenda[k])
    BY <1>1, <1>3, <1>5, ElementsRemoved
  <2> QED BY <1>5, <2>1 DEF SameEnd
<1> QED BY <1>2, <1>3, <1>4, <1>5

(* What the proof says of the agenda.                                      *)
AgendaSound == agenda \in Seq(Events) /\ EventsInv /\ WakeInv

(* DispatchNext schedules the end of a serialization of a free link.       *)
LEMMA AgendaAfterDispatch ==
  ASSUME EgressInv, DispatchNext
  PROVE  AgendaSound'
<1>0. PICK o \in ready :
        /\ sending' = [sending EXCEPT ![o] = Head(queue[o]).id]
        /\ agenda' = Scheduled(agenda, [at |-> now + Serialization[o][Head(queue[o]).size],
                                        what |-> "sent", output |-> o])
  BY DEF DispatchNext
<1>1. /\ travelling' = travelling /\ dispatching' /\ wakeEvent' = wakeEvent /\ wakeAt' = wakeAt
  BY DEF DispatchNext
<1>2. /\ o \in Outputs /\ queue[o] # << >> /\ sending[o] = 0
      /\ queue \in [Outputs -> Seq(WaitingPackets)] /\ sending \in [Outputs -> Nat]
  BY EgressParts DEF HeapIsExact
<1>3. Head(queue[o]) \in WaitingPackets
  <2>1. queue[o] \in Seq(WaitingPackets) /\ queue[o] # << >>
    BY <1>2
  <2> QED BY <2>1, HeadTailProperties
<1>4. PICK e : e = [at |-> now + Serialization[o][Head(queue[o]).size],
                    what |-> "sent", output |-> o]
  OBVIOUS
<1>5. now \in 0 .. EndTime /\ EndTime \in Nat
  BY AgendaParts
<1>6. Serialization[o][Head(queue[o]).size] \in Nat
  BY <1>2, <1>3, EgressAssumption DEF WaitingPackets
<1>7. /\ e.at \in Nat /\ e.what = "sent" /\ e.output = o
      /\ e.at <= EndTime => e \in Events
  <2>1. PICK at \in Nat : at = now + Serialization[o][Head(queue[o]).size]
    BY <1>5, <1>6
  <2>2. e = [at |-> at, what |-> "sent", output |-> o]
    BY <1>4, <2>1
  <2>3. at <= EndTime => at \in 0 .. EndTime
    BY <1>5
  <2> QED BY <1>2, <2>2, <2>3 DEF Events
<1>8. ASSUME NEW f \in Elements(agenda) PROVE ~SameEnd(f, e)
  BY <1>2, <1>7, <1>8, AgendaParts DEF SameEnd
<1>9. /\ agenda' \in Seq(Events) /\ NoTwoEndTheSame(agenda')
      /\ \A f \in Elements(agenda') : f \in Elements(agenda) \/ f = e
      /\ \A f \in Elements(agenda) : f \in Elements(agenda')
  <2>1. agenda \in Seq(Events) /\ NoTwoEndTheSame(agenda)
    BY AgendaParts
  <2>2. agenda' = Scheduled(agenda, e)
    BY <1>0, <1>4
  <2> QED BY <1>7, <1>8, <2>1, <2>2, AgendaAfterScheduling
<1>10. sending'[o] # 0 /\ \A p \in Outputs : p # o => sending'[p] = sending[p]
  <2>1. Head(queue[o]).id # 0
    BY <1>3 DEF WaitingPackets
  <2> QED BY <1>0, <1>2, <2>1
<1>11. ASSUME NEW f \in Elements(agenda')
       PROVE  /\ f.what = "sent" => sending'[f.output] # 0
              /\ f.what = "arrive" => f.id \in travelling'[f.output]
              /\ f.what = "wake" => wakeEvent' /\ f.at = wakeAt'
  <2>1. CASE f \in Elements(agenda)
    <3>1. f \in Events
      BY <2>1, AgendaParts
    <3>2. f.what = "sent" => f.output \in Outputs
      BY <3>1, SentEvents
    <3> QED BY <1>1, <1>10, <2>1, <3>2, AgendaParts
  <2>2. CASE f = e
    BY <1>7, <1>10, <2>2
  <2> QED BY <1>9, <1>11, <2>1, <2>2
<1>12. wakeEvent' => \E f \in Elements(agenda') : f.what = "wake"
  BY <1>1, <1>9, AgendaParts
<1> QED BY <1>1, <1>9, <1>11, <1>12 DEF AgendaSound, EventsInv, WakeInv

(* When dispatch returns a wake-up is pending exactly when one is needed.  *)
LEMMA AgendaAfterReturn ==
  ASSUME EgressInv, DispatchReturns
  PROVE  AgendaSound'
<1>1. /\ sending' = sending /\ travelling' = travelling /\ ready' = ready
      /\ nextGrantAt' = nextGrantAt /\ grantBeyondEnd' = grantBeyondEnd
      /\ ready = {} \/ BudgetUnavailable
      /\ ScheduleBudgetWake
  BY DEF DispatchReturns
<1> DEFINE others == Cancelled(agenda, "wake")
           needed == BudgetBlocked /\ ~grantBeyondEnd
           kept == needed /\ wakeEvent /\ wakeAt = nextGrantAt
<1>2. /\ others \in Seq(Events) /\ NoTwoEndTheSame(others)
      /\ \A f \in Elements(others) : f \in Elements(agenda) /\ f.what # "wake"
  BY AgendaAfterCancelling
<1>3. needed <=> ready # {} /\ ~grantBeyondEnd
  BY <1>1 DEF BudgetBlocked
<1>4. CASE kept /\ UNCHANGED <<agenda, wakeEvent, wakeAt>>
  BY <1>1, <1>3, <1>4, AgendaParts DEF AgendaSound, EventsInv, WakeInv
<1>5. CASE ~kept /\ ~needed /\ agenda' = others /\ wakeEvent' = FALSE
  <2>1. ASSUME NEW f \in Elements(agenda')
        PROVE  /\ f.what = "sent" => sending'[f.output] # 0
               /\ f.what = "arrive" => f.id \in travelling'[f.output]
               /\ f.what = "wake" => wakeEvent' /\ f.at = wakeAt'
    BY <1>1, <1>2, <1>5, <2>1, AgendaParts
  <2>2. EventsInv'
    BY <1>2, <1>5, <2>1 DEF EventsInv
  <2> HIDE DEF others
  <2> QED BY <1>1, <1>2, <1>3, <1>5, <2>2 DEF AgendaSound, WakeInv
<1>6. CASE /\ ~kept /\ needed
           /\ agenda' = Scheduled(others, [at |-> nextGrantAt, what |-> "wake"])
           /\ wakeEvent' = TRUE /\ wakeAt' = nextGrantAt
  <2>1. PICK e : e = [at |-> nextGrantAt, what |-> "wake"]
    OBVIOUS
  <2>2. e.at = nextGrantAt /\ e.what = "wake" /\ e \in Events /\ e.at <= EndTime /\ e.at \in Nat
    <3>1. nextGrantAt \in 0 .. EndTime /\ EndTime \in Nat
      BY AgendaParts
    <3> QED BY <2>1, <3>1 DEF Events
  <2>3. \A f \in Elements(others) : ~SameEnd(f, e)
    BY <1>2, <2>2 DEF SameEnd
  <2> HIDE DEF others
  <2>4. /\ agenda' \in Seq(Events) /\ NoTwoEndTheSame(agenda')
        /\ \A f \in Elements(agenda') : f \in Elements(others) \/ f = e
        /\ e \in Elements(agenda')
    <3>1. agenda' = Scheduled(others, e)
      BY <1>6, <2>1
    <3> QED BY <1>2, <2>2, <2>3, <3>1, AgendaAfterScheduling
  <2>5. ASSUME NEW f \in Elements(agenda')
        PROVE  /\ f.what = "sent" => sending'[f.output] # 0
               /\ f.what = "arrive" => f.id \in travelling'[f.output]
               /\ f.what = "wake" => wakeEvent' /\ f.at = wakeAt'
    <3>1. CASE f \in Elements(others)
      BY <1>1, <1>2, <3>1, AgendaParts
    <3>2. CASE f = e
      BY <1>6, <2>2, <3>2
    <3> QED BY <2>4, <2>5, <3>1, <3>2
  <2>6. EventsInv'
    BY <2>2, <2>4, <2>5 DEF EventsInv
  <2>7. WakeInv'
    BY <1>1, <1>3, <1>6 DEF WakeInv
  <2> QED BY <2>4, <2>6, <2>7 DEF AgendaSound
<1> QED BY <1>1, <1>4, <1>5, <1>6 DEF ScheduleBudgetWake

(* The end of a serialization frees the link; what travels was not         *)
(* travelling.                                                             *)
LEMMA AgendaAfterSending ==
  ASSUME EgressInv, NEW o \in Outputs, Transmitted(o)
  PROVE  AgendaSound'
<1>1. /\ Due /\ Head(agenda).what = "sent" /\ Head(agenda).output = o
      /\ dispatching' /\ wakeEvent' = wakeEvent /\ wakeAt' = wakeAt
  BY DEF Transmitted, BeginDispatch, budget
<1>2. sending \in [Outputs -> Nat] /\ travelling \in [Outputs -> SUBSET Ids] /\ PlacesInv
  BY EgressParts
<1>3. \A p \in Outputs : p # o => sending'[p] = sending[p]
  BY <1>2 DEF Transmitted
<1>4. \A p \in Outputs : travelling[p] \subseteq travelling'[p]
  BY <1>2 DEF Transmitted
<1>5. PICK rest : rest = Tail(agenda)
  OBVIOUS
<1>6. /\ rest \in Seq(Events) /\ NoTwoEndTheSame(rest)
      /\ \A f \in Elements(rest) : f \in Elements(agenda) /\ f \in Events /\ ~SameEnd(f, Head(agenda))
      /\ \A f \in Elements(agenda) : f # Head(agenda) => f \in Elements(rest)
  BY <1>1, <1>5, AgendaAfterHead
<1>7. ASSUME NEW f \in Elements(rest)
      PROVE  /\ f.what = "sent" => sending'[f.output] # 0
             /\ f.what = "arrive" => f.id \in travelling'[f.output]
             /\ f.what = "wake" => wakeEvent' /\ f.at = wakeAt'
  <2>1. f \in Elements(agenda) /\ f \in Events /\ ~SameEnd(f, Head(agenda))
    BY <1>6
  <2>2. f.what = "sent" => f.output # o /\ f.output \in Outputs
    BY <1>1, <2>1, SentEvents DEF SameEnd
  <2>3. f.what = "arrive" => f.output \in Outputs
    BY <2>1, SentEvents
  <2> QED BY <1>1, <1>3, <1>4, <2>1, <2>2, <2>3, AgendaParts
<1>8. wakeEvent' => \E f \in Elements(rest) : f.what = "wake"
  BY <1>1, <1>6, AgendaParts
<1>9. CASE agenda' = rest
  BY <1>1, <1>6, <1>7, <1>8, <1>9 DEF AgendaSound, EventsInv, WakeInv
<1>10. CASE /\ travelling' = [travelling EXCEPT ![o] = @ \cup {sending[o]}]
            /\ agenda' = Scheduled(rest, [at |-> now + TravelTime, what |-> "arrive",
                                          output |-> o, id |-> sending[o]])
  <2>1. PICK e : e = [at |-> now + TravelTime, what |-> "arrive", output |-> o, id |-> sending[o]]
    OBVIOUS
  <2>2. sending[o] # 0 /\ sending[o] \in Ids
    <3>1. Head(agenda) \in Elements(agenda)
      BY <1>1, HeadIsElement
    <3>2. sending[o] # 0
      BY <1>1, <3>1, AgendaParts
    <3>3. sending[o] \in 0 .. MaxOffered
      BY DEF EgressInv, EgressTypeOK
    <3> QED BY <3>2, <3>3, EgressAssumption DEF Ids
  <2>3. now \in 0 .. EndTime /\ EndTime \in Nat /\ TravelTime \in Nat
    BY AgendaParts, EgressAssumption
  <2>4. /\ e.at \in Nat /\ e.what = "arrive" /\ e.output = o /\ e.id = sending[o]
        /\ e.at <= EndTime => e \in Events
    <3>1. PICK at \in Nat : at = now + TravelTime
      BY <2>3
    <3>2. e = [at |-> at, what |-> "arrive", output |-> o, id |-> sending[o]]
      BY <2>1, <3>1
    <3>3. at <= EndTime => at \in 0 .. EndTime
      BY <2>3
    <3> QED BY <2>2, <3>2, <3>3 DEF Events
  <2>5. ASSUME NEW f \in Elements(rest) PROVE ~SameEnd(f, e)
    <3>1. f \in Elements(agenda) /\ f \in Events
      BY <1>6
    <3>2. f.what = "arrive" => f.output \in Outputs /\ f.id \in travelling[f.output]
      BY <3>1, SentEvents, AgendaParts
    <3>3. \A p \in Outputs : sending[o] \notin travelling[p]
      BY <1>2 DEF PlacesInv
    <3> QED BY <2>4, <3>2, <3>3 DEF SameEnd
  <2>6. /\ agenda' \in Seq(Events) /\ NoTwoEndTheSame(agenda')
        /\ \A f \in Elements(agenda') : f \in Elements(rest) \/ f = e
        /\ \A f \in Elements(rest) : f \in Elements(agenda')
    <3>1. agenda' = Scheduled(rest, e)
      BY <1>10, <2>1
    <3> QED BY <1>6, <2>4, <2>5, <3>1, AgendaAfterScheduling
  <2>7. sending[o] \in travelling'[o]
    BY <1>2, <1>10
  <2>8. ASSUME NEW f \in Elements(agenda')
        PROVE  /\ f.what = "sent" => sending'[f.output] # 0
               /\ f.what = "arrive" => f.id \in travelling'[f.output]
               /\ f.what = "wake" => wakeEvent' /\ f.at = wakeAt'
    <3>1. CASE f \in Elements(rest)
      BY <1>7, <3>1
    <3>2. CASE f = e
      BY <2>4, <2>7, <3>2
    <3> QED BY <2>6, <2>8, <3>1, <3>2
  <2> QED BY <1>1, <1>8, <2>6, <2>8 DEF AgendaSound, EventsInv, WakeInv
<1> QED BY <1>5, <1>9, <1>10 DEF Transmitted

(* The event of an arrival is gone when its packet is.                     *)
LEMMA AgendaAfterArrival ==
  ASSUME EgressInv, NEW o \in Outputs, Arrive(o)
  PROVE  AgendaSound'
<1>1. /\ Due /\ Head(agenda).what = "arrive" /\ Head(agenda).output = o
      /\ wakeEvent' = wakeEvent /\ wakeAt' = wakeAt /\ sending' = sending
      /\ agenda' = Tail(agenda) /\ dispatching' = dispatching /\ ready' = ready
      /\ nextGrantAt' = nextGrantAt /\ grantBeyondEnd' = grantBeyondEnd
  BY DEF Arrive, budget
<1>2. sending \in [Outputs -> Nat] /\ travelling \in [Outputs -> SUBSET Ids] /\ WakeInv
  BY EgressParts DEF EgressInv, DispatchInv
<1>3. \A p \in Outputs : \A x \in travelling[p] : x # Head(agenda).id => x \in travelling'[p]
  BY <1>2 DEF Arrive
<1>4. /\ agenda' \in Seq(Events) /\ NoTwoEndTheSame(agenda')
      /\ \A f \in Elements(agenda') : f \in Elements(agenda) /\ f \in Events /\ ~SameEnd(f, Head(agenda))
      /\ \A f \in Elements(agenda) : f # Head(agenda) => f \in Elements(agenda')
  BY <1>1, AgendaAfterHead
<1>5. ASSUME NEW f \in Elements(agenda')
      PROVE  /\ f.what = "sent" => sending'[f.output] # 0
             /\ f.what = "arrive" => f.id \in travelling'[f.output]
             /\ f.what = "wake" => wakeEvent' /\ f.at = wakeAt'
  <2>1. f \in Elements(agenda) /\ f \in Events /\ ~SameEnd(f, Head(agenda))
    BY <1>4
  <2>2. f.what = "arrive" => f.id # Head(agenda).id /\ f.output \in Outputs
    BY <1>1, <2>1, SentEvents DEF SameEnd
  <2> QED BY <1>1, <1>3, <2>1, <2>2, AgendaParts
<1>6. wakeEvent' => \E f \in Elements(agenda') : f.what = "wake"
  BY <1>1, <1>4, AgendaParts
<1>7. WakeInv'
  BY <1>1, <1>2 DEF WakeInv
<1> QED BY <1>4, <1>5, <1>6, <1>7 DEF AgendaSound, EventsInv

(* The wake-up that ran was the only one.                                  *)
LEMMA AgendaAfterWaking ==
  ASSUME EgressInv, WakeUp
  PROVE  AgendaSound'
<1>1. /\ Due /\ Head(agenda).what = "wake" /\ ~wakeEvent'
      /\ sending' = sending /\ travelling' = travelling
      /\ agenda' = Tail(agenda) /\ dispatching'
  BY DEF WakeUp, BeginDispatch
<1>4. /\ agenda' \in Seq(Events) /\ NoTwoEndTheSame(agenda')
      /\ \A f \in Elements(agenda') : f \in Elements(agenda) /\ f \in Events /\ ~SameEnd(f, Head(agenda))
  BY <1>1, AgendaAfterHead
<1>5. ASSUME NEW f \in Elements(agenda')
      PROVE  /\ f.what = "sent" => sending'[f.output] # 0
             /\ f.what = "arrive" => f.id \in travelling'[f.output]
             /\ f.what = "wake" => wakeEvent' /\ f.at = wakeAt'
  <2>1. f \in Elements(agenda) /\ f \in Events /\ f.what # "wake"
    BY <1>1, <1>4 DEF SameEnd
  <2> QED BY <1>1, <2>1, AgendaParts
<1> QED BY <1>1, <1>4, <1>5 DEF AgendaSound, EventsInv, WakeInv

(* A step that leaves the agenda and what it ends alone keeps it sound;    *)
(* the wake-up may be late only while dispatch runs.                       *)
LEMMA AgendaUntouched ==
  ASSUME EgressInv, UNCHANGED <<agenda, sending, travelling, wakeEvent, wakeAt>>,
         dispatching' \/ UNCHANGED <<dispatching, ready, nextGrantAt, grantBeyondEnd>>
  PROVE  AgendaSound'
<1>1. agenda \in Seq(Events) /\ EventsInv /\ WakeInv
  BY AgendaParts DEF EgressInv, DispatchInv
<1>2. EventsInv'
  BY <1>1 DEF EventsInv
<1>3. WakeInv'
  BY <1>1 DEF WakeInv
<1> QED BY <1>1, <1>2, <1>3 DEF AgendaSound

(* Every step keeps the agenda sound.                                      *)
LEMMA AgendaAlways ==
  ASSUME EgressInv, [EgressNext]_egressVars
  PROVE  AgendaSound'
<1>1. CASE DispatchNext
  BY <1>1, AgendaAfterDispatch
<1>2. CASE DispatchReturns
  BY <1>2, AgendaAfterReturn
<1>3. ASSUME NEW o \in Outputs, OfferDropped(o) PROVE AgendaSound'
  BY <1>3, AgendaUntouched DEF OfferDropped, budget
<1>4. ASSUME NEW o \in Outputs, OfferAccepted(o) PROVE AgendaSound'
  BY <1>4, AgendaUntouched DEF OfferAccepted, budget, BeginDispatch
<1>5. ASSUME NEW o \in Outputs, Transmitted(o) PROVE AgendaSound'
  BY <1>5, AgendaAfterSending
<1>6. ASSUME NEW o \in Outputs, Arrive(o) PROVE AgendaSound'
  BY <1>6, AgendaAfterArrival
<1>7. CASE WakeUp
  BY <1>7, AgendaAfterWaking
<1>8. CASE TimePasses
  BY <1>8, AgendaUntouched DEF TimePasses, budget
<1>9. CASE Stop
  <2>1. agenda' = << >> /\ ~wakeEvent' /\ ready' = {}
    BY <1>9 DEF Stop
  <2>2. agenda' \in Seq(Events) /\ Elements(agenda') = {} /\ NoTwoEndTheSame(agenda')
    BY <2>1 DEF Elements, NoTwoEndTheSame
  <2> QED BY <2>1, <2>2 DEF AgendaSound, EventsInv, WakeInv
<1>10. CASE UNCHANGED egressVars
  BY <1>10, AgendaUntouched DEF egressVars, budget
<1> QED BY <1>1, <1>2, <1>3, <1>4, <1>5, <1>6, <1>7, <1>8, <1>9, <1>10 DEF EgressNext

(* The parts of the invariant the lemmas about queues use.                 *)
LEMMA QueueParts ==
  ASSUME EgressInv
  PROVE  /\ RoomInv /\ TurnInv /\ HeapIsExact /\ QueueCapacity \in [Outputs -> Nat]
         /\ queue \in [Outputs -> Seq(WaitingPackets)] /\ sending \in [Outputs -> Nat]
         /\ accepted \in Nat
         /\ \A o \in Outputs : Waiting(o) \in Nat /\ QueueCapacity[o] \in Nat
<1>1. queue \in [Outputs -> Seq(WaitingPackets)] /\ sending \in [Outputs -> Nat] /\ HeapIsExact /\ accepted \in Nat
  BY EgressParts DEF EgressNumbers
<1>2. \A o \in Outputs : Waiting(o) \in Nat
  BY <1>1, LenProperties DEF Waiting
<1>3. RoomInv /\ TurnInv
  BY DEF EgressInv, DispatchInv
<1> QED BY <1>1, <1>2, <1>3, EgressAssumption

(* Every step keeps the waiting packets within their places, except the    *)
(* one that is about to start.                                             *)
LEMMA RoomAlways ==
  ASSUME EgressInv, [EgressNext]_egressVars
  PROVE  RoomInv'
<1>0. /\ RoomInv /\ HeapIsExact /\ queue \in [Outputs -> Seq(WaitingPackets)]
      /\ \A o \in Outputs : Waiting(o) \in Nat /\ QueueCapacity[o] \in Nat
  BY QueueParts
<1>a. ASSUME queue' = queue, ~dispatching PROVE RoomInv'
  BY <1>a, <1>0 DEF RoomInv, Waiting
<1>1. CASE DispatchNext
  <2>1. PICK o \in ready : ready' = ready \ {o} /\ queue' = [queue EXCEPT ![o] = Tail(@)]
    BY <1>1 DEF DispatchNext
  <2>2. o \in Outputs /\ queue[o] # << >>
    BY <1>0 DEF HeapIsExact
  <2>3. ASSUME NEW p \in Outputs PROVE Waiting(p)' <= QueueCapacity[p]
    <3>1. CASE p = o
      <4>1. queue[o] \in Seq(WaitingPackets) /\ queue'[o] = Tail(queue[o])
        BY <1>0, <2>1, <2>2
      <4>2. Len(queue'[o]) = Len(queue[o]) - 1
        BY <2>2, <4>1, HeadTailProperties
      <4>3. Len(queue[o]) \in Nat /\ QueueCapacity[o] \in Nat
        BY <1>0, <2>2 DEF Waiting
      <4>4. Len(queue[o]) <= QueueCapacity[o] \/ Len(queue[o]) = 1
        BY <1>0, <2>2 DEF RoomInv, Waiting
      <4>5. Len(queue'[o]) <= QueueCapacity[o]
        <5>1. PICK n \in Nat, c \in Nat : n = Len(queue[o]) /\ c = QueueCapacity[o]
          BY <4>3
        <5>a. n <= c \/ n = 1
          BY <4>4, <5>1
        <5>2. n - 1 <= c
          BY <5>a
        <5> QED BY <4>2, <5>1, <5>2
      <4> QED BY <3>1, <4>5 DEF Waiting
    <3>2. CASE p # o
      <4>1. queue'[p] = queue[p]
        BY <1>0, <2>1, <3>2
      <4>2. ready # {p}
        BY <3>2
      <4> QED BY <1>0, <4>1, <4>2 DEF RoomInv, Waiting
    <3> QED BY <3>1, <3>2
  <2> QED BY <2>3 DEF RoomInv
<1>2. CASE DispatchReturns
  <2>1. queue' = queue /\ (ready = {} \/ BudgetUnavailable)
    BY <1>2 DEF DispatchReturns
  <2> QED BY <1>0, <2>1 DEF RoomInv, Waiting
<1>3. ASSUME NEW o \in Outputs, OfferDropped(o) PROVE RoomInv'
  BY <1>3, <1>a DEF OfferDropped, Idle
<1>4. ASSUME NEW o \in Outputs, OfferAccepted(o) PROVE RoomInv'
  <2>1. ~dispatching /\ dispatching' /\ Accepts(o)
        /\ ready' = (IF sending[o] = 0 THEN ready \cup {o} ELSE ready)
        /\ UNCHANGED <<now, nextGrantAt, grantBeyondEnd>>
    BY <1>4 DEF OfferAccepted, Idle, BeginDispatch, budget
  <2>2. PICK r : queue' = [queue EXCEPT ![o] = Append(@, r)]
    BY <1>4 DEF OfferAccepted
  <2>3. queue[o] \in Seq(WaitingPackets) /\ queue'[o] = Append(queue[o], r)
        /\ \A p \in Outputs : p # o => queue'[p] = queue[p]
    BY <1>0, <2>2
  <2>4. Len(queue'[o]) = Len(queue[o]) + 1
    BY <2>3
  <2>5. \A p \in Outputs : Waiting(p) <= QueueCapacity[p]
    BY <1>0, <2>1 DEF RoomInv
  <2>6. CASE CanStartNow(o)
    <3>1. Len(queue[o]) = 0 /\ ready' = {o} /\ ~BudgetUnavailable'
      BY <2>1, <2>6 DEF CanStartNow, BudgetUnavailable
    <3>2. Waiting(o)' = 1
      BY <2>4, <3>1 DEF Waiting
    <3>3. \A p \in Outputs : p # o => Waiting(p)' <= QueueCapacity[p]
      BY <2>3, <2>5 DEF Waiting
    <3> QED BY <2>1, <3>1, <3>2, <3>3 DEF RoomInv
  <2>7. CASE Waiting(o) < QueueCapacity[o]
    <3>1. Waiting(o)' <= QueueCapacity[o]
      BY <1>0, <2>4, <2>7 DEF Waiting
    <3> QED BY <2>3, <2>5, <3>1 DEF RoomInv, Waiting
  <2> QED BY <2>1, <2>6, <2>7 DEF Accepts
<1>5. ASSUME NEW o \in Outputs, Transmitted(o) PROVE RoomInv'
  BY <1>5, <1>a DEF Transmitted, Idle
<1>6. ASSUME NEW o \in Outputs, Arrive(o) PROVE RoomInv'
  BY <1>6, <1>a DEF Arrive, Idle
<1>7. CASE WakeUp
  BY <1>7, <1>a DEF WakeUp, Idle
<1>8. CASE TimePasses
  BY <1>8, <1>a DEF TimePasses, Idle
<1>9. CASE Stop
  <2>1. \A o \in Outputs : queue'[o] = << >>
    BY <1>9 DEF Stop
  <2> QED BY <1>0, <2>1 DEF RoomInv, Waiting
<1>10. CASE UNCHANGED egressVars
  BY <1>0, <1>10 DEF egressVars, RoomInv, Waiting, budget, BudgetUnavailable
<1> QED BY <1>1, <1>2, <1>3, <1>4, <1>5, <1>6, <1>7, <1>8, <1>9, <1>10 DEF EgressNext

(* A turn of dispatch spends the budget: nothing is forwarded for free.    *)
LEMMA BudgetIsSpent ==
  ASSUME EgressInv, DispatchNext
  PROVE  BudgetUnavailable'
<1>1. PICK o \in ready : ReserveBudget(Cost[Head(queue[o]).size])
  BY DEF DispatchNext
<1>2. queue[o] \in Seq(WaitingPackets) /\ queue[o] # << >>
  BY QueueParts DEF HeapIsExact
<1>3. Head(queue[o]) \in WaitingPackets
  BY <1>2, HeadTailProperties
<1>4. Cost[Head(queue[o]).size] \in Nat \ {0}
  BY <1>3, EgressAssumption DEF WaitingPackets
<1>5. now' = now /\ now \in 0 .. EndTime /\ EndTime \in Nat
  BY AgendaParts DEF DispatchNext
<1>6. PICK cost \in Nat \ {0} : ReserveBudget(cost)
  BY <1>1, <1>4
<1>7. CASE cost > EndTime - now
  BY <1>6, <1>7 DEF ReserveBudget, BudgetUnavailable
<1>8. CASE ~(cost > EndTime - now)
  <2>1. nextGrantAt' = now + cost
    BY <1>6, <1>8 DEF ReserveBudget
  <2>2. now' < nextGrantAt'
    BY <1>5, <2>1
  <2> QED BY <2>2 DEF BudgetUnavailable
<1> QED BY <1>7, <1>8

(* Every step keeps a selected packet from starting at once: another       *)
(* output was ready with an older head, or there was no budget.            *)
LEMMA TurnAlways ==
  ASSUME EgressInv, [EgressNext]_egressVars
  PROVE  TurnInv'
<1>0. /\ TurnInv /\ HeapIsExact /\ queue \in [Outputs -> Seq(WaitingPackets)]
      /\ accepted \in Nat /\ PlacesInv
      /\ offering \in 0 .. accepted /\ signalled \subseteq 1 .. accepted
      /\ ~dispatching => offering = 0
  BY QueueParts, EgressParts DEF TurnInv
<1>a. ASSUME UNCHANGED <<offering, signalled, accepted>>, ~dispatching PROVE TurnInv'
  <2>1. offering' = 0 /\ offering' \notin signalled'
    BY <1>0, <1>a
  <2> QED BY <1>0, <1>a, <2>1 DEF TurnInv
<1>1. CASE DispatchNext
  <2>1. UNCHANGED <<offering, signalled, accepted, dispatching>> /\ BudgetUnavailable' /\ dispatching
    BY <1>1, BudgetIsSpent DEF DispatchNext, history
  <2> QED BY <1>0, <2>1 DEF TurnInv
<1>2. CASE DispatchReturns
  <2>1. UNCHANGED <<signalled, accepted>> /\ ~dispatching' /\ offering' = 0
    BY <1>2 DEF DispatchReturns, counters
  <2> QED BY <1>0, <2>1 DEF TurnInv
<1>3. ASSUME NEW o \in Outputs, OfferDropped(o) PROVE TurnInv'
  BY <1>3, <1>a DEF OfferDropped, Idle, history
<1>4. ASSUME NEW o \in Outputs, OfferAccepted(o) PROVE TurnInv'
  <2>1. /\ ~dispatching /\ dispatching' /\ accepted' = accepted + 1 /\ offering' = accepted + 1
        /\ ready' = (IF sending[o] = 0 THEN ready \cup {o} ELSE ready)
        /\ UNCHANGED <<now, nextGrantAt, grantBeyondEnd, sending>>
    BY <1>4 DEF OfferAccepted, Idle, BeginDispatch, budget
  <2>2. PICK s \in Sizes : queue' = [queue EXCEPT ![o] = Append(@, [id |-> accepted + 1, size |-> s])]
    BY <1>4 DEF OfferAccepted
  <2>3. PICK r : r = [id |-> accepted + 1, size |-> s]
    OBVIOUS
  <2>4. queue[o] \in Seq(WaitingPackets) /\ queue'[o] = Append(queue[o], r) /\ r.id = accepted + 1
        /\ \A p \in Outputs : p # o => queue'[p] = queue[p]
    BY <1>0, <2>2, <2>3
  <2>5. signalled' = signalled \/ (MaySignal(o) /\ signalled' = signalled \cup {accepted + 1})
    BY <1>4 DEF OfferAccepted
  <2>6. offering' \in 0 .. accepted' /\ signalled' \subseteq 1 .. accepted'
    <3>1. offering' \in 0 .. accepted'
      BY <1>0, <2>1
    <3>2. signalled \subseteq 1 .. accepted'
      BY <1>0, <2>1
    <3>3. signalled' \subseteq 1 .. accepted'
      <4>1. PICK a \in Nat : a = accepted + 1
        BY <1>0
      <4>2. a \in 1 .. a
        BY <1>0, <4>1
      <4> QED BY <2>1, <2>5, <3>2, <4>1, <4>2
    <3> QED BY <3>1, <3>3
  <2>7. ASSUME offering' \in signalled', ~BudgetUnavailable', NEW b \in ready', IsOldestReady(b)',
               Head(queue'[b]).id = offering'
        PROVE  FALSE
    <3>1. MaySignal(o) /\ ~BudgetUnavailable
      BY <1>0, <2>1, <2>5, <2>7 DEF BudgetUnavailable
    <3>2. ~CanStartNow(o)
      BY <3>1 DEF MaySignal
    <3>3. ASSUME NEW p \in Outputs, queue[p] # << >> PROVE Head(queue[p]).id \in 1 .. accepted
      <4>1. queue[p] \in Seq(WaitingPackets)
        BY <1>0
      <4>2. 1 \in DOMAIN queue[p] /\ Head(queue[p]) = queue[p][1]
        BY <3>3, <4>1, HeadTailProperties
      <4>3. Head(queue[p]).id \in Queued
        BY <4>2, IsQueued DEF Queued
      <4> QED BY <1>0, <4>3 DEF PlacesInv
    <3>4. b = o /\ queue[o] = << >>
      <4>1. b \in Outputs /\ (b # o => queue[b] # << >>)
        BY <1>0, <2>1, <2>7 DEF HeapIsExact
      <4>2. b = o
        BY <1>0, <2>1, <2>4, <2>7, <3>3, <4>1
      <4>3. ASSUME queue[o] # << >> PROVE FALSE
        <5>1. Head(queue'[o]) = Head(queue[o])
          BY <2>4, <4>3
        <5> QED BY <1>0, <2>1, <2>7, <3>3, <4>2, <4>3, <5>1
      <4> QED BY <4>2, <4>3
    <3>5. sending[o] = 0
      BY <1>0, <2>1, <2>7, <3>4 DEF HeapIsExact
    <3>6. PICK p \in ready : TRUE
      BY <2>1, <3>1, <3>2, <3>4, <3>5 DEF CanStartNow
    <3>7. p \in Outputs /\ queue[p] # << >> /\ p # o /\ p \in ready'
      BY <1>0, <2>1, <3>4 DEF HeapIsExact
    <3>8. Head(queue'[p]).id \in 1 .. accepted
      BY <2>4, <3>3, <3>7
    <3>9. Head(queue'[b]).id <= Head(queue'[p]).id
      BY <2>7, <3>7 DEF IsOldestReady
    <3> QED BY <1>0, <2>1, <2>7, <3>8, <3>9
  <2> QED BY <2>1, <2>6, <2>7 DEF TurnInv
<1>5. ASSUME NEW o \in Outputs, Transmitted(o) PROVE TurnInv'
  BY <1>5, <1>a DEF Transmitted, Idle, history
<1>6. ASSUME NEW o \in Outputs, Arrive(o) PROVE TurnInv'
  BY <1>6, <1>a DEF Arrive, Idle, history
<1>7. CASE WakeUp
  BY <1>7, <1>a DEF WakeUp, Idle, history, counters
<1>8. CASE TimePasses
  BY <1>8, <1>a DEF TimePasses, Idle, counters
<1>9. CASE Stop
  BY <1>9, <1>a DEF Stop, Idle
<1>10. CASE UNCHANGED egressVars
  BY <1>0, <1>10 DEF egressVars, TurnInv, budget, BudgetUnavailable, counters, history, IsOldestReady
<1> QED BY <1>1, <1>2, <1>3, <1>4, <1>5, <1>6, <1>7, <1>8, <1>9, <1>10 DEF EgressNext

(* The counters are bounded by what was offered.                           *)
LEMMA CountersBounded ==
  ASSUME PlacesInv, CountsInv, Conservation, BudgetNumbers, offered \in 0 .. MaxOffered,
         dropped \in Nat, delivered \in Nat, lost \in Nat, discarded \in Nat, forwarded \in Nat
  PROVE  /\ accepted \in 0 .. MaxOffered /\ dropped \in 0 .. MaxOffered
         /\ queuedPackets \in 0 .. MaxOffered
         /\ delivered \in 0 .. MaxOffered /\ lost \in 0 .. MaxOffered
         /\ discarded \in 0 .. MaxOffered
         /\ ~stopped => forwarded \in 0 .. MaxOffered
<1>1. accepted \in Nat /\ offered = accepted + dropped
      /\ accepted = Cardinality(InFlight) + delivered + lost + discarded
      /\ queuedPackets = Cardinality(Queued) /\ (~stopped => forwarded + queuedPackets = accepted)
  BY DEF BudgetNumbers, Conservation, CountsInv
<1>2. Cardinality(InFlight) \in Nat /\ Cardinality(Queued) \in Nat /\ Cardinality(Queued) <= accepted
  BY <1>1, InFlightIsFinite
<1>3. accepted <= MaxOffered /\ dropped <= MaxOffered
  BY <1>1, EgressAssumption
<1>4. delivered <= accepted /\ lost <= accepted /\ discarded <= accepted
  BY <1>1, <1>2
<1>5. queuedPackets \in Nat /\ queuedPackets <= accepted
  BY <1>1, <1>2
<1>6. ~stopped => forwarded <= accepted
  BY <1>1, <1>5
<1> QED BY <1>1, <1>3, <1>4, <1>5, <1>6, EgressAssumption

(* A sequence has the type of its elements.                                *)
LEMMA TypedByElement ==
  ASSUME NEW P, NEW Q, NEW s \in Seq(P), \A i \in DOMAIN s : s[i] \in Q
  PROVE  s \in Seq(Q)
<1>1. PICK n \in Nat : s \in [1 .. n -> P]
  BY SeqDef
<1>2. s \in [1 .. n -> Q]
  BY <1>1
<1> QED BY <1>2, SeqDef

(* Every step keeps the type of the travelling packets.                    *)
LEMMA TravellingTyped ==
  ASSUME EgressInv, [EgressNext]_egressVars
  PROVE  travelling' \in [Outputs -> SUBSET Nat]
<1>0. travelling \in [Outputs -> SUBSET Nat] /\ sending \in [Outputs -> Nat]
  BY EgressParts, EgressAssumption DEF Ids
<1>1. ASSUME NEW o \in Outputs, Transmitted(o) PROVE travelling' \in [Outputs -> SUBSET Nat]
  BY <1>0, <1>1, SMTT(30) DEF Transmitted
<1>2. ASSUME NEW o \in Outputs, Arrive(o) PROVE travelling' \in [Outputs -> SUBSET Nat]
  BY <1>0, <1>2 DEF Arrive
<1>3. CASE Stop
  BY <1>0, <1>3 DEF Stop
<1>4. ASSUME NEW o \in Outputs, OfferDropped(o) \/ OfferAccepted(o)
      PROVE  travelling' = travelling
  BY <1>4 DEF OfferDropped, OfferAccepted
<1>5. CASE DispatchNext \/ DispatchReturns \/ WakeUp \/ TimePasses \/ UNCHANGED egressVars
  BY <1>0, <1>5 DEF DispatchNext, DispatchReturns, WakeUp, TimePasses, egressVars
<1> QED BY <1>0, <1>1, <1>2, <1>3, <1>4, <1>5 DEF EgressNext

(* The types that do not follow from the other parts.                      *)
PlainTypes ==
  /\ now \in 0 .. EndTime
  /\ ready \subseteq Outputs /\ dispatching \in BOOLEAN
  /\ nextGrantAt \in 0 .. EndTime /\ grantBeyondEnd \in BOOLEAN
  /\ wakeEvent \in BOOLEAN /\ wakeAt \in 0 .. EndTime
  /\ budgetWaitStartedAt \in 0 .. EndTime
  /\ stopped \in BOOLEAN
  /\ offered \in 0 .. MaxOffered
  /\ dropped \in Nat /\ delivered \in Nat /\ lost \in Nat
  /\ discarded \in Nat /\ forwarded \in Nat
  /\ stopped => forwarded <= MaxOffered

(* Every step keeps those types.                                           *)
LEMMA PlainTypesAlways ==
  ASSUME EgressInv, [EgressNext]_egressVars
  PROVE  PlainTypes'
<1>0. EgressTypeOK /\ EndTime \in Nat /\ MaxOffered \in Nat /\ EgressNumbers /\ ready \subseteq Outputs
  BY EgressParts, EgressAssumption DEF EgressInv, EgressTypeOK
<1>00. PlainTypes
  BY <1>0 DEF EgressTypeOK, PlainTypes, EgressNumbers
<1>000. stopped => ~dispatching
  BY DEF EgressInv, DispatchInv
<1>1. CASE DispatchNext
  <2>1. PICK o \in ready : ReserveBudget(Cost[Head(queue[o]).size]) /\ ready' = ready \ {o}
                           /\ forwarded' = forwarded + 1
    BY <1>1 DEF DispatchNext
  <2>2. queue[o] \in Seq(WaitingPackets) /\ queue[o] # << >>
    BY QueueParts DEF HeapIsExact
  <2>3. Head(queue[o]) \in WaitingPackets
    BY <2>2, HeadTailProperties
  <2>4. PICK cost \in Nat : ReserveBudget(cost)
    BY <2>1, <2>3, EgressAssumption DEF WaitingPackets
  <2>5. nextGrantAt' \in 0 .. EndTime /\ grantBeyondEnd' \in BOOLEAN
    BY <1>00, <1>0, <2>4 DEF ReserveBudget, PlainTypes
  <2>6. ~stopped
    BY <1>1, <1>000 DEF DispatchNext
  <2>7. /\ UNCHANGED <<now, dispatching, wakeEvent, wakeAt, budgetWaitStartedAt, stopped,
                       offered, dropped, delivered, lost, discarded>>
        /\ ready' \subseteq Outputs /\ forwarded' \in Nat
    BY <1>1, <1>00, <2>1 DEF DispatchNext, accounting, history, PlainTypes
  <2> QED BY <1>00, <2>5, <2>6, <2>7 DEF PlainTypes
<1>2. CASE DispatchReturns
  <2>1. wakeEvent' \in BOOLEAN /\ wakeAt' \in 0 .. EndTime
    BY <1>2, <1>00 DEF DispatchReturns, ScheduleBudgetWake, PlainTypes
  <2>2. dispatching' = FALSE /\ budgetWaitStartedAt' = now
        /\ UNCHANGED <<now, ready, nextGrantAt, grantBeyondEnd, stopped,
                       offered, dropped, delivered, lost, discarded, forwarded>>
    BY <1>2 DEF DispatchReturns, AccountBudgetWait, counters
  <2> QED BY <1>00, <2>1, <2>2 DEF PlainTypes
<1>3. ASSUME NEW o \in Outputs, OfferDropped(o) PROVE PlainTypes'
  <2>1. /\ UNCHANGED <<now, ready, dispatching, nextGrantAt, grantBeyondEnd, wakeEvent, wakeAt,
                       budgetWaitStartedAt, stopped, delivered, lost, discarded, forwarded>>
        /\ offered' = offered + 1 /\ dropped' = dropped + 1 /\ offered < MaxOffered
    BY <1>3 DEF OfferDropped, budget, accounting, history
  <2> QED BY <1>0, <1>00, <2>1 DEF PlainTypes
<1>4. ASSUME NEW o \in Outputs, OfferAccepted(o) PROVE PlainTypes'
  <2>1. /\ UNCHANGED <<now, nextGrantAt, grantBeyondEnd, wakeEvent, wakeAt,
                       stopped, dropped, delivered, lost, discarded, forwarded>>
        /\ offered' = offered + 1 /\ offered < MaxOffered
        /\ dispatching' = TRUE /\ budgetWaitStartedAt' = now /\ ready' \subseteq Outputs
    BY <1>0, <1>4 DEF OfferAccepted, budget, BeginDispatch, AccountBudgetWait
  <2> QED BY <1>0, <1>00, <2>1 DEF PlainTypes
<1>5. ASSUME NEW o \in Outputs, Transmitted(o) PROVE PlainTypes'
  <2>1. /\ UNCHANGED <<now, nextGrantAt, grantBeyondEnd, wakeEvent, wakeAt,
                       stopped, offered, dropped, delivered, discarded, forwarded>>
        /\ lost' = lost \/ lost' = lost + 1
        /\ dispatching' = TRUE /\ budgetWaitStartedAt' = now /\ ready' \subseteq Outputs
    BY <1>0, <1>5 DEF Transmitted, budget, BeginDispatch, AccountBudgetWait, history
  <2> QED BY <1>0, <1>00, <2>1 DEF PlainTypes
<1>6. ASSUME NEW o \in Outputs, Arrive(o) PROVE PlainTypes'
  <2>1. /\ UNCHANGED <<now, ready, dispatching, nextGrantAt, grantBeyondEnd, wakeEvent, wakeAt,
                       budgetWaitStartedAt, stopped, offered, dropped, lost, discarded, forwarded>>
        /\ delivered' = delivered + 1
    BY <1>6 DEF Arrive, budget, accounting, history
  <2> QED BY <1>0, <1>00, <2>1 DEF PlainTypes
<1>7. CASE WakeUp
  <2>1. /\ UNCHANGED <<now, nextGrantAt, grantBeyondEnd, wakeAt, ready,
                       stopped, offered, dropped, delivered, lost, discarded, forwarded>>
        /\ wakeEvent' = FALSE /\ dispatching' = TRUE /\ budgetWaitStartedAt' = now
    BY <1>7 DEF WakeUp, BeginDispatch, AccountBudgetWait, history, counters
  <2> QED BY <1>0, <1>00, <2>1 DEF PlainTypes
<1>8. CASE TimePasses
  <2>1. /\ UNCHANGED <<ready, dispatching, nextGrantAt, grantBeyondEnd, wakeEvent, wakeAt,
                       budgetWaitStartedAt, stopped, offered, dropped, delivered, lost,
                       discarded, forwarded>>
        /\ now' = now + 1 /\ now < EndTime
    BY <1>8 DEF TimePasses, budget, accounting, counters
  <2> QED BY <1>0, <1>00, <2>1 DEF PlainTypes
<1>9. CASE Stop
  <2>1. /\ UNCHANGED <<now, dispatching, wakeAt, budgetWaitStartedAt, offered, dropped,
                       forwarded, delivered, lost>>
        /\ ready' = {} /\ nextGrantAt' = now /\ grantBeyondEnd' = FALSE /\ wakeEvent' = FALSE
        /\ stopped' = TRUE /\ discarded' = Cardinality(InFlight)
    BY <1>9 DEF Stop
  <2>2. Cardinality(InFlight) \in Nat
    BY <1>0, EgressParts, InFlightIsFinite DEF EgressNumbers
  <2>3. forwarded <= MaxOffered
    BY <1>0 DEF EgressTypeOK
  <2> QED BY <1>0, <1>00, <2>1, <2>2, <2>3 DEF PlainTypes
<1>10. CASE UNCHANGED egressVars
  BY <1>00, <1>10 DEF egressVars, PlainTypes, budget, accounting, counters, history
<1> QED BY <1>1, <1>2, <1>3, <1>4, <1>5, <1>6, <1>7, <1>8, <1>9, <1>10 DEF EgressNext

(* Every step keeps a stopped dispatcher out of dispatch.                  *)
LEMMA StopsForGood ==
  ASSUME EgressInv, [EgressNext]_egressVars
  PROVE  stopped' => ~dispatching'
<1>1. stopped => ~dispatching
  BY DEF EgressInv, DispatchInv
<1>2. CASE Stop
  BY <1>2 DEF Stop, Idle
<1>3. CASE DispatchNext \/ DispatchReturns
  BY <1>1, <1>3 DEF DispatchNext, DispatchReturns
<1>4. ASSUME NEW o \in Outputs, OfferDropped(o) \/ OfferAccepted(o) \/ Transmitted(o) \/ Arrive(o)
      PROVE  ~stopped'
  BY <1>4 DEF OfferDropped, OfferAccepted, Transmitted, Arrive, Idle
<1>5. CASE WakeUp \/ TimePasses
  BY <1>5 DEF WakeUp, TimePasses, Idle
<1>6. CASE UNCHANGED egressVars
  BY <1>1, <1>6 DEF egressVars
<1> QED BY <1>2, <1>3, <1>4, <1>5, <1>6 DEF EgressNext

(* The types follow from the parts of the invariant.                       *)
LEMMA TypesFollow ==
  ASSUME PlainTypes, AgendaSound, PlacesInv, CountsInv, Conservation, RoomInv, TurnInv,
         BudgetNumbers, BudgetQueues, travelling \in [Outputs -> SUBSET Nat]
  PROVE  EgressTypeOK
<1>1. EndTime \in Nat /\ MaxOffered \in Nat /\ accepted \in Nat
  BY EgressAssumption DEF BudgetNumbers
<1>2. /\ accepted \in 0 .. MaxOffered /\ dropped \in 0 .. MaxOffered
      /\ queuedPackets \in 0 .. MaxOffered
      /\ delivered \in 0 .. MaxOffered /\ lost \in 0 .. MaxOffered
      /\ discarded \in 0 .. MaxOffered
      /\ ~stopped => forwarded \in 0 .. MaxOffered
  BY CountersBounded DEF PlainTypes
<1>3. forwarded \in 0 .. MaxOffered
  BY <1>1, <1>2 DEF PlainTypes
<1>4. Ids = 1 .. MaxOffered /\ \A x \in 1 .. accepted : x \in Ids
  BY <1>1, <1>2 DEF Ids
<1>5. queue \in [Outputs -> Seq([id : Ids, size : Sizes])]
  <2>1. queue \in [Outputs -> Seq(WaitingPackets)]
    BY DEF BudgetQueues, WaitingPackets
  <2>2. ASSUME NEW o \in Outputs PROVE queue[o] \in Seq([id : Ids, size : Sizes])
    <3>1. queue[o] \in Seq(WaitingPackets)
      BY <2>1
    <3>2. ASSUME NEW i \in DOMAIN queue[o] PROVE queue[o][i] \in [id : Ids, size : Sizes]
      <4>1. queue[o][i] \in WaitingPackets
        BY <3>1
      <4>2. queue[o][i].id \in Queued
        BY <4>1, IsQueued DEF Queued
      <4>3. queue[o][i].id \in Ids
        BY <1>4, <4>2 DEF PlacesInv
      <4> QED BY <4>1, <4>3 DEF WaitingPackets
    <3> QED BY <3>1, <3>2, TypedByElement
  <2> QED BY <2>1, <2>2
<1>6. sending \in [Outputs -> 0 .. MaxOffered]
  <2>1. ASSUME NEW o \in Outputs PROVE sending[o] \in 0 .. MaxOffered
    <3>1. sending[o] \in 0 .. accepted
      BY DEF PlacesInv
    <3> QED BY <1>1, <1>2, <3>1
  <2> QED BY <2>1 DEF BudgetQueues
<1>7. signalled \subseteq Ids /\ offering \in 0 .. MaxOffered
  BY <1>1, <1>2, <1>4 DEF TurnInv
<1>8. ~dispatching => \A o \in Outputs : Waiting(o) <= QueueCapacity[o]
  BY DEF RoomInv
<1>9. budgetWait \in Nat /\ budgetWaiting \in BOOLEAN /\ blocked \in Nat
  BY DEF BudgetNumbers
<1>10. agenda \in Seq(Events)
  BY DEF AgendaSound
<1>11. travelling \in [Outputs -> SUBSET Ids]
  <2>1. ASSUME NEW o \in Outputs PROVE travelling[o] \subseteq Ids
    BY <1>4 DEF PlacesInv
  <2> QED BY <2>1
<1> QED BY <1>2, <1>3, <1>5, <1>6, <1>7, <1>8, <1>9, <1>10, <1>11 DEF PlainTypes, EgressTypeOK

(* Every step keeps the inductive invariant.                               *)
LEMMA EgressInvInductive ==
  ASSUME EgressInv, [EgressNext]_egressVars
  PROVE  EgressInv'
<1>1. PlainTypes' /\ AgendaSound' /\ AllPlaces' /\ RoomInv' /\ TurnInv' /\ (stopped' => ~dispatching')
      /\ travelling' \in [Outputs -> SUBSET Nat]
  BY PlainTypesAlways, AgendaAlways, PlacesAlways, RoomAlways, TurnAlways, StopsForGood, TravellingTyped
<1>2. BudgetInv'
  BY BudgetInductive DEF EgressInv
<1>3. (PlainTypes /\ AgendaSound /\ PlacesInv /\ CountsInv /\ Conservation /\ RoomInv /\ TurnInv
       /\ BudgetNumbers /\ BudgetQueues /\ travelling \in [Outputs -> SUBSET Nat] => EgressTypeOK)'
  BY TypesFollow, PTL
<1>4. EgressTypeOK'
  BY <1>1, <1>2, <1>3 DEF AllPlaces, BudgetInv
<1> QED BY <1>1, <1>2, <1>4 DEF EgressInv, AllPlaces, AgendaSound, DispatchInv

(* The inductive invariant holds initially.                                *)
LEMMA EgressInvInitially == EgressInit => EgressInv
<1> SUFFICES ASSUME EgressInit PROVE EgressInv
  OBVIOUS
<1>1. BudgetInv
  BY BudgetInitially
<1>2. /\ \A o \in Outputs : queue[o] = << >> /\ sending[o] = 0 /\ travelling[o] = {}
      /\ agenda = << >> /\ ~wakeEvent /\ ready = {} /\ ~dispatching /\ ~stopped
      /\ accepted = 0 /\ offered = 0 /\ dropped = 0 /\ queuedPackets = 0
      /\ forwarded = 0 /\ delivered = 0 /\ lost = 0 /\ discarded = 0
      /\ offering = 0 /\ signalled = {}
  BY DEF EgressInit
<1>3. Queued = {} /\ InFlight = {}
  <2>1. \A x : x \notin Queued
    <3> TAKE x
    <3>1. \A o \in Outputs : \A i \in DOMAIN queue[o] : FALSE
      BY <1>2
    <3> QED BY <3>1, IsQueued DEF Queued
  <2>2. \A x : x \notin InFlight
    BY <1>2, <2>1, IsInFlight
  <2> QED BY <2>1, <2>2
<1>4. PlacesInv
  <2>1. IdsDiffer(queue)
    BY <1>2 DEF IdsDiffer
  <2> QED BY <1>2, <1>3, <2>1 DEF PlacesInv
<1>5. CountsInv /\ Conservation
  <2>1. Cardinality(Queued) = 0 /\ Cardinality(InFlight) = 0
    BY <1>3, FS_EmptySet
  <2> QED BY <1>2, <2>1 DEF CountsInv, Conservation
<1>6. AgendaSound
  <2>1. agenda \in Seq(Events) /\ Elements(agenda) = {} /\ NoTwoEndTheSame(agenda)
    BY <1>2 DEF Elements, NoTwoEndTheSame
  <2> QED BY <1>2, <2>1 DEF AgendaSound, EventsInv, WakeInv
<1>7. RoomInv
  BY <1>2, EgressAssumption DEF RoomInv, Waiting
<1>8. TurnInv
  BY <1>2 DEF TurnInv
<1>9. PlainTypes /\ travelling \in [Outputs -> SUBSET Nat]
  <2>1. 0 \in 0 .. EndTime /\ 0 \in 0 .. MaxOffered /\ 0 <= MaxOffered
    BY EgressAssumption
  <2>2. PlainTypes
    BY <2>1 DEF EgressInit, PlainTypes
  <2>3. travelling = [o \in Outputs |-> {}]
    BY DEF EgressInit
  <2> QED BY <2>2, <2>3
<1>10. EgressTypeOK
  BY <1>1, <1>4, <1>5, <1>6, <1>7, <1>8, <1>9, TypesFollow DEF BudgetInv
<1> QED BY <1>1, <1>2, <1>4, <1>5, <1>6, <1>7, <1>8, <1>10 DEF EgressInv, DispatchInv, AgendaSound

(* The inductive invariant gives what the runs check.                      *)
LEMMA EgressInvGivesSoundness == EgressInv => QueuesAreSound
<1> SUFFICES ASSUME EgressInv PROVE QueuesAreSound
  OBVIOUS
<1>1. EgressTypeOK /\ Conservation /\ BudgetInv /\ DispatchInv /\ HeapIsExact /\ WakeInv /\ EventsInv
  BY DEF EgressInv, BudgetInv, DispatchInv
<1>2. agenda \in Seq(Events)
  BY AgendaParts
<1>3. wakeEvent => \E i \in DOMAIN agenda : agenda[i].what = "wake"
  BY <1>1 DEF EventsInv, Elements
<1>4. \A i \in DOMAIN agenda : agenda[i].what = "wake" => wakeEvent /\ agenda[i].at = wakeAt
  BY <1>1 DEF EventsInv, Elements
<1>5. NoReadyOutputSleeps
  BY <1>1, <1>3, <1>4 DEF NoReadyOutputSleeps, WakeInv
<1>6. OneUsefulWake
  <2>1. \A i, j \in DOMAIN agenda : agenda[i].what = "wake" /\ agenda[j].what = "wake" => i = j
    BY <1>1 DEF EventsInv, NoTwoEndTheSame, SameEnd
  <2> QED BY <1>1, <1>3, <1>4, <2>1 DEF OneUsefulWake, WakeInv
<1> QED BY <1>1, <1>5, <1>6 DEF QueuesAreSound

(* No ready output sleeps, one wake-up at most is pending and it is        *)
(* useful, queues keep to their places between dispatches, every admitted  *)
(* packet is in one place and every offered one is counted once.           *)
THEOREM QueuesAlwaysSound == EgressSpec => []QueuesAreSound
BY EgressInvInitially, EgressInvInductive, EgressInvGivesSoundness, PTL DEF EgressSpec

(* A packet that Transmit starts itself was not selected for a congestion  *)
(* signal, and the oldest head that could go is never overtaken.           *)
THEOREM PacketsStartInTurn == EgressSpec => StartsInTurn
<1>1. ASSUME EgressInv, [EgressNext]_egressVars, NEW o \in Outputs, sending[o] = 0, sending'[o] # 0
      PROVE  /\ sending'[o] = offering => offering \notin signalled
             /\ \A q \in Outputs :
                  sending[q] = 0 /\ queue[q] # << >> => sending'[o] <= Head(queue[q]).id
  <2>0. /\ TurnInv /\ HeapIsExact /\ queue \in [Outputs -> Seq(WaitingPackets)]
        /\ sending \in [Outputs -> Nat]
    BY <1>1, QueueParts
  <2>1. CASE DispatchNext
    <3>1. PICK p \in ready : IsOldestReady(p) /\ sending' = [sending EXCEPT ![p] = Head(queue[p]).id]
      BY <2>1 DEF DispatchNext
    <3>2. p = o /\ sending'[o] = Head(queue[o]).id
      BY <1>1, <2>0, <3>1 DEF HeapIsExact
    <3>3. dispatching /\ ~BudgetUnavailable
      BY <2>1 DEF DispatchNext
    <3>4. offering \in signalled => Head(queue[o]).id # offering
      BY <2>0, <3>1, <3>2, <3>3 DEF TurnInv
    <3>5. \A q \in Outputs : sending[q] = 0 /\ queue[q] # << >> => Head(queue[o]).id <= Head(queue[q]).id
      BY <2>0, <3>1, <3>2 DEF HeapIsExact, IsOldestReady
    <3> QED BY <3>2, <3>4, <3>5
  <2>2. ASSUME NEW p \in Outputs, Transmitted(p) PROVE FALSE
    <3>1. sending' = [sending EXCEPT ![p] = 0]
      BY <2>2 DEF Transmitted
    <3> QED BY <1>1, <2>0, <3>1
  <2>3. CASE Stop
    <3>1. sending'[o] = 0
      BY <2>3 DEF Stop
    <3> QED BY <1>1, <3>1
  <2>4. ASSUME NEW p \in Outputs, OfferDropped(p) \/ OfferAccepted(p) \/ Arrive(p)
        PROVE  sending' = sending
    BY <2>4 DEF OfferDropped, OfferAccepted, Arrive
  <2>5. ASSUME DispatchReturns \/ WakeUp \/ TimePasses \/ UNCHANGED egressVars
        PROVE  sending' = sending
    BY <2>5 DEF DispatchReturns, WakeUp, TimePasses, egressVars
  <2> QED BY <1>1, <2>1, <2>2, <2>3, <2>4, <2>5 DEF EgressNext
<1>2. EgressInv /\ [EgressNext]_egressVars =>
        [\A o \in Outputs :
           sending[o] = 0 /\ sending'[o] # 0 =>
             /\ sending'[o] = offering => offering \notin signalled
             /\ \A q \in Outputs :
                  sending[q] = 0 /\ queue[q] # << >> => sending'[o] <= Head(queue[q]).id]_egressVars
  BY <1>1
<1> QED BY <1>2, EgressInvInitially, EgressInvInductive, PTL DEF EgressSpec, StartsInTurn
=============================================================================
