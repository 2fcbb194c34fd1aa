------------------------------ MODULE Balancer ------------------------------
(***************************************************************************)
(* The L4 load balancer (balancer/balancer.go, connections.go, the         *)
(* selection algorithms): registration of clients and servers, admission   *)
(* of packets to the balancer's CPU, routing, the observed phase of every  *)
(* mapping, forwarding with chaos, and the periodic sweep.                 *)
(*                                                                         *)
(* A packet is admitted with the client and the mapping it was seen on,    *)
(* waits for the CPU and possibly for the chaos latency, and both are      *)
(* checked again after each wait.  A client key (the five-tuple) can be    *)
(* registered again, so clients and mappings carry instance numbers, the   *)
(* code's pointers; zero is nil.                                           *)
(*                                                                         *)
(* The CPU is a FIFO of limited size (module Host).  Virtual time is kept  *)
(* relative: age is the time since lastActivity, sweepIn the time until    *)
(* the next sweep.  Health checks appear as changes of healthy.            *)
(***************************************************************************)
EXTENDS Integers, Sequences, FiniteSets, Selection

CONSTANTS
  Keys, Servers,
  None,             \* no server
  Limit,            \* MaxConnections of a server, 0 for unlimited
  Timeout,          \* idle limit of each phase, 0 for never
  CleanupInterval,
  ChaosConfigs,     \* values SetChaosConfig may install
  Algorithms,       \* of "roundRobin" and "random", those in use
  Arriving,         \* kinds of packets that arrive
  JobCapacity,      \* packets the CPU holds
  MaxInstances,     \* bound on clients registered with one key
  MaxMappings,      \* bound on mappings made for one key
  MaxDelayed,       \* bound on packets held back by the chaos latency
  MaxAge            \* ages are counted up to this value

Phases == {"halfOpen", "established", "closing", "reset"}
Kinds == {"SYN", "SYNACK", "ACK", "FIN", "RST", "unsupported"}
NoChaos == [drops |-> FALSE, latency |-> FALSE]

ASSUME BalancerAssumption ==
  /\ None \notin Servers
  /\ Limit \in [Servers -> Nat] /\ Timeout \in [Phases -> Nat]
  /\ CleanupInterval \in Nat \ {0}
  /\ ChaosConfigs \subseteq [drops : BOOLEAN, latency : BOOLEAN]
  /\ Algorithms \subseteq {"roundRobin", "random"} /\ Arriving \subseteq Kinds
  /\ JobCapacity \in Nat /\ MaxInstances \in Nat /\ MaxMappings \in Nat
  /\ MaxDelayed \in Nat /\ MaxAge \in Nat
  /\ \A f \in Phases : Timeout[f] + CleanupInterval <= MaxAge

VARIABLES
  closed,
  clients,      \* client instance registered for each key
  clientOrder,  \* registered clients <<key, instance>>, in registration order
  servers,      \* backends in registration order
  healthy,      \* backends whose healthCheck says healthy
  table,        \* connTable: for each server the clients mapped to it
  byKey,        \* the server each key is mapped to
  connection,   \* the mapping instance of each key
  phase, age,   \* connectionState of each mapping
  algorithm, index,  \* the algorithm and the rotation's next position
  chaos,
  sweepIn,
  jobs,         \* packets admitted to the CPU
  delayed,      \* packets held back by the chaos latency
  made,         \* mappings made for each key so far
  sent          \* the packets the last step handed to a Sender (history)

registry == <<clients, clientOrder, servers>>
routes == <<table, byKey, connection, made>>
choice == <<algorithm, index>>
vars == <<closed, registry, healthy, routes, phase, age, choice, chaos,
          sweepIn, jobs, delayed, sent>>

RangeOf(s) == {s[i] : i \in 1 .. Len(s)}

Init ==
  /\ closed = FALSE
  /\ clients = [k \in Keys |-> 0] /\ clientOrder = << >>
  /\ servers = << >> /\ healthy = {}
  /\ table = [s \in Servers |-> << >>]
  /\ byKey = [k \in Keys |-> None] /\ connection = [k \in Keys |-> 0]
  /\ phase = [k \in Keys |-> "halfOpen"] /\ age = [k \in Keys |-> 0]
  /\ algorithm \in Algorithms /\ index = 0
  /\ chaos = NoChaos
  /\ sweepIn = CleanupInterval
  /\ jobs = << >> /\ delayed = {} /\ sent = {}
  /\ made = [k \in Keys |-> 0]

-----------------------------------------------------------------------------
(* Registration.                                                           *)

AddClientAnyway(k) ==
  /\ ~closed /\ clients[k] < MaxInstances
  /\ LET new == clients[k] + 1
         Replaced(e) == IF e = <<k, clients[k]>> THEN <<k, new>> ELSE e
     IN  /\ clients' = [clients EXCEPT ![k] = new]
         /\ clientOrder' =
              IF clients[k] # 0
              THEN [i \in DOMAIN clientOrder |-> Replaced(clientOrder[i])]
              ELSE Append(clientOrder, <<k, new>>)
  /\ sent' = {}
  /\ UNCHANGED <<closed, servers, healthy, routes, phase, age, choice, chaos,
                 sweepIn, jobs, delayed>>

(* AddClient refuses a key that is mapped; a new client of an unmapped key *)
(* takes the place of the previous one.                                    *)
AddClient(k) ==
  /\ ~closed /\ clients[k] < MaxInstances
  /\ byKey[k] = None
  /\ LET new == clients[k] + 1
         Replaced(e) == IF e = <<k, clients[k]>> THEN <<k, new>> ELSE e
     IN  /\ clients' = [clients EXCEPT ![k] = new]
         /\ clientOrder' =
              IF clients[k] # 0
              THEN [i \in DOMAIN clientOrder |-> Replaced(clientOrder[i])]
              ELSE Append(clientOrder, <<k, new>>)
  /\ sent' = {}
  /\ UNCHANGED <<closed, servers, healthy, routes, phase, age, choice, chaos,
                 sweepIn, jobs, delayed>>

HasClient(k, c) == ~closed /\ c # 0 /\ clients[k] = c

AddServer(s) ==
  /\ ~closed /\ s \notin RangeOf(servers)
  /\ servers' = Append(servers, s) /\ healthy' = healthy \cup {s}
  /\ sent' = {}
  /\ UNCHANGED <<closed, clients, clientOrder, routes, phase, age, choice,
                 chaos, sweepIn, jobs, delayed>>

(* The outcome of a health check of s.                                     *)
HealthChanges(s) ==
  /\ ~closed /\ s \in RangeOf(servers)
  /\ healthy' = IF s \in healthy THEN healthy \ {s} ELSE healthy \cup {s}
  /\ sent' = {}
  /\ UNCHANGED <<closed, registry, routes, phase, age, choice, chaos,
                 sweepIn, jobs, delayed>>

-----------------------------------------------------------------------------
(* Admission to the CPU.  The network delivers a packet only while the     *)
(* client it was sent by, or for, is registered (clients.go:161,           *)
(* world.go:304), so the client recorded is that one.                      *)

HandleClientPacket(k, kind) ==
  /\ HasClient(k, clients[k]) /\ Len(jobs) < JobCapacity
  /\ jobs' = Append(jobs, [from |-> None, key |-> k, kind |-> kind,
                           client |-> clients[k], mapping |-> connection[k]])
  /\ sent' = {}
  /\ UNCHANGED <<closed, registry, healthy, routes, phase, age, choice, chaos,
                 sweepIn, delayed>>

HandleServerPacket(s, k, kind) ==
  /\ s \in RangeOf(servers)
  /\ HasClient(k, clients[k]) /\ Len(jobs) < JobCapacity
  /\ jobs' = Append(jobs, [from |-> s, key |-> k, kind |-> kind,
                           client |-> clients[k], mapping |-> connection[k]])
  /\ sent' = {}
  /\ UNCHANGED <<closed, registry, healthy, routes, phase, age, choice, chaos,
                 sweepIn, delayed>>

-----------------------------------------------------------------------------
(* Routing.                                                                *)

Candidates == ElementsAt(servers, {i \in DOMAIN servers : servers[i] \in healthy})

HasRoom(s) == Limit[s] = 0 \/ Len(table[s]) < Limit[s]

(* RoundRobin.Pick: the first candidate with room, at most one rotation    *)
(* from the position kept, which is first brought into range.              *)
RotationFrom(start, d) == Candidates[((start + d) % Len(Candidates)) + 1]

FirstRoom(start, d) ==
  /\ HasRoom(RotationFrom(start, d))
  /\ \A e \in 0 .. d - 1 : ~HasRoom(RotationFrom(start, e))

Pick(s) ==
  \/ /\ algorithm = "roundRobin" /\ Candidates # << >>
     /\ LET n == Len(Candidates)
            start == index % n
        IN  \E d \in 0 .. n - 1 :
              /\ FirstRoom(start, d)
              /\ s = RotationFrom(start, d)
              /\ index' = (start + d + 1) % n
  \/ /\ algorithm = "random"
     /\ s \in RangeOf(Candidates) /\ HasRoom(s)
     /\ UNCHANGED index

PickFailsAtOnce ==
  /\ Candidates # << >> => ~HasRoom(RotationFrom(index, 0))
  /\ index' = IF algorithm = "roundRobin" /\ Candidates # << >>
              THEN (index + 1) % Len(Candidates) ELSE index

(* Pick fails; a full rotation leaves the position where it was.           *)
PickFails ==
  /\ \A s \in RangeOf(Candidates) : ~HasRoom(s)
  /\ index' = IF algorithm = "roundRobin" /\ Candidates # << >>
              THEN index % Len(Candidates) ELSE index

(* Which packet shapes the observer understands.                           *)
SupportedMappingPacket(kind, fromServer) ==
  \/ kind = "SYN" /\ ~fromServer
  \/ kind = "SYNACK" /\ fromServer
  \/ kind \in {"ACK", "FIN", "RST"}

ObserveReopening(old, kind, fromServer) ==
  CASE kind = "RST" -> "reset"
    [] kind = "FIN" /\ old # "reset" -> "closing"
    [] kind = "ACK" /\ old # "reset" /\ ~fromServer -> "established"
    [] OTHER -> old

(* The phase after observe saw a packet in phase old.                      *)
ObservedPhase(old, kind, fromServer) ==
  CASE kind = "RST" -> "reset"
    [] kind = "FIN" /\ old # "reset" -> "closing"
    [] kind = "ACK" /\ old \notin {"reset", "closing"} /\ ~fromServer -> "established"
    [] OTHER -> old

Observe(k, kind, fromServer) ==
  /\ age' = [age EXCEPT ![k] = IF SupportedMappingPacket(kind, fromServer)
                               THEN 0 ELSE @]
  /\ phase' = [phase EXCEPT ![k] = IF SupportedMappingPacket(kind, fromServer)
                                   THEN ObservedPhase(@, kind, fromServer) ELSE @]

(* forward: chaos drops the packet, holds it back, or lets it go.          *)
Forward(p) ==
  \/ chaos.drops /\ sent' = {} /\ UNCHANGED delayed
  \/ ~chaos.latency /\ sent' = {p} /\ UNCHANGED delayed
  \/ /\ chaos.latency /\ Cardinality(delayed) < MaxDelayed
     /\ delayed' = delayed \cup {p} /\ sent' = {}

-----------------------------------------------------------------------------
(* The CPU finishes the oldest packet.                                     *)

(* The recheck after the wait.  A client's packet that met no mapping may  *)
(* belong to one made meanwhile; a server's packet may not.                *)
Current(j) ==
  /\ HasClient(j.key, j.client)
  /\ j.from # None \/ j.mapping # 0 => connection[j.key] = j.mapping

Outgoing(j, s, mapping) ==
  [to |-> IF j.from = None THEN s ELSE None, from |-> j.from,
   key |-> j.key, kind |-> j.kind,
   client |-> j.client, admitted |-> j.mapping, mapping |-> mapping]

ProcessDropped(j) ==
  /\ \/ ~Current(j)
     \/ j.from # None /\ byKey[j.key] # j.from
     \/ j.from = None /\ byKey[j.key] = None /\ j.kind # "SYN"
  /\ sent' = {}
  /\ UNCHANGED <<healthy, routes, phase, age, choice, delayed>>

ProcessRefused(j) ==
  /\ Current(j) /\ j.from = None /\ byKey[j.key] = None /\ j.kind = "SYN"
  /\ PickFails
  /\ sent' = {}
  /\ UNCHANGED <<healthy, routes, phase, age, algorithm, delayed>>

(* Route makes the mapping, then the SYN is observed and forwarded.        *)
ProcessRouted(j) ==
  /\ Current(j) /\ j.from = None /\ byKey[j.key] = None /\ j.kind = "SYN"
  /\ made[j.key] < MaxMappings
  /\ \E s \in Servers :
       /\ Pick(s)
       /\ table' = [table EXCEPT ![s] = Append(@, <<j.key, clients[j.key]>>)]
       /\ byKey' = [byKey EXCEPT ![j.key] = s]
       /\ made' = [made EXCEPT ![j.key] = @ + 1]
       /\ connection' = [connection EXCEPT ![j.key] = made[j.key] + 1]
       /\ phase' = [phase EXCEPT ![j.key] = "halfOpen"]
       /\ age' = [age EXCEPT ![j.key] = 0]
       /\ Forward(Outgoing(j, s, made[j.key] + 1))
  /\ UNCHANGED <<healthy, algorithm>>

ProcessMapped(j) ==
  /\ Current(j)
  /\ byKey[j.key] # None /\ j.from \in {None, byKey[j.key]}
  /\ Observe(j.key, j.kind, j.from # None)
  /\ Forward(Outgoing(j, byKey[j.key], connection[j.key]))
  /\ UNCHANGED <<healthy, routes, choice>>

Process ==
  /\ jobs # << >>
  /\ jobs' = Tail(jobs)
  /\ \/ ProcessDropped(Head(jobs))
     \/ ProcessRefused(Head(jobs))
     \/ ProcessRouted(Head(jobs))
     \/ ProcessMapped(Head(jobs))
  /\ UNCHANGED <<closed, registry, chaos, sweepIn>>

DelayedSendUnchecked(p) ==
  /\ p \in delayed
  /\ delayed' = delayed \ {p}
  /\ sent' = {q \in {p} : HasClient(p.key, p.client)}
  /\ UNCHANGED <<closed, registry, healthy, routes, phase, age, choice, chaos,
                 sweepIn, jobs>>

(* The chaos latency has passed: valid() is asked before the send.         *)
DelayedSend(p) ==
  /\ p \in delayed
  /\ delayed' = delayed \ {p}
  /\ sent' = {q \in {p} : HasClient(p.key, p.client)
                          /\ connection[p.key] = p.mapping}
  /\ UNCHANGED <<closed, registry, healthy, routes, phase, age, choice, chaos,
                 sweepIn, jobs>>

-----------------------------------------------------------------------------
(* Forgetting mappings.                                                    *)

(* forgetRoute of every key in gone: the entry of the registered client    *)
(* leaves its server's list.                                               *)
Forget(gone) ==
  /\ table' = [s \in Servers |-> ElementsAt(table[s],
       {i \in DOMAIN table[s] : LET e == table[s][i] IN
          ~(e[1] \in gone /\ byKey[e[1]] = s /\ e[2] = clients[e[1]])})]
  /\ byKey' = [k \in Keys |-> IF k \in gone THEN None ELSE byKey[k]]
  /\ connection' = [k \in Keys |-> IF k \in gone THEN 0 ELSE connection[k]]
  /\ phase' = [k \in Keys |-> IF k \in gone THEN "halfOpen" ELSE phase[k]]
  /\ age' = [k \in Keys |-> IF k \in gone THEN 0 ELSE age[k]]

ExpiredLate(k) == Timeout[phase[k]] > 0 /\ age[k] > Timeout[phase[k]]

Expired(k) == Timeout[phase[k]] > 0 /\ age[k] >= Timeout[phase[k]]

(* The sweep visits every registered client and schedules the next one.    *)
Cleanup ==
  /\ ~closed /\ sweepIn = 0
  /\ Forget({k \in Keys : /\ \E i \in 1 .. Len(clientOrder) : clientOrder[i][1] = k
                          /\ connection[k] # 0 /\ Expired(k)})
  /\ sweepIn' = CleanupInterval
  /\ sent' = {}
  /\ UNCHANGED <<closed, registry, healthy, made, choice, chaos, jobs, delayed>>

ClearConnectionTable ==
  /\ table' = [s \in Servers |-> << >>]
  /\ byKey' = [k \in Keys |-> None] /\ connection' = [k \in Keys |-> 0]
  /\ phase' = [k \in Keys |-> "halfOpen"] /\ age' = [k \in Keys |-> 0]
  /\ sent' = {}

ClearConnections ==
  /\ ~closed
  /\ ClearConnectionTable
  /\ UNCHANGED <<closed, registry, healthy, made, choice, chaos, sweepIn, jobs,
                 delayed>>

(* Shutdown stops the CPU and the timers; packets the chaos latency holds  *)
(* back stay scheduled.                                                    *)
Shutdown ==
  /\ ~closed /\ closed' = TRUE
  /\ ClearConnectionTable
  /\ clients' = [k \in Keys |-> 0] /\ clientOrder' = << >>
  /\ servers' = << >> /\ healthy' = {}
  /\ jobs' = << >>
  /\ UNCHANGED <<made, choice, chaos, sweepIn, delayed>>

-----------------------------------------------------------------------------
(* Settings and time.                                                      *)

SetAlgorithm(a) ==
  /\ ~closed
  /\ algorithm' = a /\ index' = 0
  /\ sent' = {}
  /\ UNCHANGED <<closed, registry, healthy, routes, phase, age, chaos, sweepIn,
                 jobs, delayed>>

SetChaosConfig(c) ==
  /\ ~closed
  /\ chaos' = c
  /\ sent' = {}
  /\ UNCHANGED <<closed, registry, healthy, routes, phase, age, choice, sweepIn,
                 jobs, delayed>>

(* Time passes up to the next sweep.                                       *)
Tick ==
  /\ ~closed /\ sweepIn > 0
  /\ sweepIn' = sweepIn - 1
  /\ age' = [k \in Keys |-> IF connection[k] # 0 /\ age[k] < MaxAge
                            THEN age[k] + 1 ELSE age[k]]
  /\ sent' = {}
  /\ UNCHANGED <<closed, registry, healthy, routes, phase, choice, chaos, jobs,
                 delayed>>

Next ==
  \/ \E k \in Keys : AddClient(k)
  \/ \E s \in Servers : AddServer(s) \/ HealthChanges(s)
  \/ \E k \in Keys, kind \in Arriving :
       \/ HandleClientPacket(k, kind)
       \/ \E s \in Servers : HandleServerPacket(s, k, kind)
  \/ Process
  \/ \E p \in delayed : DelayedSend(p)
  \/ Cleanup \/ ClearConnections \/ Shutdown
  \/ \E a \in Algorithms : SetAlgorithm(a)
  \/ \E c \in ChaosConfigs : SetChaosConfig(c)
  \/ Tick

Spec == Init /\ [][Next]_vars

-----------------------------------------------------------------------------
Jobs == [from : Servers \cup {None}, key : Keys, kind : Kinds,
         client : Nat, mapping : Nat]
Packets == [to : Servers \cup {None}, from : Servers \cup {None}, key : Keys,
            kind : Kinds, client : Nat, admitted : Nat, mapping : Nat]

TypeOK ==
  /\ closed \in BOOLEAN
  /\ clients \in [Keys -> 0 .. MaxInstances]
  /\ clientOrder \in Seq(Keys \X Nat)
  /\ servers \in Seq(Servers) /\ healthy \in SUBSET Servers
  /\ table \in [Servers -> Seq(Keys \X Nat)]
  /\ byKey \in [Keys -> Servers \cup {None}]
  /\ connection \in [Keys -> 0 .. MaxMappings] /\ made \in [Keys -> 0 .. MaxMappings]
  /\ phase \in [Keys -> Phases] /\ age \in [Keys -> 0 .. MaxAge]
  /\ algorithm \in Algorithms /\ index \in Nat
  /\ chaos \in [drops : BOOLEAN, latency : BOOLEAN]
  /\ sweepIn \in 0 .. CleanupInterval
  /\ jobs \in Seq(Jobs) /\ Len(jobs) <= JobCapacity
  /\ delayed \in SUBSET Packets /\ sent \in SUBSET Packets

(* The three tables tell the same story: a key has a connectionState       *)
(* exactly when it is mapped, only a registered client is mapped, and a    *)
(* server's list holds each client mapped to it once and nobody else.      *)
(* What Route adds, forgetRoute finds again, whoever was registered in     *)
(* between (balancer.go:80-102, 238-266).                                  *)
TablesAgree ==
  /\ \A k \in Keys : /\ byKey[k] # None <=> connection[k] # 0
                     /\ byKey[k] # None => clients[k] # 0
  /\ \A s \in Servers :
       /\ RangeOf(table[s]) = {<<k, clients[k]>> : k \in {j \in Keys : byKey[j] = s}}
       /\ \A i, j \in 1 .. Len(table[s]) : table[s][i] = table[s][j] => i = j

(* A server never has more mappings than its MaxConnections, whatever was  *)
(* forgotten, cleared and routed again (round-robin.go:28, random.go:21).  *)
CapacityHolds == \A s \in Servers : Limit[s] > 0 => Len(table[s]) <= Limit[s]

(* Capacity is counted on the tables, so the two go together.              *)
RoutesAreSound == TypeOK /\ TablesAgree /\ CapacityHolds

(* A packet leaves the balancer only on the mapping it was processed on,   *)
(* for the client it came from or was meant for, and, when it met a        *)
(* mapping on arrival, on that same mapping, even though the client may    *)
(* have been replaced, the mapping swept, cleared or made anew, or the     *)
(* balancer shut down, during both waits (balancer.go:137, 166, 178, 193). *)
SentWhereItBelongs ==
  \A p \in sent :
    /\ ~closed /\ clients[p.key] = p.client
    /\ connection[p.key] = p.mapping /\ byKey[p.key] \in {p.to, p.from}
    /\ p.admitted # 0 => p.admitted = p.mapping

(* Idle mappings are swept in time: none with a limit stays idle for its   *)
(* limit and another CleanupInterval.  Every mapped key is visited, also   *)
(* one whose client replaced another (balancer.go:309-323).                *)
SweptInTime ==
  \A k \in Keys :
    ~closed /\ connection[k] # 0 /\ Timeout[phase[k]] > 0 =>
      age[k] < Timeout[phase[k]] + CleanupInterval - sweepIn

Rank(f) == CASE f = "halfOpen" -> 0 [] f = "established" -> 1
             [] f = "closing" -> 2 [] f = "reset" -> 3

(* Reordered or late packets never take a mapping back to an earlier phase *)
(* (connections.go:46-73).                                                 *)
PhaseNeverGoesBack ==
  [][\A k \in Keys : connection[k] # 0 /\ connection'[k] = connection[k]
                       => Rank(phase[k]) <= Rank(phase'[k])]_vars

(* A SYN is refused only when no healthy backend has room, wherever the    *)
(* rotation stood and however the list of candidates has changed           *)
(* (round-robin.go:22-31).                                                 *)
RoomIsFound ==
  [][LET j == Head(jobs) IN
     /\ jobs # << >> /\ jobs' = Tail(jobs) /\ ~closed'
     /\ Current(j) /\ j.from = None /\ j.kind = "SYN" /\ byKey[j.key] = None
     /\ \E s \in RangeOf(servers) : s \in healthy /\ HasRoom(s)
     => byKey'[j.key] # None]_vars
=============================================================================
