------------------------------ MODULE Settings ------------------------------
(***************************************************************************)
(* What becomes of a scenario before a run: Normalize (scenario/) checks   *)
(* it and resolves what is inherited, and newClassicWindow                 *)
(* (congestion_control/) computes with what it has accepted.               *)
(*                                                                         *)
(* A setting that may be left out is a field a patch may lack.  A link is  *)
(* its bandwidth and its queue; its other fields are inherited and checked *)
(* one by one in the same way.  Display names, algorithms, idle timeouts,  *)
(* pacing and the wording of errors are left out.                          *)
(***************************************************************************)
EXTENDS Selection

CONSTANTS
  MaxInt,         \* the largest int, and the largest time.Duration
  PayloadUnit,    \* model.PayloadUnitBytes
  HeaderBytes,    \* of a packet: 40
  MaxMSS,         \* model.MaxMSSBytes
  MaxClients, MaxBackends, MaxCores, MaxHostQueue,
  DefaultTransport, DefaultHost

(* Widths and limits are not negative.                                     *)
ASSUME SettingsAssumption ==
  /\ MaxInt \in Nat /\ PayloadUnit \in Nat /\ HeaderBytes \in Nat /\ MaxMSS \in Nat
  /\ MaxClients \in Nat /\ MaxCores \in Nat /\ MaxHostQueue \in Nat

Rejected == [rejected |-> TRUE]
NoPatch == << >>
Ways == {"toLoadBalancer", "fromLoadBalancer"}

Smallest(a, b) == IF a < b THEN a ELSE b
Largest(a, b) == IF a > b THEN a ELSE b
Distinct(seq) == \A i, j \in DOMAIN seq : seq[i] = seq[j] => i = j

-----------------------------------------------------------------------------
(* Links.                                                                  *)

ValidLink(link) == link.bandwidth > 0 /\ link.queue >= 0

(* applyLinkPatch and applyStreamPatch                                     *)
Patched(config, patch) ==
  [f \in DOMAIN config \cup DOMAIN patch |-> IF f \in DOMAIN patch THEN patch[f] ELSE config[f]]

(* normalizeProfiles                                                       *)
Profiles(input) ==
  [id \in {input.profiles[i].id : i \in DOMAIN input.profiles} |->
     input.profiles[CHOOSE i \in DOMAIN input.profiles : input.profiles[i].id = id].config]

ProfilesAreValid(input) ==
  /\ Distinct([i \in DOMAIN input.profiles |-> input.profiles[i].id])
  /\ \A i \in DOMAIN input.profiles :
       /\ input.profiles[i].id # ""
       /\ ValidLink(Patched(input.link, input.profiles[i].config))

Uniform(link) == [way \in Ways |-> link]

(* resolveNetwork: a profile holds for both ways, a direction before it.   *)
ResolvedNetwork(base, network, profiles) ==
  LET profile == IF network.profile = "" THEN NoPatch ELSE profiles[network.profile]
  IN  [way \in Ways |-> Patched(Patched(base[way], profile), network[way])]

NetworkIsValid(base, network, profiles) ==
  /\ network.profile \in {""} \cup DOMAIN profiles
  /\ \A way \in Ways : ValidLink(ResolvedNetwork(base, network, profiles)[way])

-----------------------------------------------------------------------------
(* Streams.                                                                *)

(* normalizeStream: bytes = -1 stands for the packets.                     *)
ResolvedStream(stream) ==
  [stream EXCEPT !.bytes = IF @ = -1 THEN stream.packets * PayloadUnit ELSE @]

StreamIsValid(stream) ==
  /\ stream.packets >= 0 /\ stream.bytes >= -1 /\ stream.gap >= 0
  /\ stream.bytes = -1 => stream.packets <= MaxInt \div PayloadUnit
  /\ ResolvedStream(stream).bytes <= MaxInt - HeaderBytes

-----------------------------------------------------------------------------
(* Groups of clients.                                                      *)

GroupNetwork(input, group) ==
  ResolvedNetwork(Uniform(input.link), group.network, Profiles(input))

GroupStream(input, group) == Patched(input.stream, group.stream)

OverrideStreamResolvedEarly(input, group, override) ==
  ResolvedStream(Patched(ResolvedStream(GroupStream(input, group)), override.stream))

(* The packets of a group may still be overridden, so that its bytes are   *)
(* derived for each client.                                                *)
OverrideStream(input, group, override) ==
  ResolvedStream(Patched(GroupStream(input, group), override.stream))

ResolvedOverride(input, group, override) ==
  [index |-> override.index,
   network |-> ResolvedNetwork(GroupNetwork(input, group), override.network, Profiles(input)),
   stream |-> OverrideStream(input, group, override)]

(* normalizeGroup                                                          *)
NormalizedGroup(input, group) ==
  [id |-> group.id, count |-> group.count, startAt |-> group.startAt, gap |-> group.gap,
   network |-> GroupNetwork(input, group),
   stream |-> ResolvedStream(GroupStream(input, group)),
   overrides |-> SortedBy([i \in DOMAIN group.overrides |->
                             ResolvedOverride(input, group, group.overrides[i])],
                          [i \in DOMAIN group.overrides |-> group.overrides[i].index])]

GroupIsValid(input, group) ==
  /\ group.startAt >= 0 /\ group.gap >= 0
  /\ NetworkIsValid(Uniform(input.link), group.network, Profiles(input))
  /\ StreamIsValid(GroupStream(input, group))
  /\ Distinct([i \in DOMAIN group.overrides |-> group.overrides[i].index])
  /\ \A i \in DOMAIN group.overrides :
       LET override == group.overrides[i]
       IN  /\ override.index \in 0 .. group.count - 1
           /\ NetworkIsValid(GroupNetwork(input, group), override.network, Profiles(input))
           /\ StreamIsValid(Patched(GroupStream(input, group), override.stream))

(* NormalizedClientGroup.Client: the first override at or after the index. *)
Client(group, index) ==
  LET after == {i \in DOMAIN group.overrides : group.overrides[i].index >= index}
      first == CHOOSE i \in after : \A j \in after : i <= j
      own == after # {} /\ group.overrides[first].index = index
  IN  IF own THEN [network |-> group.overrides[first].network,
                   stream |-> group.overrides[first].stream]
      ELSE [network |-> group.network, stream |-> group.stream]

-----------------------------------------------------------------------------
(* Transport: normalizeTCP, normalizeRTO, normalizeCongestion and          *)
(* normalizeClose.                                                         *)

(* Fast retransmit is on by default unless there is no congestion control. *)
ResolvedTransport(tcp) ==
  LET resolved == Patched(DefaultTransport, tcp)
  IN  IF "fastRetransmit" \in DOMAIN tcp THEN resolved
      ELSE [resolved EXCEPT !.fastRetransmit = @ /\ resolved.mode # "none"]

TimersAreValid(t) ==
  /\ t.minimum > 0 /\ t.minimum <= t.initial /\ t.initial <= t.maximum
  /\ t.msl > 0 /\ t.msl <= MaxInt \div 2

(* A maximum of zero segments is no maximum.                               *)
WindowIsValid(t) ==
  LET maximumSegments == MaxInt \div t.mss
  IN  /\ t.mss \in 1 .. MaxMSS
      /\ t.maximumSegments \in 0 .. maximumSegments
      /\ t.initialSegments \in 1 .. maximumSegments
      /\ t.threshold \in 2 * t.mss .. MaxInt
      /\ t.mode = "none" => t.maximumSegments = 0

FeaturesAreValid(t) ==
  /\ t.fastRetransmit \/ t.ecn => t.mode # "none"
  /\ t.sack => t.fastRetransmit /\ t.mode \in {"reno", "newReno", "cubic"}

TransportIsValid(tcp) ==
  LET t == ResolvedTransport(tcp)
  IN  TimersAreValid(t) /\ WindowIsValid(t) /\ FeaturesAreValid(t)

(* newClassicWindow                                                        *)
NewWindow(t) ==
  LET maximum == IF t.maximumSegments > 0 THEN t.maximumSegments * t.mss ELSE MaxInt
      initial == Smallest(t.initialSegments * t.mss, maximum)
  IN  [maximum |-> maximum, cwnd |-> initial, startup |-> initial]

(* normalizeHost with host.Config.Validate: no counter of core or waiting  *)
(* time can overflow within the duration.                                  *)
HostIsValid(host, duration) ==
  LET h == Patched(DefaultHost, host)
  IN  /\ h.cores \in 1 .. MaxCores /\ h.cost >= 0 /\ h.queue \in 0 .. MaxHostQueue
      /\ \/ h.cost = 0 \/ duration = 0
         \/ Largest(h.cores, h.queue) <= MaxInt \div duration

-----------------------------------------------------------------------------
(* The types of a scenario (scenario/types.go): a patch states some of the *)
(* fields of what it patches.                                              *)

IsSeq(seq) == Len(seq) \in Nat /\ DOMAIN seq = 1 .. Len(seq)

Fields(config) == \A f \in DOMAIN config : config[f] \in Int

IsPatch(patch, config) == DOMAIN patch \subseteq DOMAIN config /\ Fields(patch)

IsNetwork(network, link) == \A way \in Ways : IsPatch(network[way], link)

GroupIsTyped(input, group) ==
  /\ group.count \in Int /\ group.startAt \in Int /\ group.gap \in Int
  /\ IsNetwork(group.network, input.link) /\ IsPatch(group.stream, input.stream)
  /\ IsSeq(group.overrides)
  /\ \A i \in DOMAIN group.overrides :
       /\ group.overrides[i].index \in Int
       /\ IsNetwork(group.overrides[i].network, input.link)
       /\ IsPatch(group.overrides[i].stream, input.stream)

(* The numbers of the transport and the CPUs, as resolved.                 *)
NumbersAreTyped(input) ==
  LET t == ResolvedTransport(input.tcp)
      h == Patched(DefaultHost, input.host)
  IN  /\ t.minimum \in Int /\ t.initial \in Int /\ t.maximum \in Int /\ t.msl \in Int
      /\ t.mss \in Int /\ t.maximumSegments \in Int /\ t.initialSegments \in Int
      /\ t.threshold \in Int
      /\ h.cores \in Int /\ h.cost \in Int /\ h.queue \in Int /\ input.duration \in Int

ScenarioIsTyped(input) ==
  /\ DOMAIN input.link = {"bandwidth", "queue"} /\ Fields(input.link)
  /\ DOMAIN input.stream = {"packets", "bytes", "gap"} /\ Fields(input.stream)
  /\ IsSeq(input.profiles) /\ IsSeq(input.backends) /\ IsSeq(input.groups)
  /\ \A i \in DOMAIN input.profiles : IsPatch(input.profiles[i].config, input.link)
  /\ \A i \in DOMAIN input.groups : GroupIsTyped(input, input.groups[i])
  /\ NumbersAreTyped(input)

-----------------------------------------------------------------------------
(* Normalize.                                                              *)

(* Host names that differ in case or spelling are one address.             *)
Endpoint(backend) == <<backend.host, backend.port>>

IDs(input) ==
  <<input.balancer>>
    \o [i \in DOMAIN input.backends |-> input.backends[i].id]
    \o [i \in DOMAIN input.groups |-> input.groups[i].id]

(* The clients of some groups, numbered within each, and how many the      *)
(* first i groups have.                                                    *)
ClientsOf(groups, G) == UNION {{i} \X (1 .. groups[i].count) : i \in G}

ClientsUpTo(groups, i) == Cardinality(ClientsOf(groups, 1 .. i))

Accepted(input) ==
  /\ input.duration >= 0
  /\ TransportIsValid(input.tcp)
  /\ ValidLink(input.link) /\ ProfilesAreValid(input) /\ StreamIsValid(input.stream)
  /\ HostIsValid(input.host, input.duration)
  /\ Len(input.backends) <= MaxBackends
  /\ \A i \in DOMAIN IDs(input) : IDs(input)[i] # ""
  /\ Distinct(IDs(input))
  /\ Distinct([i \in DOMAIN input.backends |-> Endpoint(input.backends[i])])
  /\ \A i \in DOMAIN input.backends :
       NetworkIsValid(Uniform(input.link), input.backends[i].network, Profiles(input))
  /\ \A i \in DOMAIN input.groups :
       /\ input.groups[i].count \in 0 .. MaxClients - ClientsUpTo(input.groups, i - 1)
       /\ GroupIsValid(input, input.groups[i])

Normalize(input) ==
  IF ~Accepted(input) THEN Rejected
  ELSE [groups |-> [i \in DOMAIN input.groups |-> NormalizedGroup(input, input.groups[i])],
        totalClients |-> ClientsUpTo(input.groups, Len(input.groups))]

-----------------------------------------------------------------------------
(* What the settings of one client should be: each field has the value of  *)
(* the highest layer that states it.                                       *)

Highest(layers) ==
  [f \in DOMAIN layers[1] |->
     LET stated == {i \in DOMAIN layers : f \in DOMAIN layers[i]}
     IN  layers[CHOOSE i \in stated : \A j \in stated : j <= i][f]]

NoOverride ==
  [network |-> [profile |-> "", toLoadBalancer |-> NoPatch, fromLoadBalancer |-> NoPatch],
   stream |-> NoPatch]

(* The positions of the overrides of one client.                           *)
OwnOverrides(group, index) == {i \in DOMAIN group.overrides : group.overrides[i].index = index}

OwnOverride(group, index) ==
  IF OwnOverrides(group, index) = {} THEN NoOverride
  ELSE group.overrides[CHOOSE i \in OwnOverrides(group, index) : TRUE]

ProfileOf(input, network) ==
  IF network.profile = "" THEN NoPatch ELSE Profiles(input)[network.profile]

ExpectedLink(input, group, own, way) ==
  Highest(<<input.link, ProfileOf(input, group.network), group.network[way],
            ProfileOf(input, own.network), own.network[way]>>)

ExpectedClient(input, group, index) ==
  LET own == OwnOverride(group, index)
      stream == Highest(<<input.stream, group.stream, own.stream>>)
  IN  [network |-> [way \in Ways |-> ExpectedLink(input, group, own, way)],
       stream |-> [stream EXCEPT !.bytes = IF @ >= 0 THEN @ ELSE PayloadUnit * stream.packets]]

(* A client has the settings of the most specific layer that states them,  *)
(* its bytes follow from its own packets, and the sum of a packet fits an  *)
(* int (normalize.go:265-506).                                             *)
ClientsAreAsSpecified(input) ==
  \A i \in DOMAIN input.groups : \A index \in 0 .. input.groups[i].count - 1 :
    LET client == Client(Normalize(input).groups[i], index)
    IN  /\ client = ExpectedClient(input, input.groups[i], index)
        /\ \A way \in Ways : ValidLink(client.network[way])
        /\ client.stream.bytes \in 0 .. MaxInt - HeaderBytes

(* What Congestion, Rto, Tcp and Host assume of their parameters, and that *)
(* the products they start from fit their integers.                        *)
PartsCanRely(input) ==
  LET t == ResolvedTransport(input.tcp)
      h == Patched(DefaultHost, input.host)
      w == NewWindow(t)
  IN  /\ t.minimum >= 1 /\ t.initial \in t.minimum .. t.maximum
      /\ 2 * t.msl \in 1 .. MaxInt
      /\ t.mss <= w.cwnd /\ w.cwnd <= w.maximum /\ w.maximum <= MaxInt
      /\ t.initialSegments * t.mss <= MaxInt
      /\ t.threshold >= 2 * t.mss
      /\ t.sack => t.mode # "none" /\ t.fastRetransmit
      /\ h.cost > 0 => /\ h.cores * input.duration <= MaxInt
                       /\ h.queue * input.duration <= MaxInt

(* No two parts of a world are taken for one another: identities and, in   *)
(* whatever spelling, endpoints are different, and there are addresses for *)
(* all clients (registerID, validateAddress, Normalize).                   *)
IdentitiesAreDistinct(input) ==
  /\ Cardinality({IDs(input)[i] : i \in DOMAIN IDs(input)}) = Len(IDs(input))
  /\ \A i, j \in DOMAIN input.backends :
       i # j => \/ input.backends[i].host # input.backends[j].host
                \/ input.backends[i].port # input.backends[j].port
  /\ Normalize(input).totalClients \in 0 .. MaxClients

Sound(input) ==
  Normalize(input) # Rejected =>
    ClientsAreAsSpecified(input) /\ PartsCanRely(input) /\ IdentitiesAreDistinct(input)
=============================================================================
