------------------------------ MODULE MCWorld ------------------------------
(***************************************************************************)
(* A model-checking instance of World, and with it of Engine and Settings: *)
(* families of scenarios that each vary one section, and some that run.    *)
(***************************************************************************)
EXTENDS World, TLC

MCDefaultTransport ==
  [mss |-> 2, initial |-> 3, minimum |-> 1, maximum |-> 8, msl |-> 4, mode |-> "reno",
   fastRetransmit |-> TRUE, initialSegments |-> 2, maximumSegments |-> 0,
   threshold |-> 63, sack |-> FALSE, ecn |-> FALSE]

MCDefaultHost == [cores |-> 1, cost |-> 0, queue |-> 4]

MCAlphabet == <<"a", "b", "c">>

Plain == [profile |-> "", toLoadBalancer |-> NoPatch, fromLoadBalancer |-> NoPatch]

Group(id, count, startAt, gap) ==
  [id |-> id, count |-> count, startAt |-> startAt, gap |-> gap, network |-> Plain,
   stream |-> NoPatch, overrides |-> << >>]

Override(index) == [index |-> index, network |-> Plain, stream |-> NoPatch]

Scenario ==
  [duration |-> 2, tcp |-> NoPatch, host |-> NoPatch, balancer |-> "lb", backends |-> << >>,
   link |-> [bandwidth |-> 1, queue |-> 2],
   profiles |-> <<[id |-> "slow", config |-> [queue |-> 3]]>>,
   stream |-> [packets |-> 2, bytes |-> -1, gap |-> 0],
   groups |-> <<Group("a", 1, 0, 0)>>]

(* Links: defaults, a profile and both ways, for a group and one client.   *)
LinkPatches == {NoPatch, [queue |-> 5], [bandwidth |-> 0], [bandwidth |-> 4, queue |-> -1]}
Networks ==
  {[profile |-> p, toLoadBalancer |-> l, fromLoadBalancer |-> NoPatch] :
     p \in {"", "slow", "unknown"}, l \in LinkPatches}
Links ==
  {[Scenario EXCEPT !.groups =
      <<[Group("a", 2, 0, 0) EXCEPT !.network = n,
           !.overrides = <<[Override(1) EXCEPT !.network = m]>>]>>] :
     n \in Networks, m \in Networks}

(* Streams: packets and bytes, for a group and two clients listed in any   *)
(* order.                                                                  *)
StreamPatches ==
  {NoPatch, [packets |-> 5], [packets |-> 40], [bytes |-> -1], [bytes |-> 58], [bytes |-> 59]}
Streams ==
  {[Scenario EXCEPT !.stream.bytes = d,
      !.groups = <<[Group("a", 3, 0, 0) EXCEPT !.stream = g,
        !.overrides = <<[Override(i) EXCEPT !.stream = o], [Override(j) EXCEPT !.stream = p]>>]>>] :
     d \in {-1, 7}, g \in StreamPatches, o \in StreamPatches, p \in {NoPatch, [packets |-> 1]},
     i \in {1, 2, 3}, j \in {0, 1}}

(* Timers, windows and features.                                           *)
Timers ==
  {[Scenario EXCEPT !.tcp = [initial |-> i, minimum |-> n, maximum |-> x, msl |-> m]] :
     i \in {0, 1, 9}, n \in {0, 1, 2}, x \in {1, 9}, m \in {0, 1, 31, 32}}
Windows ==
  {[Scenario EXCEPT !.tcp = [mss |-> s, initialSegments |-> i, maximumSegments |-> x,
                             threshold |-> h]] :
     s \in {0, 2, 20, 21}, i \in {0, 1, 3, 32}, x \in {0, 1, 3, 31, 32}, h \in {3, 4, 40, 63}}
Features ==
  {[Scenario EXCEPT !.tcp = [mode |-> m, sack |-> s, ecn |-> e] @@ f] :
     m \in {"none", "reno", "tahoe"}, s \in BOOLEAN, e \in BOOLEAN,
     f \in {NoPatch, [fastRetransmit |-> TRUE], [fastRetransmit |-> FALSE]}}
Hosts ==
  {[Scenario EXCEPT !.duration = d, !.host = [cores |-> c, cost |-> t, queue |-> q]] :
     d \in {-1, 0, 7, 8, 63}, c \in {0, 1, 8}, t \in {0, 1}, q \in {-1, 0, 8, 9}}

(* Identities: backends with equivalent addresses, groups out of order.    *)
Backend(id, host, spelling) ==
  [id |-> id, host |-> host, spelling |-> spelling, port |-> 80, network |-> Plain]
Identities ==
  {[Scenario EXCEPT
      !.backends = <<Backend("s", "h", "H"), Backend(i, h, "h")>>,
      !.groups = <<Group(g, m, 0, 0), Group("a", n, 0, 0)>>] :
     i \in {"s", "t", "lb"}, h \in {"h", "k"}, g \in {"a", "b", "s"},
     m \in {0, 2, 6}, n \in {0, 3, 4}}

(* Scenarios that run: two groups against the order of their names, of     *)
(* which one has an exception; one group alone; and an empty group beside  *)
(* one that would start after the end.                                     *)
TwoGroups ==
  [Scenario EXCEPT !.groups =
     <<Group("b", 1, 1, 0),
       [Group("a", 2, 0, 1) EXCEPT !.overrides = <<[Override(1) EXCEPT !.stream = [bytes |-> 1]]>>]>>]
OneGroup == [Scenario EXCEPT !.groups = <<Group("a", 2, 1, 0)>>]
LateGroup == [Scenario EXCEPT !.groups = <<Group("b", 0, 0, 0), Group("a", 1, 4, 0)>>]

MCPlayed == {TwoGroups, OneGroup, LateGroup}
MCInputs ==
  MCPlayed \cup Links \cup Streams \cup Timers \cup Windows \cup Features \cup Hosts \cup Identities

MCSpawns == {[count |-> 1, group |-> "b"], [count |-> 2, group |-> ""], [count |-> 3, group |-> "a"]}
=============================================================================
