------------------------------ MODULE Backend ------------------------------
(***************************************************************************)
(* A backend as the balancer sees it (server/server.go, server/tcp.go):    *)
(* one machine whose CPU (Host) and whose answers to health probes         *)
(* (Health) fail, crash and recover together, on one virtual clock.        *)
(*                                                                         *)
(* Each operation of the server is one step: it changes its own flags, and *)
(* the CPU and the pending replies with them.                              *)
(***************************************************************************)
EXTENDS Host

CONSTANTS HealthInterval, ProbeTimeout, MaxRounds

VARIABLES
  closed, serial, healthy, tickIn, timeouts, handle,  \* the balancer's check
  serverActive, killed, replies,                      \* Active, Killed, probeEvents
  upFor, downFor                                      \* history of the check

Probe == INSTANCE Health WITH active <- serverActive

ASSUME BackendAssumption ==
  /\ HealthInterval \in Nat /\ ProbeTimeout \in Nat \ {0}
  /\ ProbeTimeout < HealthInterval
  /\ MaxRounds \in Nat

cpu == vars
check == <<closed, serial, healthy, tickIn, timeouts, handle, serverActive,
           killed, replies, upFor, downFor>>
machine == <<cpu, check>>

Up == serverActive /\ ~killed

BackendInit == Init /\ Probe!Init

-----------------------------------------------------------------------------
HandlePacketAlways ==
  /\ SubmitBypass \/ SubmitStarts \/ SubmitDrops \/ SubmitWaits
  /\ UNCHANGED <<cost, check>>

(* HandlePacketIf: a machine that is down does not even take the packet.   *)
HandlePacket ==
  /\ Up
  /\ SubmitBypass \/ SubmitStarts \/ SubmitDrops \/ SubmitWaits
  /\ UNCHANGED <<cost, check>>

(* The CPU finishes a packet, which the callback hands to TCP.             *)
Processed == (\E p \in Packets : Complete(p)) /\ UNCHANGED <<cost, check>>

(* A failure takes the work of the CPU with it, a crash stops it for good. *)
MarkFailed == Probe!MarkFailed /\ DiscardPending /\ UNCHANGED cost
Shutdown == Probe!ServerShutdown /\ Stop /\ UNCHANGED cost
MarkHealthy == Probe!MarkHealthy /\ UNCHANGED cpu

(* The rounds of the health check leave the CPU alone.                     *)
HealthCheck ==
  /\ \/ Probe!Check
     \/ \E r \in replies : Probe!Reply(r)
     \/ \E t \in timeouts : Probe!Expire(t)
     \/ Probe!BalancerShutdown
  /\ UNCHANGED cpu

TimePasses == Tick /\ Probe!Tick /\ UNCHANGED cost

BackendNext ==
  \/ HandlePacket \/ Processed
  \/ MarkFailed \/ Shutdown \/ MarkHealthy
  \/ HealthCheck
  \/ TimePasses

BackendSpec == BackendInit /\ [][BackendNext]_machine

-----------------------------------------------------------------------------
(* A machine that is down does nothing: its CPU holds no packet that could *)
(* still be handed to TCP, and after a crash no reply is left either and   *)
(* the CPU takes nothing more (server.go:112-143, host.go:181-206).        *)
DownIsQuiet ==
  /\ ~Up => active = {} /\ queue = << >>
  /\ killed => stopped /\ replies = {}
  /\ stopped => killed

(* The checks find out about every change of the machine in bounded time,  *)
(* leave no timer behind, and never see a machine that is down but works.  *)
ChangesAreNoticed ==
  Probe!ChangesAreNoticed /\ Probe!ShutdownIsQuiet /\ DownIsQuiet

(* A backend that was reachable during the whole wait for its answer is    *)
(* never marked unhealthy, whatever its CPU does (balancer.go:332-342).    *)
AnswerIsNotOverruled == Probe!AnswerIsNotOverruled
=============================================================================
