------------------------------- MODULE Health -------------------------------
(***************************************************************************)
(* The balancer's health check of one backend (balancer.go:326-346) with   *)
(* the backend's side of it (server.go:112-191).  Every round sends a      *)
(* probe and starts a timeout; the reply is an event of its own at the     *)
(* same virtual time, so a failure, a crash or the balancer's shutdown can *)
(* come between probe, reply and timeout.                                  *)
(*                                                                         *)
(* Backends are checked independently, so one is enough.  Times are kept   *)
(* as the time left.  Backend composes this with the CPU of the machine    *)
(* and states what is assumed of the constants.                            *)
(***************************************************************************)
EXTENDS Integers, FiniteSets

CONSTANTS
  HealthInterval, ProbeTimeout,
  MaxRounds       \* bound on check rounds

VARIABLES
  closed,    \* the balancer is shut down, its health map cleared
  serial, healthy,
  tickIn,    \* time until the next round, -1 when cancelled
  timeouts,  \* pending timeout events: their round and the time left
  handle,    \* the round whose timeout check.timeout can cancel
  active, killed,
  replies,   \* pending probe replies: their rounds
  (* history *)
  upFor,     \* how long the backend has been reachable, up to a cap
  downFor    \* how long it has not

lb == <<closed, serial, healthy, tickIn, timeouts, handle>>
backend == <<active, killed, replies>>
since == <<upFor, downFor>>
vars == <<lb, backend, since>>

Cap == HealthInterval + ProbeTimeout + 1
Up == active /\ ~killed
Later(t) == IF t < Cap THEN t + 1 ELSE Cap

(* AddServer has just registered the backend.                              *)
Init ==
  /\ closed = FALSE /\ serial = 0 /\ healthy = TRUE
  /\ tickIn = HealthInterval /\ timeouts = {} /\ handle = 0
  /\ active = TRUE /\ killed = FALSE /\ replies = {}
  /\ upFor = 0 /\ downFor = 0

-----------------------------------------------------------------------------
(* The tick: a new round, its timeout, the probe, and the next tick.  A    *)
(* backend that is down ignores the probe.                                 *)
Check ==
  /\ ~closed /\ tickIn = 0 /\ serial < MaxRounds
  /\ serial' = serial + 1
  /\ timeouts' = timeouts \cup {[round |-> serial + 1, left |-> ProbeTimeout]}
  /\ handle' = serial + 1
  /\ replies' = IF Up THEN replies \cup {serial + 1} ELSE replies
  /\ tickIn' = HealthInterval
  /\ UNCHANGED <<closed, healthy, active, killed, since>>

ReplyKeepsTimeout(r) ==
  /\ r \in replies
  /\ replies' = replies \ {r}
  /\ healthy' = (healthy \/ (Up /\ ~closed /\ serial = r))
  /\ UNCHANGED <<closed, serial, tickIn, timeouts, handle, active, killed, since>>

(* The reply of a backend that is still up counts for its own round only.  *)
Reply(r) ==
  /\ r \in replies
  /\ replies' = replies \ {r}
  /\ \/ /\ Up /\ ~closed /\ serial = r
        /\ timeouts' = {t \in timeouts : t.round # handle}
        /\ healthy' = TRUE
     \/ ~(Up /\ ~closed /\ serial = r) /\ UNCHANGED <<timeouts, healthy>>
  /\ UNCHANGED <<closed, serial, tickIn, handle, active, killed, since>>

(* The timeout counts only for the round that is still the latest.         *)
Expire(t) ==
  /\ t \in timeouts /\ t.left = 0
  /\ timeouts' = timeouts \ {t}
  /\ healthy' = (healthy /\ ~(~closed /\ serial = t.round))
  /\ UNCHANGED <<closed, serial, tickIn, handle, backend, since>>

-----------------------------------------------------------------------------
(* The backend.  A failure leaves pending replies alone, a crash cancels   *)
(* them.                                                                   *)
MarkFailed ==
  /\ ~killed
  /\ active' = FALSE
  /\ downFor' = IF Up THEN 0 ELSE downFor
  /\ UNCHANGED <<lb, killed, replies, upFor>>

MarkHealthy ==
  /\ ~killed
  /\ active' = TRUE
  /\ upFor' = IF Up THEN upFor ELSE 0
  /\ UNCHANGED <<lb, killed, replies, downFor>>

ServerShutdown ==
  /\ ~killed
  /\ killed' = TRUE /\ active' = FALSE /\ replies' = {}
  /\ downFor' = IF Up THEN 0 ELSE downFor
  /\ UNCHANGED <<lb, upFor>>

(* LoadBalancer.Shutdown cancels the tick and the timeout it has a handle  *)
(* of.                                                                     *)
BalancerShutdown ==
  /\ ~closed /\ closed' = TRUE
  /\ tickIn' = -1
  /\ timeouts' = {t \in timeouts : t.round # handle}
  /\ UNCHANGED <<serial, healthy, handle, backend, since>>

(* Time passes when nothing is due.                                        *)
Tick ==
  /\ tickIn # 0 /\ replies = {} /\ \A t \in timeouts : t.left > 0
  /\ tickIn' = IF tickIn > 0 THEN tickIn - 1 ELSE tickIn
  /\ timeouts' = {[t EXCEPT !.left = @ - 1] : t \in timeouts}
  /\ upFor' = IF Up THEN Later(upFor) ELSE upFor
  /\ downFor' = IF Up THEN downFor ELSE Later(downFor)
  /\ UNCHANGED <<closed, serial, healthy, handle, backend>>

Next ==
  \/ Check
  \/ \E r \in replies : Reply(r)
  \/ \E t \in timeouts : Expire(t)
  \/ MarkFailed \/ MarkHealthy \/ ServerShutdown
  \/ BalancerShutdown
  \/ Tick

Spec == Init /\ [][Next]_vars

-----------------------------------------------------------------------------
TypeOK ==
  /\ closed \in BOOLEAN /\ healthy \in BOOLEAN
  /\ active \in BOOLEAN /\ killed \in BOOLEAN
  /\ serial \in 0 .. MaxRounds /\ handle \in 0 .. MaxRounds
  /\ tickIn \in -1 .. HealthInterval
  /\ timeouts \in SUBSET [round : 1 .. MaxRounds, left : 0 .. ProbeTimeout]
  /\ replies \in SUBSET (1 .. MaxRounds)
  /\ upFor \in 0 .. Cap /\ downFor \in 0 .. Cap

(* A failure or crash is noticed within one interval and one timeout, even *)
(* when it comes between a probe and its reply (balancer.go:333-343,       *)
(* server.go:177-191).                                                     *)
DownIsNoticed ==
  ~closed /\ ~Up /\ downFor > HealthInterval + ProbeTimeout => ~healthy

(* A backend that is reachable again is believed healthy after one         *)
(* interval: an earlier timeout does not keep it out (balancer.go:338-343).*)
UpIsNoticed == ~closed /\ Up /\ upFor > HealthInterval => healthy

(* Both, since a backend that flaps must satisfy the one after the other.  *)
ChangesAreNoticed == DownIsNoticed /\ UpIsNoticed

(* The single handle is enough: no timeout of an earlier round is ever     *)
(* pending, so a shutdown leaves no timer behind (balancer.go:332,         *)
(* 371-374), and no timer runs past its time (TypeOK).                     *)
ShutdownIsQuiet ==
  /\ TypeOK
  /\ \A t \in timeouts : t.round = serial /\ t.round = handle
  /\ closed => timeouts = {} /\ tickIn = -1

(* A backend that was reachable during the whole wait for its answer is    *)
(* never marked unhealthy (balancer.go:332-342).                           *)
AnswerIsNotOverruled ==
  [][healthy /\ ~healthy' => ~Up \/ upFor <= ProbeTimeout]_vars

=============================================================================
