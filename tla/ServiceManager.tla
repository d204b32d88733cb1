--------------------------- MODULE ServiceManager ---------------------------
(***************************************************************************)
(* core::ServiceManager: a catalog of services is started in order, each   *)
(* critical or optional, and stopped in reverse.  start() and stop() of a  *)
(* service are callbacks, in which the manager can be called again: what   *)
(* then refuses the call is only the lifecycle.                            *)
(***************************************************************************)
EXTENDS Naturals, Sequences, FiniteSets, SequencesExt, Lifecycle

CONSTANTS Services,    \* the services there are
          Criticals,   \* which of them may be registered as critical, a set of sets
          Capacity     \* kMaxServices

ASSUME ServicesAssumption ==
  /\ Criticals \subseteq SUBSET Services
  /\ Capacity \in Nat

VARIABLES
  lifecycle,   \* lifecycle_
  services,    \* services_, with health_ beside it
  health,      \* HealthRecord::state of the registered services
  started,     \* started_count_
  index,       \* the service a call of start_all or stop_all is at
  phase,       \* which call that is
  running,     \* the services that hold resources
  critical     \* those registered as critical

vars == <<lifecycle, services, health, started, index, phase, running, critical>>

Health == {"unknown", "starting", "healthy", "degraded", "failed", "stopped"}

Init ==
  /\ lifecycle = "stopped"
  /\ services = <<>> /\ health = <<>>
  /\ started = 0 /\ index = 0 /\ phase = "None"
  /\ running = {}
  /\ critical \in Criticals

SetHealth(i, h) == health' = [health EXCEPT ![i] = h]

\* register_services, a batch that is rejected as a whole when it has a
\* duplicate or does not fit
Register(batch) ==
  /\ lifecycle = "stopped"
  /\ ToSet(batch) \cap ToSet(services) = {}
  /\ Len(services) + Len(batch) <= Capacity
  /\ services' = services \o batch
  /\ health' = health \o [i \in 1..Len(batch) |-> "unknown"]
  /\ UNCHANGED <<lifecycle, started, index, phase, running, critical>>

StartAll ==
  /\ BeginStart(lifecycle).acquire
  /\ lifecycle' = "starting" /\ phase' = "Start"
  /\ started' = 0 /\ index' = 1
  /\ UNCHANGED <<services, health, running, critical>>

AtService == phase = "Start" /\ index <= Len(services)

BeginService ==
  /\ AtService /\ health[index] # "starting"
  /\ SetHealth(index, "starting")
  /\ UNCHANGED <<lifecycle, services, started, index, phase, running, critical>>

ServiceStarted ==
  /\ AtService /\ health[index] = "starting"
  /\ SetHealth(index, "healthy")
  /\ running' = running \cup {services[index]}
  /\ started' = started + 1 /\ index' = index + 1
  /\ UNCHANGED <<lifecycle, services, phase, critical>>

\* Mutant: a degraded service does not count as started.
ServiceDegradedUncounted ==
  /\ AtService /\ health[index] = "starting"
  /\ services[index] \notin critical
  /\ SetHealth(index, "degraded")
  /\ \E held \in SUBSET {services[index]} : running' = running \cup held
  /\ index' = index + 1
  /\ UNCHANGED <<lifecycle, services, phase, started, critical>>

\* A failed optional service participates: it may hold resources and is
\* stopped with the others.
ServiceDegraded ==
  /\ AtService /\ health[index] = "starting"
  /\ services[index] \notin critical
  /\ SetHealth(index, "degraded")
  /\ \E held \in SUBSET {services[index]} : running' = running \cup held
  /\ started' = started + 1 /\ index' = index + 1
  /\ UNCHANGED <<lifecycle, services, phase, critical>>

\* A failed critical service is stopped, and then those before it.
ServiceFailed ==
  /\ AtService /\ health[index] = "starting"
  /\ services[index] \in critical
  /\ SetHealth(index, "failed")
  /\ phase' = "Rollback" /\ index' = started
  /\ UNCHANGED <<lifecycle, services, started, running, critical>>

AllStarted ==
  /\ phase = "Start" /\ index > Len(services)
  /\ lifecycle' = "running" /\ phase' = "None"
  /\ UNCHANGED <<services, health, started, index, running, critical>>

StopAll ==
  /\ phase = "None" /\ BeginStop(lifecycle).release
  /\ lifecycle' = "stopping" /\ phase' = "Stop"
  /\ index' = started
  /\ UNCHANGED <<services, health, started, running, critical>>

\* Mutant: the health record does not follow a stop.
StopServiceSilently ==
  /\ phase \in {"Stop", "Rollback"} /\ index > 0
  /\ running' = running \ {services[index]}
  /\ index' = index - 1
  /\ UNCHANGED <<lifecycle, services, health, started, phase, critical>>

\* Mutant: services are stopped in start order.
StopServiceFirst ==
  /\ phase \in {"Stop", "Rollback"} /\ index > 0
  /\ running' = running \ {services[started + 1 - index]}
  /\ SetHealth(started + 1 - index, "stopped")
  /\ index' = index - 1
  /\ UNCHANGED <<lifecycle, services, started, phase, critical>>

StopService ==
  /\ phase \in {"Stop", "Rollback"} /\ index > 0
  /\ running' = running \ {services[index]}
  /\ SetHealth(index, "stopped")
  /\ index' = index - 1
  /\ UNCHANGED <<lifecycle, services, started, phase, critical>>

AllStopped ==
  /\ phase \in {"Stop", "Rollback"} /\ index = 0
  /\ started' = 0
  /\ lifecycle' = "stopped" /\ phase' = "None"
  /\ UNCHANGED <<services, health, index, running, critical>>

\* clear(), once its stop_all has returned
Clear ==
  /\ phase = "None" /\ lifecycle = "stopped"
  /\ services' = <<>> /\ health' = <<>>
  /\ UNCHANGED <<lifecycle, started, index, phase, running, critical>>

-----------------------------------------------------------------------------
(* Properties *)

(* Types, and every service has its health record.                          *)
TypeOK ==
  /\ lifecycle \in LifecycleState
  /\ services \in Seq(Services) /\ health \in Seq(Health)
  /\ Len(health) = Len(services) /\ Len(services) <= Capacity
  /\ started \in 0..Len(services)
  /\ index \in 0..Capacity + 1
  /\ phase \in {"None", "Start", "Rollback", "Stop"}
  /\ running \subseteq Services /\ critical \in Criticals

(***************************************************************************)
(* The services that hold resources are always among those a stop will     *)
(* reach: the active prefix, and nothing once the manager is stopped.  A   *)
(* failed critical service cleans up after itself before the others are    *)
(* stopped, and a degraded one is not forgotten.                           *)
(***************************************************************************)
Prefix == {services[i] : i \in 1..started}

StopReachesRunning ==
  /\ running \subseteq Prefix
  /\ lifecycle = "stopped" => running = {}

(***************************************************************************)
(* Health records are honest between calls: a stopped manager shows no     *)
(* service as starting, healthy or degraded, a running one all of them.    *)
(***************************************************************************)
HealthIsHonest ==
  phase = "None" => \A i \in DOMAIN health :
    health[i] \in {"healthy", "degraded"} <=> lifecycle = "running"

=============================================================================
