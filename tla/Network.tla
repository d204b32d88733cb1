------------------------------ MODULE Network ------------------------------
(***************************************************************************)
(* The network stack: NetworkService over FirmwareNetworkTransport over    *)
(* FirmwareWifiPlatform and FirmwareProvisioningServer.  Three tasks run   *)
(* in it.  The UI task starts and stops the service, the event loop task   *)
(* delivers Wi-Fi and IP events, and the HTTP server's task handles a      *)
(* submitted form.  Radio, event loop and HTTP server are external.        *)
(***************************************************************************)
EXTENDS Naturals, Sequences, Lifecycle

(***************************************************************************)
(* What the scheduling of a behaviour may do: an answer of the radio       *)
(* overtakes start(), an event of a stopped session reaches the next one,  *)
(* a stop overtakes a server start on the event task.                      *)
(***************************************************************************)
Races == {"early", "stale", "overlap"}

CONSTANTS MaxRetries,   \* NetworkConnectionPolicy::maximum_retries
          MaxEvents,    \* length of the event loop's queue
          Timings       \* the timings a behaviour may have

ASSUME NetworkAssumption ==
  /\ MaxRetries \in Nat
  /\ MaxEvents \in Nat
  /\ Timings \subseteq SUBSET Races

VARIABLES
  svc, tr, wf, sv,   \* lifecycles: service, transport, Wi-Fi platform, server
  conn, retry,       \* NetworkConnectionPolicy: state_, retry_count_
  wired,             \* transport's observer_ and provisioner_, the platform's events_
  handlers,          \* the SDK event handlers are registered
  provisioner,       \* the server's provisioner_
  handle,            \* the server's server_
  httpd,             \* HTTP servers alive in the SDK
  radio, queue,      \* the radio and the events it has posted (RadioStates)
  creds,             \* credentials are in persistent storage
  pc,                \* where each of the tasks "ui", "ev" and "http" is
  timing             \* the races of this behaviour; no step changes it

(***************************************************************************)
(* A station that is "trying" associates, fails, or was "refused" by       *)
(* esp_wifi_connect and does nothing; once it "joined" the access point it *)
(* waits for an address, with which it is "linked".                        *)
(***************************************************************************)
RadioStates == {"off", "idle", "refused", "trying", "joined", "linked", "ap"}

lifecycles == <<svc, tr, wf, sv>>
policy == <<conn, retry>>
server == <<provisioner, handle, httpd>>
sdk == <<radio, queue>>
kept == <<creds, timing>>   \* what a restart keeps
vars == <<lifecycles, policy, wired, handlers, server, sdk, kept, pc>>

Goto(t, l) == pc' = [pc EXCEPT ![t] = l]

AllIdle == [t \in {"ui", "ev", "http"} |-> "Idle"]

Init ==
  /\ svc = "stopped" /\ tr = "stopped" /\ wf = "stopped" /\ sv = "stopped"
  /\ conn = "stopped" /\ retry = 0
  /\ wired = FALSE /\ handlers = FALSE
  /\ provisioner = FALSE /\ handle = FALSE /\ httpd = 0
  /\ radio = "off" /\ queue = <<>>
  /\ creds \in BOOLEAN
  /\ pc = AllIdle
  /\ timing \in Timings

-----------------------------------------------------------------------------
(* NetworkService::start, FirmwareNetworkTransport::start on the UI task    *)

StartService ==
  /\ pc["ui"] = "Idle"
  /\ BeginStart(svc).acquire
  /\ svc' = "starting"
  /\ Goto("ui", "TransportStart")
  /\ UNCHANGED <<tr, wf, sv, policy, wired, handlers, server, sdk, kept>>

TransportStart ==
  /\ pc["ui"] = "TransportStart"
  /\ IF BeginStart(tr).acquire
     THEN /\ tr' = "starting" /\ wired' = TRUE
          /\ Goto("ui", "WifiStart")
          /\ UNCHANGED svc
     ELSE /\ svc' = "stopped"
          /\ Goto("ui", "Idle")
          /\ UNCHANGED <<tr, wired>>
  /\ UNCHANGED <<wf, sv, policy, handlers, server, sdk, kept>>

WifiStarted ==
  /\ pc["ui"] = "WifiStart"
  /\ BeginStart(wf).acquire
  /\ "stale" \in timing \/ queue = <<>>
  /\ wf' = "running" /\ handlers' = TRUE
  /\ Goto("ui", "Started")
  /\ UNCHANGED <<svc, tr, sv, policy, wired, server, sdk, kept>>

WifiFailed ==
  /\ pc["ui"] = "WifiStart"
  /\ tr' = "stopped" /\ wired' = FALSE /\ svc' = "stopped"
  /\ Goto("ui", "Idle")
  /\ UNCHANGED <<wf, sv, policy, handlers, server, sdk, kept>>

TransportStarted ==
  /\ pc["ui"] = "Started"
  /\ tr' = "running"
  /\ Goto("ui", IF creds THEN "Station" ELSE "AccessPoint")
  /\ UNCHANGED <<svc, wf, sv, policy, wired, handlers, server, sdk, kept>>

StationStarts ==
  /\ pc["ui"] = "Station"
  /\ \/ radio' = "trying" /\ Goto("ui", "StationStarted")
     \/ radio' = "idle" /\ Goto("ui", "AccessPoint")
  /\ UNCHANGED <<lifecycles, policy, wired, handlers, server, queue, kept>>

StationStarted ==
  /\ pc["ui"] = "StationStarted"
  /\ conn' = "connecting" /\ retry' = 0 /\ svc' = "running"
  /\ Goto("ui", "Idle")
  /\ UNCHANGED <<tr, wf, sv, wired, handlers, server, sdk, kept>>

AccessPointStarts ==
  /\ pc["ui"] = "AccessPoint"
  /\ \/ radio' = "ap" /\ Goto("ui", "ServerBegin")
     \/ radio' = "idle" /\ Goto("ui", "TransportStop")
  /\ UNCHANGED <<lifecycles, policy, wired, handlers, server, queue, kept>>

ProvisioningStarted ==
  /\ pc["ui"] = "Provisioning"
  /\ conn' = "provisioning" /\ retry' = 0 /\ svc' = "running"
  /\ Goto("ui", "Idle")
  /\ UNCHANGED <<tr, wf, sv, wired, handlers, server, sdk, kept>>

-----------------------------------------------------------------------------
(* FirmwareProvisioningServer::start, by the UI task for the access point   *)
(* and by the event task after every address                                *)

AfterStart(t, ok) ==
  IF t = "ev" THEN "Notify" ELSE IF ok THEN "Provisioning" ELSE "TransportStop"

ServerBegin(t) ==
  /\ pc[t] = "ServerBegin"
  /\ sv' = BeginStart(sv).state
  /\ Goto(t, IF BeginStart(sv).acquire THEN "ServerBind"
             ELSE AfterStart(t, BeginStart(sv).ok /\ provisioner))
  /\ UNCHANGED <<svc, tr, wf, policy, wired, handlers, server, sdk, kept>>

ServerBind(t) ==
  /\ pc[t] = "ServerBind"
  /\ provisioner' = TRUE
  /\ Goto(t, "ServerHttpd")
  /\ UNCHANGED <<lifecycles, policy, wired, handlers, handle, httpd, sdk, kept>>

\* httpd_start; the SDK refuses a second server on the port.
ServerHttpd(t) ==
  /\ pc[t] = "ServerHttpd"
  /\ \/ /\ httpd = 0
        /\ httpd' = httpd + 1
        /\ Goto(t, "ServerStore")
     \/ /\ httpd' = httpd
        /\ Goto(t, "ServerStop")
  /\ UNCHANGED <<lifecycles, policy, wired, handlers, provisioner, handle, sdk, kept>>

ServerStore(t) ==
  /\ pc[t] = "ServerStore"
  /\ handle' = TRUE
  /\ Goto(t, "ServerRoutes")
  /\ UNCHANGED <<lifecycles, policy, wired, handlers, provisioner, httpd, sdk, kept>>

\* All routes registered, or one refused.  Another task may have stopped the
\* server: the handle is then dangling, and of what its use may do the model
\* has the two outcomes in which the program goes on.
ServerRoutes(t) ==
  /\ pc[t] = "ServerRoutes"
  /\ \/ sv' = "running" /\ Goto(t, AfterStart(t, TRUE))
     \/ sv' = sv /\ Goto(t, "ServerStop")
  /\ UNCHANGED <<svc, tr, wf, policy, wired, handlers, server, sdk, kept>>

-----------------------------------------------------------------------------
(* FirmwareProvisioningServer::stop, by the UI task in the transport's stop *)
(* and by either task after its own failed start                            *)

AfterStop(t) ==
  IF t = "ui" /\ tr = "stopping" THEN "WifiStop" ELSE AfterStart(t, FALSE)

EventStartsServer ==
  pc["ev"] \in {"ServerBegin", "ServerBind", "ServerHttpd", "ServerStore", "ServerRoutes"}

ServerStop(t) ==
  /\ pc[t] = "ServerStop"
  /\ "overlap" \in timing \/ ~EventStartsServer
  /\ sv' = AtomicBeginStop(sv).state
  /\ IF AtomicBeginStop(sv).release
     THEN provisioner' = FALSE /\ Goto(t, "ServerTake")
     ELSE provisioner' = provisioner /\ Goto(t, AfterStop(t))
  /\ UNCHANGED <<svc, tr, wf, policy, wired, handlers, handle, httpd, sdk, kept>>

\* Mutant: the handle is read, not exchanged for null.
ServerTakeLoad(t) ==
  /\ pc[t] = "ServerTake"
  /\ Goto(t, IF handle THEN "ServerHttpdStop" ELSE "ServerStopped")
  /\ UNCHANGED <<lifecycles, policy, wired, handlers, server, sdk, kept>>

ServerTake(t) ==
  /\ pc[t] = "ServerTake"
  /\ handle' = FALSE
  /\ Goto(t, IF handle THEN "ServerHttpdStop" ELSE "ServerStopped")
  /\ UNCHANGED <<lifecycles, policy, wired, handlers, provisioner, httpd, sdk, kept>>

\* Mutant: the SDK does not wait for the request.
ServerHttpdStopAsync(t) ==
  /\ pc[t] = "ServerHttpdStop"
  /\ httpd' = httpd - 1
  /\ Goto(t, "ServerStopped")
  /\ UNCHANGED <<lifecycles, policy, wired, handlers, provisioner, handle, sdk, kept>>

\* httpd_stop waits for the request the server is handling.
ServerHttpdStop(t) ==
  /\ pc[t] = "ServerHttpdStop"
  /\ pc["http"] = "Idle"
  /\ httpd' = httpd - 1
  /\ Goto(t, "ServerStopped")
  /\ UNCHANGED <<lifecycles, policy, wired, handlers, provisioner, handle, sdk, kept>>

ServerStopped(t) ==
  /\ pc[t] = "ServerStopped"
  /\ sv' = "stopped"
  /\ Goto(t, AfterStop(t))
  /\ UNCHANGED <<svc, tr, wf, policy, wired, handlers, server, sdk, kept>>

-----------------------------------------------------------------------------
(* NetworkService::stop, FirmwareNetworkTransport::stop and                 *)
(* FirmwareWifiPlatform::stop on the UI task; a failed start joins at       *)
(* TransportStop                                                            *)

StopService ==
  /\ pc["ui"] = "Idle"
  /\ BeginStop(svc).release
  /\ svc' = "stopping"
  /\ Goto("ui", "TransportStop")
  /\ UNCHANGED <<tr, wf, sv, policy, wired, handlers, server, sdk, kept>>

TransportStop ==
  /\ pc["ui"] = "TransportStop"
  /\ AtomicBeginStop(tr).release
  /\ tr' = "stopping" /\ wired' = FALSE
  /\ Goto("ui", "ServerStop")
  /\ UNCHANGED <<svc, wf, sv, policy, handlers, server, sdk, kept>>

WifiStop ==
  /\ pc["ui"] = "WifiStop"
  /\ AtomicBeginStop(wf).release
  /\ wf' = "stopping"
  /\ Goto("ui", "Unregister")
  /\ UNCHANGED <<svc, tr, sv, policy, wired, handlers, server, sdk, kept>>

\* A station that had joined posts its disconnection.
Release ==
  /\ handlers' = FALSE /\ radio' = "off"
  /\ queue' = IF radio \in {"joined", "linked"} /\ Len(queue) < MaxEvents
              THEN Append(queue, "lost") ELSE queue
  /\ wf' = "stopped" /\ tr' = "stopped"
  /\ Goto("ui", "ServiceStopped")
  /\ UNCHANGED <<svc, sv, policy, wired, server, kept>>

\* The SDK unregisters a handler only while it is not running.
Unregister == pc["ui"] = "Unregister" /\ pc["ev"] = "Idle" /\ Release

\* Mutant: the policy is not reset.
ServiceStoppedKeepsPolicy ==
  /\ pc["ui"] = "ServiceStopped"
  /\ svc' = "stopped"
  /\ Goto("ui", "Idle")
  /\ UNCHANGED <<tr, wf, sv, policy, wired, handlers, server, sdk, kept>>

ServiceStopped ==
  /\ pc["ui"] = "ServiceStopped"
  /\ IF svc = "stopping" THEN conn' = "stopped" /\ retry' = 0
                         ELSE UNCHANGED policy
  /\ svc' = "stopped"
  /\ Goto("ui", "Idle")
  /\ UNCHANGED <<tr, wf, sv, wired, handlers, server, sdk, kept>>

-----------------------------------------------------------------------------
(* The event loop task: FirmwareWifiPlatform::event_handler, the            *)
(* transport's wifi_connected and wifi_disconnected, the service's          *)
(* network_connected and network_disconnected                               *)

EventHandler ==
  /\ pc["ev"] = "Idle" /\ queue # <<>>
  /\ queue' = Tail(queue)
  /\ Goto("ev", IF handlers /\ wf = "running" /\ wired
                THEN IF Head(queue) = "got_ip" THEN "Got" ELSE "Lost"
                ELSE "Idle")
  /\ UNCHANGED <<lifecycles, policy, wired, handlers, server, radio, kept>>

WifiConnected ==
  /\ pc["ev"] = "Got"
  /\ Goto("ev", IF tr # "running" THEN "Idle" ELSE IF wired THEN "ServerBegin" ELSE "Notify")
  /\ UNCHANGED <<lifecycles, policy, wired, handlers, server, sdk, kept>>

\* Mutant: the callback waits for the calls of the UI task.
NetworkConnectedLocked ==
  /\ pc["ev"] = "Notify" /\ pc["ui"] = "Idle"
  /\ Goto("ev", IF wired /\ svc = "running" THEN "Connected" ELSE "Idle")
  /\ UNCHANGED <<lifecycles, policy, wired, handlers, server, sdk, kept>>

NetworkConnected ==
  /\ pc["ev"] = "Notify"
  /\ Goto("ev", IF wired /\ svc = "running" THEN "Connected" ELSE "Idle")
  /\ UNCHANGED <<lifecycles, policy, wired, handlers, server, sdk, kept>>

Connected ==
  /\ pc["ev"] = "Connected"
  /\ conn' = "station" /\ retry' = 0
  /\ Goto("ev", "Idle")
  /\ UNCHANGED <<lifecycles, wired, handlers, server, sdk, kept>>

NetworkDisconnected ==
  /\ pc["ev"] = "Lost"
  /\ Goto("ev", IF tr = "running" /\ wired /\ svc = "running" THEN "Disconnected" ELSE "Idle")
  /\ UNCHANGED <<lifecycles, policy, wired, handlers, server, sdk, kept>>

\* Mutant: a retry is counted and the radio not told.
DisconnectedNoReconnect ==
  /\ pc["ev"] = "Disconnected"
  /\ conn' = IF retry < MaxRetries THEN "connecting" ELSE "failed"
  /\ retry' = IF retry < MaxRetries THEN retry + 1 ELSE retry
  /\ Goto("ev", "Idle")
  /\ UNCHANGED <<lifecycles, wired, handlers, server, sdk, kept>>

\* reconnect of transport and platform: an error of esp_wifi_connect is
\* dropped, and then the radio neither tries nor answers.
Reconnect ==
  IF tr = "running" /\ wf = "running" /\ radio \in {"idle", "refused"}
  THEN radio' \in {"trying", "refused"}
  ELSE radio' = radio

Disconnected ==
  /\ pc["ev"] = "Disconnected"
  /\ IF retry < MaxRetries
     THEN /\ conn' = "connecting" /\ retry' = retry + 1
          /\ Reconnect
     ELSE conn' = "failed" /\ UNCHANGED <<retry, radio>>
  /\ Goto("ev", "Idle")
  /\ UNCHANGED <<lifecycles, wired, handlers, server, queue, kept>>

-----------------------------------------------------------------------------
(* The HTTP server's task: FirmwareProvisioningServer::save_wifi and        *)
(* NetworkService::provision_wifi                                           *)

SaveWifi ==
  /\ pc["http"] = "Idle"
  /\ httpd > 0 /\ sv = "running" /\ provisioner
  /\ Goto("http", "Received")
  /\ UNCHANGED <<lifecycles, policy, wired, handlers, server, sdk, kept>>

ProvisionWifi ==
  /\ pc["http"] = "Received"
  /\ Goto("http", IF svc = "running" THEN "Saving" ELSE "Idle")
  /\ UNCHANGED <<lifecycles, policy, wired, handlers, server, sdk, kept>>

Save ==
  /\ pc["http"] = "Saving"
  /\ \/ creds' = TRUE /\ Goto("http", "Sent")
     \/ creds' = creds /\ Goto("http", "Idle")
  /\ UNCHANGED <<lifecycles, policy, wired, handlers, server, sdk, timing>>

\* The reset keeps nothing but the stored credentials.
Restart ==
  /\ pc["http"] = "Sent"
  /\ svc' = "stopped" /\ tr' = "stopped" /\ wf' = "stopped" /\ sv' = "stopped"
  /\ conn' = "stopped" /\ retry' = 0
  /\ wired' = FALSE /\ handlers' = FALSE
  /\ provisioner' = FALSE /\ handle' = FALSE /\ httpd' = 0
  /\ radio' = "off" /\ queue' = <<>>
  /\ pc' = AllIdle
  /\ UNCHANGED kept

-----------------------------------------------------------------------------
(* The radio: an attempt to associate succeeds, which the platform does not *)
(* listen for, or fails; DHCP may or may not give an address; a connection  *)
(* may break.                                                               *)

RadioMayPost == Len(queue) < MaxEvents /\ ("early" \in timing \/ pc["ui"] # "StationStarted")

RadioAnswers ==
  /\ radio = "trying"
  /\ RadioMayPost
  /\ \/ radio' = "joined" /\ queue' = queue
     \/ radio' = "idle" /\ queue' = Append(queue, "lost")
  /\ UNCHANGED <<lifecycles, policy, wired, handlers, server, kept, pc>>

RadioGetsAddress ==
  /\ radio = "joined"
  /\ RadioMayPost
  /\ radio' = "linked" /\ queue' = Append(queue, "got_ip")
  /\ UNCHANGED <<lifecycles, policy, wired, handlers, server, kept, pc>>

RadioDrops ==
  /\ radio \in {"joined", "linked"}
  /\ RadioMayPost
  /\ radio' = "idle" /\ queue' = Append(queue, "lost")
  /\ UNCHANGED <<lifecycles, policy, wired, handlers, server, kept, pc>>

ServerStep(t) ==
  \/ ServerBegin(t) \/ ServerBind(t) \/ ServerHttpd(t) \/ ServerStore(t) \/ ServerRoutes(t)
  \/ ServerStop(t) \/ ServerTake(t) \/ ServerHttpdStop(t) \/ ServerStopped(t)

UiStep ==
  \/ TransportStart \/ WifiStarted \/ WifiFailed \/ TransportStarted
  \/ StationStarts \/ StationStarted \/ AccessPointStarts \/ ProvisioningStarted
  \/ TransportStop \/ WifiStop \/ Unregister \/ ServiceStopped
  \/ ServerStep("ui")

EventStep ==
  \/ EventHandler \/ WifiConnected \/ NetworkConnected \/ Connected
  \/ NetworkDisconnected \/ Disconnected \/ ServerStep("ev")

HttpStep == ProvisionWifi \/ Save \/ Restart

Next ==
  \/ StartService \/ StopService \/ UiStep \/ EventStep
  \/ SaveWifi \/ HttpStep \/ RadioAnswers \/ RadioGetsAddress \/ RadioDrops

Spec == Init /\ [][Next]_vars

(***************************************************************************)
(* The three tasks are scheduled, and an attempt to associate that the     *)
(* driver accepted ends.  No address has to come of it (DHCP), and nobody  *)
(* has to start or stop the service or to submit a form.                   *)
(***************************************************************************)
FairSpec ==
  /\ Spec
  /\ WF_vars(UiStep) /\ WF_vars(EventStep) /\ WF_vars(HttpStep) /\ WF_vars(RadioAnswers)

-----------------------------------------------------------------------------
(* Properties *)

UiIdle == pc["ui"] = "Idle"
EventIdle == pc["ev"] = "Idle"

(***************************************************************************)
(* Types.  NetworkConnectionPolicy keeps retry_count_ within the budget,   *)
(* and a lifecycle of transport or platform is in transition only while    *)
(* the UI task is in a call.                                               *)
(***************************************************************************)
TypeOK ==
  /\ {svc, tr, wf, sv} \subseteq LifecycleState
  /\ conn \in {"stopped", "connecting", "provisioning", "station", "failed"}
  /\ retry \in 0..MaxRetries
  /\ {wired, handlers, provisioner, handle, creds} \subseteq BOOLEAN
  /\ httpd \in Nat
  /\ radio \in RadioStates
  /\ queue \in Seq({"got_ip", "lost"}) /\ Len(queue) <= MaxEvents
  /\ UiIdle => {svc, tr, wf} \subseteq {"stopped", "running"}
  /\ timing \in Timings

(***************************************************************************)
(* Every HTTP server alive is held in server_, about to be stored there by *)
(* the task that started it, or being stopped by exactly one task:         *)
(* repeated connected events, a start on the event task beside a stop on   *)
(* the UI task and failed starts never create a second one, lose one, or   *)
(* stop one twice.                                                         *)
(***************************************************************************)
ServerIsHeldOnce ==
  httpd = (IF handle THEN 1 ELSE 0)
          + (IF pc["ui"] \in {"ServerStore", "ServerHttpdStop"} THEN 1 ELSE 0)
          + (IF pc["ev"] \in {"ServerStore", "ServerHttpdStop"} THEN 1 ELSE 0)

(***************************************************************************)
(* Once a start that failed or a stop has returned, no callback of the     *)
(* ended session can still change the service: the policy is reset, the    *)
(* SDK holds no handler, and the event task is outside the stack.          *)
(***************************************************************************)
StoppedIsQuiet ==
  UiIdle /\ svc = "stopped" =>
    /\ conn = "stopped" /\ retry = 0
    /\ ~wired /\ ~handlers /\ radio = "off"
    /\ pc["ev"] = "Idle"

(***************************************************************************)
(* Credentials are written only inside a session: a form that was accepted *)
(* before the service stopped is stored, or refused, before it has.  Not   *)
(* so when a stop overtakes a server start: the server then outlives it.   *)
(***************************************************************************)
SavesInsideSession == "overlap" \notin timing /\ pc["http"] = "Saving" => svc \in {"running", "stopping"}

(***************************************************************************)
(* The state of NetworkConnectionPolicy agrees with the radio once every   *)
(* event has been handled: over retries, drops and restarts it is          *)
(* connecting only while an attempt is under way, an address awaited, or   *)
(* the last reconnect was refused by the driver, and failed only after the *)
(* whole budget.  In behaviours where every answer comes after start and   *)
(* in its own session.                                                     *)
(***************************************************************************)
PolicyAgreesWithRadio ==
  timing = {} /\ UiIdle /\ EventIdle /\ queue = <<>> /\ svc = "running" =>
    CASE conn = "connecting"   -> radio \in {"trying", "joined", "refused"}
      [] conn = "station"      -> radio = "linked"
      [] conn = "failed"       -> radio = "idle" /\ retry = MaxRetries
      [] conn = "provisioning" -> radio = "ap"
      [] conn = "stopped"      -> FALSE

(***************************************************************************)
(* A session stays connecting for ever only if its station waits for an    *)
(* address for ever or the driver refused a reconnect: otherwise the       *)
(* bounded retries end in station, failed or the end of the session.       *)
(***************************************************************************)
ConnectingResolves ==
  timing = {} /\ <>[](conn = "connecting") => <>[](radio \in {"joined", "refused"})

(***************************************************************************)
(* start and stop return, although stop waits for the event handler and    *)
(* for the HTTP request of the other two tasks.  When a stop overtakes a   *)
(* server start, forms that keep coming may hold it up.                    *)
(***************************************************************************)
CallsReturn == "overlap" \notin timing /\ ~UiIdle ~> UiIdle

(***************************************************************************)
(* docs/architecture.md on the lifecycles: a failed acquisition returns to *)
(* stopped.  Outside calls the server of a stopped service is stopped, so  *)
(* that it can be started again.                                           *)
(***************************************************************************)
ServerCanRestart ==
  UiIdle /\ EventIdle /\ svc = "stopped" => sv \in {"stopped", "running"}

=============================================================================
