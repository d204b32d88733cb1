--------------------------- MODULE NetworkProofs ---------------------------
(***************************************************************************)
(* What the network stack keeps in every interleaving of the UI task, the  *)
(* event loop task and the HTTP server's task, for any retry budget, event *)
(* queue and set of timings.                                               *)
(***************************************************************************)
EXTENDS Network, SequenceTheorems, TLAPS

-----------------------------------------------------------------------------
(* The inductive invariant                                                  *)

StartingPc == {"ServerBind", "ServerHttpd", "ServerStore", "ServerRoutes"}
EndingPc == {"ServerTake", "ServerHttpdStop", "ServerStopped"}
ServerPc == {"ServerBegin", "ServerStop"} \cup StartingPc \cup EndingPc

OpeningPc == {"TransportStart", "WifiStart", "Started", "Station", "StationStarted", "AccessPoint",
              "Provisioning", "ServerBegin"} \cup StartingPc
UiPc == {"Idle", "TransportStop", "WifiStop", "Unregister", "ServiceStopped"} \cup OpeningPc \cup ServerPc
EvPc == {"Idle", "Got", "Lost", "Notify", "Connected", "Disconnected"} \cup ServerPc
HttpPc == {"Idle", "Received", "Saving", "Sent"}

PcInv ==
  /\ pc \in [{"ui", "ev", "http"} -> UiPc \cup EvPc \cup HttpPc]
  /\ pc["ui"] \in UiPc /\ pc["ev"] \in EvPc /\ pc["http"] \in HttpPc

\* How far a start or stop on the UI task has come decides every lifecycle
\* but the server's, and what they have wired.
SessionInv ==
  /\ svc \in {"stopped", "running"} <=> pc["ui"] = "Idle"
  /\ pc["ui"] \in OpeningPc => svc = "starting"
  /\ tr = "stopped" <=> svc = "stopped" \/ pc["ui"] \in {"TransportStart", "ServiceStopped"}
  /\ tr = "starting" <=> pc["ui"] \in {"WifiStart", "Started"}
  /\ tr = "stopping" => pc["ui"] \in {"ServerStop", "WifiStop", "Unregister"} \cup EndingPc
  /\ pc["ui"] \in {"WifiStop", "Unregister"} => tr = "stopping"
  /\ svc = "stopping" /\ pc["ui"] \in ServerPc => tr = "stopping"
  /\ wf = "stopped" <=> svc = "stopped"
                        \/ pc["ui"] \in {"TransportStart", "WifiStart", "ServiceStopped"}
  /\ wf = "stopping" <=> pc["ui"] = "Unregister"
  /\ wf # "starting"
  /\ wired <=> tr \in {"starting", "running"}
  /\ handlers <=> wf # "stopped"

\* A session that is not up has neither policy nor callbacks.
QuietInv ==
  /\ ~handlers => pc["ev"] = "Idle" /\ radio = "off"
  /\ tr \in {"stopped", "starting"} => pc["ev"] \in {"Idle", "Got", "Lost"}
  /\ svc \in {"stopped", "starting"}
       => conn = "stopped" /\ retry = 0 /\ pc["ev"] \notin {"Connected", "Disconnected"}

\* One HTTP server at most; a form is handled only by a server that is alive.
FormInv == httpd \in 0..1 /\ (pc["http"] # "Idle" => httpd > 0)

\* A task starts or ends the local server alone, unless a stop may overtake
\* a start; then what a stop leaves behind is closed.
Shut == \/ pc["ui"] \in {"WifiStop", "Unregister", "ServiceStopped"}
        \/ pc["ui"] \in EndingPc /\ tr = "stopping"

OwnerInv ==
  "overlap" \notin timing =>
    /\ \A t \in {"ui", "ev"} : /\ pc[t] \in StartingPc => sv = "starting"
                               /\ pc[t] \in EndingPc => sv = "stopping"
    /\ ~(pc["ui"] \in StartingPc /\ pc["ev"] \in StartingPc \cup {"ServerStop"})
    /\ ~(pc["ui"] \in EndingPc /\ pc["ev"] \in EndingPc)
    /\ pc["ev"] = "ServerStop" /\ tr = "running" => sv = "starting"
    /\ pc["ui"] = "ServerStop" /\ tr = "running"
         => sv = "starting" /\ pc["ev"] \notin StartingPc \cup {"ServerStop"}
    /\ handle => sv \in {"starting", "running"} \/ "ServerTake" \in {pc["ui"], pc["ev"]}
    /\ Shut => ~EventStartsServer /\ sv \notin {"starting", "running"}

\* The events the policy has not seen yet, the one being handled first
Handling(e) == pc["ev"] \in (IF e = "lost" THEN {"Lost", "Disconnected"}
                             ELSE {"Got", "Notify", "Connected"} \cup ServerPc)

Pending(s) == \/ pc["ev"] = "Idle" /\ queue = s
              \/ s # <<>> /\ Handling(Head(s)) /\ queue = Tail(s)

\* Without races, policy and pending events together tell what the radio does.
AgreeInv ==
  timing = {} =>
    /\ svc = "starting" /\ pc["ui"] \notin {"TransportStart", "WifiStart"}
         => /\ pc["ev"] = "Idle" /\ queue = <<>> /\ radio \notin {"joined", "linked"}
            /\ radio = "trying" <=> pc["ui"] = "StationStarted"
            /\ pc["ui"] = "Provisioning" \/ (tr = "running" /\ pc["ui"] \in ServerPc) => radio = "ap"
    /\ svc = "running" =>
         \/ radio \in {"trying", "joined", "refused"} /\ conn = "connecting" /\ Pending(<<>>)
         \/ radio = "linked" /\ conn = "connecting" /\ Pending(<<"got_ip">>)
         \/ radio = "linked" /\ conn = "station" /\ Pending(<<>>)
         \/ radio = "idle" /\ conn \in {"connecting", "station"} /\ Pending(<<"lost">>)
         \/ radio = "idle" /\ conn = "connecting" /\ Pending(<<"got_ip", "lost">>)
         \/ radio = "idle" /\ conn = "failed" /\ retry = MaxRetries /\ Pending(<<>>)
         \/ radio = "ap" /\ conn = "provisioning" /\ Pending(<<>>)

DataOK ==
  /\ {svc, tr, wf, sv} \subseteq LifecycleState
  /\ conn \in {"stopped", "connecting", "provisioning", "station", "failed"}
  /\ retry \in 0..MaxRetries
  /\ radio \in RadioStates
  /\ queue \in Seq({"got_ip", "lost"}) /\ Len(queue) <= MaxEvents
  /\ timing \in Timings

FlagsOK ==
  /\ wired \in BOOLEAN /\ handlers \in BOOLEAN /\ provisioner \in BOOLEAN
  /\ handle \in BOOLEAN /\ creds \in BOOLEAN

NetworkInv ==
  /\ DataOK /\ FlagsOK /\ PcInv /\ SessionInv /\ QuietInv /\ ServerIsHeldOnce /\ FormInv /\ OwnerInv
  /\ SavesInsideSession /\ AgreeInv

-----------------------------------------------------------------------------
(* Each part of the invariant is kept                                       *)

LEMMA NetworkInit == Init => NetworkInv
<1> SUFFICES ASSUME Init PROVE NetworkInv
  OBVIOUS
<1>1. pc = [t \in {"ui", "ev", "http"} |-> "Idle"]
  BY DEF Init, AllIdle
<1>2. PcInv
  BY <1>1 DEF PcInv, UiPc, EvPc, HttpPc
<1>3. SessionInv
  BY <1>1 DEF Init, SessionInv, OpeningPc, StartingPc, EndingPc, ServerPc
<1>4. DataOK
  BY NetworkAssumption DEF Init, DataOK, RadioStates, LifecycleState
<1>8. FlagsOK
  BY Zenon DEF Init, FlagsOK
<1>5. QuietInv /\ ServerIsHeldOnce /\ FormInv /\ SavesInsideSession
  BY <1>1 DEF Init, QuietInv, ServerIsHeldOnce, FormInv, SavesInsideSession
<1>6. OwnerInv
  BY <1>1 DEF Init, OwnerInv, Shut, StartingPc, EndingPc
<1>7. AgreeInv
  BY DEF Init, AgreeInv
<1> QED
  BY <1>2, <1>3, <1>4, <1>5, <1>6, <1>7, <1>8 DEF NetworkInv

LEMMA PcKeeps == PcInv /\ [Next]_vars => PcInv'
<1> SUFFICES ASSUME PcInv, [Next]_vars PROVE PcInv'
  OBVIOUS
<1>1. ASSUME NEW t \in {"ui", "ev"}, ServerStep(t) PROVE PcInv'
  <2>1. \E l \in ServerPc \cup (IF t = "ui" THEN {"Provisioning", "TransportStop", "WifiStop"}
                                ELSE {"Notify"}) : Goto(t, l)
    BY <1>1 DEF ServerStep, ServerBegin, ServerBind, ServerHttpd, ServerStore, ServerRoutes,
       ServerStop, ServerTake, ServerHttpdStop, ServerStopped, AfterStart, AfterStop, ServerPc,
       StartingPc, EndingPc
  <2> QED
    BY <2>1 DEF Goto, PcInv, UiPc, EvPc, OpeningPc
<1>2. CASE StartService \/ StopService \/ TransportStart \/ WifiStarted \/ WifiFailed
             \/ TransportStarted \/ StationStarts \/ StationStarted \/ AccessPointStarts
             \/ ProvisioningStarted \/ TransportStop \/ WifiStop \/ Unregister \/ ServiceStopped
  <2>1. \E l \in UiPc : Goto("ui", l)
    BY <1>2 DEF StartService, StopService, TransportStart, WifiStarted, WifiFailed, TransportStarted,
       StationStarts, StationStarted, AccessPointStarts, ProvisioningStarted, TransportStop, WifiStop,
       Unregister, Release, ServiceStopped, UiPc, OpeningPc, ServerPc
  <2> QED
    BY <2>1 DEF Goto, PcInv
<1>3. CASE EventHandler \/ WifiConnected \/ NetworkConnected \/ Connected \/ NetworkDisconnected
             \/ Disconnected
  <2>1. \E l \in EvPc : Goto("ev", l)
    BY <1>3 DEF EventHandler, WifiConnected, NetworkConnected, Connected, NetworkDisconnected,
       Disconnected, EvPc, ServerPc
  <2> QED
    BY <2>1 DEF Goto, PcInv
<1>4. CASE SaveWifi \/ HttpStep
  <2>1. (\E l \in HttpPc : Goto("http", l)) \/ pc' = AllIdle
    BY <1>4 DEF SaveWifi, HttpStep, ProvisionWifi, Save, Restart, HttpPc
  <2>2. ASSUME pc' = AllIdle PROVE PcInv'
    BY <2>2 DEF AllIdle, PcInv, UiPc, EvPc, HttpPc
  <2> QED
    BY <2>1, <2>2 DEF Goto, PcInv
<1>5. CASE RadioAnswers \/ RadioGetsAddress \/ RadioDrops \/ UNCHANGED vars
  BY <1>5 DEF RadioAnswers, RadioGetsAddress, RadioDrops, vars, PcInv
<1> QED
  BY <1>1, <1>2, <1>3, <1>4, <1>5 DEF Next, UiStep, EventStep

\* The steps of the event task, of the HTTP task and of the radio leave the
\* session to the UI task, but for the restart.
LEMMA OthersLeaveSession ==
  ASSUME PcInv,
         \/ \E t \in {"ev"} : ServerStep(t)
         \/ EventHandler \/ WifiConnected \/ NetworkConnected \/ Connected
         \/ NetworkDisconnected \/ Disconnected \/ SaveWifi \/ ProvisionWifi \/ Save
         \/ RadioAnswers \/ RadioGetsAddress \/ RadioDrops \/ UNCHANGED vars
  PROVE  UNCHANGED <<svc, tr, wf, wired, handlers, timing, pc["ui"]>>
<1>1. CASE ServerStep("ev")
  BY <1>1 DEF ServerStep, ServerBegin, ServerBind, ServerHttpd, ServerStore, ServerRoutes,
     ServerStop, ServerTake, ServerHttpdStop, ServerStopped, Goto, PcInv, lifecycles, kept
<1>2. CASE ~ServerStep("ev")
  BY <1>2 DEF EventHandler, WifiConnected, NetworkConnected, Connected, NetworkDisconnected,
     Disconnected, SaveWifi, ProvisionWifi, Save, RadioAnswers, RadioGetsAddress, RadioDrops, vars,
     Goto, PcInv, lifecycles, kept
<1> QED
  BY <1>1, <1>2

LEMMA SessionKeeps == DataOK /\ PcInv /\ SessionInv /\ [Next]_vars => SessionInv'
<1> SUFFICES ASSUME DataOK, PcInv, SessionInv, [Next]_vars PROVE SessionInv'
  OBVIOUS
<1>0. /\ pc \in [{"ui", "ev", "http"} -> UiPc \cup EvPc \cup HttpPc]
      /\ {svc, tr, wf} \subseteq LifecycleState
  BY DEF PcInv, DataOK
<1> USE <1>0
<1> DEFINE Same == UNCHANGED <<svc, tr, wf, wired, handlers>>
<1>1. ASSUME Same, pc'["ui"] = pc["ui"] PROVE SessionInv'
  BY <1>1 DEF SessionInv
<1>2. CASE StartService \/ StopService
  <2>1. /\ \/ svc = "stopped" /\ svc' = "starting" /\ pc'["ui"] = "TransportStart"
           \/ svc = "running" /\ svc' = "stopping" /\ pc'["ui"] = "TransportStop"
        /\ pc["ui"] = "Idle" /\ UNCHANGED <<tr, wf, wired, handlers>>
    BY <1>2 DEF StartService, StopService, BeginStart, BeginStop, Goto, LifecycleState, SessionInv
  <2> QED
    BY <2>1 DEF SessionInv, OpeningPc, StartingPc, EndingPc, ServerPc
<1>3. CASE TransportStart
  BY <1>3 DEF TransportStart, BeginStart, Goto, SessionInv, OpeningPc, StartingPc, EndingPc, ServerPc
<1>4. CASE WifiStarted \/ WifiFailed
  BY <1>4 DEF WifiStarted, WifiFailed, Goto, SessionInv, OpeningPc, StartingPc, EndingPc, ServerPc
<1>5. CASE TransportStarted \/ StationStarts \/ AccessPointStarts
  BY <1>5 DEF TransportStarted, StationStarts, AccessPointStarts, Goto, SessionInv, lifecycles,
              OpeningPc, StartingPc, EndingPc, ServerPc
<1>6. CASE StationStarted \/ ProvisioningStarted
  BY <1>6 DEF StationStarted, ProvisioningStarted, Goto, SessionInv,
              OpeningPc, StartingPc, EndingPc, ServerPc
<1>7. CASE TransportStop \/ WifiStop
  BY <1>7 DEF TransportStop, WifiStop, AtomicBeginStop, Goto, SessionInv, LifecycleState,
              OpeningPc, StartingPc, EndingPc, ServerPc
<1>8. CASE Unregister \/ ServiceStopped
  BY <1>8 DEF Unregister, Release, ServiceStopped, Goto, SessionInv,
              OpeningPc, StartingPc, EndingPc, ServerPc
<1>9. CASE ServerStep("ui")
  <2>1. Same
    BY <1>9 DEF ServerStep, ServerBegin, ServerBind, ServerHttpd, ServerStore, ServerRoutes,
       ServerStop, ServerTake, ServerHttpdStop, ServerStopped, lifecycles
  <2>2. CASE \/ ServerBegin("ui") \/ ServerBind("ui") \/ ServerHttpd("ui")
            \/ ServerStore("ui") \/ ServerRoutes("ui")
    <3>1. /\ pc["ui"] \in {"ServerBegin"} \cup StartingPc
          /\ pc'["ui"] \in StartingPc \cup {"ServerStop", "Provisioning", "TransportStop"}
      BY <2>2 DEF ServerBegin, ServerBind, ServerHttpd, ServerStore, ServerRoutes, AfterStart, Goto,
         StartingPc
    <3> QED
      BY <2>1, <3>1 DEF SessionInv, OpeningPc, StartingPc, EndingPc, ServerPc
  <2>3. CASE ServerStop("ui") \/ ServerTake("ui") \/ ServerHttpdStop("ui") \/ ServerStopped("ui")
    <3>1. /\ pc["ui"] \in {"ServerStop"} \cup EndingPc
          /\ \/ pc'["ui"] \in EndingPc
             \/ pc'["ui"] = IF tr = "stopping" THEN "WifiStop" ELSE "TransportStop"
      BY <2>3 DEF ServerStop, ServerTake, ServerHttpdStop, ServerStopped, AfterStop, AfterStart, Goto,
                  EndingPc
    <3> QED
      BY <2>1, <3>1 DEF SessionInv, OpeningPc, StartingPc, EndingPc, ServerPc
  <2> QED
    BY <1>9, <2>2, <2>3 DEF ServerStep
<1>10. CASE Restart
  BY <1>10 DEF Restart, AllIdle, SessionInv, OpeningPc, StartingPc, EndingPc, ServerPc
<1>11. CASE EventStep \/ SaveWifi \/ ProvisionWifi \/ Save \/ RadioAnswers \/ RadioGetsAddress \/ RadioDrops
              \/ UNCHANGED vars
  BY <1>1, <1>11, OthersLeaveSession DEF EventStep
<1> QED
  BY <1>2, <1>3, <1>4, <1>5, <1>6, <1>7, <1>8, <1>9, <1>10, <1>11 DEF Next, UiStep, HttpStep

LEMMA DataKeeps == DataOK /\ [Next]_vars => DataOK'
<1> SUFFICES ASSUME DataOK, [Next]_vars PROVE DataOK'
  OBVIOUS
<1>0. MaxRetries \in Nat /\ MaxEvents \in Nat
  BY NetworkAssumption
<1> USE <1>0
\* The queue only loses its head or gains an event it has room for.
<1>1. /\ queue # <<>> => Tail(queue) \in Seq({"got_ip", "lost"}) /\ Len(Tail(queue)) <= MaxEvents
      /\ \A e \in {"got_ip", "lost"} :
           Len(queue) < MaxEvents => /\ Append(queue, e) \in Seq({"got_ip", "lost"})
                                     /\ Len(Append(queue, e)) <= MaxEvents
  BY DEF DataOK
<1>2. CASE StartService \/ StopService \/ TransportStart \/ WifiStarted \/ WifiFailed
             \/ TransportStarted
  BY <1>2 DEF StartService, StopService, TransportStart, WifiStarted, WifiFailed, TransportStarted,
     DataOK, policy, server, sdk, kept, LifecycleState
<1>3. CASE StationStarts \/ StationStarted \/ AccessPointStarts \/ ProvisioningStarted
  BY <1>3 DEF StationStarts, StationStarted, AccessPointStarts, ProvisioningStarted,
     DataOK, RadioStates, policy, server, sdk, kept, lifecycles, LifecycleState
<1>4. CASE TransportStop \/ WifiStop \/ ServiceStopped
  BY <1>4 DEF TransportStop, WifiStop, ServiceStopped, DataOK, policy, server, sdk, kept,
     LifecycleState
<1>5. CASE Unregister
  BY <1>1, <1>5 DEF Unregister, Release, DataOK, RadioStates, policy, kept, LifecycleState
<1>6. ASSUME NEW t \in {"ui", "ev"}, ServerStep(t) PROVE DataOK'
  <2>1. UNCHANGED <<svc, tr, wf, policy, sdk, timing>>
    BY <1>6 DEF ServerStep, ServerBegin, ServerBind, ServerHttpd, ServerStore, ServerRoutes,
       ServerStop, ServerTake, ServerHttpdStop, ServerStopped, lifecycles, kept
  <2>2. sv' = sv \/ sv' \in LifecycleState
    BY <1>6 DEF ServerStep, ServerBegin, ServerBind, ServerHttpd, ServerStore, ServerRoutes,
       ServerStop, ServerTake, ServerHttpdStop, ServerStopped, lifecycles, BeginStart,
       AtomicBeginStop, LifecycleState
  <2> QED
    BY <2>1, <2>2 DEF DataOK, policy, sdk
<1>7. CASE EventHandler
  BY <1>1, <1>7 DEF EventHandler, DataOK, policy, lifecycles, kept
<1>8. CASE WifiConnected \/ NetworkConnected \/ NetworkDisconnected \/ SaveWifi \/ ProvisionWifi \/ Save
  BY <1>8 DEF WifiConnected, NetworkConnected, NetworkDisconnected, SaveWifi, ProvisionWifi, Save,
     DataOK, policy, lifecycles, sdk, kept
<1>9. CASE Connected \/ Disconnected
  BY <1>9 DEF Connected, Disconnected, Reconnect, RadioStates, DataOK, lifecycles, sdk, kept
<1>10. CASE Restart
  BY <1>10 DEF Restart, DataOK, RadioStates, kept, LifecycleState
<1>11. CASE RadioAnswers \/ RadioGetsAddress \/ RadioDrops
  BY <1>1, <1>11 DEF RadioAnswers, RadioGetsAddress, RadioDrops, RadioMayPost, RadioStates, DataOK,
     policy, lifecycles, kept
<1>12. CASE UNCHANGED vars
  BY <1>12 DEF vars, DataOK, policy, lifecycles, sdk, kept
<1> QED
  BY <1>2, <1>3, <1>4, <1>5, <1>6, <1>7, <1>8, <1>9, <1>10, <1>11, <1>12
  DEF Next, UiStep, EventStep, HttpStep

LEMMA FlagsKeep == FlagsOK /\ [Next]_vars => FlagsOK'
<1> SUFFICES ASSUME FlagsOK, [Next]_vars PROVE FlagsOK'
  OBVIOUS
<1>1. wired' = wired \/ wired' = TRUE \/ wired' = FALSE
  BY DEF Next, UiStep, EventStep, HttpStep, ServerStep, vars, StartService, StopService,
     TransportStart, WifiStarted, WifiFailed, TransportStarted, StationStarts, StationStarted,
     AccessPointStarts, ProvisioningStarted, TransportStop, WifiStop, Unregister, Release,
     ServiceStopped, ServerBegin, ServerBind, ServerHttpd, ServerStore, ServerRoutes, ServerStop,
     ServerTake, ServerHttpdStop, ServerStopped, EventHandler, WifiConnected, NetworkConnected,
     Connected, NetworkDisconnected, Disconnected, SaveWifi, ProvisionWifi, Save, Restart,
     RadioAnswers, RadioGetsAddress, RadioDrops
<1>2. handlers' = handlers \/ handlers' = TRUE \/ handlers' = FALSE
  BY DEF Next, UiStep, EventStep, HttpStep, ServerStep, vars, StartService, StopService,
     TransportStart, WifiStarted, WifiFailed, TransportStarted, StationStarts, StationStarted,
     AccessPointStarts, ProvisioningStarted, TransportStop, WifiStop, Unregister, Release,
     ServiceStopped, ServerBegin, ServerBind, ServerHttpd, ServerStore, ServerRoutes, ServerStop,
     ServerTake, ServerHttpdStop, ServerStopped, EventHandler, WifiConnected, NetworkConnected,
     Connected, NetworkDisconnected, Disconnected, SaveWifi, ProvisionWifi, Save, Restart,
     RadioAnswers, RadioGetsAddress, RadioDrops
<1>3. /\ provisioner' = provisioner \/ provisioner' = TRUE \/ provisioner' = FALSE
      /\ handle' = handle \/ handle' = TRUE \/ handle' = FALSE
  BY DEF Next, UiStep, EventStep, HttpStep, ServerStep, vars, server, StartService, StopService,
     TransportStart, WifiStarted, WifiFailed, TransportStarted, StationStarts, StationStarted,
     AccessPointStarts, ProvisioningStarted, TransportStop, WifiStop, Unregister, Release,
     ServiceStopped, ServerBegin, ServerBind, ServerHttpd, ServerStore, ServerRoutes, ServerStop,
     ServerTake, ServerHttpdStop, ServerStopped, EventHandler, WifiConnected, NetworkConnected,
     Connected, NetworkDisconnected, Disconnected, SaveWifi, ProvisionWifi, Save, Restart,
     RadioAnswers, RadioGetsAddress, RadioDrops
<1>4. creds' = creds \/ creds' = TRUE
  BY DEF Next, UiStep, EventStep, HttpStep, ServerStep, vars, kept, StartService, StopService,
     TransportStart, WifiStarted, WifiFailed, TransportStarted, StationStarts, StationStarted,
     AccessPointStarts, ProvisioningStarted, TransportStop, WifiStop, Unregister, Release,
     ServiceStopped, ServerBegin, ServerBind, ServerHttpd, ServerStore, ServerRoutes, ServerStop,
     ServerTake, ServerHttpdStop, ServerStopped, EventHandler, WifiConnected, NetworkConnected,
     Connected, NetworkDisconnected, Disconnected, SaveWifi, ProvisionWifi, Save, Restart,
     RadioAnswers, RadioGetsAddress, RadioDrops
<1>5. wired' \in BOOLEAN /\ handlers' \in BOOLEAN
  BY <1>1, <1>2, Zenon DEF FlagsOK
<1>6. provisioner' \in BOOLEAN /\ handle' \in BOOLEAN /\ creds' \in BOOLEAN
  BY <1>3, <1>4, Zenon DEF FlagsOK
<1> QED
  BY <1>5, <1>6, Zenon DEF FlagsOK

\* Every step leaves the three service lifecycles, policy and wiring alone
\* but the steps of the UI task, Connected, Disconnected and the restart.
LEMMA QuietKeeps == PcInv /\ SessionInv /\ QuietInv /\ DataOK /\ [Next]_vars => QuietInv'
<1> SUFFICES ASSUME PcInv, SessionInv, QuietInv, DataOK, [Next]_vars PROVE QuietInv'
  OBVIOUS
<1>0. /\ pc \in [{"ui", "ev", "http"} -> UiPc \cup EvPc \cup HttpPc]
      /\ {svc, tr, wf} \subseteq LifecycleState
  BY DEF PcInv, DataOK
<1> USE <1>0
<1>1. CASE StartService \/ StopService \/ TransportStart
  BY <1>1 DEF StartService, StopService, TransportStart, BeginStart, BeginStop, Goto, QuietInv,
     SessionInv, policy, sdk, LifecycleState
<1>2. CASE WifiStarted \/ WifiFailed \/ TransportStarted
  BY <1>2 DEF WifiStarted, WifiFailed, TransportStarted, Goto, QuietInv, SessionInv, policy, sdk,
     OpeningPc
<1>3. CASE StationStarts \/ AccessPointStarts
  BY <1>3 DEF StationStarts, AccessPointStarts, Goto, QuietInv, SessionInv, policy, lifecycles,
     OpeningPc, LifecycleState
<1>4. CASE StationStarted \/ ProvisioningStarted
  BY <1>4 DEF StationStarted, ProvisioningStarted, Goto, QuietInv, SessionInv, sdk, OpeningPc
<1>5. CASE TransportStop \/ WifiStop
  BY <1>5 DEF TransportStop, WifiStop, Goto, QuietInv, policy, sdk
<1>6. CASE Unregister
  BY <1>6 DEF Unregister, Release, Goto, QuietInv, policy
<1>7. CASE ServiceStopped
  BY <1>7 DEF ServiceStopped, Goto, QuietInv, SessionInv, policy, sdk, LifecycleState
<1>8. CASE ServerStep("ui")
  <2>1. UNCHANGED <<svc, tr, wf, handlers, policy, sdk>> /\ pc'["ev"] = pc["ev"]
    BY <1>8 DEF ServerStep, ServerBegin, ServerBind, ServerHttpd, ServerStore, ServerRoutes,
       ServerStop, ServerTake, ServerHttpdStop, ServerStopped, lifecycles, Goto
  <2> QED
    BY <2>1 DEF QuietInv, policy, sdk
<1>9. CASE ServerStep("ev")
  <2>1. /\ UNCHANGED <<svc, tr, wf, handlers, policy, sdk>>
        /\ pc["ev"] \in ServerPc /\ pc'["ev"] \in ServerPc \cup {"Notify"}
    BY <1>9 DEF ServerStep, ServerBegin, ServerBind, ServerHttpd, ServerStore, ServerRoutes,
       ServerStop, ServerTake, ServerHttpdStop, ServerStopped, lifecycles, Goto, AfterStart,
       AfterStop, ServerPc, StartingPc, EndingPc
  <2> QED
    BY <2>1 DEF QuietInv, SessionInv, policy, sdk, ServerPc, StartingPc, EndingPc
<1>10. CASE EventHandler \/ WifiConnected \/ NetworkConnected \/ NetworkDisconnected
  BY <1>10 DEF EventHandler, WifiConnected, NetworkConnected, NetworkDisconnected, Goto, QuietInv,
     SessionInv, lifecycles, policy, sdk
<1>11. CASE Connected \/ Disconnected
  BY <1>11 DEF Connected, Disconnected, Reconnect, Goto, QuietInv, SessionInv, lifecycles, sdk
<1>12. CASE Restart
  BY <1>12 DEF Restart, AllIdle, QuietInv
<1>13. CASE SaveWifi \/ ProvisionWifi \/ Save \/ RadioAnswers \/ RadioGetsAddress \/ RadioDrops \/ UNCHANGED vars
  BY <1>13 DEF SaveWifi, ProvisionWifi, Save, RadioAnswers, RadioGetsAddress, RadioDrops, vars,
     Goto, QuietInv, lifecycles, policy, sdk
<1> QED
  BY <1>1, <1>2, <1>3, <1>4, <1>5, <1>6, <1>7, <1>8, <1>9, <1>10, <1>11, <1>12, <1>13
  DEF Next, UiStep, EventStep, HttpStep

\* The HTTP server changes hands only in the start and stop of the local one;
\* here a task holds it itself.
HoldingPc == {"ServerStore", "ServerHttpdStop"}

LEMMA ServerChanges ==
  ASSUME PcInv, [Next]_vars
  PROVE  \/ \E t \in {"ui", "ev"} : ServerHttpd(t) \/ ServerStore(t) \/ ServerTake(t) \/ ServerHttpdStop(t)
         \/ Restart
         \/ /\ UNCHANGED <<handle, httpd>>
            /\ \A t \in {"ui", "ev"} : /\ pc'[t] \in HoldingPc <=> pc[t] \in HoldingPc
                                       /\ pc'[t] = "ServerTake" => pc[t] = "ServerTake" \/ ServerStop(t)
            /\ pc["http"] = "Idle" /\ pc'["http"] # "Idle" => httpd > 0
<1>0. pc \in [{"ui", "ev", "http"} -> UiPc \cup EvPc \cup HttpPc]
  BY DEF PcInv
<1> USE <1>0
<1>1. CASE StartService \/ StopService \/ TransportStart \/ WifiStarted \/ WifiFailed
             \/ TransportStarted \/ StationStarts \/ StationStarted \/ AccessPointStarts
             \/ ProvisioningStarted \/ TransportStop \/ WifiStop \/ Unregister \/ ServiceStopped
  BY <1>1 DEF StartService, StopService, TransportStart, WifiStarted, WifiFailed, TransportStarted,
     StationStarts, StationStarted, AccessPointStarts, ProvisioningStarted, TransportStop, WifiStop,
     Unregister, Release, ServiceStopped, Goto, server, HoldingPc
<1>2. ASSUME NEW t \in {"ui", "ev"}, ServerBegin(t) \/ ServerBind(t) \/ ServerRoutes(t)
      PROVE  /\ UNCHANGED <<handle, httpd>>
             /\ \E l \in (ServerPc \cup UiPc \cup EvPc) \ ({"ServerTake"} \cup HoldingPc) :
                  pc' = [pc EXCEPT ![t] = l]
             /\ pc[t] \notin {"ServerTake"} \cup HoldingPc
  BY <1>2 DEF ServerBegin, ServerBind, ServerRoutes, AfterStart, Goto, server, ServerPc, UiPc,
     OpeningPc, EvPc, StartingPc, EndingPc, HoldingPc
<1>3. ASSUME NEW t \in {"ui", "ev"}, ServerStop(t) \/ ServerStopped(t)
      PROVE  /\ UNCHANGED <<handle, httpd>>
             /\ \E l : /\ pc' = [pc EXCEPT ![t] = l] /\ l \notin HoldingPc
                       /\ l = "ServerTake" => ServerStop(t)
             /\ pc[t] \notin {"ServerTake"} \cup HoldingPc
  BY <1>3 DEF ServerStop, ServerStopped, AfterStart, AfterStop, Goto, server, HoldingPc
<1>4. CASE EventHandler \/ WifiConnected \/ NetworkConnected \/ Connected \/ NetworkDisconnected
             \/ Disconnected
  BY <1>4 DEF EventHandler, WifiConnected, NetworkConnected, Connected, NetworkDisconnected,
     Disconnected, Goto, server, HoldingPc
<1>5. CASE SaveWifi \/ ProvisionWifi \/ Save \/ RadioAnswers \/ RadioGetsAddress \/ RadioDrops \/ UNCHANGED vars
  BY <1>5 DEF SaveWifi, ProvisionWifi, Save, RadioAnswers, RadioGetsAddress, RadioDrops, vars, Goto,
     server, HoldingPc
<1>6. ASSUME NEW t \in {"ui", "ev"}, ServerBegin(t) \/ ServerBind(t) \/ ServerRoutes(t)
      PROVE  /\ UNCHANGED <<handle, httpd>> /\ pc'["http"] = pc["http"]
             /\ \A u \in {"ui", "ev"} : /\ pc'[u] \in HoldingPc <=> pc[u] \in HoldingPc
                                        /\ pc'[u] = "ServerTake" => pc[u] = "ServerTake"
  BY <1>2, <1>6
<1>7. ASSUME NEW t \in {"ui", "ev"}, ServerStop(t) \/ ServerStopped(t)
      PROVE  /\ UNCHANGED <<handle, httpd>> /\ pc'["http"] = pc["http"]
             /\ \A u \in {"ui", "ev"} : /\ pc'[u] \in HoldingPc <=> pc[u] \in HoldingPc
                                        /\ pc'[u] = "ServerTake" => pc[u] = "ServerTake" \/ ServerStop(u)
  BY <1>3, <1>7
<1> QED
  BY <1>1, <1>4, <1>5, <1>6, <1>7 DEF Next, UiStep, EventStep, HttpStep, ServerStep

LEMMA TimingIsFixed == [Next]_vars => timing' = timing
<1>1. ASSUME NEW t \in {"ui", "ev"}, ServerStep(t) PROVE timing' = timing
  BY <1>1 DEF ServerStep, ServerBegin, ServerBind, ServerHttpd, ServerStore, ServerRoutes,
     ServerStop, ServerTake, ServerHttpdStop, ServerStopped, kept
<1>2. CASE StartService \/ StopService \/ TransportStart \/ WifiStarted \/ WifiFailed
             \/ TransportStarted \/ StationStarts \/ StationStarted \/ AccessPointStarts
             \/ ProvisioningStarted \/ TransportStop \/ WifiStop \/ Unregister \/ ServiceStopped
  BY <1>2 DEF StartService, StopService, TransportStart, WifiStarted, WifiFailed, TransportStarted,
     StationStarts, StationStarted, AccessPointStarts, ProvisioningStarted, TransportStop, WifiStop,
     Unregister, Release, ServiceStopped, kept
<1>3. CASE EventHandler \/ WifiConnected \/ NetworkConnected \/ Connected \/ NetworkDisconnected
             \/ Disconnected
  BY <1>3 DEF EventHandler, WifiConnected, NetworkConnected, Connected, NetworkDisconnected,
     Disconnected, kept
<1>4. CASE SaveWifi \/ HttpStep \/ RadioAnswers \/ RadioGetsAddress \/ RadioDrops \/ UNCHANGED vars
  BY <1>4 DEF SaveWifi, HttpStep, ProvisionWifi, Save, Restart, RadioAnswers, RadioGetsAddress,
     RadioDrops, vars, kept
<1> QED
  BY <1>1, <1>2, <1>3, <1>4 DEF Next, UiStep, EventStep

LEMMA ServerKeeps ==
  PcInv /\ ServerIsHeldOnce /\ FormInv /\ [Next]_vars => ServerIsHeldOnce' /\ FormInv'
<1> SUFFICES ASSUME PcInv, ServerIsHeldOnce, FormInv, [Next]_vars
             PROVE  ServerIsHeldOnce' /\ FormInv'
  OBVIOUS
<1>0. pc \in [{"ui", "ev", "http"} -> UiPc \cup EvPc \cup HttpPc]
  BY DEF PcInv
<1> USE <1>0
<1>1. ASSUME NEW t \in {"ui", "ev"}, ServerHttpd(t) PROVE ServerIsHeldOnce' /\ FormInv'
  BY <1>1 DEF ServerHttpd, Goto, ServerIsHeldOnce, FormInv
<1>5. ASSUME NEW t \in {"ui", "ev"}, ServerStore(t) PROVE ServerIsHeldOnce' /\ FormInv'
  BY <1>5 DEF ServerStore, Goto, ServerIsHeldOnce, FormInv
<1>2. ASSUME NEW t \in {"ui", "ev"}, ServerTake(t) PROVE ServerIsHeldOnce' /\ FormInv'
  BY <1>2 DEF ServerTake, Goto, ServerIsHeldOnce, FormInv
<1>3. ASSUME NEW t \in {"ui", "ev"}, ServerHttpdStop(t) PROVE ServerIsHeldOnce' /\ FormInv'
  BY <1>3 DEF ServerHttpdStop, Goto, ServerIsHeldOnce, FormInv
<1>4. CASE Restart
  BY <1>4 DEF Restart, AllIdle, ServerIsHeldOnce, FormInv
<1> QED
  BY <1>1, <1>2, <1>3, <1>4, <1>5, ServerChanges DEF ServerIsHeldOnce, FormInv, HoldingPc

LEMMA OwnerKeeps ==
  DataOK /\ PcInv /\ SessionInv /\ QuietInv /\ OwnerInv /\ [Next]_vars => OwnerInv'
<1> SUFFICES ASSUME DataOK, PcInv, SessionInv, QuietInv, OwnerInv, [Next]_vars,
                    "overlap" \notin timing, timing' = timing
             PROVE  OwnerInv'
  BY TimingIsFixed DEF OwnerInv
<1>0. /\ pc \in [{"ui", "ev", "http"} -> UiPc \cup EvPc \cup HttpPc]
      /\ {svc, tr, wf, sv} \subseteq LifecycleState
      /\ pc["ui"] \in UiPc /\ pc["ev"] \in EvPc
  BY DEF PcInv, DataOK
<1> USE <1>0 DEF StartingPc, EndingPc
\* Steps outside the local server
<1>1. CASE StartService \/ StopService \/ TransportStart \/ WifiStarted \/ WifiFailed
  BY <1>1 DEF StartService, StopService, TransportStart, WifiStarted, WifiFailed, Goto, server,
     BeginStart, BeginStop, OwnerInv, Shut, EventStartsServer, SessionInv
<1>2. CASE TransportStarted
  BY <1>2 DEF TransportStarted, Goto, server, OwnerInv, Shut, EventStartsServer, QuietInv, SessionInv,
     OpeningPc
<1>3. CASE StationStarts \/ StationStarted \/ AccessPointStarts \/ ProvisioningStarted
  BY <1>3 DEF StationStarts, StationStarted, AccessPointStarts, ProvisioningStarted, Goto, server,
     lifecycles, OwnerInv, Shut, EventStartsServer
<1>4. CASE TransportStop \/ WifiStop
  BY <1>4 DEF TransportStop, WifiStop, Goto, server, OwnerInv, Shut, EventStartsServer
<1>5. CASE Unregister \/ ServiceStopped
  BY <1>5 DEF Unregister, Release, ServiceStopped, Goto, server, OwnerInv, Shut, EventStartsServer
<1>6. CASE EventHandler \/ NetworkConnected \/ Connected \/ NetworkDisconnected \/ Disconnected
  BY <1>6 DEF EventHandler, NetworkConnected, Connected, NetworkDisconnected, Disconnected, Goto,
     server, lifecycles, OwnerInv, Shut, EventStartsServer
<1>7. CASE WifiConnected
  BY <1>7 DEF WifiConnected, Goto, server, lifecycles, OwnerInv, Shut, EventStartsServer, SessionInv
<1>8. CASE SaveWifi \/ ProvisionWifi \/ Save \/ RadioAnswers \/ RadioGetsAddress \/ RadioDrops \/ UNCHANGED vars
  BY <1>8 DEF SaveWifi, ProvisionWifi, Save, RadioAnswers, RadioGetsAddress, RadioDrops, vars, Goto,
     server, lifecycles, OwnerInv, Shut, EventStartsServer
<1>9. CASE Restart
  BY <1>9 DEF Restart, AllIdle, OwnerInv, Shut
\* Steps of the local server, on the UI task and on the event task
<1>10. CASE ServerBegin("ui")
  <2>1. /\ pc["ui"] = "ServerBegin" /\ tr' = tr /\ handle' = handle /\ pc'["ev"] = pc["ev"]
        /\ \/ sv = "stopped" /\ sv' = "starting" /\ pc'["ui"] = "ServerBind"
           \/ sv' = sv /\ pc'["ui"] \in {"Provisioning", "TransportStop"}
    BY <1>10 DEF ServerBegin, BeginStart, AfterStart, Goto, server
  <2>2. tr = "running"
    BY <2>1 DEF SessionInv, OpeningPc, LifecycleState
  <2> QED
    BY <2>1, <2>2 DEF OwnerInv, Shut, EventStartsServer
<1>11. CASE ServerBind("ui") \/ ServerHttpd("ui") \/ ServerStore("ui")
  BY <1>11 DEF ServerBind, ServerHttpd, ServerStore, Goto, lifecycles, OwnerInv, Shut,
     EventStartsServer
<1>12. CASE ServerRoutes("ui")
  BY <1>12 DEF ServerRoutes, AfterStart, Goto, server, OwnerInv, Shut, EventStartsServer, SessionInv
<1>13. CASE ServerStop("ui")
  <2>1. /\ pc["ui"] = "ServerStop" /\ tr' = tr /\ handle' = handle /\ pc'["ev"] = pc["ev"]
        /\ ~EventStartsServer /\ sv' = "stopping"
        /\ \/ sv \in {"starting", "running"} /\ pc'["ui"] = "ServerTake"
           \/ sv \notin {"starting", "running"} /\ tr = "stopping" /\ pc'["ui"] = "WifiStop"
           \/ sv \notin {"starting", "running"} /\ tr # "stopping" /\ pc'["ui"] = "TransportStop"
    BY <1>13 DEF ServerStop, AtomicBeginStop, AfterStop, AfterStart, Goto, LifecycleState
  <2>2. tr \in {"running", "stopping"}
    BY <2>1 DEF SessionInv, LifecycleState
  <2>3. ~EventStartsServer'
    BY <2>1 DEF EventStartsServer
  <2> QED
    BY <2>1, <2>2, <2>3 DEF OwnerInv, Shut, EventStartsServer
<1>14. CASE ServerTake("ui") \/ ServerHttpdStop("ui") \/ ServerStopped("ui")
  BY <1>14 DEF ServerTake, ServerHttpdStop, ServerStopped, AfterStop, AfterStart, Goto, lifecycles,
     server, OwnerInv, Shut, EventStartsServer
<1>15. CASE ServerBegin("ev")
  BY <1>15 DEF ServerBegin, BeginStart, AfterStart, Goto, server, OwnerInv, Shut, EventStartsServer,
     SessionInv
<1>16. CASE ServerBind("ev") \/ ServerHttpd("ev") \/ ServerStore("ev")
  BY <1>16 DEF ServerBind, ServerHttpd, ServerStore, Goto, lifecycles, OwnerInv, Shut,
     EventStartsServer
<1>17. CASE ServerRoutes("ev")
  BY <1>17 DEF ServerRoutes, AfterStart, Goto, server, OwnerInv, Shut, EventStartsServer
<1>18. CASE ServerStop("ev")
  BY <1>18 DEF ServerStop, AtomicBeginStop, AfterStop, AfterStart, Goto, OwnerInv, Shut,
     EventStartsServer, LifecycleState
<1>19. CASE ServerTake("ev") \/ ServerHttpdStop("ev") \/ ServerStopped("ev")
  BY <1>19 DEF ServerTake, ServerHttpdStop, ServerStopped, AfterStop, AfterStart, Goto, lifecycles,
     server, OwnerInv, Shut, EventStartsServer
<1> QED
  BY <1>1, <1>2, <1>3, <1>4, <1>5, <1>6, <1>7, <1>8, <1>9, <1>10, <1>11, <1>12, <1>13, <1>14, <1>15,
     <1>16, <1>17, <1>18, <1>19 DEF Next, UiStep, EventStep, HttpStep, ServerStep

LEMMA SavesKeep ==
  ASSUME DataOK, PcInv, SessionInv, QuietInv, ServerIsHeldOnce, FormInv, OwnerInv,
         SavesInsideSession, [Next]_vars
  PROVE  SavesInsideSession'
<1>0. pc \in [{"ui", "ev", "http"} -> UiPc \cup EvPc \cup HttpPc]
  BY DEF PcInv
<1> USE <1>0
<1>1. CASE ServiceStopped
  <2>1. pc["ui"] = "ServiceStopped" /\ pc'["http"] = pc["http"] /\ timing' = timing
    BY <1>1 DEF ServiceStopped, Goto, kept
  <2>2. ASSUME "overlap" \notin timing PROVE pc["http"] = "Idle"
    <3>1. pc["ev"] = "Idle"
      BY <2>1 DEF SessionInv, QuietInv
    <3>2. ~handle
      BY <2>1, <2>2, <3>1 DEF OwnerInv, Shut
    <3> QED
      BY <2>1, <3>1, <3>2 DEF ServerIsHeldOnce, FormInv
  <2> QED
    BY <2>1, <2>2 DEF SavesInsideSession
<1>2. CASE StartService \/ StopService \/ TransportStart \/ WifiStarted \/ WifiFailed
             \/ TransportStarted
  BY <1>2 DEF StartService, StopService, TransportStart, WifiStarted, WifiFailed, TransportStarted,
     Goto, kept, BeginStart, BeginStop, SessionInv, OpeningPc, SavesInsideSession
<1>3. CASE StationStarts \/ StationStarted \/ AccessPointStarts \/ ProvisioningStarted \/ TransportStop
             \/ WifiStop \/ Unregister
  BY <1>3 DEF StationStarts, StationStarted, AccessPointStarts, ProvisioningStarted, TransportStop,
     WifiStop, Unregister, Release, Goto, kept, lifecycles, SavesInsideSession
<1>4. ASSUME NEW t \in {"ui", "ev"}, ServerStep(t) PROVE SavesInsideSession'
  BY <1>4 DEF ServerStep, ServerBegin, ServerBind, ServerHttpd, ServerStore, ServerRoutes,
     ServerStop, ServerTake, ServerHttpdStop, ServerStopped, Goto, kept, lifecycles,
     SavesInsideSession
<1>5. CASE EventHandler \/ WifiConnected \/ NetworkConnected \/ Connected \/ NetworkDisconnected
             \/ Disconnected
  BY <1>5 DEF EventHandler, WifiConnected, NetworkConnected, Connected, NetworkDisconnected,
     Disconnected, Goto, kept, lifecycles, SavesInsideSession
<1>6. CASE SaveWifi \/ ProvisionWifi \/ Save \/ Restart
  BY <1>6 DEF SaveWifi, ProvisionWifi, Save, Restart, AllIdle, Goto, kept, lifecycles,
     SavesInsideSession
<1>7. CASE RadioAnswers \/ RadioGetsAddress \/ RadioDrops \/ UNCHANGED vars
  BY <1>7 DEF RadioAnswers, RadioGetsAddress, RadioDrops, vars, kept, lifecycles, SavesInsideSession
<1> QED
  BY <1>1, <1>2, <1>3, <1>4, <1>5, <1>6, <1>7 DEF Next, UiStep, EventStep, HttpStep

-----------------------------------------------------------------------------
(* The policy and the radio                                                 *)

GotPc == {"Got", "Notify", "Connected"} \cup ServerPc
LostPc == {"Lost", "Disconnected"}

LEMMA PendingIs ==
  /\ Pending(<<>>) <=> pc["ev"] = "Idle" /\ queue = <<>>
  /\ Pending(<<"got_ip">>) <=> \/ pc["ev"] = "Idle" /\ queue = <<"got_ip">>
                               \/ pc["ev"] \in GotPc /\ queue = <<>>
  /\ Pending(<<"lost">>) <=> \/ pc["ev"] = "Idle" /\ queue = <<"lost">>
                             \/ pc["ev"] \in LostPc /\ queue = <<>>
  /\ Pending(<<"got_ip", "lost">>) <=> \/ pc["ev"] = "Idle" /\ queue = <<"got_ip", "lost">>
                                       \/ pc["ev"] \in GotPc /\ queue = <<"lost">>
<1>1. /\ Head(<<"got_ip">>) = "got_ip" /\ Tail(<<"got_ip">>) = <<>> /\ <<"got_ip">> # <<>>
      /\ Head(<<"lost">>) = "lost" /\ Tail(<<"lost">>) = <<>> /\ <<"lost">> # <<>>
      /\ Head(<<"got_ip", "lost">>) = "got_ip" /\ Tail(<<"got_ip", "lost">>) = <<"lost">>
      /\ <<"got_ip", "lost">> # <<>>
  OBVIOUS
<1>2. /\ Handling("got_ip") <=> pc["ev"] \in GotPc
      /\ Handling("lost") <=> pc["ev"] \in LostPc
  BY DEF Handling, GotPc, LostPc
<1> QED
  BY <1>1, <1>2 DEF Pending

\* What the radio may be while a start is under way and after it
Opening == svc = "starting" /\ pc["ui"] \notin {"TransportStart", "WifiStart"}

OpeningAgrees ==
  /\ pc["ev"] = "Idle" /\ queue = <<>> /\ radio \notin {"joined", "linked"}
  /\ radio = "trying" <=> pc["ui"] = "StationStarted"
  /\ pc["ui"] = "Provisioning" \/ (tr = "running" /\ pc["ui"] \in ServerPc) => radio = "ap"

RunningAgrees ==
  \/ /\ radio \in {"trying", "joined", "refused"} /\ conn = "connecting"
     /\ pc["ev"] = "Idle" /\ queue = <<>>
  \/ radio = "linked" /\ conn = "connecting" /\ pc["ev"] = "Idle" /\ queue = <<"got_ip">>
  \/ radio = "linked" /\ conn = "connecting" /\ pc["ev"] \in GotPc /\ queue = <<>>
  \/ radio = "linked" /\ conn = "station" /\ pc["ev"] = "Idle" /\ queue = <<>>
  \/ radio = "idle" /\ conn \in {"connecting", "station"} /\ pc["ev"] = "Idle" /\ queue = <<"lost">>
  \/ radio = "idle" /\ conn \in {"connecting", "station"} /\ pc["ev"] \in LostPc /\ queue = <<>>
  \/ radio = "idle" /\ conn = "connecting" /\ pc["ev"] = "Idle" /\ queue = <<"got_ip", "lost">>
  \/ radio = "idle" /\ conn = "connecting" /\ pc["ev"] \in GotPc /\ queue = <<"lost">>
  \/ radio = "idle" /\ conn = "failed" /\ retry = MaxRetries /\ pc["ev"] = "Idle" /\ queue = <<>>
  \/ radio = "ap" /\ conn = "provisioning" /\ pc["ev"] = "Idle" /\ queue = <<>>

LEMMA AgreeIs ==
  AgreeInv <=> (timing = {} => (Opening => OpeningAgrees) /\ (svc = "running" => RunningAgrees))
  BY PendingIs DEF AgreeInv, Opening, OpeningAgrees, RunningAgrees

LEMMA AgreeKeeps ==
  ASSUME DataOK, PcInv, SessionInv, QuietInv, AgreeInv, [Next]_vars
  PROVE  AgreeInv'
<1> SUFFICES ASSUME timing = {} PROVE (Opening' => OpeningAgrees') /\ (svc' = "running" => RunningAgrees')
  <2>1. (AgreeInv <=> (timing = {} => (Opening => OpeningAgrees) /\ (svc = "running" => RunningAgrees)))'
    BY AgreeIs, PTL
  <2> QED
    BY <2>1, TimingIsFixed
<1>0. /\ pc \in [{"ui", "ev", "http"} -> UiPc \cup EvPc \cup HttpPc]
      /\ {svc, tr, wf, sv} \subseteq LifecycleState
      /\ retry \in 0..MaxRetries /\ MaxRetries \in Nat
      /\ Opening => OpeningAgrees
      /\ svc = "running" => RunningAgrees
  BY AgreeIs, NetworkAssumption DEF PcInv, DataOK
<1> USE <1>0
<1>1. CASE StartService \/ StopService \/ WifiFailed \/ ServiceStopped \/ Restart \/ TransportStart
  BY <1>1 DEF StartService, StopService, WifiFailed, ServiceStopped, Restart, TransportStart, Goto,
     Opening, BeginStart, SessionInv, OpeningPc
<1>2. CASE WifiStarted
  <2>1. queue = <<>> /\ wf = "stopped" /\ svc = "starting" /\ tr = "starting"
    BY <1>2 DEF WifiStarted, BeginStart, SessionInv, OpeningPc
  <2>2. pc["ev"] = "Idle" /\ radio = "off"
    BY <2>1 DEF SessionInv, QuietInv
  <2> QED
    BY <1>2, <2>1, <2>2 DEF WifiStarted, Goto, sdk, Opening, OpeningAgrees
<1>3. CASE TransportStarted \/ StationStarts \/ AccessPointStarts
  <2>1. svc = "starting" /\ OpeningAgrees /\ radio # "trying" /\ svc' = svc
    BY <1>3 DEF TransportStarted, StationStarts, AccessPointStarts, SessionInv, OpeningPc, Opening,
       OpeningAgrees, lifecycles
  <2> QED
    BY <1>3, <2>1 DEF TransportStarted, StationStarts, AccessPointStarts, Goto, sdk, Opening,
       OpeningAgrees, ServerPc, StartingPc, EndingPc
<1>4. CASE StationStarted \/ ProvisioningStarted
  <2>1. svc = "starting" /\ OpeningAgrees
    BY <1>4 DEF StationStarted, ProvisioningStarted, SessionInv, OpeningPc, Opening
  <2> QED
    BY <1>4, <2>1 DEF StationStarted, ProvisioningStarted, Goto, sdk, Opening, OpeningAgrees,
       RunningAgrees
<1>5. CASE TransportStop \/ WifiStop \/ Unregister
  <2>1. /\ svc' = svc /\ svc # "running" /\ tr' # "running"
        /\ pc["ui"] \in {"TransportStop", "WifiStop", "Unregister"}
        /\ pc'["ui"] \in {"ServerStop", "Unregister", "ServiceStopped"} /\ pc'["ev"] = pc["ev"]
        /\ \/ UNCHANGED <<radio, queue>>
           \/ radio' = "off" /\ (radio \notin {"joined", "linked"} => queue' = queue)
    BY <1>5 DEF TransportStop, WifiStop, Unregister, Release, Goto, sdk, SessionInv
  <2> QED
    BY <2>1 DEF Opening, OpeningAgrees
<1>6. CASE ServerStep("ui")
  <2>1. UNCHANGED <<svc, tr, sdk>> /\ pc'["ev"] = pc["ev"] /\ svc # "running"
    BY <1>6 DEF ServerStep, ServerBegin, ServerBind, ServerHttpd, ServerStore, ServerRoutes,
       ServerStop, ServerTake, ServerHttpdStop, ServerStopped, lifecycles, Goto, SessionInv
  <2>2. /\ pc["ui"] \in ServerPc
        /\ pc'["ui"] \in ServerPc \cup {"Provisioning", "TransportStop", "WifiStop"}
        /\ pc'["ui"] = "Provisioning" => pc["ui"] \in {"ServerBegin"} \cup StartingPc
    BY <1>6 DEF ServerStep, ServerBegin, ServerBind, ServerHttpd, ServerStore, ServerRoutes,
       ServerStop, ServerTake, ServerHttpdStop, ServerStopped, AfterStart, AfterStop, Goto,
       ServerPc, StartingPc, EndingPc
  <2>3. pc["ui"] \in {"ServerBegin"} \cup StartingPc => tr = "running"
    BY DEF SessionInv, OpeningPc, StartingPc, EndingPc, LifecycleState
  <2> QED
    BY <2>1, <2>2, <2>3 DEF Opening, OpeningAgrees, sdk, ServerPc, StartingPc, EndingPc
\* The event task: nothing happens to it while a start is under way.
<1>7. ASSUME UNCHANGED <<svc, tr, pc["ui"]>>, pc["ev"] # "Idle" \/ queue # <<>> \/ radio \in {"joined", "linked"},
             svc = "running" => RunningAgrees'
      PROVE  (Opening' => OpeningAgrees') /\ (svc' = "running" => RunningAgrees')
  BY <1>7 DEF Opening, OpeningAgrees
<1>8. svc = "running" => tr = "running" /\ wf = "running" /\ wired /\ handlers
  BY DEF SessionInv, LifecycleState, EndingPc
<1>9. CASE ServerStep("ev")
  <2>1. /\ UNCHANGED <<svc, tr, wf, policy, sdk>> /\ pc'["ui"] = pc["ui"]
        /\ pc["ev"] \in GotPc /\ pc'["ev"] \in GotPc
    BY <1>9 DEF ServerStep, ServerBegin, ServerBind, ServerHttpd, ServerStore, ServerRoutes,
       ServerStop, ServerTake, ServerHttpdStop, ServerStopped, lifecycles, Goto, AfterStart,
       AfterStop, GotPc, ServerPc, StartingPc, EndingPc
  <2>2. pc["ev"] # "Idle" /\ pc["ev"] \notin LostPc
    BY <2>1 DEF GotPc, LostPc, ServerPc, StartingPc, EndingPc
  <2> QED
    BY <1>7, <2>1, <2>2 DEF RunningAgrees, policy, sdk
<1>10. CASE EventHandler
  <2>1. /\ pc["ev"] = "Idle" /\ queue # <<>> /\ queue' = Tail(queue) /\ pc'["ui"] = pc["ui"]
        /\ UNCHANGED <<svc, tr, radio, conn, retry>>
        /\ svc = "running" => pc'["ev"] = IF Head(queue) = "got_ip" THEN "Got" ELSE "Lost"
    BY <1>8, <1>10 DEF EventHandler, Goto, lifecycles, policy
  <2>2. svc = "running" => RunningAgrees'
    <3>1. /\ "Got" \in GotPc /\ "Lost" \in LostPc
          /\ "Idle" \notin GotPc /\ "Idle" \notin LostPc
      BY DEF GotPc, LostPc, ServerPc, StartingPc, EndingPc
    <3>2. /\ Head(<<"got_ip">>) = "got_ip" /\ Tail(<<"got_ip">>) = <<>>
          /\ Head(<<"lost">>) = "lost" /\ Tail(<<"lost">>) = <<>>
          /\ Head(<<"got_ip", "lost">>) = "got_ip" /\ Tail(<<"got_ip", "lost">>) = <<"lost">>
      OBVIOUS
    <3> QED
      BY <2>1, <3>1, <3>2 DEF RunningAgrees
  <2> QED
    BY <1>7, <2>1, <2>2
<1>11. CASE WifiConnected \/ NetworkConnected
  <2>1. /\ UNCHANGED <<svc, tr, conn, retry, radio, queue>> /\ pc'["ui"] = pc["ui"]
        /\ pc["ev"] \in {"Got", "Notify"}
        /\ svc = "running" => pc'["ev"] \in {"ServerBegin", "Connected"}
    BY <1>8, <1>11 DEF WifiConnected, NetworkConnected, Goto, lifecycles, policy, sdk
  <2>2. svc = "running" => RunningAgrees'
    BY <2>1 DEF RunningAgrees, GotPc, LostPc, ServerPc, StartingPc, EndingPc
  <2> QED
    BY <1>7, <2>1, <2>2
<1>12. CASE Connected
  <2>1. /\ UNCHANGED <<svc, tr, radio, queue>> /\ pc'["ui"] = pc["ui"] /\ conn' = "station"
        /\ pc["ev"] = "Connected" /\ pc'["ev"] = "Idle"
    BY <1>12 DEF Connected, Goto, lifecycles, sdk
  <2>2. svc = "running" => RunningAgrees'
    BY <2>1 DEF RunningAgrees, GotPc, LostPc, ServerPc, StartingPc, EndingPc
  <2> QED
    BY <1>7, <2>1, <2>2
<1>13. CASE NetworkDisconnected
  <2>1. /\ UNCHANGED <<svc, tr, conn, retry, radio, queue>> /\ pc'["ui"] = pc["ui"]
        /\ pc["ev"] = "Lost" /\ (svc = "running" => pc'["ev"] = "Disconnected")
    BY <1>8, <1>13 DEF NetworkDisconnected, Goto, lifecycles, policy, sdk
  <2>2. svc = "running" => RunningAgrees'
    BY <2>1 DEF RunningAgrees, GotPc, LostPc, ServerPc, StartingPc, EndingPc
  <2> QED
    BY <1>7, <2>1, <2>2
<1>14. CASE Disconnected
  <2>1. /\ UNCHANGED <<svc, tr, queue>> /\ pc'["ui"] = pc["ui"]
        /\ pc["ev"] = "Disconnected" /\ pc'["ev"] = "Idle"
    BY <1>14 DEF Disconnected, Goto, lifecycles
  <2>2. svc = "running" => radio = "idle" /\ queue = <<>>
    BY <2>1 DEF RunningAgrees, GotPc, LostPc, ServerPc, StartingPc, EndingPc
  <2>3. svc = "running" => \/ conn' = "connecting" /\ radio' \in {"trying", "refused"}
                           \/ conn' = "failed" /\ retry' = MaxRetries /\ radio' = "idle"
    BY <1>8, <1>14, <2>2 DEF Disconnected, Reconnect
  <2>4. svc = "running" => RunningAgrees'
    BY <2>1, <2>2, <2>3 DEF RunningAgrees
  <2> QED
    BY <1>7, <2>1, <2>4
\* The radio
<1>15. CASE RadioAnswers \/ RadioGetsAddress \/ RadioDrops
  <2>1. /\ UNCHANGED <<svc, tr, conn, retry, pc>> /\ pc["ui"] # "StationStarted"
        /\ \/ radio = "trying" /\ radio' = "joined" /\ queue' = queue
           \/ radio = "joined" /\ radio' = "linked" /\ queue' = Append(queue, "got_ip")
           \/ radio \in {"trying", "joined", "linked"} /\ radio' = "idle" /\ queue' = Append(queue, "lost")
    BY <1>15 DEF RadioAnswers, RadioGetsAddress, RadioDrops, RadioMayPost, lifecycles, policy
  <2>2. ~Opening
    BY <2>1 DEF OpeningAgrees
  <2>3. svc = "running" => RunningAgrees'
    <3>1. /\ Append(<<>>, "got_ip") = <<"got_ip">> /\ Append(<<>>, "lost") = <<"lost">>
      OBVIOUS
    <3>2. Append(<<"got_ip">>, "lost") = <<"got_ip", "lost">>
      <4> DEFINE s == Append(<<"got_ip">>, "lost")
                 both == <<"got_ip", "lost">>
      <4>1. /\ s \in Seq({"got_ip", "lost"}) /\ Len(s) = 2
            /\ s[1] = "got_ip" /\ s[2] = "lost"
        OBVIOUS
      <4>2. /\ both \in Seq({"got_ip", "lost"}) /\ Len(both) = 2
            /\ both[1] = "got_ip" /\ both[2] = "lost"
        OBVIOUS
      <4> HIDE DEF s, both
      <4>3. \A i \in 1 .. Len(s) : s[i] = both[i]
        BY <4>1, <4>2
      <4>4. s = both
        BY <4>1, <4>2, <4>3, SeqEqual
      <4> QED
        BY <4>4 DEF s, both
    <3> QED
      BY <2>1, <3>1, <3>2 DEF RunningAgrees
  <2> QED
    BY <2>1, <2>2, <2>3 DEF Opening
<1>16. CASE SaveWifi \/ ProvisionWifi \/ Save \/ UNCHANGED vars
  BY <1>16 DEF SaveWifi, ProvisionWifi, Save, vars, Goto, lifecycles, policy, sdk, Opening,
     OpeningAgrees, RunningAgrees
<1> QED
  BY <1>1, <1>2, <1>3, <1>4, <1>5, <1>6, <1>9, <1>10, <1>11, <1>12, <1>13, <1>14, <1>15, <1>16
  DEF Next, UiStep, EventStep, HttpStep

-----------------------------------------------------------------------------
(* Theorems                                                                 *)

(* Each of the three tasks finds the lifecycles, the wiring, the server    *)
(* and the policy where the calls of the other two have left them.         *)
THEOREM NetworkInvariant == Spec => []NetworkInv
<1>1. NetworkInv /\ [Next]_vars => NetworkInv'
  <2> SUFFICES ASSUME NetworkInv, [Next]_vars PROVE NetworkInv'
    OBVIOUS
  <2>1. DataOK' /\ FlagsOK' /\ PcInv' /\ SessionInv'
    BY DataKeeps, FlagsKeep, PcKeeps, SessionKeeps DEF NetworkInv
  <2>2. QuietInv' /\ ServerIsHeldOnce' /\ FormInv' /\ OwnerInv'
    BY QuietKeeps, ServerKeeps, OwnerKeeps DEF NetworkInv
  <2>3. SavesInsideSession' /\ AgreeInv'
    BY SavesKeep, AgreeKeeps DEF NetworkInv
  <2> QED
    BY <2>1, <2>2, <2>3 DEF NetworkInv
<1> QED
  BY NetworkInit, <1>1, PTL DEF Spec

(* NetworkConnectionPolicy keeps retry_count_ within its budget, and no    *)
(* lifecycle of the stack is in transition outside the calls of the UI     *)
(* task.                                                                   *)
THEOREM TypeCorrect == Spec => []TypeOK
<1>1. NetworkInv => TypeOK
  <2> SUFFICES ASSUME NetworkInv PROVE TypeOK
    OBVIOUS
  <2>1. {wired, handlers, provisioner, handle, creds} \subseteq BOOLEAN
    BY Zenon DEF NetworkInv, FlagsOK
  <2>2. UiIdle => {svc, tr, wf} \subseteq {"stopped", "running"}
    BY DEF NetworkInv, DataOK, SessionInv, UiIdle, LifecycleState, EndingPc
  <2> QED
    BY <2>1, <2>2 DEF TypeOK, NetworkInv, DataOK, FormInv
<1> QED
  BY NetworkInvariant, <1>1, PTL

(* Every HTTP server alive is held in server_ or being stopped by exactly  *)
(* one task, whatever connected events, failed starts and stops overlap.   *)
THEOREM ServerHeldOnce == Spec => []ServerIsHeldOnce
<1>1. NetworkInv => ServerIsHeldOnce
  BY DEF NetworkInv
<1> QED
  BY NetworkInvariant, <1>1, PTL

(* After a stop or a failed start no callback of the ended session can     *)
(* change the service any more, early answers and stale events included.   *)
THEOREM StoppedStaysQuiet == Spec => []StoppedIsQuiet
<1>1. NetworkInv => StoppedIsQuiet
  BY DEF NetworkInv, SessionInv, QuietInv, StoppedIsQuiet, UiIdle
<1> QED
  BY NetworkInvariant, <1>1, PTL

(* A form is saved only inside a session, unless a stop overtakes the      *)
(* start of the server.                                                    *)
THEOREM SavesStayInside == Spec => []SavesInsideSession
<1>1. NetworkInv => SavesInsideSession
  BY DEF NetworkInv
<1> QED
  BY NetworkInvariant, <1>1, PTL

(* Without races and with every event handled the state of the policy      *)
(* agrees with the radio: it is connecting while the station tries, waits  *)
(* for an address, or was refused by the last reconnect.                   *)
THEOREM PolicyAgrees == Spec => []PolicyAgreesWithRadio
<1>1. NetworkInv => PolicyAgreesWithRadio
  <2> SUFFICES ASSUME NetworkInv, timing = {}, pc["ev"] = "Idle", queue = <<>>, svc = "running"
               PROVE  CASE conn = "connecting"   -> radio \in {"trying", "joined", "refused"}
                        [] conn = "station"      -> radio = "linked"
                        [] conn = "failed"       -> radio = "idle" /\ retry = MaxRetries
                        [] conn = "provisioning" -> radio = "ap"
                        [] conn = "stopped"      -> FALSE
    BY DEF PolicyAgreesWithRadio, UiIdle, EventIdle
  <2>1. RunningAgrees
    BY AgreeIs DEF NetworkInv
  <2>2. "Idle" \notin GotPc /\ "Idle" \notin LostPc
    BY DEF GotPc, LostPc, ServerPc, StartingPc, EndingPc
  <2>3. \/ radio \in {"trying", "joined", "refused"} /\ conn = "connecting"
        \/ radio = "linked" /\ conn = "station"
        \/ radio = "idle" /\ conn = "failed" /\ retry = MaxRetries
        \/ radio = "ap" /\ conn = "provisioning"
    BY <2>1, <2>2 DEF RunningAgrees
  <2> QED
    BY <2>3
<1> QED
  BY NetworkInvariant, <1>1, PTL

=============================================================================
