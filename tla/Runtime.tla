------------------------------- MODULE Runtime -------------------------------
(***************************************************************************)
(* From FirmwareServices to the runtime loop: boot registers a catalog and *)
(* starts it, and either goes on to the loop, which ticks the services,    *)
(* relays events and ticks the shell, or fails later and takes the         *)
(* services down.  Meanwhile the network service, once it runs, posts      *)
(* events from the Wi-Fi event task and saves credentials on the HTTP      *)
(* task.  Power may be lost at any time.                                   *)
(***************************************************************************)
EXTENDS ServiceManager, Settings, Events

CONSTANTS
  SettingsId, NetworkId,  \* the two services with state in this module
  Catalogs                \* the registrations, of which boot makes one

ASSUME RuntimeAssumption ==
  /\ {SettingsId, NetworkId} \subseteq Services
  /\ \A c \in Catalogs : c \in Seq(Services) /\ IsInjective(c)

VARIABLE loop   \* "boot", and then the stage of a turn of the loop

runtimeVars == <<vars, settingsVars, eventVars, loop>>

RuntimeInit == Init /\ SettingsInit /\ EventsInit /\ loop = "boot"

UiFree == at["ui"] = "idle"
Quiet == UNCHANGED <<settingsVars, eventVars, loop>>

-----------------------------------------------------------------------------
(* FirmwareServices::start and stop on the UI task                          *)

RegisterCatalog == services = <<>> /\ (\E catalog \in Catalogs : Register(catalog)) /\ Quiet

StartServices == services # <<>> /\ StartAll /\ Quiet

\* A service starts; settings with its namespace open, network and its post.
StartsService ==
  /\ UiFree /\ ServiceStarted
  /\ IF services[index] = SettingsId THEN SettingsStart ELSE UNCHANGED settingsVars
  /\ IF services[index] = NetworkId THEN PostCalled("ui") ELSE UNCHANGED eventVars
  /\ UNCHANGED loop

\* A service that fails may hold resources; these two clean up in start.
FailsService ==
  /\ UiFree
  /\ \/ ServiceDegraded /\ (services[index] \in {SettingsId, NetworkId} => running' = running)
     \/ ServiceFailed
  /\ Quiet

\* NetworkService::stop returns once its HTTP server has no request left.
StopsService ==
  /\ UiFree /\ StopService
  /\ LET stopped == running \ running'
     IN /\ NetworkId \in stopped => save.at = "idle"
        /\ IF SettingsId \in stopped THEN SettingsStop ELSE UNCHANGED settingsVars
  /\ UNCHANGED <<eventVars, loop>>

\* A boot that fails after its services, or in them, takes them down.
TakesDown == UiFree /\ loop = "boot" /\ (StopAll \/ (services # <<>> /\ Clear)) /\ Quiet

ManagerSteps == (BeginService \/ AllStarted \/ AllStopped) /\ UiFree /\ Quiet

-----------------------------------------------------------------------------
(* RuntimeLoop::step: services, relay, shell                                *)

BootCompletes ==
  /\ loop = "boot" /\ phase = "None" /\ lifecycle = "running" /\ UiFree
  /\ loop' = "services"
  /\ UNCHANGED <<vars, settingsVars, eventVars>>

TickServices ==
  /\ loop = "services"
  /\ loop' = "relay"
  /\ RelayCalled
  /\ UNCHANGED <<vars, settingsVars>>

RelayDone ==
  /\ loop = "relay" /\ RelayEmpty
  /\ loop' = "shell"
  /\ UNCHANGED <<vars, settingsVars>>

TickShell ==
  /\ loop = "shell"
  /\ loop' = "services"
  /\ UNCHANGED <<vars, settingsVars, eventVars>>

UiEvents ==
  /\ Relays \/ Posts("ui")
  /\ UNCHANGED <<vars, settingsVars, loop>>

-----------------------------------------------------------------------------
(* The network service on the other tasks                                   *)

NetworkRuns == NetworkId \in running

WifiEvents ==
  /\ (NetworkRuns /\ PostCalled("wifi")) \/ Posts("wifi")
  /\ UNCHANGED <<vars, settingsVars, loop>>

Provisions ==
  /\ (NetworkRuns /\ \E network \in Submitted : SaveBegins(network)) \/ SaveSteps
  /\ UNCHANGED <<vars, eventVars, loop>>

PowerLoss ==
  /\ SettingsPowerLoss
  /\ lifecycle' = "stopped" /\ services' = <<>> /\ health' = <<>> /\ started' = 0
  /\ index' = 0 /\ phase' = "None" /\ running' = {} /\ critical' = critical
  /\ mailbox' = [queue |-> [i \in 0..MailboxCapacity - 1 |-> NoEvent],
                 head |-> 0, tail |-> 0, count |-> 0, lock |-> "free"]
  /\ at' = [t \in EventTasks |-> "idle"] /\ event' = [t \in EventTasks |-> NoEvent]
  /\ accepted' = <<>> /\ posts' = posts
  /\ loop' = "boot"

FlashErased == services = <<>> /\ loop = "boot" /\ NvsErased /\ UNCHANGED <<vars, eventVars, loop>>

RuntimeNext ==
  \/ RegisterCatalog \/ StartServices \/ StartsService \/ FailsService
  \/ StopsService \/ TakesDown \/ ManagerSteps
  \/ BootCompletes \/ TickServices \/ RelayDone \/ TickShell \/ UiEvents
  \/ WifiEvents \/ Provisions \/ PowerLoss \/ FlashErased

RuntimeSpec == RuntimeInit /\ [][RuntimeNext]_runtimeVars

-----------------------------------------------------------------------------
(* Properties *)

(***************************************************************************)
(* Outside a save, what load_wifi would return was submitted together: a   *)
(* password that cannot be written takes the new name back with it.  Only  *)
(* faults the code cannot undo tear the pair: power lost between the two   *)
(* writes, a rollback that fails, or a write that fails and takes effect.  *)
(***************************************************************************)
WifiPairWhole ==
  save.at = "idle" /\ ~torn /\ NoValue \notin {store.wifi_ssid, store.wifi_pass}
    => store.wifi_ssid = store.wifi_pass

(***************************************************************************)
(* A save never meets a namespace that is being closed: with settings      *)
(* registered before network, a boot that fails while a request is served  *)
(* stops network first, and that waits for the request.                    *)
(***************************************************************************)
SettingsFirst ==
  \A i, j \in DOMAIN services : services[i] = SettingsId /\ services[j] = NetworkId => i < j

SavesMeetOpenStore ==
  [][settings.open /\ ~settings'.open /\ services # <<>> /\ services' # <<>> /\ SettingsFirst
       => save.at = "idle"]_runtimeVars

=============================================================================
