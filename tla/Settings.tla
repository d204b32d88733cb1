------------------------------ MODULE Settings ------------------------------
(***************************************************************************)
(* services::SettingsService over its NVS backend, and WifiSettings, which *)
(* keeps the Wi-Fi credentials as two keys.  The task of the provisioning  *)
(* server saves them one backend call at a time.  A write may fail, with   *)
(* or without having taken effect, a read may fail, and power may be lost. *)
(***************************************************************************)
EXTENDS Lifecycle

CONSTANTS Networks,   \* what can be submitted: a name and its password each
          NoValue     \* a key that is not stored

ASSUME NetworksAssumption == NoValue \notin Networks

VARIABLES
  settings,  \* SettingsService::lifecycle_ and, in open, whether handle_ is open
  store,     \* the keys in flash: whose name and whose password they hold
  save,      \* where save_wifi is, its argument, and previous when it was read
  torn       \* a fault the rollback cannot reach has left the two keys apart

settingsVars == <<settings, store, save, torn>>

Closed == [lifecycle |-> "stopped", open |-> FALSE]
NoSave == [at |-> "idle", new |-> NoValue, previous |-> NoValue]

SettingsInit ==
  /\ settings = Closed /\ save = NoSave /\ torn = FALSE
  /\ store = [wifi_ssid |-> NoValue, wifi_pass |-> NoValue]

SettingsStart ==
  /\ BeginStart(settings.lifecycle).acquire
  /\ settings' = [lifecycle |-> "running", open |-> TRUE]
  /\ UNCHANGED <<store, save, torn>>

\* begin_stop refuses a service whose namespace never opened.
SettingsStop ==
  /\ settings' = IF BeginStop(settings.lifecycle).release THEN Closed ELSE settings
  /\ UNCHANGED <<store, save, torn>>

-----------------------------------------------------------------------------
(* SettingsService and the backend, one key at a time                       *)

Running == settings.lifecycle = "running"

\* The write is committed.
Write(key, value) ==
  /\ Running
  /\ store' = [store EXCEPT ![key] = value]

\* The service refuses, or set or commit fails; then the key may have changed.
WriteFails(key, value) ==
  store' \in {store} \cup (IF Running THEN {[store EXCEPT ![key] = value]} ELSE {})

Readable(key) == Running /\ store[key] # NoValue

-----------------------------------------------------------------------------
(* save_wifi on the HTTP task                                               *)

\* What parse_wifi_credentials accepts: a name, and its password or an empty
\* one.  Any other form is refused before anything is saved.
Submitted == Networks

\* load_wifi reads both keys or fails, and then there is nothing to restore.
Previous == {NoValue} \cup
  (IF Readable("wifi_ssid") /\ Readable("wifi_pass") THEN {store.wifi_ssid} ELSE {})

SaveBegins(network) ==
  /\ save.at = "idle"
  /\ \E previous \in Previous :
       save' = [at |-> "ssid", new |-> network, previous |-> previous]
  /\ UNCHANGED <<settings, store, torn>>

SsidWritten ==
  /\ save.at = "ssid"
  /\ Write("wifi_ssid", save.new)
  /\ save' = [save EXCEPT !.at = "password"]
  /\ UNCHANGED <<settings, torn>>

SsidFails ==
  /\ save.at = "ssid"
  /\ WriteFails("wifi_ssid", save.new)
  /\ torn' = (torn \/ store' # store)
  /\ save' = NoSave
  /\ UNCHANGED settings

PasswordWritten ==
  /\ save.at = "password"
  /\ Write("wifi_pass", save.new)
  /\ save' = NoSave /\ torn' = FALSE
  /\ UNCHANGED settings

\* Mutant: the failure is reported and the name stays.
PasswordFailsQuietly ==
  /\ save.at = "password"
  /\ WriteFails("wifi_pass", save.new)
  /\ torn' = (torn \/ store' # store)
  /\ save' = NoSave
  /\ UNCHANGED settings

PasswordFails ==
  /\ save.at = "password"
  /\ WriteFails("wifi_pass", save.new)
  /\ torn' = (torn \/ store' # store)
  /\ save' = [save EXCEPT !.at = "rollback"]
  /\ UNCHANGED settings

\* previous is written again, or the key erased.
RolledBack ==
  /\ save.at = "rollback"
  /\ Write("wifi_ssid", save.previous)
  /\ save' = NoSave
  /\ UNCHANGED <<settings, torn>>

RollbackFails ==
  /\ save.at = "rollback"
  /\ WriteFails("wifi_ssid", save.previous)
  /\ save' = NoSave /\ torn' = TRUE
  /\ UNCHANGED settings

SaveSteps == \/ SsidWritten \/ SsidFails \/ PasswordWritten \/ PasswordFails
             \/ RolledBack \/ RollbackFails

-----------------------------------------------------------------------------
\* FirmwareNvsFoundation erases a partition it cannot use.
NvsErased ==
  /\ settings = Closed /\ save = NoSave /\ torn' = FALSE
  /\ store' = [wifi_ssid |-> NoValue, wifi_pass |-> NoValue]
  /\ UNCHANGED <<settings, save>>

\* Only the flash survives; a save it interrupts after its first write stays so.
SettingsPowerLoss ==
  /\ settings' = Closed /\ save' = NoSave
  /\ torn' = (torn \/ save.at \in {"password", "rollback"})
  /\ UNCHANGED store

=============================================================================
