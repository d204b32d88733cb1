---------------------------- MODULE Applications ----------------------------
(***************************************************************************)
(* The applications under their manager: AppManager decides who starts and *)
(* stops and when the worker has to be idle, Recorder, Notes, HardwareTest *)
(* and ExternalApps say what the applications then do.  FirmwareApplica-   *)
(* tions registers the built-in ones, discovers those on the card, and     *)
(* takes all of them down again when a boot fails.                         *)
(***************************************************************************)
EXTENDS AppManager, Recorder, Notes, HardwareTest, ExternalApps

CONSTANTS RecorderId, NotesId, HardwareId   \* the built-in applications

Builtin == {RecorderId, NotesId, HardwareId}
Slot(a) == CHOOSE i \in Slots : External[i] = a

\* They are different objects, and so are the factory's slots.
ASSUME ApplicationsAssumption ==
  /\ Builtin \subseteq Apps
  /\ RecorderId # NotesId /\ HardwareId \notin {RecorderId, NotesId}
  /\ External \in Seq(Apps \ Builtin)
  /\ \A i, j \in Slots : External[i] = External[j] => i = j

VARIABLE boot
(* "down", "builtins" registered, a discovery "visiting" the card's files,  *)
(* "registering" what it found or "refused" in one of the two, "up"         *)

notesVars == <<note, file>>
hardwareVars == <<hw, stored, motor>>
externalVars == <<created, discovery, slot>>
appVars == <<rec, notesVars, hardwareVars, externalVars>>
allVars == <<vars, appVars, boot>>

ApplicationsInit ==
  /\ Init /\ RecorderInit /\ NotesInit /\ HardwareInit /\ ExternalInit
  /\ boot = "down"

-----------------------------------------------------------------------------
(* FirmwareApplications                                                     *)

RegisterBuiltins ==
  /\ boot = "down" /\ boot' = "builtins"
  /\ Register(Builtin)
  /\ UNCHANGED appVars

Discover ==
  /\ boot = "builtins" /\ boot' = "visiting"
  /\ BeginDiscovery
  /\ UNCHANGED <<vars, rec, notesVars, hardwareVars>>

Visit ==
  /\ boot = "visiting" /\ UNCHANGED boot
  /\ Create
  /\ UNCHANGED <<vars, rec, notesVars, hardwareVars>>

\* the end of the directory, or no such directory; a path that is too long
\* fails the listing, whatever was visited before
VisitEnds ==
  /\ boot = "visiting" /\ boot' \in {"registering", "refused"}
  /\ UNCHANGED <<vars, appVars>>

Registered ==
  /\ boot = "registering" /\ boot' = "up"
  /\ Register(found) /\ DiscoveryReturns
  /\ UNCHANGED <<created, rec, notesVars, hardwareVars>>

\* no room for all of them, or an id that is registered
RegistrationRefused ==
  /\ boot = "registering" /\ boot' = "refused"
  /\ UNCHANGED <<vars, appVars>>

DiscoveryFails ==
  /\ boot = "refused" /\ boot' = "up"
  /\ GiveBack
  /\ UNCHANGED <<vars, rec, notesVars, hardwareVars>>

Discovers ==
  Discover \/ Visit \/ VisitEnds \/ Registered \/ RegistrationRefused \/ DiscoveryFails

TakeDown ==
  /\ boot \in {"builtins", "up"} /\ boot' = "down"
  /\ Clear /\ ExternalReset
  /\ UNCHANGED <<rec, notesVars, hardwareVars>>

-----------------------------------------------------------------------------
(* start and stop of an application, in the manager's phases                *)

Ready(a) ==
  CASE a = RecorderId -> rec.built
    [] a = NotesId    -> note.built
    [] a = HardwareId -> hw.built
    [] OTHER          -> slot[Slot(a)].lifecycle = "running"

AppStart(a) ==
  \/ a = RecorderId /\ RecorderStart /\ UNCHANGED <<vars, notesVars, hardwareVars, externalVars>>
  \/ /\ a = NotesId
     /\ \/ NotesStart /\ Submit(a)
        \/ NotesStartRefused /\ UNCHANGED vars
     /\ UNCHANGED <<rec, hardwareVars, externalVars>>
  \/ a = HardwareId /\ HardwareStart /\ UNCHANGED <<vars, rec, notesVars, externalVars>>
  \/ /\ a \notin Builtin
     /\ LuaStarts(Slot(a)) \/ LuaFails(Slot(a))
     /\ UNCHANGED <<vars, rec, notesVars, hardwareVars>>

AppStop(a) ==
  \/ a = RecorderId /\ RecorderStop /\ UNCHANGED <<notesVars, hardwareVars, externalVars>>
  \/ a = NotesId /\ NotesStop /\ UNCHANGED <<rec, hardwareVars, externalVars>>
  \/ a = HardwareId /\ HardwareStop /\ UNCHANGED <<rec, notesVars, externalVars>>
  \/ a \notin Builtin /\ ExternalStop(Slot(a)) /\ UNCHANGED <<rec, notesVars, hardwareVars>>

\* Notes and the hardware test always start.
MayFail(a) == a \notin {NotesId, HardwareId} /\ ~Ready(a)

StartSteps ==
  \/ boot = "up" /\ (Stop \/ \E a \in Apps : Activate(a)) /\ UNCHANGED appVars
  \/ (StartNext \/ Restore) /\ UNCHANGED appVars
  \/ phase = "Starting" /\ AppStart(next)
  \/ phase = "Restoring" /\ AppStart(previous)
  \/ phase = "Starting" /\ Ready(next) /\ NextStarted /\ UNCHANGED appVars
  \/ phase = "Starting" /\ MayFail(next) /\ NextFailed /\ UNCHANGED appVars
  \/ phase = "Restoring" /\ Ready(previous) /\ PreviousRestored /\ UNCHANGED appVars
  \/ phase = "Restoring" /\ MayFail(previous) /\ RestoreFailed /\ UNCHANGED appVars

StopSteps ==
  \/ StopPrevious /\ AppStop(previous)
  \/ CleanNext /\ AppStop(next)
  \/ CleanPrevious /\ AppStop(previous)
  \/ StopActive /\ AppStop(active)

-----------------------------------------------------------------------------
(* What the active application does on the UI task                          *)

Active(a) == state = "active" /\ active = a

RecorderActs ==
  /\ Active(RecorderId)
  /\ \E c \in RecorderCommands :
       \/ RecorderSubmit(c) /\ Submit(RecorderId)
       \/ RecorderRefused(c) /\ UNCHANGED vars
  /\ UNCHANGED <<notesVars, hardwareVars, externalVars>>

NotesActs ==
  /\ Active(NotesId)
  /\ \/ \E c \in NotesCommands :
          \/ NotesSubmit(c) /\ Submit(NotesId)
          \/ NotesRefused(c) /\ UNCHANGED vars
     \/ (Type \/ NotesTick) /\ UNCHANGED vars
  /\ UNCHANGED <<rec, hardwareVars, externalVars>>

HardwareActs ==
  /\ (Active(HardwareId) /\ HardwareActions) \/ PulseEnds
  /\ UNCHANGED <<vars, rec, notesVars, externalVars>>

ExternalActs ==
  /\ \E i \in Slots : Active(External[i]) /\ LuaInvokes(i)
  /\ UNCHANGED <<vars, rec, notesVars, hardwareVars>>

\* The worker runs the oldest job.
Works(a) == outstanding # <<>> /\ Head(outstanding) = a

WorkerSteps ==
  \/ /\ Works(RecorderId)
     /\ \/ (RecorderTake \/ RecorderWorks \/ RecorderEnds) /\ UNCHANGED vars
        \/ RecorderReturns /\ FinishJob
     /\ UNCHANGED <<notesVars, hardwareVars, externalVars>>
  \/ /\ Works(NotesId)
     /\ \/ (NotesTake \/ NotesWorks \/ NotesEnds) /\ UNCHANGED vars
        \/ NotesReturns /\ FinishJob
     /\ UNCHANGED <<rec, hardwareVars, externalVars>>

ApplicationsNext ==
  \/ RegisterBuiltins \/ Discovers \/ TakeDown
  \/ /\ \/ StartSteps \/ StopSteps
        \/ RecorderActs \/ NotesActs \/ HardwareActs \/ ExternalActs \/ WorkerSteps
     /\ UNCHANGED boot

ApplicationsSpec == ApplicationsInit /\ [][ApplicationsNext]_allVars

-----------------------------------------------------------------------------
(* Properties *)

(***************************************************************************)
(* Between taking its command and finishing, the job is alone with its     *)
(* data: no button, tick or stop on the UI task changes the text that is   *)
(* being stored or loaded, or frees the samples under a recording.  The    *)
(* command slot is empty then, so only the state refuses a second command, *)
(* and only the manager's quiescence a stop.                               *)
(***************************************************************************)
WorkerOwnsData ==
  [][/\ note.job \in NotesCommands =>
          note'.built /\ (note'.transfer = note.transfer \/ note'.job = "ended")
     /\ rec.job \in RecorderCommands => rec'.built]_allVars

JobsOf(a) == Cardinality({i \in DOMAIN outstanding : outstanding[i] = a})
One(condition) == IF condition THEN 1 ELSE 0

(***************************************************************************)
(* A recorder or a note that shows a command in progress has a job for it, *)
(* and each job a command: whatever the executor refuses or the job runs   *)
(* into, the application does not stay pending, and so deaf to its         *)
(* buttons, for ever.                                                      *)
(***************************************************************************)
PendingIsUnderway ==
  /\ RecorderUnderway /\ NotesUnderway
  /\ JobsOf(RecorderId) = One(rec.command # NoCommand) + One(rec.job # "none")
  /\ JobsOf(NotesId) = One(note.command # NoCommand) + One(note.job # "none")

(***************************************************************************)
(* What is played was recorded, in one take: a recording that failed over  *)
(* an earlier one, or an empty one, leaves no mixture to play.             *)
(***************************************************************************)
PlayedIsOneClip ==
  rec.job = "play" =>
    \A i \in 1..rec.count : rec.samples[i] = rec.samples[1] /\ rec.samples[i] # 0

(***************************************************************************)
(* Widgets on the content surface, and the Lua state their callbacks call, *)
(* belong to an application that has not stopped, whichever start failed   *)
(* half way.                                                               *)
(***************************************************************************)
WidgetsHaveLiveOwner ==
  /\ rec.built => life[RecorderId] # "stopped"
  /\ note.built => life[NotesId] # "stopped"
  /\ hw.built => life[HardwareId] # "stopped"
  /\ \A i \in Slots :
       /\ slot[i].open \/ slot[i].buttons > 0 => life[External[i]] # "stopped"
       /\ slot[i].open <=> slot[i].lifecycle = "running"

(***************************************************************************)
(* The applications of the card that the manager can activate have slots   *)
(* the factory will not hand out again.  Between discoveries no other slot *)
(* is taken: a listing that fails after some files, or a batch the         *)
(* registry refuses, leaves none lost.                                     *)
(***************************************************************************)
RegisteredAreCreated ==
  /\ apps \ Builtin \subseteq Created
  /\ boot \in {"down", "builtins", "up"} => apps \ Builtin = Created

(***************************************************************************)
(* README: the test application's tests are bounded and active motor state *)
(* is never restored.  The motor runs at its request only on its screen    *)
(* and with haptics enabled there.                                         *)
(***************************************************************************)
DisabledMotorRests == motor # 0 => hw.built /\ hw.enabled

=============================================================================
