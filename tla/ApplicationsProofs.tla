------------------------ MODULE ApplicationsProofs ------------------------
(***************************************************************************)
(* The safety of application transitions, for any set of applications, any *)
(* registry capacity and any number of outstanding jobs, and what follows  *)
(* from it for the applications under their manager.                       *)
(***************************************************************************)
EXTENDS Applications, FiniteSetTheorems, SequenceTheorems, TLAPS

(***************************************************************************)
(* The one application that is between its start and its stop.  The        *)
(* inductive invariant says that this is a function of the phase: the      *)
(* invariants of the runs speak of state and cannot tell it in the middle  *)
(* of a transition.                                                        *)
(***************************************************************************)
Owner ==
  IF phase \in {"None", "StopActive"} THEN active
  ELSE IF phase \in {"Starting", "CleanNext"} THEN next
  ELSE IF phase \in {"StopPrevious", "Restoring", "CleanPrevious"} THEN previous
  ELSE NoApp

PhaseInv ==
  /\ state = "inactive" => active = NoApp
  /\ state = "active" \/ phase = "StopActive" => active \in apps
  /\ phase \in {"StopPrevious", "StartNext", "Starting", "CleanNext"} => next \in apps
  /\ phase \in {"StopPrevious", "Restore", "Restoring", "CleanPrevious"} => previous \in apps
  /\ phase \in {"StartNext", "Starting", "CleanNext", "Restore"} =>
       next \in apps \cup {NoApp} /\ previous \in apps \cup {NoApp}

OwnerInv ==
  /\ \A a \in Apps : life[a] # "stopped" <=> a = Owner
  /\ state = "active" => life[active] = "started"
  /\ \A i \in DOMAIN outstanding : outstanding[i] = Owner

IInv == TypeOK /\ PhaseInv /\ OwnerInv

-----------------------------------------------------------------------------
LEMMA InitEstablishes == Init => IInv
  BY AppsAssumption DEF Init, IInv, TypeOK, Phases, PhaseInv, OwnerInv, Owner

LEMMA StepPreserves == IInv /\ [Next]_vars => IInv'
<1> SUFFICES ASSUME IInv, [Next]_vars PROVE IInv'
  OBVIOUS
<1> USE AppsAssumption DEF IInv, TypeOK, Phases, PhaseInv, OwnerInv, Owner
<1>1. CASE \E batch \in SUBSET Apps : Register(batch)
  BY <1>1 DEF Register, locals
<1>2. CASE Clear
  BY <1>2 DEF Clear, locals
<1>3. CASE \E a \in Apps : Activate(a)
  BY <1>3 DEF Activate, BeginActivate
<1>4. CASE \E a \in Apps : Submit(a)
  BY <1>4 DEF Submit, Runs, Executor!Accept, locals
<1>5. CASE Stop
  BY <1>5 DEF Stop, locals
<1>6. CASE StopPrevious
  BY <1>6 DEF StopPrevious, QuiesceAndStop, locals
<1>7. CASE StartNext
  BY <1>7 DEF StartNext, Start, locals
<1>8. CASE NextStarted
  BY <1>8 DEF NextStarted, Started, locals
<1>9. CASE NextFailed
  BY <1>9 DEF NextFailed, StartFailed, locals
<1>10. CASE CleanNext
  BY <1>10 DEF CleanNext, QuiesceAndStop, Deactivate, locals
<1>11. CASE Restore
  BY <1>11 DEF Restore, Start, locals
<1>12. CASE PreviousRestored
  BY <1>12 DEF PreviousRestored, Started, locals
<1>13. CASE RestoreFailed
  BY <1>13 DEF RestoreFailed, StartFailed, locals
<1>14. CASE CleanPrevious
  BY <1>14 DEF CleanPrevious, QuiesceAndStop, Deactivate, locals
<1>15. CASE StopActive
  BY <1>15 DEF StopActive, QuiesceAndStop, Deactivate, locals
<1>16. CASE FinishJob
  BY <1>16 DEF FinishJob, Executor!Finish, locals
<1>17. CASE UNCHANGED vars
  BY <1>17 DEF vars, locals
<1> QED
  BY <1>1, <1>2, <1>3, <1>4, <1>5, <1>6, <1>7, <1>8, <1>9, <1>10, <1>11, <1>12,
     <1>13, <1>14, <1>15, <1>16, <1>17 DEF Next, Transition

LEMMA Invariance == Spec => []IInv
  BY InitEstablishes, StepPreserves, PTL DEF Spec

-----------------------------------------------------------------------------
(* At any time at most one application is between its start and its stop.  *)
THEOREM OneApplicationAliveHolds == Spec => []OneApplicationAlive
<1>1. IInv => OneApplicationAlive
  BY DEF IInv, OwnerInv, OneApplicationAlive
<1> QED
  BY <1>1, Invariance, PTL

(* The worker never runs a job of an application that was stopped.         *)
THEOREM JobsHaveLiveOwnerHolds == Spec => []JobsHaveLiveOwner
<1>1. IInv => JobsHaveLiveOwner
  BY DEF IInv, TypeOK, OwnerInv, JobsHaveLiveOwner
<1> QED
  BY <1>1, Invariance, PTL

(* Only a started application is exposed as active.                        *)
THEOREM ExposedIsStartedHolds == Spec => []ExposedIsStarted
<1>1. IInv => ExposedIsStarted
  BY DEF IInv, TypeOK, PhaseInv, OwnerInv, ExposedIsStarted
<1> QED
  BY <1>1, Invariance, PTL

(* An inactive manager left no application alive and no job behind.        *)
THEOREM InactiveIsCleanHolds == Spec => []InactiveIsClean
<1>1. IInv => InactiveIsClean
  BY AppsAssumption DEF IInv, TypeOK, PhaseInv, OwnerInv, Owner, InactiveIsClean
<1> QED
  BY <1>1, Invariance, PTL

(* The registry holds every application a transition still works on.       *)
THEOREM LiveIsRegisteredHolds == Spec => []LiveIsRegistered
<1>1. IInv => LiveIsRegistered
  BY AppsAssumption DEF IInv, TypeOK, PhaseInv, OwnerInv, Owner, LiveIsRegistered
<1> QED
  BY <1>1, Invariance, PTL

-----------------------------------------------------------------------------
(* The steps of the applications are steps of the manager                   *)

LEMMA Identities ==
  /\ {RecorderId, NotesId, HardwareId} \subseteq Apps /\ NoApp \notin Apps
  /\ RecorderId # NotesId /\ RecorderId # HardwareId /\ NotesId # HardwareId
  /\ Builtin = {RecorderId, NotesId, HardwareId}
  /\ Len(External) \in Nat /\ Slots = 1..Len(External)
  /\ \A i \in Slots : External[i] \in Apps /\ External[i] \notin Builtin
  /\ \A i, j \in Slots : External[i] = External[j] => i = j
  BY AppsAssumption, ApplicationsAssumption DEF Builtin, Slots

\* Which applications are registered when, and what a discovery has so far
Discovering == {"visiting", "registering", "refused"}

RegistryInv ==
  /\ created \in 0..Len(External)
  /\ boot = "down" => apps = {} /\ created = 0
  /\ boot = "builtins" => apps = Builtin /\ created = 0
  /\ boot \in Discovering => apps = Builtin /\ found = Created /\ checkpoint = 0
  /\ boot \notin {"down", "builtins"} \cup Discovering => apps = Builtin \cup Created

LEMMA ManagerStep == ASSUME RegistryInv, ApplicationsNext PROVE [Next]_vars
<1> USE Identities
<1>1. CASE RegisterBuiltins \/ TakeDown
  BY <1>1 DEF RegisterBuiltins, TakeDown, Next
<1>2. CASE Registered
  <2>1. found \in SUBSET Apps
    BY <1>2 DEF Registered, RegistryInv, Discovering, Created
  <2> QED
    BY <1>2, <2>1 DEF Registered, Next
<1>3. CASE Discover \/ Visit \/ VisitEnds \/ RegistrationRefused \/ DiscoveryFails
  BY <1>3 DEF Discover, Visit, VisitEnds, RegistrationRefused, DiscoveryFails
<1>4. CASE StartSteps
  BY <1>4 DEF StartSteps, AppStart, Next, Transition
<1>5. CASE StopSteps
  BY <1>5 DEF StopSteps, Next, Transition
<1>6. CASE RecorderActs \/ NotesActs
  BY <1>6 DEF RecorderActs, NotesActs, Next
<1>7. CASE HardwareActs \/ ExternalActs
  BY <1>7 DEF HardwareActs, ExternalActs
<1>8. CASE WorkerSteps
  BY <1>8 DEF WorkerSteps, Next
<1> QED
  BY <1>1, <1>2, <1>3, <1>4, <1>5, <1>6, <1>7, <1>8 DEF ApplicationsNext, Discovers

(* Starts, stops, buttons and jobs leave the registry and the factory alone. *)
LEMMA RegistryRests ==
  ASSUME \/ StartSteps \/ StopSteps \/ RecorderActs \/ NotesActs \/ HardwareActs
         \/ ExternalActs \/ WorkerSteps
  PROVE  UNCHANGED <<apps, created, discovery>>
<1> USE DEF vars, appVars, externalVars, discovery
<1>1. ASSUME NEW a, AppStart(a) PROVE UNCHANGED <<apps, created, discovery>>
  BY <1>1 DEF AppStart, Submit, LuaStarts, LuaFails
<1>2. ASSUME NEW a, AppStop(a) PROVE UNCHANGED <<created, discovery>>
  BY <1>2 DEF AppStop, ExternalStop
<1>3. CASE StartSteps
  <2>1. CASE (Stop \/ \E a \in Apps : Activate(a)) /\ UNCHANGED appVars
    BY <2>1 DEF Stop, Activate, BeginActivate
  <2>2. CASE (StartNext \/ Restore) /\ UNCHANGED appVars
    BY <2>2 DEF StartNext, Restore, Start
  <2>3. CASE (NextStarted \/ PreviousRestored) /\ UNCHANGED appVars
    BY <2>3 DEF NextStarted, PreviousRestored, Started
  <2>4. CASE (NextFailed \/ RestoreFailed) /\ UNCHANGED appVars
    BY <2>4 DEF NextFailed, RestoreFailed, StartFailed
  <2> QED
    BY <1>1, <1>3, <2>1, <2>2, <2>3, <2>4 DEF StartSteps
<1>4. CASE StopSteps
  BY <1>2, <1>4 DEF StopSteps, StopPrevious, CleanNext, CleanPrevious, StopActive, Deactivate
<1>5. CASE RecorderActs \/ NotesActs
  BY <1>5 DEF RecorderActs, NotesActs, Submit
<1>6. CASE HardwareActs \/ ExternalActs
  BY <1>6 DEF HardwareActs, ExternalActs, LuaInvokes
<1>7. CASE WorkerSteps
  BY <1>7 DEF WorkerSteps, FinishJob
<1> QED
  BY <1>3, <1>4, <1>5, <1>6, <1>7

(* What is registered was created by the factory, and the other way round.  *)
LEMMA RegistryStep == ASSUME RegistryInv, [ApplicationsNext]_allVars PROVE RegistryInv'
<1> USE Identities DEF RegistryInv, Created, Discovering
<1>1. CASE RegisterBuiltins
  <2>1. /\ boot = "down" /\ boot' = "builtins" /\ apps' = apps \cup Builtin
        /\ created' = created
    BY <1>1 DEF RegisterBuiltins, Register, appVars, externalVars
  <2> QED
    BY <2>1
<1>2. CASE Discover
  <2>1. /\ boot = "builtins" /\ boot' = "visiting" /\ apps' = apps
        /\ created' = created /\ checkpoint' = created /\ found' = {}
    BY <1>2 DEF Discover, BeginDiscovery, vars
  <2> QED
    BY <2>1
<1>3. CASE Visit
  <2>1. /\ boot = "visiting" /\ boot' = "visiting" /\ apps' = apps /\ checkpoint' = checkpoint
        /\ created < Len(External) /\ created' = created + 1
        /\ found' = found \cup {External[created + 1]}
    BY <1>3 DEF Visit, Create, vars
  <2>2. {External[i] : i \in 1..created + 1} = {External[i] : i \in 1..created} \cup {External[created + 1]}
    <3>1. 1..created + 1 = (1..created) \cup {created + 1}
      OBVIOUS
    <3> QED
      BY <3>1
  <2> QED
    BY <2>1, <2>2
<1>4. CASE VisitEnds \/ RegistrationRefused
  <2>1. /\ boot \in Discovering /\ boot' \in Discovering
        /\ UNCHANGED <<apps, created, found, checkpoint>>
    BY <1>4 DEF VisitEnds, RegistrationRefused, vars, appVars, externalVars, discovery
  <2> QED
    BY <2>1
<1>5. CASE Registered
  <2>1. /\ boot = "registering" /\ boot' = "up" /\ created' = created
        /\ apps' = apps \cup found
    BY <1>5 DEF Registered, Register
  <2> QED
    BY <2>1
<1>6. CASE DiscoveryFails
  <2>1. boot = "refused" /\ boot' = "up" /\ apps' = apps /\ created' = Restored
    BY <1>6 DEF DiscoveryFails, GiveBack, vars
  <2>2. created' = 0
    BY <2>1 DEF Restored
  <2> QED
    BY <2>1, <2>2
<1>7. CASE TakeDown
  BY <1>7 DEF TakeDown, Clear, ExternalReset
<1>8. CASE UNCHANGED <<apps, created, discovery, boot>>
  BY <1>8 DEF discovery
<1>9. CASE UNCHANGED allVars
  BY <1>8, <1>9 DEF allVars, vars, appVars, externalVars
<1> QED
  BY <1>1, <1>2, <1>3, <1>4, <1>5, <1>6, <1>7, <1>8, <1>9, RegistryRests
     DEF ApplicationsNext, Discovers

-----------------------------------------------------------------------------
(* Whose turn it is                                                         *)

\* A step that is none of a's: it keeps a's jobs, or brings a none.
Keeps(a) ==
  IF Owner = a THEN Owner' = a /\ outstanding' = outstanding
               ELSE Owner' = a => outstanding' = <<>>

LEMMA NoOwnerNoJobs == IInv /\ Owner = NoApp => outstanding = <<>>
  BY Identities DEF IInv, TypeOK, OwnerInv

LEMMA Bystanders ==
  ASSUME IInv,
         \/ \E batch : Register(batch)
         \/ Clear \/ Stop \/ (\E a \in Apps : Activate(a)) \/ StartNext \/ Restore
         \/ NextStarted \/ NextFailed \/ PreviousRestored \/ RestoreFailed
         \/ UNCHANGED vars
  PROVE  \A a \in Apps : Keeps(a)
<1> USE Identities DEF IInv, TypeOK, PhaseInv, Owner, Keeps, Phases
<1>1. CASE (\E batch : Register(batch)) \/ Clear \/ UNCHANGED vars
  BY <1>1 DEF Register, Clear, locals, vars
<1>2. CASE Stop \/ \E a \in Apps : Activate(a)
  BY <1>2 DEF Stop, Activate, BeginActivate, locals
<1>3. CASE StartNext \/ Restore
  <2>1. Owner = NoApp
    BY <1>3 DEF StartNext, Restore, Start
  <2>2. outstanding = <<>>
    BY <2>1, NoOwnerNoJobs
  <2> QED
    BY <1>3, <2>1, <2>2 DEF StartNext, Restore, Start, locals
<1>4. CASE NextStarted \/ PreviousRestored
  BY <1>4 DEF NextStarted, PreviousRestored, Started
<1>5. CASE NextFailed \/ RestoreFailed
  BY <1>5 DEF NextFailed, RestoreFailed, StartFailed, locals
<1> QED
  BY <1>1, <1>2, <1>3, <1>4, <1>5

(* A stop is that of the owner, with no job left, and leaves no owner.      *)
Stopped(a) == Owner = a /\ Owner' = NoApp /\ outstanding = <<>> /\ outstanding' = <<>>

LEMMA StopsOwner ==
  ASSUME IInv, StopSteps PROVE \E a \in Apps : AppStop(a) /\ Stopped(a)
<1> USE Identities DEF IInv, TypeOK, PhaseInv, Owner, QuiesceAndStop, Stopped
<1>1. CASE StopPrevious /\ AppStop(previous)
  BY <1>1 DEF StopPrevious, locals
<1>2. CASE CleanNext /\ AppStop(next)
  BY <1>2 DEF CleanNext, Deactivate, locals
<1>3. CASE CleanPrevious /\ AppStop(previous)
  BY <1>3 DEF CleanPrevious, Deactivate
<1>4. CASE StopActive /\ AppStop(active)
  BY <1>4 DEF StopActive, Deactivate
<1> QED
  BY <1>1, <1>2, <1>3, <1>4 DEF StopSteps

(* Only the owner's code runs on the UI task, and its jobs on the worker.   *)
LEMMA RunsOwner ==
  ASSUME IInv, NEW a \in Apps
  PROVE  /\ Runs(a) => Owner = a
         /\ phase = "Starting" /\ next = a => Owner = a
         /\ phase = "Restoring" /\ previous = a => Owner = a
         /\ Active(a) => Owner = a
         /\ Works(a) => Owner = a
<1> USE DEF IInv, TypeOK, PhaseInv, OwnerInv
<1>1. Works(a) => Owner = a
  <2> SUFFICES ASSUME Works(a) PROVE Owner = a
    OBVIOUS
  <2>1. outstanding # <<>> /\ Head(outstanding) = a /\ outstanding \in Seq(Apps)
    BY DEF Works
  <2>2. 1 \in DOMAIN outstanding /\ outstanding[1] = a
    BY <2>1
  <2> QED
    BY <2>2
<1> QED
  BY <1>1 DEF Runs, Active, Owner

\* What a step of the applications is for the one that owns the screen
Accepts(a) == Owner = a /\ Owner' = a /\ outstanding' = Append(outstanding, a)
Finishes(a) == Owner = a /\ Owner' = a /\ outstanding # <<>> /\ outstanding' = Tail(outstanding)
Goes(a) == Owner = a /\ Owner' = a /\ outstanding' = outstanding

LEMMA JobMoves ==
  ASSUME IInv, NEW a \in Apps
  PROVE  /\ Submit(a) => Accepts(a)
         /\ Works(a) /\ FinishJob => Finishes(a)
         /\ Owner = a /\ UNCHANGED vars => Goes(a)
<1>1. Submit(a) => Accepts(a)
  BY RunsOwner DEF Submit, Executor!Accept, Accepts, Owner, locals
<1>2. Works(a) /\ FinishJob => Finishes(a)
  BY RunsOwner DEF FinishJob, Executor!Finish, Finishes, Works, Owner, locals
<1> QED
  BY <1>1, <1>2 DEF Goes, vars, Owner

\* How many jobs of a's there are: only the owner has any.
Load(a) == IF Owner = a THEN Len(outstanding) ELSE 0

LEMMA Loads ==
  ASSUME IInv, NEW a \in Apps
  PROVE  /\ Keeps(a) => Load(a)' = Load(a) /\ (Owner = a => Owner' = a)
         /\ Goes(a) => Load(a)' = Load(a)
         /\ Accepts(a) => Load(a)' = Load(a) + 1
         /\ Finishes(a) => Load(a)' = Load(a) - 1
         /\ Stopped(a) => Load(a)' = 0 /\ Load(a) = 0
         /\ Load(a) \in Nat
<1>1. outstanding \in Seq(Apps) /\ NoApp \notin Apps
  BY Identities DEF IInv, TypeOK
<1>2. Keeps(a) => Load(a)' = Load(a) /\ (Owner = a => Owner' = a)
  BY <1>1 DEF Keeps, Load
<1>3. Goes(a) => Load(a)' = Load(a)
  BY <1>1 DEF Goes, Load
<1>4. Accepts(a) => Load(a)' = Load(a) + 1
  BY <1>1 DEF Accepts, Load
<1>5. Finishes(a) => Load(a)' = Load(a) - 1
  BY <1>1 DEF Finishes, Load
<1>6. Stopped(a) => Load(a)' = 0 /\ Load(a) = 0
  BY <1>1 DEF Stopped, Load
<1>7. Load(a) \in Nat
  BY <1>1 DEF Load
<1> QED
  BY <1>2, <1>3, <1>4, <1>5, <1>6, <1>7

(* The manager's own steps, starts, stops and the code of the owner         *)
LEMMA Turns ==
  ASSUME IInv, [ApplicationsNext]_allVars
  PROVE  \/ UNCHANGED <<rec, notesVars, hardwareVars, slot>> /\ \A a \in Apps : Keeps(a)
         \/ \E a \in Apps : Owner = a /\ AppStart(a)
         \/ \E a \in Apps : AppStop(a) /\ Stopped(a)
         \/ RecorderActs \/ NotesActs \/ HardwareActs \/ ExternalActs \/ WorkerSteps
<1> USE DEF appVars, externalVars
<1>1. CASE RegisterBuiltins \/ Discovers \/ TakeDown \/ UNCHANGED allVars
  <2> USE DEF RegisterBuiltins, Discovers, Discover, Visit, VisitEnds, Registered,
              RegistrationRefused, DiscoveryFails, TakeDown, allVars
  <2>1. UNCHANGED <<rec, notesVars, hardwareVars, slot>>
    BY <1>1 DEF BeginDiscovery, Create, DiscoveryReturns, GiveBack, ExternalReset
  <2>2. (\E batch : Register(batch)) \/ Clear \/ UNCHANGED vars
    BY <1>1
  <2> QED
    BY <2>1, <2>2, Bystanders
<1>2. CASE StartSteps
  <2>1. CASE phase = "Starting" /\ AppStart(next)
    BY <2>1, Identities DEF IInv, TypeOK, PhaseInv, Owner
  <2>2. CASE phase = "Restoring" /\ AppStart(previous)
    BY <2>2, Identities DEF IInv, TypeOK, PhaseInv, Owner
  <2>3. CASE /\ UNCHANGED appVars
             /\ \/ Stop \/ (\E a \in Apps : Activate(a)) \/ StartNext \/ Restore
                \/ NextStarted \/ NextFailed \/ PreviousRestored \/ RestoreFailed
    BY <2>3, Bystanders
  <2> QED
    BY <1>2, <2>1, <2>2, <2>3 DEF StartSteps
<1>3. CASE StopSteps
  BY <1>3, StopsOwner
<1> QED
  BY <1>1, <1>2, <1>3 DEF ApplicationsNext

-----------------------------------------------------------------------------
(* The recorder                                                             *)

RecorderStates ==
  {"ready", "recording", "playing", "record_error", "play_error", "captured", "empty"}

Lengths == 0..Capture
Clips == {<<>>} \cup [1..Capture -> Nat]

RecorderType ==
  [state : RecorderStates,
   command : RecorderCommands \cup {NoCommand}, samples : Clips, count : Lengths,
   job : RecorderCommands \cup {"none", "ended"}, offset : Lengths, built : BOOLEAN]

\* The clip is of one take, the one that is being recorded as far as it goes.
OneTake ==
  \A i \in 1..(IF rec.job = "record" THEN rec.offset ELSE rec.count) :
    rec.samples[i] = rec.samples[1] /\ rec.samples[i] # 0

RecorderInv ==
  /\ rec \in RecorderType
  /\ IF rec.built THEN rec.samples \in [1..Capture -> Nat] /\ Owner = RecorderId
                  ELSE rec.command = NoCommand /\ rec.job = "none"
  /\ RecorderUnderway
  /\ rec.job \in RecorderCommands => rec.command = NoCommand
  /\ One(rec.command # NoCommand) + One(rec.job # "none") = Load(RecorderId)
  /\ rec.built => OneTake

LEMMA RecorderTurns ==
  ASSUME IInv, [ApplicationsNext]_allVars
  PROVE  \/ UNCHANGED rec /\ Keeps(RecorderId)
         \/ Goes(RecorderId) /\ RecorderStart
         \/ Goes(RecorderId) /\ \E c \in RecorderCommands : RecorderRefused(c)
         \/ Accepts(RecorderId) /\ \E c \in RecorderCommands : RecorderSubmit(c)
         \/ Goes(RecorderId) /\ (RecorderTake \/ RecorderWorks \/ RecorderEnds)
         \/ Finishes(RecorderId) /\ RecorderReturns
         \/ Stopped(RecorderId) /\ RecorderStop
<1> USE Identities
<1>1. CASE UNCHANGED <<rec, notesVars, hardwareVars, slot>> /\ \A a \in Apps : Keeps(a)
  BY <1>1
<1>2. ASSUME NEW a \in Apps, Owner = a, AppStart(a)
      PROVE  (UNCHANGED rec /\ Keeps(RecorderId)) \/ (Goes(RecorderId) /\ RecorderStart)
  <2>1. CASE a = RecorderId
    BY <1>2, <2>1, JobMoves DEF AppStart
  <2>2. CASE a # RecorderId
    <3>1. UNCHANGED rec /\ (UNCHANGED vars \/ Submit(a))
      BY <1>2, <2>2 DEF AppStart
    <3> QED
      BY <1>2, <2>2, <3>1, JobMoves DEF Keeps, Accepts, Goes
  <2> QED
    BY <2>1, <2>2
<1>3. ASSUME NEW a \in Apps, AppStop(a), Stopped(a)
      PROVE  (UNCHANGED rec /\ Keeps(RecorderId)) \/ (Stopped(RecorderId) /\ RecorderStop)
  BY <1>3 DEF AppStop, Stopped, Keeps
<1>4. CASE RecorderActs
  <2>1. Owner = RecorderId
    BY <1>4, RunsOwner DEF RecorderActs
  <2> QED
    BY <1>4, <2>1, JobMoves DEF RecorderActs
<1>5. CASE NotesActs
  <2>1. UNCHANGED rec /\ Owner = NotesId /\ (Submit(NotesId) \/ UNCHANGED vars)
    BY <1>5, RunsOwner DEF NotesActs
  <2> QED
    BY <2>1, JobMoves DEF Keeps, Accepts, Goes
<1>6. CASE HardwareActs \/ ExternalActs
  <2>1. UNCHANGED vars /\ UNCHANGED rec
    BY <1>6 DEF HardwareActs, ExternalActs
  <2> QED
    BY <2>1, Bystanders
<1>7. CASE WorkerSteps
  <2>1. CASE Works(RecorderId) /\ (RecorderTake \/ RecorderWorks \/ RecorderEnds) /\ UNCHANGED vars
    BY <2>1, RunsOwner, JobMoves
  <2>2. CASE Works(RecorderId) /\ RecorderReturns /\ FinishJob
    BY <2>2, JobMoves
  <2>3. CASE Works(NotesId) /\ UNCHANGED rec /\ (UNCHANGED vars \/ FinishJob)
    BY <2>3, RunsOwner, JobMoves DEF Keeps, Goes, Finishes
  <2> QED
    BY <1>7, <2>1, <2>2, <2>3 DEF WorkerSteps
<1> QED
  BY <1>1, <1>2, <1>3, <1>4, <1>5, <1>6, <1>7, Turns

(* A recording takes a number that no chunk of the clip before it has: there *)
(* are more takes than chunks.                                              *)
LEMMA FreshTake ==
  ASSUME NEW samples \in [1..Capture -> Nat]
  PROVE  \E t \in Takes : \A i \in 1..Capture : samples[i] # t
<1> SUFFICES ASSUME \A t \in Takes : \E i \in 1..Capture : samples[i] = t
             PROVE  FALSE
  OBVIOUS
<1> DEFINE chunks == 1..Capture
           place == [t \in Takes |-> CHOOSE i \in chunks : samples[i] = t]
<1>1. Capture \in Nat /\ Takes = 1..Capture + 1
  BY CaptureAssumption DEF Takes
<1>2. \A t \in Takes : place[t] \in chunks /\ samples[place[t]] = t
  OBVIOUS
<1>3. place \in [Takes -> chunks]
  BY <1>2
<1>4. IsFiniteSet(Takes) /\ IsFiniteSet(chunks)
  BY <1>1, FS_Interval
<1>5. Cardinality(chunks) < Cardinality(Takes)
  <2>1. Cardinality(chunks) = Capture
    BY <1>1, FS_Interval
  <2>2. Cardinality(Takes) = Capture + 1
    BY <1>1, FS_Interval
  <2> QED
    BY <1>1, <2>1, <2>2
<1> HIDE DEF place, chunks
<1>6. \E t, u \in Takes : t # u /\ place[t] = place[u]
  BY <1>3, <1>4, <1>5, FS_PigeonHole
<1> QED
  BY <1>2, <1>6

\* The recorder's state, field by field
Rec(s, c, p, n, j, o, b) ==
  [state |-> s, command |-> c, samples |-> p, count |-> n, job |-> j, offset |-> o, built |-> b]

LEMMA NoLength == 0 \in Lengths
  BY CaptureAssumption DEF Lengths

LEMMA RecorderFields ==
  ASSUME RecorderInv
  PROVE  /\ rec.state \in RecorderStates /\ rec.command \in RecorderCommands \cup {NoCommand}
         /\ rec.samples \in Clips /\ rec.count \in Lengths
         /\ rec.job \in RecorderCommands \cup {"none", "ended"} /\ rec.offset \in Lengths
         /\ rec.built \in BOOLEAN
  BY DEF RecorderType, RecorderInv

LEMMA RecorderStarts ==
  ASSUME IInv, RecorderInv, Goes(RecorderId), RecorderStart
  PROVE  RecorderInv'
<1> DEFINE silence == [i \in 1..Capture |-> 0]
<1>1. silence \in Clips /\ silence \in [1..Capture -> Nat]
  BY DEF Clips
<1>2. rec' = Rec("ready", NoCommand, silence, 0, "none", 0, TRUE)
  BY DEF RecorderStart, RecorderIdle, Rec
<1> HIDE DEF silence
<1>3. /\ rec' \in RecorderType /\ rec'.state = "ready" /\ rec'.command = NoCommand
      /\ rec'.samples = silence /\ rec'.count = 0 /\ rec'.job = "none" /\ rec'.built = TRUE
  BY <1>1, <1>2, NoLength DEF Rec, RecorderType, RecorderStates
<1>4. Load(RecorderId) = 0 /\ Load(RecorderId)' = 0
  BY Loads, Identities DEF RecorderInv, RecorderStart, One
<1>5. OneTake'
  BY <1>3 DEF OneTake
<1> QED
  BY <1>1, <1>3, <1>4, <1>5 DEF RecorderInv, RecorderUnderway, One, Goes, RecorderCommands, NoCommand

LEMMA RecorderBuilt ==
  ASSUME RecorderInv, rec.built
  PROVE  rec = Rec(rec.state, rec.command, rec.samples, rec.count, rec.job, rec.offset, TRUE)
<1>1. rec.built = TRUE
  BY RecorderFields, Zenon
<1>2. rec = Rec(rec.state, rec.command, rec.samples, rec.count, rec.job, rec.offset, rec.built)
  BY DEF RecorderInv, RecorderType, Rec
<1> QED
  BY <1>1, <1>2

(* The buttons: a command is reserved or refused, and the clip rests.       *)
LEMMA RecorderButtons ==
  ASSUME IInv, RecorderInv, NEW c \in RecorderCommands,
         \/ Accepts(RecorderId) /\ RecorderSubmit(c)
         \/ Goes(RecorderId) /\ RecorderRefused(c)
  PROVE  RecorderInv'
<1> DEFINE moved(s, d) == rec' = Rec(s, d, rec.samples, rec.count, rec.job, rec.offset, TRUE)
<1>0. /\ rec.command = NoCommand /\ rec.job \notin RecorderCommands /\ rec.built
      /\ c # NoCommand /\ NoCommand \in RecorderCommands \cup {NoCommand}
  BY DEF RecorderInv, RecorderSubmit, RecorderRefused, CanRecord, MayReserve, RecorderUnderway
<1>1. ASSUME NEW s \in RecorderStates, NEW d \in RecorderCommands \cup {NoCommand}, moved(s, d)
      PROVE  /\ rec' \in RecorderType /\ rec'.state = s /\ rec'.command = d
             /\ rec'.samples = rec.samples /\ rec'.count = rec.count /\ rec'.job = rec.job
             /\ rec'.offset = rec.offset /\ rec'.built = TRUE
  BY <1>0, <1>1, RecorderFields DEF Rec, RecorderType
<1>2. CASE Accepts(RecorderId) /\ RecorderSubmit(c)
  <2>1. moved(RecorderPending(c), c)
    BY <1>0, <1>2, RecorderBuilt DEF RecorderSubmit, Rec
  <2>2. RecorderPending(c) \in {"recording", "playing"}
    BY DEF RecorderPending
  <2>3. /\ rec' \in RecorderType /\ rec'.state \in {"recording", "playing"} /\ rec'.command = c
        /\ rec'.samples = rec.samples /\ rec'.count = rec.count /\ rec'.job = rec.job
        /\ rec'.offset = rec.offset /\ rec'.built
    BY <1>0, <1>1, <2>1, <2>2 DEF RecorderStates
  <2>4. Load(RecorderId)' = Load(RecorderId) + 1
    BY <1>2, Loads, Identities
  <2>5. One(rec'.command # NoCommand) + One(rec'.job # "none") = Load(RecorderId)'
    BY <1>0, <2>3, <2>4 DEF RecorderInv, One
  <2>6. OneTake'
    BY <1>0, <2>3 DEF RecorderInv, OneTake
  <2> QED
    BY <1>0, <1>2, <2>3, <2>5, <2>6 DEF RecorderInv, RecorderUnderway, Accepts, One
<1>3. CASE Goes(RecorderId) /\ RecorderRefused(c)
  <2>1. moved(RecorderFailed(c), NoCommand)
    BY <1>0, <1>3, RecorderBuilt DEF RecorderRefused, Rec
  <2>2. RecorderFailed(c) \in {"record_error", "play_error"}
    BY DEF RecorderFailed
  <2>3. /\ rec' \in RecorderType /\ rec'.state \notin {"recording", "playing"}
        /\ rec'.command = NoCommand
        /\ rec'.samples = rec.samples /\ rec'.count = rec.count /\ rec'.job = rec.job
        /\ rec'.offset = rec.offset /\ rec'.built
    BY <1>0, <1>1, <2>1, <2>2 DEF RecorderStates
  <2>4. Load(RecorderId)' = Load(RecorderId)
    BY <1>3, Loads, Identities
  <2>5. OneTake'
    BY <1>0, <2>3 DEF RecorderInv, OneTake
  <2> QED
    BY <1>0, <1>3, <2>3, <2>4, <2>5 DEF RecorderInv, RecorderUnderway, Goes, One
<1> QED
  BY <1>2, <1>3

LEMMA RecorderTakes ==
  ASSUME IInv, RecorderInv, Goes(RecorderId), RecorderTake
  PROVE  RecorderInv'
<1>1. /\ rec.job = "none" /\ rec.command \in RecorderCommands /\ rec.built
      /\ NoCommand \in RecorderCommands \cup {NoCommand} /\ "none" \notin RecorderCommands
  BY RecorderFields DEF RecorderInv, RecorderTake, RecorderCommands
<1>2. rec' = Rec(rec.state, NoCommand, rec.samples, rec.count, rec.command, 0, TRUE)
  BY <1>1, RecorderBuilt DEF RecorderTake, Rec, Emptied
<1>3. /\ rec' \in RecorderType /\ rec'.state = rec.state /\ rec'.command = NoCommand
      /\ rec'.samples = rec.samples /\ rec'.count = rec.count /\ rec'.job = rec.command
      /\ rec'.offset = 0 /\ rec'.built = TRUE
  BY <1>1, <1>2, RecorderFields, NoLength DEF Rec, RecorderType
<1>4. Load(RecorderId)' = Load(RecorderId)
  BY Loads, Identities
<1>5. OneTake'
  BY <1>1, <1>3 DEF RecorderInv, OneTake
<1> QED
  BY <1>1, <1>3, <1>4, <1>5 DEF RecorderInv, RecorderUnderway, Goes, One, NoCommand

LEMMA RecorderReads ==
  ASSUME IInv, RecorderInv, Goes(RecorderId), ReadChunk
  PROVE  RecorderInv'
<1>1. /\ rec.built /\ rec.job = "record" /\ rec.offset < Capture
      /\ rec.samples \in [1..Capture -> Nat]
  BY DEF RecorderInv, ReadChunk
<1>2. rec.offset \in 0..Capture /\ Capture \in Nat \ {0}
  BY RecorderFields, CaptureAssumption DEF Lengths
<1> DEFINE fresh == CHOOSE t \in Takes : \A i \in 1..Capture : rec.samples[i] # t
           take == IF rec.offset > 0 THEN rec.samples[1] ELSE fresh
           clip == [rec.samples EXCEPT ![rec.offset + 1] = take]
<1>3. fresh \in Takes
  BY <1>1, FreshTake
<1>4. take \in Nat /\ take # 0 /\ (rec.offset > 0 => take = rec.samples[1])
  <2>1. fresh \in Nat /\ fresh # 0
    <3> HIDE DEF fresh
    <3> QED
      BY <1>2, <1>3 DEF Takes
  <2>2. rec.offset > 0 => rec.samples[1] \in Nat /\ rec.samples[1] # 0
    BY <1>1, <1>2 DEF RecorderInv, OneTake
  <2> HIDE DEF fresh
  <2> QED
    BY <1>2, <2>1, <2>2
<1>5. rec' = Rec(rec.state, rec.command, clip, rec.count, rec.job, rec.offset + 1, TRUE)
  BY <1>1, RecorderBuilt DEF ReadChunk, Rec
<1> HIDE DEF take
<1>6. /\ clip \in [1..Capture -> Nat]
      /\ clip[rec.offset + 1] = take
      /\ \A i \in 1..rec.offset : clip[i] = rec.samples[i]
  <2>1. rec.offset + 1 \in 1..Capture
    BY <1>1, <1>2
  <2>2. clip \in [1..Capture -> Nat]
    BY <1>1, <1>4, <2>1
  <2>3. clip[rec.offset + 1] = take
    BY <1>1, <2>1
  <2>4. \A i \in 1..rec.offset : clip[i] = rec.samples[i]
    BY <1>1, <1>2
  <2> QED
    BY <2>2, <2>3, <2>4
<1> HIDE DEF clip
<1>7. clip \in Clips /\ rec.offset + 1 \in Lengths
  BY <1>1, <1>2, <1>6 DEF Clips, Lengths
<1>8. /\ rec' \in RecorderType /\ rec'.state = rec.state /\ rec'.command = rec.command
      /\ rec'.samples = clip /\ rec'.count = rec.count /\ rec'.job = rec.job
      /\ rec'.offset = rec.offset + 1 /\ rec'.built = TRUE
  BY <1>1, <1>5, <1>7, RecorderFields DEF Rec, RecorderType
<1>9. Load(RecorderId)' = Load(RecorderId)
  BY Loads, Identities
<1>10. \A i \in 1..rec.offset + 1 : clip[i] = clip[1] /\ clip[i] # 0
  <2>1. \A i \in 1..rec.offset : rec.samples[i] = rec.samples[1] /\ rec.samples[i] # 0
    BY <1>1 DEF RecorderInv, OneTake
  <2>2. CASE rec.offset = 0
    BY <1>4, <1>6, <2>2
  <2>3. CASE rec.offset > 0
    <3>1. clip[1] = rec.samples[1] /\ take = rec.samples[1] /\ take # 0
      BY <1>2, <1>4, <1>6, <2>3
    <3>2. \A i \in 1..rec.offset + 1 : i \in 1..rec.offset \/ i = rec.offset + 1
      BY <1>2
    <3> QED
      BY <1>6, <2>1, <3>1, <3>2
  <2> QED
    BY <1>2, <2>2, <2>3
<1>11. OneTake'
  BY <1>1, <1>8, <1>10 DEF OneTake
<1> QED
  BY <1>1, <1>6, <1>8, <1>9, <1>11 DEF RecorderInv, RecorderUnderway, Goes

LEMMA RecorderPlays ==
  ASSUME IInv, RecorderInv, Goes(RecorderId), WriteChunk
  PROVE  RecorderInv'
<1>1. rec.built /\ rec.job = "play" /\ rec.offset < rec.count
  BY DEF RecorderInv, WriteChunk
<1>2. rec' = Rec(rec.state, rec.command, rec.samples, rec.count, rec.job, rec.offset + 1, TRUE)
  BY <1>1, RecorderBuilt DEF WriteChunk, Rec
<1>3. /\ rec' \in RecorderType /\ rec'.state = rec.state /\ rec'.command = rec.command
      /\ rec'.samples = rec.samples /\ rec'.count = rec.count /\ rec'.job = rec.job
      /\ rec'.built = TRUE
  <2>1. rec.offset + 1 \in Lengths
    BY <1>1, RecorderFields, CaptureAssumption DEF Lengths
  <2> QED
    BY <1>1, <1>2, <2>1, RecorderFields DEF Rec, RecorderType
<1>4. Load(RecorderId)' = Load(RecorderId)
  BY Loads, Identities
<1>5. OneTake'
  BY <1>1, <1>3 DEF RecorderInv, OneTake
<1> QED
  BY <1>1, <1>3, <1>4, <1>5 DEF RecorderInv, RecorderUnderway, Goes

(* A command ends: a recording's clip is as long as it was read, or empty.  *)
LEMMA RecorderFinishes ==
  ASSUME IInv, RecorderInv, Goes(RecorderId), RecorderEnds
  PROVE  RecorderInv'
<1>1. /\ rec.built /\ rec.job \in RecorderCommands /\ rec.command = NoCommand
      /\ "ended" \notin RecorderCommands
  BY DEF RecorderInv, RecorderEnds, RecordEnds, RecordFails, PlayEnds, PlayFails, RecorderCommands
<1>2. PICK s \in RecorderStates \ {"recording", "playing"}, n \in Lengths :
        /\ rec' = Rec(s, rec.command, rec.samples, n, "ended", rec.offset, TRUE)
        /\ \/ rec.job = "record" /\ n \in {0, rec.offset}
           \/ rec.job = "play" /\ n = rec.count
  <2> USE <1>1, RecorderFields, RecorderBuilt, NoLength DEF Rec
  <2>1. CASE RecordEnds
    <3>1. rec' = Rec("captured", rec.command, rec.samples, rec.offset, "ended", rec.offset, TRUE)
      BY <2>1 DEF RecordEnds
    <3> QED
      BY <2>1, <3>1 DEF RecordEnds, RecorderStates
  <2>2. CASE RecordFails
    <3>1. rec' = Rec("record_error", rec.command, rec.samples, 0, "ended", rec.offset, TRUE)
      BY <2>2 DEF RecordFails
    <3> QED
      BY <2>2, <3>1 DEF RecordFails, RecorderStates
  <2>3. CASE PlayEnds
    <3> DEFINE s == IF rec.count = 0 THEN "empty" ELSE "ready"
    <3>1. rec' = Rec(s, rec.command, rec.samples, rec.count, "ended", rec.offset, TRUE)
      BY <2>3 DEF PlayEnds
    <3> QED
      BY <2>3, <3>1 DEF PlayEnds, RecorderStates
  <2>4. CASE PlayFails
    <3>1. rec' = Rec("play_error", rec.command, rec.samples, rec.count, "ended", rec.offset, TRUE)
      BY <2>4 DEF PlayFails
    <3> QED
      BY <2>4, <3>1 DEF PlayFails, RecorderStates
  <2> QED
    BY <2>1, <2>2, <2>3, <2>4 DEF RecorderEnds
<1>3. /\ rec' \in RecorderType /\ rec'.state = s /\ rec'.command = rec.command
      /\ rec'.samples = rec.samples /\ rec'.count = n /\ rec'.job = "ended"
      /\ rec'.built = TRUE
  BY <1>1, <1>2, RecorderFields DEF Rec, RecorderType
<1>4. Load(RecorderId)' = Load(RecorderId)
  BY Loads, Identities
<1>5. OneTake'
  <2>1. \A i \in 1..n : rec.samples[i] = rec.samples[1] /\ rec.samples[i] # 0
    BY <1>1, <1>2 DEF RecorderInv, OneTake
  <2> QED
    BY <1>3, <2>1 DEF OneTake
<1> QED
  BY <1>1, <1>2, <1>3, <1>4, <1>5 DEF RecorderInv, RecorderUnderway, Goes, One, RecorderCommands

LEMMA RecorderRests ==
  ASSUME IInv, RecorderInv,
         \/ Keeps(RecorderId) /\ UNCHANGED rec
         \/ Finishes(RecorderId) /\ RecorderReturns
         \/ Stopped(RecorderId) /\ RecorderStop
  PROVE  RecorderInv'
<1>1. CASE Keeps(RecorderId) /\ UNCHANGED rec
  <2>1. Load(RecorderId)' = Load(RecorderId) /\ (rec.built => Owner' = RecorderId)
    BY <1>1, Loads, Identities DEF RecorderInv
  <2>2. OneTake' <=> OneTake
    BY <1>1 DEF OneTake
  <2> QED
    BY <1>1, <2>1, <2>2 DEF RecorderInv, RecorderUnderway
<1>2. CASE Finishes(RecorderId) /\ RecorderReturns
  <2>1. rec.job = "ended" /\ rec.built /\ {"ended", "none"} \cap RecorderCommands = {}
    BY <1>2 DEF RecorderReturns, RecorderInv, RecorderCommands
  <2>2. rec' = Rec(rec.state, rec.command, rec.samples, rec.count, "none", rec.offset, TRUE)
    BY <1>2, <2>1, RecorderBuilt DEF RecorderReturns, Rec
  <2>3. /\ rec' \in RecorderType /\ rec'.state = rec.state /\ rec'.command = rec.command
        /\ rec'.samples = rec.samples /\ rec'.count = rec.count /\ rec'.job = "none"
        /\ rec'.built = TRUE
    BY <2>1, <2>2, RecorderFields DEF Rec, RecorderType
  <2>4. Load(RecorderId)' = Load(RecorderId) - 1
    BY <1>2, Loads, Identities
  <2>5. One(rec'.command # NoCommand) + One(rec'.job # "none") = Load(RecorderId)'
    BY <2>1, <2>3, <2>4 DEF RecorderInv, One
  <2>6. OneTake'
    BY <2>1, <2>3 DEF RecorderInv, OneTake
  <2> QED
    BY <1>2, <2>1, <2>3, <2>5, <2>6 DEF RecorderInv, RecorderUnderway, Finishes, One
<1>3. CASE Stopped(RecorderId) /\ RecorderStop
  <2>1. rec' = Rec("ready", NoCommand, <<>>, 0, "none", 0, FALSE)
    BY <1>3 DEF RecorderStop, RecorderIdle, Rec
  <2>2. <<>> \in Clips /\ "ready" \in RecorderStates
    BY DEF Clips, RecorderStates
  <2>3. /\ rec' \in RecorderType /\ rec'.state = "ready" /\ rec'.command = NoCommand
        /\ rec'.job = "none" /\ rec'.built = FALSE
    BY <2>1, <2>2, NoLength DEF Rec, RecorderType
  <2>4. Load(RecorderId)' = 0
    BY <1>3, Loads, Identities
  <2> QED
    BY <2>3, <2>4 DEF RecorderInv, RecorderUnderway, One, RecorderCommands, NoCommand
<1> QED
  BY <1>1, <1>2, <1>3

LEMMA RecorderStep ==
  ASSUME IInv, RecorderInv, [ApplicationsNext]_allVars PROVE RecorderInv'
  BY RecorderTurns, RecorderStarts, RecorderButtons, RecorderTakes, RecorderReads,
     RecorderPlays, RecorderFinishes, RecorderRests DEF RecorderWorks

-----------------------------------------------------------------------------
(* Notes                                                                    *)

NotesStates ==
  {"ready", "loading", "saving", "load_error", "save_error", "load_missing", "saved", "loaded"}

\* What is in the editor, in the buffer or on the card, or not on it
Contents == Texts \cup {Empty, Absent}

NotesType ==
  [state : NotesStates, command : NotesCommands \cup {NoCommand}, transfer : Contents,
   job : NotesCommands \cup {"none", "ended"}, opened : BOOLEAN, editor : Contents, built : BOOLEAN]

NotesInv ==
  /\ note \in NotesType /\ file \in Contents
  /\ IF note.built THEN Owner = NotesId ELSE note.command = NoCommand /\ note.job = "none"
  /\ NotesUnderway
  /\ note.job \in NotesCommands => note.command = NoCommand
  /\ One(note.command # NoCommand) + One(note.job # "none") = Load(NotesId)

\* The note's state, field by field
Note(s, c, t, j, o, e, b) ==
  [state |-> s, command |-> c, transfer |-> t, job |-> j, opened |-> o, editor |-> e, built |-> b]

LEMMA NotesTurns ==
  ASSUME IInv, [ApplicationsNext]_allVars
  PROVE  \/ UNCHANGED notesVars /\ Keeps(NotesId)
         \/ Accepts(NotesId) /\ (NotesStart \/ \E c \in NotesCommands : NotesSubmit(c))
         \/ Goes(NotesId) /\ (NotesStartRefused \/ \E c \in NotesCommands : NotesRefused(c))
         \/ Goes(NotesId) /\ (Type \/ NotesTick \/ NotesTake \/ NotesWorks \/ NotesEnds)
         \/ Finishes(NotesId) /\ NotesReturns
         \/ Stopped(NotesId) /\ NotesStop
<1> USE Identities
<1>1. CASE UNCHANGED <<rec, notesVars, hardwareVars, slot>> /\ \A a \in Apps : Keeps(a)
  BY <1>1
<1>2. ASSUME NEW a \in Apps, Owner = a, AppStart(a)
      PROVE  \/ UNCHANGED notesVars /\ Keeps(NotesId)
             \/ Accepts(NotesId) /\ NotesStart
             \/ Goes(NotesId) /\ NotesStartRefused
  <2>1. CASE a = NotesId
    BY <1>2, <2>1, JobMoves DEF AppStart
  <2>2. CASE a # NotesId
    <3>1. UNCHANGED notesVars /\ UNCHANGED vars
      BY <1>2, <2>2 DEF AppStart
    <3> QED
      BY <1>2, <2>2, <3>1, JobMoves DEF Keeps, Goes
  <2> QED
    BY <2>1, <2>2
<1>3. ASSUME NEW a \in Apps, AppStop(a), Stopped(a)
      PROVE  (UNCHANGED notesVars /\ Keeps(NotesId)) \/ (Stopped(NotesId) /\ NotesStop)
  BY <1>3 DEF AppStop, Stopped, Keeps
<1>4. CASE NotesActs
  <2>1. Owner = NotesId
    BY <1>4, RunsOwner DEF NotesActs
  <2> QED
    BY <1>4, <2>1, JobMoves DEF NotesActs
<1>5. CASE RecorderActs
  <2>1. UNCHANGED notesVars /\ Owner = RecorderId /\ (Submit(RecorderId) \/ UNCHANGED vars)
    BY <1>5, RunsOwner DEF RecorderActs
  <2> QED
    BY <2>1, JobMoves DEF Keeps, Accepts, Goes
<1>6. CASE HardwareActs \/ ExternalActs
  <2>1. UNCHANGED vars /\ UNCHANGED notesVars
    BY <1>6 DEF HardwareActs, ExternalActs
  <2> QED
    BY <2>1, Bystanders
<1>7. CASE WorkerSteps
  <2>1. CASE Works(NotesId) /\ (NotesTake \/ NotesWorks \/ NotesEnds) /\ UNCHANGED vars
    BY <2>1, RunsOwner, JobMoves
  <2>2. CASE Works(NotesId) /\ NotesReturns /\ FinishJob
    BY <2>2, JobMoves
  <2>3. CASE Works(RecorderId) /\ UNCHANGED notesVars /\ (UNCHANGED vars \/ FinishJob)
    BY <2>3, RunsOwner, JobMoves DEF Keeps, Goes, Finishes
  <2> QED
    BY <1>7, <2>1, <2>2, <2>3 DEF WorkerSteps
<1> QED
  BY <1>1, <1>2, <1>3, <1>4, <1>5, <1>6, <1>7, Turns

LEMMA NotesFields ==
  ASSUME NotesInv
  PROVE  /\ note.state \in NotesStates /\ note.command \in NotesCommands \cup {NoCommand}
         /\ note.transfer \in Contents /\ note.job \in NotesCommands \cup {"none", "ended"}
         /\ note.opened \in BOOLEAN /\ note.editor \in Contents /\ file \in Contents
         /\ Empty \in Contents
  BY DEF NotesType, NotesInv, Contents

LEMMA NotesBuiltFields ==
  ASSUME NotesInv, note.built
  PROVE  note = Note(note.state, note.command, note.transfer, note.job, note.opened, note.editor, TRUE)
<1>1. note.built = TRUE
  <2>1. note.built \in BOOLEAN
    BY DEF NotesInv, NotesType
  <2> QED
    BY <2>1, Zenon
<1>2. note = Note(note.state, note.command, note.transfer, note.job, note.opened, note.editor, note.built)
  BY DEF NotesInv, NotesType, Note
<1> QED
  BY <1>1, <1>2

(* A load when the view is built, or a button: the command is in the slot.  *)
LEMMA NotesSubmits ==
  ASSUME IInv, NotesInv, Accepts(NotesId),
         NotesStart \/ \E c \in NotesCommands : NotesSubmit(c)
  PROVE  NotesInv'
<1>1. PICK c \in NotesCommands, j \in {"none", "ended"}, t \in Contents, o \in BOOLEAN, e \in Contents :
        /\ note' = Note(NotesPending(c), c, t, j, o, e, TRUE) /\ file' = file
        /\ note.command = NoCommand /\ note.job = j
  <2> USE NotesFields
  <2>1. CASE NotesStart
    <3>1. note' = Note(NotesPending("load"), "load", Empty, "none", FALSE, Empty, TRUE)
      BY <2>1 DEF NotesStart, Began, NotesBuilt, NotesIdle, Note
    <3>2. note.command = NoCommand /\ note.job = "none" /\ file' = file
      BY <2>1 DEF NotesStart, NotesInv
    <3> QED
      BY <3>1, <3>2 DEF NotesCommands
  <2>2. ASSUME NEW c \in NotesCommands, NotesSubmit(c)
        PROVE  \E j \in {"none", "ended"}, t \in Contents, o \in BOOLEAN, e \in Contents :
                 /\ note' = Note(NotesPending(c), c, t, j, o, e, TRUE) /\ file' = file
                 /\ note.command = NoCommand /\ note.job = j
    <3> DEFINE t == IF c = "save" THEN note.editor ELSE note.transfer
    <3>1. note' = Note(NotesPending(c), c, t, note.job, note.opened, note.editor, TRUE)
      BY <2>2, NotesBuiltFields DEF NotesSubmit, Began, Note
    <3>2. note.command = NoCommand /\ note.job \in {"none", "ended"} /\ file' = file
      BY <2>2 DEF NotesSubmit, CanSubmit, NotesInv, NotesUnderway
    <3>3. t \in Contents
      OBVIOUS
    <3> HIDE DEF t
    <3> QED
      BY <3>1, <3>2, <3>3
  <2> QED
    BY <2>1, <2>2
<1>2. /\ c # NoCommand /\ NoCommand \in NotesCommands \cup {NoCommand}
      /\ NotesPending(c) \in {"loading", "saving"} /\ j \notin NotesCommands
  BY DEF NotesCommands, NoCommand, NotesPending
<1>3. /\ note' \in NotesType /\ note'.state \in {"loading", "saving"} /\ note'.command = c
      /\ note'.job = j /\ note'.built /\ file' \in Contents
  BY <1>1, <1>2, NotesFields DEF Note, NotesType, NotesStates
<1>4. Load(NotesId)' = Load(NotesId) + 1
  BY Loads, Identities
<1>5. One(note'.command # NoCommand) + One(note'.job # "none") = Load(NotesId)'
  <2>1. One(note.command # NoCommand) + One(note.job # "none") = Load(NotesId)
    BY DEF NotesInv
  <2>2. note'.command # NoCommand /\ note'.job = note.job /\ note.command = NoCommand
    BY <1>1, <1>2, <1>3
  <2> QED
    BY <1>4, <2>1, <2>2 DEF One
<1> QED
  BY <1>2, <1>3, <1>5 DEF NotesInv, NotesUnderway, Accepts

(* A refusal empties the slot again, and the state says that it failed.     *)
LEMMA NotesRefuses ==
  ASSUME IInv, NotesInv, Goes(NotesId),
         NotesStartRefused \/ \E c \in NotesCommands : NotesRefused(c)
  PROVE  NotesInv'
<1>1. PICK c \in NotesCommands, t \in Contents, o \in BOOLEAN, e \in Contents :
        /\ note' = Note(NotesFailed(c), NoCommand, t, note.job, o, e, TRUE) /\ file' = file
        /\ note.command = NoCommand /\ note.job \notin NotesCommands
  <2> USE NotesFields
  <2>1. CASE NotesStartRefused
    <3>1. note' = Note(NotesFailed("load"), NoCommand, Empty, "none", FALSE, Empty, TRUE)
      BY <2>1 DEF NotesStartRefused, Unqueued, Emptied, NotesBuilt, NotesIdle, Note
    <3>2. note.command = NoCommand /\ note.job = "none" /\ file' = file
      BY <2>1 DEF NotesStartRefused, NotesInv
    <3> QED
      BY <3>1, <3>2 DEF NotesCommands
  <2>2. ASSUME NEW c \in NotesCommands, NotesRefused(c)
        PROVE  \E t \in Contents, o \in BOOLEAN, e \in Contents :
                 /\ note' = Note(NotesFailed(c), NoCommand, t, note.job, o, e, TRUE) /\ file' = file
                 /\ note.command = NoCommand /\ note.job \notin NotesCommands
    <3> DEFINE t == IF c = "save" THEN note.editor ELSE note.transfer
    <3>1. note' = Note(NotesFailed(c), NoCommand, t, note.job, note.opened, note.editor, TRUE)
      BY <2>2, NotesBuiltFields DEF NotesRefused, Unqueued, Emptied, Note
    <3>2. note.command = NoCommand /\ note.job \notin NotesCommands /\ file' = file
      BY <2>2 DEF NotesRefused, CanSubmit, NotesInv, NotesUnderway
    <3>3. t \in Contents
      OBVIOUS
    <3> HIDE DEF t
    <3> QED
      BY <3>1, <3>2, <3>3
  <2> QED
    BY <2>1, <2>2
<1>2. /\ NoCommand \in NotesCommands \cup {NoCommand}
      /\ NotesFailed(c) \in {"load_error", "save_error"}
  BY DEF NotesFailed
<1>3. /\ note' \in NotesType /\ note'.state \notin {"loading", "saving"} /\ note'.command = NoCommand
      /\ note'.job = note.job /\ note'.built /\ file' \in Contents
  BY <1>1, <1>2, NotesFields DEF Note, NotesType, NotesStates
<1>4. Load(NotesId)' = Load(NotesId)
  BY Loads, Identities
<1> QED
  BY <1>1, <1>3, <1>4 DEF NotesInv, NotesUnderway, Goes

(* Typing, ticks and the opening of the file leave the command as it is.    *)
LEMMA NotesEdits ==
  ASSUME IInv, NotesInv, Goes(NotesId), Type \/ NotesTick \/ NotesWorks
  PROVE  NotesInv'
<1>0. note.built
  BY DEF Type, NotesTick, NotesWorks, OpenForWriting, OpenForReading, NotesInv
<1> DEFINE pending(s) == s \in {"loading", "saving"}
<1>1. PICK s \in NotesStates, o \in BOOLEAN, e \in Contents :
        /\ note' = Note(s, note.command, note.transfer, note.job, o, e, TRUE) /\ file' \in Contents
        /\ pending(s) <=> pending(note.state)
  <2> USE <1>0, NotesFields, NotesBuiltFields DEF Note
  <2>1. CASE Type
    <3>1. PICK e \in Texts : note' = [note EXCEPT !.editor = e]
      BY <2>1 DEF Type
    <3>2. note' = Note(note.state, note.command, note.transfer, note.job, note.opened, e, TRUE)
      BY <3>1
    <3>3. e \in Contents /\ file' = file
      BY <2>1, <3>1 DEF Type, Contents
    <3> QED
      BY <3>2, <3>3
  <2>2. CASE NotesTick
    <3> DEFINE e == IF note.state = "loaded" THEN note.transfer ELSE note.editor
    <3>1. note' = Note("ready", note.command, note.transfer, note.job, note.opened, e, TRUE)
      BY <2>2 DEF NotesTick
    <3>2. e \in Contents /\ "ready" \in NotesStates
      BY DEF NotesStates
    <3> HIDE DEF e
    <3> QED
      BY <2>2, <3>1, <3>2 DEF NotesTick
  <2>3. CASE NotesWorks
    <3>1. note' = Note(note.state, note.command, note.transfer, note.job, TRUE, note.editor, TRUE)
      BY <2>3 DEF NotesWorks, OpenForWriting, OpenForReading
    <3> QED
      BY <2>3, <3>1 DEF NotesWorks, OpenForWriting, OpenForReading
  <2> QED
    BY <2>1, <2>2, <2>3
<1>2. /\ note' \in NotesType /\ note'.state = s /\ note'.command = note.command
      /\ note'.job = note.job /\ note'.built
  BY <1>1, NotesFields DEF Note, NotesType
<1>3. Load(NotesId)' = Load(NotesId)
  BY Loads, Identities
<1>4. NotesUnderway'
  BY <1>1, <1>2 DEF NotesInv, NotesUnderway
<1> QED
  BY <1>1, <1>2, <1>3, <1>4 DEF NotesInv, Goes

LEMMA NotesTakes ==
  ASSUME IInv, NotesInv, Goes(NotesId), NotesTake
  PROVE  NotesInv'
<1>1. /\ note.job = "none" /\ note.command \in NotesCommands /\ note.built
      /\ NoCommand \in NotesCommands \cup {NoCommand} /\ "none" \notin NotesCommands
  BY NotesFields DEF NotesInv, NotesTake, NotesCommands
<1>2. /\ note' = Note(note.state, NoCommand, note.transfer, note.command, note.opened, note.editor, TRUE)
      /\ file' = file
  BY <1>1, NotesBuiltFields DEF NotesTake, Note, Emptied
<1>3. /\ note' \in NotesType /\ note'.state = note.state /\ note'.command = NoCommand
      /\ note'.job = note.command /\ note'.built /\ file' \in Contents
  BY <1>1, <1>2, NotesFields DEF Note, NotesType
<1>4. Load(NotesId)' = Load(NotesId)
  BY Loads, Identities
<1> QED
  BY <1>1, <1>3, <1>4 DEF NotesInv, NotesUnderway, Goes, One, NoCommand

(* Whatever a command ends with, its state is none that is pending.         *)
LEMMA NotesFinishes ==
  ASSUME IInv, NotesInv, Goes(NotesId), NotesEnds
  PROVE  NotesInv'
<1>1. note.built /\ note.job \in NotesCommands /\ note.command = NoCommand
  BY DEF NotesInv, NotesEnds, OpenFails, Written, WriteFails, Read, ReadFails, NotesCommands
<1>2. PICK s \in NotesStates \ {"loading", "saving"}, t \in Contents :
        /\ note' = Note(s, note.command, t, "ended", FALSE, note.editor, TRUE)
        /\ file' \in Contents
  <2> USE <1>1, NotesFields, NotesBuiltFields DEF Note, Done, NotesStates
  <2>1. CASE OpenFails
    <3> DEFINE s == IF note.job = "load" /\ file = Absent THEN "load_missing"
                    ELSE NotesFailed(note.job)
    <3>1. note' = Note(s, note.command, note.transfer, "ended", FALSE, note.editor, TRUE)
      BY <2>1 DEF OpenFails
    <3>2. s \in {"load_missing", "load_error", "save_error"}
      BY DEF NotesFailed
    <3> HIDE DEF s
    <3> QED
      BY <2>1, <3>1, <3>2 DEF OpenFails
  <2>2. CASE Written
    <3>1. note' = Note("saved", note.command, note.transfer, "ended", FALSE, note.editor, TRUE)
      BY <2>2 DEF Written
    <3> QED
      BY <2>2, <3>1 DEF Written
  <2>3. CASE WriteFails
    <3>1. note' = Note("save_error", note.command, note.transfer, "ended", FALSE, note.editor, TRUE)
      BY <2>3 DEF WriteFails
    <3> QED
      BY <2>3, <3>1 DEF WriteFails
  <2>4. CASE Read
    <3>1. note' = Note("loaded", note.command, file, "ended", FALSE, note.editor, TRUE)
      BY <2>4 DEF Read
    <3> QED
      BY <2>4, <3>1 DEF Read
  <2>5. CASE ReadFails
    <3>1. PICK part \in {Empty, file} :
            note' = Note("load_error", note.command, part, "ended", FALSE, note.editor, TRUE)
      BY <2>5 DEF ReadFails
    <3> QED
      BY <2>5, <3>1 DEF ReadFails
  <2> QED
    BY <2>1, <2>2, <2>3, <2>4, <2>5 DEF NotesEnds
<1>3. /\ note' \in NotesType /\ note'.state \notin {"loading", "saving"}
      /\ note'.command = note.command /\ note'.job = "ended" /\ note'.built
  BY <1>2, NotesFields DEF Note, NotesType
<1>4. Load(NotesId)' = Load(NotesId)
  BY Loads, Identities
<1> QED
  BY <1>1, <1>2, <1>3, <1>4 DEF NotesInv, NotesUnderway, Goes, One, NotesCommands

LEMMA NotesRest ==
  ASSUME IInv, NotesInv,
         \/ Keeps(NotesId) /\ UNCHANGED notesVars
         \/ Finishes(NotesId) /\ NotesReturns
         \/ Stopped(NotesId) /\ NotesStop
  PROVE  NotesInv'
<1>1. CASE Keeps(NotesId) /\ UNCHANGED notesVars
  <2>1. Load(NotesId)' = Load(NotesId) /\ (note.built => Owner' = NotesId)
    BY <1>1, Loads, Identities DEF NotesInv
  <2> QED
    BY <1>1, <2>1 DEF NotesInv, NotesUnderway, notesVars
<1>2. CASE Finishes(NotesId) /\ NotesReturns
  <2>1. note.job = "ended" /\ note.built /\ {"ended", "none"} \cap NotesCommands = {}
    BY <1>2 DEF NotesReturns, NotesInv, NotesCommands
  <2>2. /\ note' = Note(note.state, note.command, note.transfer, "none", note.opened, note.editor, TRUE)
        /\ file' = file
    BY <1>2, <2>1, NotesBuiltFields DEF NotesReturns, Note
  <2>3. /\ note' \in NotesType /\ note'.state = note.state /\ note'.command = note.command
        /\ note'.job = "none" /\ note'.built /\ file' \in Contents
    BY <2>1, <2>2, NotesFields DEF Note, NotesType
  <2>4. Load(NotesId)' = Load(NotesId) - 1
    BY <1>2, Loads, Identities
  <2>5. One(note'.command # NoCommand) + One(note'.job # "none") = Load(NotesId)'
    BY <2>1, <2>3, <2>4 DEF NotesInv, One
  <2> QED
    BY <1>2, <2>1, <2>3, <2>5 DEF NotesInv, NotesUnderway, Finishes, One
<1>3. CASE Stopped(NotesId) /\ NotesStop
  <2>1. note' = Note("ready", NoCommand, Empty, "none", FALSE, Empty, FALSE) /\ file' = file
    BY <1>3 DEF NotesStop, NotesIdle, Note
  <2>2. /\ note' \in NotesType /\ note'.state = "ready" /\ note'.command = NoCommand
        /\ note'.job = "none" /\ note'.built = FALSE /\ file' \in Contents
    BY <2>1, NotesFields DEF Note, NotesType, NotesStates
  <2>3. Load(NotesId)' = 0
    BY <1>3, Loads, Identities
  <2> QED
    BY <2>2, <2>3 DEF NotesInv, NotesUnderway, One, NotesCommands, NoCommand
<1> QED
  BY <1>1, <1>2, <1>3

LEMMA NotesStep ==
  ASSUME IInv, NotesInv, [ApplicationsNext]_allVars PROVE NotesInv'
  BY NotesTurns, NotesSubmits, NotesRefuses, NotesEdits, NotesTakes, NotesFinishes, NotesRest

-----------------------------------------------------------------------------
(* The hardware test                                                        *)

HardwareInv ==
  /\ hw \in [enabled : BOOLEAN, intensity : Int, built : BOOLEAN]
  /\ stored \in [haptic_en : Int, haptic_pct : Int]
  /\ DisabledMotorRests
  /\ hw.built => Owner = HardwareId

LEMMA HardwareTurns ==
  ASSUME IInv, [ApplicationsNext]_allVars
  PROVE  \/ Keeps(HardwareId) /\ (UNCHANGED hardwareVars \/ PulseEnds)
         \/ Goes(HardwareId) /\ (HardwareStart \/ HardwareActions)
         \/ Stopped(HardwareId) /\ HardwareStop
<1> USE Identities
<1>1. CASE UNCHANGED <<rec, notesVars, hardwareVars, slot>> /\ \A a \in Apps : Keeps(a)
  BY <1>1
<1>2. ASSUME NEW a \in Apps, Owner = a, AppStart(a)
      PROVE  \/ Keeps(HardwareId) /\ UNCHANGED hardwareVars
             \/ Goes(HardwareId) /\ HardwareStart
  <2>1. CASE a = HardwareId
    BY <1>2, <2>1, JobMoves DEF AppStart
  <2>2. CASE a # HardwareId
    <3>1. UNCHANGED hardwareVars /\ (UNCHANGED vars \/ Submit(a))
      BY <1>2, <2>2 DEF AppStart
    <3> QED
      BY <1>2, <2>2, <3>1, JobMoves DEF Keeps, Accepts, Goes
  <2> QED
    BY <2>1, <2>2
<1>3. ASSUME NEW a \in Apps, AppStop(a), Stopped(a)
      PROVE  \/ Keeps(HardwareId) /\ UNCHANGED hardwareVars
             \/ Stopped(HardwareId) /\ HardwareStop
  BY <1>3 DEF AppStop, Stopped, Keeps
<1>4. CASE RecorderActs \/ NotesActs
  <2>1. UNCHANGED hardwareVars
    BY <1>4 DEF RecorderActs, NotesActs
  <2>2. \E a \in {RecorderId, NotesId} : Owner = a /\ (Submit(a) \/ UNCHANGED vars)
    BY <1>4, RunsOwner DEF RecorderActs, NotesActs
  <2> QED
    BY <2>1, <2>2, JobMoves DEF Keeps, Accepts, Goes
<1>5. CASE HardwareActs
  <2>1. CASE PulseEnds /\ UNCHANGED vars
    BY <2>1, Bystanders
  <2>2. CASE Active(HardwareId) /\ HardwareActions /\ UNCHANGED vars
    BY <2>2, RunsOwner, JobMoves
  <2> QED
    BY <1>5, <2>1, <2>2 DEF HardwareActs
<1>6. CASE ExternalActs
  <2>1. UNCHANGED vars /\ UNCHANGED hardwareVars
    BY <1>6 DEF ExternalActs
  <2> QED
    BY <2>1, Bystanders
<1>7. CASE WorkerSteps
  <2>1. UNCHANGED hardwareVars
    BY <1>7 DEF WorkerSteps
  <2>2. \E a \in {RecorderId, NotesId} : Works(a) /\ (UNCHANGED vars \/ FinishJob)
    BY <1>7 DEF WorkerSteps
  <2> QED
    BY <2>1, <2>2, RunsOwner, JobMoves DEF Keeps, Goes, Finishes
<1> QED
  BY <1>1, <1>2, <1>3, <1>4, <1>5, <1>6, <1>7, Turns

LEMMA HardwareStep ==
  ASSUME IInv, HardwareInv, [ApplicationsNext]_allVars PROVE HardwareInv'
<1> DEFINE H == [enabled : BOOLEAN, intensity : Int, built : BOOLEAN]
           S == [haptic_en : Int, haptic_pct : Int]
<1>0. /\ hw \in H /\ stored \in S /\ \A v \in Int : Bounded(v) \in Int
      /\ \A p \in Presets : p \in Int
  BY PresetsAssumption DEF HardwareInv, Bounded
<1>1. CASE Keeps(HardwareId) /\ (UNCHANGED hardwareVars \/ PulseEnds)
  BY <1>1, Loads, Identities DEF HardwareInv, DisabledMotorRests, hardwareVars, PulseEnds
<1>2. CASE Goes(HardwareId) /\ HardwareStart
  <2>1. stored' = stored /\ motor' = 0 /\ hw'.built
    BY <1>2 DEF HardwareStart
  <2>2. hw' \in H
    BY <1>0, <1>2 DEF HardwareStart
  <2> QED
    BY <1>0, <1>2, <2>1, <2>2 DEF HardwareInv, DisabledMotorRests, Goes
<1>3. CASE Goes(HardwareId) /\ HardwareActions
  <2>1. ASSUME NEW on \in BOOLEAN, EnabledChanged(on)
        PROVE  hw' \in H /\ stored' \in S /\ DisabledMotorRests'
    <3>1. hw' \in H
      BY <1>0, <2>1 DEF EnabledChanged
    <3>2. stored' \in S
      BY <1>0, <2>1 DEF EnabledChanged, Set
    <3>3. motor' # 0 => on /\ hw'.built /\ hw'.enabled = on
      BY <1>0, <2>1 DEF EnabledChanged
    <3> QED
      BY <3>1, <3>2, <3>3 DEF DisabledMotorRests
  <2>2. ASSUME NEW p \in Presets, IntensityChanged(p) \/ Preview(p)
        PROVE  hw' \in H /\ stored' \in S /\ DisabledMotorRests'
    <3>1. hw' \in H
      BY <1>0, <2>2 DEF IntensityChanged, Preview
    <3>2. stored' \in S
      BY <1>0, <2>2 DEF IntensityChanged, Preview
    <3>3. DisabledMotorRests'
      BY <1>0, <2>2 DEF IntensityChanged, Preview, PulseAt, HardwareInv, DisabledMotorRests
    <3> QED
      BY <3>1, <3>2, <3>3
  <2>3. ASSUME IntensityCommitted
        PROVE  hw' \in H /\ stored' \in S /\ DisabledMotorRests'
    <3>1. hw' = hw /\ stored' \in S
      BY <1>0, <2>3 DEF IntensityCommitted, Set
    <3>2. DisabledMotorRests'
      BY <2>3 DEF IntensityCommitted, PulseAt, HardwareInv, DisabledMotorRests
    <3> HIDE DEF H, S
    <3> QED
      BY <1>0, <3>1, <3>2
  <2>4. ASSUME TestMotor \/ StopMotor
        PROVE  hw' \in H /\ stored' \in S /\ DisabledMotorRests'
    <3>1. hw' = hw /\ stored' = stored
      BY <2>4 DEF TestMotor, StopMotor
    <3>2. DisabledMotorRests'
      BY <2>4 DEF TestMotor, StopMotor, PulseAt, HardwareInv, DisabledMotorRests
    <3> HIDE DEF H, S
    <3> QED
      BY <1>0, <3>1, <3>2
  <2>5. hw' \in H /\ stored' \in S /\ DisabledMotorRests'
    <3> HIDE DEF H, S
    <3> QED
      BY <1>3, <2>1, <2>2, <2>3, <2>4 DEF HardwareActions
  <2> QED
    BY <1>3, <2>5 DEF HardwareInv, Goes
<1>4. CASE Stopped(HardwareId) /\ HardwareStop
  <2>1. stored' = stored /\ motor' = 0 /\ ~hw'.built
    BY <1>0, <1>4 DEF HardwareStop
  <2>2. hw' \in H
    BY <1>0, <1>4 DEF HardwareStop
  <2> QED
    BY <1>0, <2>1, <2>2 DEF HardwareInv, DisabledMotorRests
<1> QED
  BY <1>1, <1>2, <1>3, <1>4, HardwareTurns

-----------------------------------------------------------------------------
(* The applications of the card                                             *)

Running == [lifecycle : {"running"}, open : {TRUE}, buttons : 0..MaxButtons]

SlotInv ==
  /\ slot \in [Slots -> Running \cup {SlotIdle}]
  /\ \A i \in Slots : slot[i] # SlotIdle => Owner = External[i]

LEMMA SlotTurns ==
  ASSUME IInv, [ApplicationsNext]_allVars
  PROVE  \/ UNCHANGED slot /\ \A i \in Slots : Keeps(External[i])
         \/ \E a \in Apps \ Builtin : /\ LuaStarts(Slot(a)) \/ LuaFails(Slot(a))
                                      /\ Owner = a /\ Owner' = a
         \/ \E i \in Slots : LuaInvokes(i) /\ Owner = External[i] /\ Owner' = External[i]
         \/ \E a \in Apps : ExternalStop(Slot(a)) /\ Stopped(a)
<1> USE Identities
<1>1. CASE UNCHANGED <<rec, notesVars, hardwareVars, slot>> /\ \A a \in Apps : Keeps(a)
  BY <1>1
<1>2. ASSUME NEW a \in Apps, Owner = a, AppStart(a)
      PROVE  \/ UNCHANGED slot /\ \A i \in Slots : Keeps(External[i])
             \/ /\ LuaStarts(Slot(a)) \/ LuaFails(Slot(a))
                /\ a \notin Builtin /\ Owner' = a
  <2>1. CASE a \in Builtin
    <3>1. UNCHANGED slot /\ (UNCHANGED vars \/ Submit(a))
      BY <1>2, <2>1 DEF AppStart, externalVars
    <3> QED
      BY <1>2, <2>1, <3>1, JobMoves DEF Keeps, Accepts, Goes
  <2>2. CASE a \notin Builtin
    BY <1>2, <2>2, JobMoves DEF AppStart, Goes
  <2> QED
    BY <2>1, <2>2
<1>3. ASSUME NEW a \in Apps, AppStop(a), Stopped(a)
      PROVE  \/ UNCHANGED slot /\ \A i \in Slots : Keeps(External[i])
             \/ ExternalStop(Slot(a)) /\ Stopped(a)
  BY <1>3 DEF AppStop, Stopped, Keeps, externalVars
<1>4. CASE RecorderActs \/ NotesActs
  <2>1. UNCHANGED slot
    BY <1>4 DEF RecorderActs, NotesActs, externalVars
  <2>2. \E a \in {RecorderId, NotesId} : Owner = a /\ (Submit(a) \/ UNCHANGED vars)
    BY <1>4, RunsOwner DEF RecorderActs, NotesActs
  <2> QED
    BY <2>1, <2>2, JobMoves DEF Keeps, Accepts, Goes
<1>5. CASE HardwareActs
  <2>1. UNCHANGED vars /\ UNCHANGED slot
    BY <1>5 DEF HardwareActs, externalVars
  <2> QED
    BY <2>1, Bystanders
<1>6. CASE ExternalActs
  <2>1. PICK i \in Slots : Active(External[i]) /\ LuaInvokes(i) /\ UNCHANGED vars
    BY <1>6 DEF ExternalActs
  <2>2. External[i] \in Apps
    OBVIOUS
  <2> QED
    BY <2>1, <2>2, RunsOwner, JobMoves DEF Goes
<1>7. CASE WorkerSteps
  <2>1. UNCHANGED slot
    BY <1>7 DEF WorkerSteps, externalVars
  <2>2. \E a \in {RecorderId, NotesId} : Works(a) /\ (UNCHANGED vars \/ FinishJob)
    BY <1>7 DEF WorkerSteps
  <2> QED
    BY <2>1, <2>2, RunsOwner, JobMoves DEF Keeps, Goes, Finishes
<1> QED
  BY <1>1, <1>2, <1>3, <1>4, <1>5, <1>6, <1>7, Turns

(* An owner that is not built in is the application of its slot.            *)
LEMMA OwnersSlot ==
  ASSUME IInv, RegistryInv, NEW a \in Apps \ Builtin, Owner = a
  PROVE  Slot(a) \in Slots /\ External[Slot(a)] = a
<1>1. a \in apps
  BY AppsAssumption DEF IInv, TypeOK, PhaseInv, OwnerInv, Owner, Phases
<1>2. PICK i \in Slots : External[i] = a
  BY <1>1, Identities DEF RegistryInv, Created
<1> QED
  BY <1>2 DEF Slot

LEMMA SlotStep ==
  ASSUME IInv, RegistryInv, SlotInv, [ApplicationsNext]_allVars PROVE SlotInv'
<1>0. /\ slot \in [Slots -> Running \cup {SlotIdle}]
      /\ \A i, j \in Slots : External[i] = External[j] => i = j
      /\ \A i \in Slots : External[i] \in Apps /\ External[i] \notin Builtin
      /\ NoApp \notin Apps /\ MaxButtons \in Nat
  BY Identities, ExternalAssumption DEF SlotInv
<1>1. CASE UNCHANGED slot /\ \A i \in Slots : Keeps(External[i])
  BY <1>0, <1>1 DEF SlotInv, Keeps
<1>2. ASSUME NEW a \in Apps \ Builtin, LuaStarts(Slot(a)) \/ LuaFails(Slot(a)),
             Owner = a, Owner' = a
      PROVE  SlotInv'
  <2>1. Slot(a) \in Slots /\ External[Slot(a)] = a
    BY <1>2, OwnersSlot
  <2>2. PICK s \in Running \cup {SlotIdle} : slot' = [slot EXCEPT ![Slot(a)] = s]
    <3>1. \A n \in Buttons(0) : [Installed EXCEPT !.buttons = n] \in Running
      BY <1>0 DEF Buttons, Installed, Running
    <3> QED
      BY <1>2, <3>1 DEF LuaStarts, LuaFails
  <2> QED
    BY <1>0, <1>2, <2>1, <2>2 DEF SlotInv
<1>3. ASSUME NEW i \in Slots, LuaInvokes(i), Owner = External[i], Owner' = External[i]
      PROVE  SlotInv'
  <2>1. slot[i] \in Running
    BY <1>0, <1>3 DEF LuaInvokes, SlotIdle
  <2>2. PICK n \in 0..MaxButtons : slot' = [slot EXCEPT ![i] = [slot[i] EXCEPT !.buttons = n]]
    <3>1. PICK n \in Buttons(slot[i].buttons) : slot' = [slot EXCEPT ![i].buttons = n]
      BY <1>3 DEF LuaInvokes
    <3>2. slot[i].buttons \in 0..MaxButtons
      BY <2>1 DEF Running
    <3>3. n \in 0..MaxButtons
      BY <1>0, <3>1, <3>2 DEF Buttons
    <3> QED
      BY <3>1, <3>3
  <2>3. [slot[i] EXCEPT !.buttons = n] \in Running
    BY <2>1, <2>2 DEF Running
  <2> QED
    BY <1>0, <1>3, <2>2, <2>3 DEF SlotInv
<1>4. ASSUME NEW a \in Apps, ExternalStop(Slot(a)), Stopped(a)
      PROVE  SlotInv'
  <2>1. \A i \in Slots : slot[i] # SlotIdle => i = Slot(a)
    BY <1>0, <1>4 DEF SlotInv, Stopped, Slot
  <2>2. slot' \in [Slots -> Running \cup {SlotIdle}]
    BY <1>0, <1>4 DEF ExternalStop
  <2>3. \A i \in Slots : slot'[i] = SlotIdle
    BY <1>0, <1>4, <2>1 DEF ExternalStop, BeginStop, Running
  <2> QED
    BY <2>2, <2>3 DEF SlotInv
<1> QED
  BY <1>1, <1>2, <1>3, <1>4, SlotTurns

-----------------------------------------------------------------------------
(* What holds of the applications under their manager                       *)

ApplicationsInv ==
  IInv /\ RegistryInv /\ RecorderInv /\ NotesInv /\ HardwareInv /\ SlotInv

LEMMA ApplicationsInitEstablishes == ApplicationsInit => ApplicationsInv
<1> SUFFICES ASSUME ApplicationsInit PROVE ApplicationsInv
  OBVIOUS
<1> USE DEF ApplicationsInit
<1>1. IInv /\ Owner = NoApp /\ outstanding = <<>> /\ NoApp \notin Apps
  BY InitEstablishes, AppsAssumption DEF Init, Owner
<1>2. RegistryInv
  BY Identities DEF Init, ExternalInit, RegistryInv, Discovering
<1>3. Load(RecorderId) = 0 /\ Load(NotesId) = 0
  BY <1>1, Identities DEF Load
<1>4. RecorderInv
  <2>1. rec = Rec("ready", NoCommand, <<>>, 0, "none", 0, FALSE)
    BY DEF RecorderInit, RecorderIdle, Rec
  <2>2. rec \in RecorderType
    BY <2>1, NoLength DEF Rec, RecorderType, RecorderStates, Clips
  <2> QED
    BY <1>3, <2>1, <2>2 DEF Rec, RecorderInv, RecorderUnderway, One, RecorderCommands, NoCommand
<1>5. NotesInv
  <2>1. note = Note("ready", NoCommand, Empty, "none", FALSE, Empty, FALSE) /\ file \in Contents
    BY DEF NotesInit, NotesIdle, Note, Contents
  <2>2. note \in NotesType
    BY <2>1 DEF Note, NotesType, NotesStates, Contents
  <2> QED
    BY <1>3, <2>1, <2>2 DEF Note, NotesInv, NotesUnderway, One, NotesCommands, NoCommand
<1>6. HardwareInv
  BY DEF HardwareInit, HardwareInv, DisabledMotorRests, Never
<1>7. SlotInv
  BY DEF ExternalInit, SlotInv
<1> QED
  BY <1>1, <1>2, <1>4, <1>5, <1>6, <1>7 DEF ApplicationsInv

LEMMA ApplicationsStepPreserves ==
  ApplicationsInv /\ [ApplicationsNext]_allVars => ApplicationsInv'
<1> SUFFICES ASSUME ApplicationsInv, [ApplicationsNext]_allVars PROVE ApplicationsInv'
  OBVIOUS
<1>1. IInv /\ RegistryInv /\ RecorderInv /\ NotesInv /\ HardwareInv /\ SlotInv
  BY DEF ApplicationsInv
<1>2. [Next]_vars
  BY <1>1, ManagerStep DEF allVars
<1>3. IInv'
  BY <1>1, <1>2, StepPreserves
<1> QED
  BY <1>1, <1>3, RegistryStep, RecorderStep, NotesStep, HardwareStep, SlotStep DEF ApplicationsInv

LEMMA ApplicationsInvariance == ApplicationsSpec => []ApplicationsInv
  BY ApplicationsInitEstablishes, ApplicationsStepPreserves, PTL DEF ApplicationsSpec

(* Under the applications' own code, discovery and take-down, the manager   *)
(* takes only the steps its module gives it: what is proved of AppManager   *)
(* holds of the applications' composition as well.                          *)
THEOREM ApplicationsKeepManager == ApplicationsSpec => Spec
<1>1. ApplicationsInit => Init
  BY DEF ApplicationsInit
<1>2. ApplicationsInv /\ [ApplicationsNext]_allVars => [Next]_vars
  BY ManagerStep DEF ApplicationsInv, allVars
<1> QED
  BY <1>1, <1>2, ApplicationsInvariance, PTL DEF ApplicationsSpec, Spec

(* The manager can activate only applications of the card whose slots the   *)
(* factory will not hand out again, and between discoveries it has no       *)
(* others taken: a failed listing or a refused batch loses none, however    *)
(* many files were visited before.                                          *)
THEOREM RegisteredAreCreatedHolds == ApplicationsSpec => []RegisteredAreCreated
<1>1. ApplicationsInv => RegisteredAreCreated
  <2> SUFFICES ASSUME RegistryInv PROVE RegisteredAreCreated
    BY DEF ApplicationsInv
  <2>1. Created \cap Builtin = {} /\ (created = 0 => Created = {})
    BY Identities DEF RegistryInv, Created
  <2> QED
    BY <2>1 DEF RegistryInv, Discovering, RegisteredAreCreated
<1> QED
  BY <1>1, ApplicationsInvariance, PTL

(* The motor runs at the test application's request only on its screen and  *)
(* with haptics enabled there.                                              *)
THEOREM DisabledMotorRestsHolds == ApplicationsSpec => []DisabledMotorRests
<1>1. ApplicationsInv => DisabledMotorRests
  BY DEF ApplicationsInv, HardwareInv
<1> QED
  BY <1>1, ApplicationsInvariance, PTL

(* What is played was recorded, in one take.                                *)
THEOREM PlayedIsOneClipHolds == ApplicationsSpec => []PlayedIsOneClip
<1>1. ApplicationsInv => PlayedIsOneClip
  BY DEF ApplicationsInv, RecorderInv, OneTake, PlayedIsOneClip
<1> QED
  BY <1>1, ApplicationsInvariance, PTL

LEMMA HowMany == ASSUME NEW n \in Nat PROVE Cardinality(1..n) = n
  BY FS_Interval

(* All jobs are the owner's, so counting a's jobs counts all or none.       *)
LEMMA JobsAreLoad == ASSUME IInv, NEW a \in Apps PROVE JobsOf(a) = Load(a)
<1>1. outstanding \in Seq(Apps) /\ \A i \in DOMAIN outstanding : outstanding[i] = Owner
  BY DEF IInv, TypeOK, OwnerInv
<1>2. CASE Owner = a
  <2>1. {i \in DOMAIN outstanding : outstanding[i] = a} = 1..Len(outstanding)
    BY <1>1, <1>2
  <2> QED
    <3>1. Len(outstanding) \in Nat
      BY <1>1
    <3>2. Cardinality(1..Len(outstanding)) = Len(outstanding)
      BY <3>1, HowMany
    <3> QED
      BY <1>2, <2>1, <3>2 DEF JobsOf, Load
<1>3. CASE Owner # a
  <2>1. {i \in DOMAIN outstanding : outstanding[i] = a} = {}
    BY <1>1, <1>3
  <2> QED
    BY <1>3, <2>1, FS_EmptySet DEF JobsOf, Load
<1> QED
  BY <1>2, <1>3

(* A recorder or a note that shows a command in progress has a job for it,  *)
(* and each job a command: neither stays deaf to its buttons for ever.      *)
THEOREM PendingIsUnderwayHolds == ApplicationsSpec => []PendingIsUnderway
<1>1. ApplicationsInv => PendingIsUnderway
  BY JobsAreLoad, Identities DEF ApplicationsInv, RecorderInv, NotesInv, PendingIsUnderway
<1> QED
  BY <1>1, ApplicationsInvariance, PTL

(* Widgets, and the Lua state their callbacks call, belong to an            *)
(* application that has not stopped, whichever start failed half way.       *)
THEOREM WidgetsHaveLiveOwnerHolds == ApplicationsSpec => []WidgetsHaveLiveOwner
<1>1. ApplicationsInv => WidgetsHaveLiveOwner
  <2> SUFFICES ASSUME ApplicationsInv PROVE WidgetsHaveLiveOwner
    OBVIOUS
  <2>1. \A a \in Apps : Owner = a => life[a] # "stopped"
    BY DEF ApplicationsInv, IInv, OwnerInv
  <2>2. /\ rec.built => life[RecorderId] # "stopped"
        /\ note.built => life[NotesId] # "stopped"
        /\ hw.built => life[HardwareId] # "stopped"
    BY <2>1, Identities DEF ApplicationsInv, RecorderInv, NotesInv, HardwareInv
  <2>3. ASSUME NEW i \in Slots
        PROVE  /\ slot[i].open \/ slot[i].buttons > 0 => life[External[i]] # "stopped"
               /\ slot[i].open <=> slot[i].lifecycle = "running"
    <3>1. CASE slot[i] = SlotIdle
      BY <3>1 DEF SlotIdle
    <3>2. CASE slot[i] # SlotIdle
      <4>1. slot[i].open = TRUE /\ slot[i].lifecycle = "running"
        BY <3>2 DEF ApplicationsInv, SlotInv, Running
      <4>2. life[External[i]] # "stopped"
        BY <2>1, <3>2, Identities DEF ApplicationsInv, SlotInv
      <4> QED
        BY <4>1, <4>2
    <3> QED
      BY <3>1, <3>2
  <2> QED
    BY <2>2, <2>3 DEF WidgetsHaveLiveOwner
<1> QED
  BY <1>1, ApplicationsInvariance, PTL

(* Between taking its command and finishing, the job is alone with its      *)
(* data: nothing on the UI task changes the text that is being stored or    *)
(* loaded, or frees the samples under a recording.                          *)
THEOREM WorkerOwnsDataHolds == ApplicationsSpec => WorkerOwnsData
<1>1. ASSUME IInv, NotesInv, [ApplicationsNext]_allVars, note.job \in NotesCommands
      PROVE  note'.built /\ (note'.transfer = note.transfer \/ note'.job = "ended")
  <2>1. note.built /\ note.job \notin {"none", "ended"} /\ note.state \in {"loading", "saving"}
    BY <1>1 DEF NotesInv, NotesUnderway, NotesCommands
  <2>2. note = Note(note.state, note.command, note.transfer, note.job, note.opened, note.editor, TRUE)
    BY <1>1, <2>1, NotesBuiltFields
  <2>3. CASE UNCHANGED notesVars
    BY <2>1, <2>3 DEF notesVars
  <2>4. CASE \/ NotesStart \/ NotesStartRefused
             \/ \E c \in NotesCommands : NotesSubmit(c) \/ NotesRefused(c)
    BY <2>1, <2>4 DEF NotesStart, NotesStartRefused, NotesSubmit, NotesRefused, CanSubmit
  <2>5. CASE Type \/ NotesTick \/ NotesTake \/ NotesWorks
    BY <2>1, <2>2, <2>5
       DEF Type, NotesTick, NotesTake, NotesWorks, OpenForWriting, OpenForReading, Note
  <2>6. CASE NotesEnds
    BY <2>1, <2>2, <2>6
       DEF NotesEnds, OpenFails, Written, WriteFails, Read, ReadFails, Done, Note
  <2>7. CASE NotesReturns
    BY <2>1, <2>7 DEF NotesReturns
  <2>8. ~Stopped(NotesId)
    <3>1. One(note.command # NoCommand) + One(note.job # "none") > 0
      BY <2>1 DEF One
    <3> QED
      BY <1>1, <3>1, Loads, Identities DEF NotesInv
  <2> QED
    BY <1>1, <2>3, <2>4, <2>5, <2>6, <2>7, <2>8, NotesTurns
<1>2. ASSUME IInv, RecorderInv, [ApplicationsNext]_allVars, rec.job \in RecorderCommands
      PROVE  rec'.built
  <2>1. rec.built /\ rec.job # "none"
    BY <1>2 DEF RecorderInv, RecorderCommands
  <2>2. rec = Rec(rec.state, rec.command, rec.samples, rec.count, rec.job, rec.offset, TRUE)
    BY <1>2, <2>1, RecorderBuilt
  <2>3. CASE UNCHANGED rec
    BY <2>1, <2>3
  <2>4. CASE \E c \in RecorderCommands : RecorderRefused(c) \/ RecorderSubmit(c)
    BY <2>2, <2>4 DEF RecorderRefused, RecorderSubmit, Rec
  <2>5. CASE RecorderTake \/ RecorderReturns \/ WriteChunk
    <3>1. CASE RecorderTake
      BY <2>2, <3>1 DEF RecorderTake, Rec
    <3>2. CASE RecorderReturns
      BY <2>2, <3>2 DEF RecorderReturns, Rec
    <3>3. CASE WriteChunk
      BY <2>2, <3>3 DEF WriteChunk, Rec
    <3> QED
      BY <2>5, <3>1, <3>2, <3>3
  <2>6. CASE ReadChunk
    <3>1. PICK take : rec' = [rec EXCEPT !.samples[rec.offset + 1] = take, !.offset = rec.offset + 1]
      BY <2>6, Zenon DEF ReadChunk
    <3> QED
      BY <2>2, <3>1 DEF Rec
  <2>8. CASE RecorderEnds
    <3>1. CASE RecordEnds
      BY <2>2, <3>1 DEF RecordEnds, Rec
    <3>2. CASE RecordFails
      BY <2>2, <3>2 DEF RecordFails, Rec
    <3>3. CASE PlayEnds
      BY <2>2, <3>3 DEF PlayEnds, Rec
    <3>4. CASE PlayFails
      BY <2>2, <3>4 DEF PlayFails, Rec
    <3> QED
      BY <2>8, <3>1, <3>2, <3>3, <3>4 DEF RecorderEnds
  <2>7. ~Stopped(RecorderId)
    <3>1. One(rec.command # NoCommand) + One(rec.job # "none") > 0
      BY <2>1 DEF One
    <3> QED
      BY <1>2, <3>1, Loads, Identities DEF RecorderInv
  <2> QED
    BY <1>2, <2>1, <2>3, <2>4, <2>5, <2>6, <2>7, <2>8, RecorderTurns DEF RecorderStart, RecorderWorks
<1> QED
  BY <1>1, <1>2, ApplicationsInvariance, PTL DEF ApplicationsInv, ApplicationsSpec, WorkerOwnsData

=============================================================================
