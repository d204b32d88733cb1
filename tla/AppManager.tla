----------------------------- MODULE AppManager -----------------------------
(***************************************************************************)
(* core::AppManager: which application is on screen.  A call of activate   *)
(* or stop is a transition of several steps, because each application it   *)
(* starts or stops is a callback and because it waits for the job worker.  *)
(* Callbacks may call the manager again (activate, stop, clear, register)  *)
(* while a transition runs: only state_ protects it.                       *)
(* Background jobs are the executor that JobExecutor specifies.            *)
(***************************************************************************)
EXTENDS Naturals, Sequences, FiniteSets

CONSTANTS Apps,       \* the applications there are
          NoApp,      \* the null pointer
          Capacity,   \* kMaxApps
          MaxJobs     \* unfinished jobs the executor holds

ASSUME AppsAssumption ==
  /\ NoApp \notin Apps
  /\ Capacity \in Nat
  /\ MaxJobs \in Nat

VARIABLES
  apps,         \* apps_: the registered applications
  state,        \* state_
  active,       \* active_
  phase,        \* how far activate or stop is, None outside a transition
  next,         \* activate's next, NoApp outside of it
  previous,     \* activate's previous, NoApp outside of it
  life,         \* each application between its start and its stop
  outstanding   \* whose jobs are accepted and not finished

vars == <<apps, state, active, phase, next, previous, life, outstanding>>
locals == <<next, previous>>

Executor == INSTANCE JobExecutor WITH Jobs <- Apps, Capacity <- MaxJobs, up <- TRUE

Phases == {"None", "StopPrevious", "StartNext", "Starting", "CleanNext",
           "Restore", "Restoring", "CleanPrevious", "StopActive"}

TypeOK ==
  /\ apps \subseteq Apps
  /\ state \in {"inactive", "active", "transitioning"}
  /\ active \in Apps \cup {NoApp}
  /\ phase \in Phases
  /\ next \in Apps \cup {NoApp} /\ previous \in Apps \cup {NoApp}
  /\ life \in [Apps -> {"stopped", "starting", "started"}]
  /\ outstanding \in Seq(Apps)
  /\ phase = "None" <=> state # "transitioning"

Init ==
  /\ apps = {}
  /\ state = "inactive"
  /\ active = NoApp
  /\ phase = "None"
  /\ next = NoApp /\ previous = NoApp
  /\ life = [a \in Apps |-> "stopped"]
  /\ outstanding = <<>>

-----------------------------------------------------------------------------
(***************************************************************************)
(* The registry: a batch is added whole or not at all.                     *)
(***************************************************************************)
Register(batch) ==
  /\ state # "transitioning"
  /\ batch \cap apps = {}
  /\ Cardinality(apps) + Cardinality(batch) <= Capacity
  /\ apps' = apps \cup batch
  /\ UNCHANGED <<state, active, phase, locals, life, outstanding>>

(* Mutant: clear looks at no state.                                        *)
ClearAlways ==
  /\ apps' = {}
  /\ UNCHANGED <<state, active, phase, locals, life, outstanding>>

Clear ==
  /\ state = "inactive"
  /\ apps' = {}
  /\ UNCHANGED <<state, active, phase, locals, life, outstanding>>

-----------------------------------------------------------------------------
(***************************************************************************)
(* activate: the checks, then stop the previous application, start the     *)
(* next one, and if that fails clean it up and start the previous again.   *)
(***************************************************************************)
BeginActivate(a) ==
  /\ a \in apps /\ a # active
  /\ next' = a
  /\ previous' = active
  /\ phase' = IF active = NoApp THEN "StartNext" ELSE "StopPrevious"
  /\ UNCHANGED <<apps, active, life, outstanding>>

Activate(a) ==
  /\ state # "transitioning"
  /\ BeginActivate(a)
  /\ state' = "transitioning"

(* quiesce returns once nothing is outstanding; then the application stops. *)
QuiesceAndStop(a) ==
  /\ outstanding = <<>>
  /\ life' = [life EXCEPT ![a] = "stopped"]
  /\ UNCHANGED outstanding

(* Mutant: the previous application is stopped without quiescence.         *)
StopPreviousAtOnce ==
  /\ phase = "StopPrevious"
  /\ life' = [life EXCEPT ![previous] = "stopped"]
  /\ phase' = "StartNext"
  /\ UNCHANGED <<apps, state, active, locals, outstanding>>

StopPrevious ==
  /\ phase = "StopPrevious"
  /\ QuiesceAndStop(previous)
  /\ phase' = "StartNext"
  /\ UNCHANGED <<apps, state, active, locals>>

Start(a, from, to) ==
  /\ phase = from
  /\ life' = [life EXCEPT ![a] = "starting"]
  /\ phase' = to
  /\ UNCHANGED <<apps, state, active, locals, outstanding>>

(* The application started: it is the active one.                          *)
Started(a, from) ==
  /\ phase = from
  /\ life' = [life EXCEPT ![a] = "started"]
  /\ active' = a
  /\ state' = "active"
  /\ phase' = "None"
  /\ next' = NoApp /\ previous' = NoApp
  /\ UNCHANGED <<apps, outstanding>>

StartFailed(from, to) ==
  /\ phase = from
  /\ phase' = to
  /\ UNCHANGED <<apps, state, active, locals, life, outstanding>>

(* The manager is left without an application.                             *)
Deactivate ==
  /\ active' = NoApp
  /\ state' = "inactive"
  /\ phase' = "None"
  /\ next' = NoApp /\ previous' = NoApp

StartNext    == Start(next, "StartNext", "Starting")
NextStarted  == Started(next, "Starting")
NextFailed   == StartFailed("Starting", "CleanNext")

(* Mutant: the candidate whose start failed is not torn down.              *)
CleanNextForgotten ==
  /\ phase = "CleanNext"
  /\ \/ /\ previous # NoApp
        /\ phase' = "Restore"
        /\ UNCHANGED <<state, active, locals>>
     \/ /\ previous = NoApp
        /\ Deactivate
  /\ UNCHANGED <<apps, life, outstanding>>

CleanNext ==
  /\ phase = "CleanNext"
  /\ QuiesceAndStop(next)
  /\ \/ /\ previous # NoApp
        /\ phase' = "Restore"
        /\ UNCHANGED <<state, active, locals>>
     \/ /\ previous = NoApp
        /\ Deactivate
  /\ UNCHANGED apps

Restore        == Start(previous, "Restore", "Restoring")
PreviousRestored == Started(previous, "Restoring")
RestoreFailed  == StartFailed("Restoring", "CleanPrevious")

(* Mutant: the state is not reset when the restart fails too.              *)
CleanPreviousStuck ==
  /\ phase = "CleanPrevious"
  /\ QuiesceAndStop(previous)
  /\ active' = NoApp
  /\ phase' = "None"
  /\ UNCHANGED <<apps, state, locals>>

CleanPrevious ==
  /\ phase = "CleanPrevious"
  /\ QuiesceAndStop(previous)
  /\ Deactivate
  /\ UNCHANGED apps

-----------------------------------------------------------------------------
(***************************************************************************)
(* stop: nothing in a transition, otherwise quiesce, stop and forget the   *)
(* active application.                                                     *)
(***************************************************************************)
Stop ==
  \/ /\ state = "active"
     /\ state' = "transitioning"
     /\ phase' = "StopActive"
     /\ UNCHANGED <<apps, active, locals, life, outstanding>>
  \/ /\ state = "inactive"
     /\ active' = NoApp
     /\ UNCHANGED <<apps, state, phase, locals, life, outstanding>>

StopActive ==
  /\ phase = "StopActive"
  /\ QuiesceAndStop(active)
  /\ Deactivate
  /\ UNCHANGED apps

-----------------------------------------------------------------------------
(***************************************************************************)
(* The code of an application runs in its start and, while it is active,   *)
(* in tick, on_event and its view's actions, always on the UI task: there  *)
(* it may submit a job.  The worker finishes jobs at any time.             *)
(***************************************************************************)
Runs(a) == \/ state = "active" /\ active = a
           \/ phase = "Starting" /\ next = a
           \/ phase = "Restoring" /\ previous = a

Submit(a) ==
  /\ Runs(a)
  /\ Executor!Accept(a)
  /\ UNCHANGED <<apps, state, active, phase, locals, life>>

FinishJob ==
  /\ Executor!Finish
  /\ UNCHANGED <<apps, state, active, phase, locals, life>>

-----------------------------------------------------------------------------
Transition == \/ StopPrevious \/ StartNext \/ NextStarted \/ NextFailed \/ CleanNext
              \/ Restore \/ PreviousRestored \/ RestoreFailed \/ CleanPrevious
              \/ StopActive

Next == \/ \E batch \in SUBSET Apps : Register(batch)
        \/ Clear
        \/ \E a \in Apps : Activate(a) \/ Submit(a)
        \/ Stop
        \/ Transition
        \/ FinishJob

Spec == Init /\ [][Next]_vars

(* Callbacks return and jobs finish.                                       *)
FairSpec == Spec /\ WF_vars(Transition) /\ WF_vars(FinishJob)

-----------------------------------------------------------------------------
(***************************************************************************)
(* Properties.                                                             *)
(***************************************************************************)

(* No two applications are between their start and their stop: they share  *)
(* one content surface.                                                    *)
OneApplicationAlive ==
  \A a, b \in Apps : life[a] # "stopped" /\ life[b] # "stopped" => a = b

(* An unfinished job belongs to an application that was not stopped: the   *)
(* worker never runs into an application's released state.                 *)
JobsHaveLiveOwner ==
  \A i \in DOMAIN outstanding : life[outstanding[i]] # "stopped"

(* What active() exposes, and tick and dispatch call, is neither stopping  *)
(* nor partially started.                                                  *)
ExposedIsStarted == state = "active" => active \in Apps /\ life[active] = "started"

(* A manager without an application left none alive and no job behind, and *)
(* may therefore clear its registry.                                       *)
InactiveIsClean ==
  state = "inactive" => /\ active = NoApp
                        /\ \A a \in Apps : life[a] = "stopped"
                        /\ outstanding = <<>>

(* Every application the manager still has to stop, or to start again, is  *)
(* registered.                                                             *)
LiveIsRegistered ==
  /\ \A a \in Apps : life[a] # "stopped" => a \in apps
  /\ phase \in {"StopPrevious", "StartNext", "Starting", "CleanNext", "Restore"}
       => {next, previous} \subseteq apps \cup {NoApp}

(* A transition ends, whatever fails in it.                                *)
TransitionEnds == state = "transitioning" ~> state # "transitioning"
=============================================================================
