------------------------------ MODULE Haptics ------------------------------
(***************************************************************************)
(* hal::HapticsController: the UI task commands the vibration motor        *)
(* through atomics, a command generation and a task notification; a worker *)
(* task interprets them.  One action per atomic access.  Time is abstract: *)
(* a wait may end by its timeout at any moment.                            *)
(***************************************************************************)
EXTENDS Naturals

CONSTANTS Intensities,   \* commanded intensities, 0 is off
          Durations,     \* commanded durations, 0 is empty
          Kicked,        \* intensities that get the startup kick
          KickDuty,      \* the duty of the kick
          MaxCommands,   \* bound on command_generation_
          Preempted      \* off may come between the worker's check and its write

ASSUME HapticsAssumption ==
  /\ Intensities \subseteq Nat /\ 0 \in Intensities
  /\ Durations \subseteq Nat /\ 0 \in Durations
  /\ Kicked \subseteq Intensities \ {0}
  /\ KickDuty \in Nat \ Intensities
  /\ MaxCommands \in Nat
  /\ Preempted \in BOOLEAN

VARIABLES
  intensity, duration,   \* requested_intensity_, requested_duration_ms_
  generation,            \* command_generation_
  initialized, running,
  notified,              \* the worker's task notification
  duty,                  \* what LEDC drives the motor with
  ui,                    \* the UI task's call: [at, i, d, stop]
  worker                 \* the worker: [at, g, i, d]

commands == <<intensity, duration, generation>>
motor == <<running, duty>>
vars == <<commands, initialized, motor, notified, ui, worker>>

\* HapticsLogic::plan_pulse
Stops(i, d) == i = 0 \/ d = 0

UiAt(l) == ui' = [ui EXCEPT !.at = l]
WorkerAt(l) == worker' = [worker EXCEPT !.at = l]
NoWorker == [at |-> "None", g |-> 0, i |-> 0, d |-> 0]

Init ==
  /\ intensity = 0 /\ duration = 0 /\ generation = 0
  /\ initialized = FALSE /\ running = FALSE
  /\ notified = FALSE /\ duty = 0
  /\ ui = [at |-> "Idle", i |-> 0, d |-> 0, stop |-> FALSE]
  /\ worker = NoWorker

-----------------------------------------------------------------------------
(* The UI task: initialize, pulse, off, stop                                *)

Initialize ==
  /\ ui.at = "Idle" /\ ~initialized
  /\ duty' = 0
  /\ \/ initialized' = TRUE /\ worker' = [NoWorker EXCEPT !.at = "Wait"] /\ notified' = FALSE
     \/ UNCHANGED <<initialized, worker, notified>>
  /\ UNCHANGED <<commands, running, ui>>

Pulse ==
  /\ ui.at = "Idle" /\ initialized
  /\ generation < MaxCommands
  /\ \E i \in Intensities, d \in Durations :
       ui' = [at |-> IF Stops(i, d) THEN "OffIntensity" ELSE "PulseIntensity",
              i |-> i, d |-> d, stop |-> FALSE]
  /\ UNCHANGED <<commands, initialized, motor, notified, worker>>

PulseIntensity ==
  /\ ui.at = "PulseIntensity"
  /\ intensity' = ui.i
  /\ UiAt("PulseDuration")
  /\ UNCHANGED <<duration, generation, initialized, motor, notified, worker>>

PulseDuration ==
  /\ ui.at = "PulseDuration"
  /\ duration' = ui.d
  /\ UiAt("PulseGeneration")
  /\ UNCHANGED <<intensity, generation, initialized, motor, notified, worker>>

PulseGeneration ==
  /\ ui.at = "PulseGeneration"
  /\ generation' = generation + 1
  /\ UiAt("Notify")
  /\ UNCHANGED <<intensity, duration, initialized, motor, notified, worker>>

Stop ==
  /\ ui.at = "Idle" /\ initialized
  /\ generation < MaxCommands
  /\ ui' = [ui EXCEPT !.at = "OffIntensity", !.stop = TRUE]
  /\ UNCHANGED <<commands, initialized, motor, notified, worker>>

OffIntensity ==
  /\ ui.at = "OffIntensity"
  /\ intensity' = 0
  /\ UiAt("OffDuration")
  /\ UNCHANGED <<duration, generation, initialized, motor, notified, worker>>

OffDuration ==
  /\ ui.at = "OffDuration"
  /\ duration' = 0
  /\ UiAt("OffGeneration")
  /\ UNCHANGED <<intensity, generation, initialized, motor, notified, worker>>

\* Mutant: off does not advance the generation.
OffSameGeneration ==
  /\ ui.at = "OffGeneration"
  /\ UiAt("OffDuty")
  /\ UNCHANGED <<commands, initialized, motor, notified, worker>>

OffGeneration ==
  /\ ui.at = "OffGeneration"
  /\ generation' = generation + 1
  /\ UiAt("OffDuty")
  /\ UNCHANGED <<intensity, duration, initialized, motor, notified, worker>>

OffDuty ==
  /\ ui.at = "OffDuty"
  /\ Preempted \/ worker.at \notin {"Kick", "Run"}
  /\ duty' = 0 /\ running' = FALSE
  /\ UiAt("Notify")
  /\ UNCHANGED <<commands, initialized, notified, worker>>

\* Mutant: only a waiting worker is notified.
NotifyIfWaiting ==
  /\ ui.at = "Notify"
  /\ notified' = (notified \/ worker.at = "Wait")
  /\ UiAt(IF ui.stop THEN "Uninitialize" ELSE "Idle")
  /\ UNCHANGED <<commands, initialized, motor, worker>>

Notify ==
  /\ ui.at = "Notify"
  /\ notified' = TRUE
  /\ UiAt(IF ui.stop THEN "Uninitialize" ELSE "Idle")
  /\ UNCHANGED <<commands, initialized, motor, worker>>

Uninitialize ==
  /\ ui.at = "Uninitialize"
  /\ initialized' = FALSE
  /\ UiAt("Delete")
  /\ UNCHANGED <<commands, motor, notified, worker>>

\* The worker is deleted wherever it is, and then the pin is forced low.
Delete ==
  /\ ui.at = "Delete"
  /\ worker' = NoWorker
  /\ duty' = 0
  /\ ui' = [ui EXCEPT !.at = "Idle", !.stop = FALSE]
  /\ UNCHANGED <<commands, initialized, running, notified>>

-----------------------------------------------------------------------------
(* The worker task                                                          *)

\* ulTaskNotifyTake(pdTRUE, portMAX_DELAY); requests are ignored while the
\* controller is shutting down.
Take ==
  /\ worker.at = "Wait" /\ notified
  /\ notified' = FALSE
  /\ WorkerAt(IF initialized THEN "LoadGeneration" ELSE "Wait")
  /\ UNCHANGED <<commands, initialized, motor, ui>>

LoadGeneration ==
  /\ worker.at = "LoadGeneration"
  /\ worker' = [worker EXCEPT !.at = "LoadIntensity", !.g = generation]
  /\ UNCHANGED <<commands, initialized, motor, notified, ui>>

LoadIntensity ==
  /\ worker.at = "LoadIntensity"
  /\ worker' = [worker EXCEPT !.at = "LoadDuration", !.i = intensity]
  /\ UNCHANGED <<commands, initialized, motor, notified, ui>>

LoadDuration ==
  /\ worker.at = "LoadDuration"
  /\ worker' = [worker EXCEPT !.d = duration,
                  !.at = IF Stops(worker.i, duration) THEN "Complete"
                         ELSE IF worker.i \in Kicked THEN "Kick" ELSE "Recheck"]
  /\ UNCHANGED <<commands, initialized, motor, notified, ui>>

Kick ==
  /\ worker.at = "Kick"
  /\ duty' = KickDuty /\ running' = TRUE
  /\ WorkerAt("KickWait")
  /\ UNCHANGED <<commands, initialized, notified, ui>>

\* A notification or a new generation ends a wait early: the command is
\* superseded.
KickWait ==
  /\ worker.at = "KickWait"
  /\ \/ notified /\ WorkerAt("Superseded") /\ notified' = FALSE
     \/ /\ UNCHANGED notified
        /\ WorkerAt(IF worker.g # generation THEN "Superseded" ELSE "Recheck")
  /\ UNCHANGED <<commands, initialized, motor, ui>>

Recheck ==
  /\ worker.at = "Recheck"
  /\ WorkerAt(IF worker.g # generation THEN "Superseded" ELSE "Run")
  /\ UNCHANGED <<commands, initialized, motor, notified, ui>>

Run ==
  /\ worker.at = "Run"
  /\ duty' = worker.i /\ running' = TRUE
  /\ WorkerAt("RunWait")
  /\ UNCHANGED <<commands, initialized, notified, ui>>

RunWait ==
  /\ worker.at = "RunWait"
  /\ \/ notified /\ WorkerAt("Superseded") /\ notified' = FALSE
     \/ /\ UNCHANGED notified
        /\ WorkerAt(IF worker.g # generation THEN "Superseded" ELSE "Complete")
  /\ UNCHANGED <<commands, initialized, motor, ui>>

\* Mutant: a pending request is not taken up again.
SupersedeForgets ==
  /\ worker.at = "Superseded"
  /\ WorkerAt("Wait")
  /\ UNCHANGED <<commands, initialized, motor, notified, ui>>

\* A pending request is taken up again through a notification to itself.
Supersede ==
  /\ worker.at = "Superseded"
  /\ notified' = (notified \/ intensity > 0)
  /\ WorkerAt("Wait")
  /\ UNCHANGED <<commands, initialized, motor, ui>>

Complete ==
  /\ worker.at = "Complete"
  /\ duty' = 0 /\ running' = FALSE
  /\ WorkerAt("Wait")
  /\ UNCHANGED <<commands, initialized, notified, ui>>

UiStep ==
  \/ PulseIntensity \/ PulseDuration \/ PulseGeneration \/ Notify
  \/ OffIntensity \/ OffDuration \/ OffGeneration \/ OffDuty
  \/ Uninitialize \/ Delete

WorkerStep ==
  \/ Take \/ LoadGeneration \/ LoadIntensity \/ LoadDuration \/ Kick \/ KickWait
  \/ Recheck \/ Run \/ RunWait \/ Supersede \/ Complete

Next == Initialize \/ Pulse \/ Stop \/ UiStep \/ WorkerStep

Spec == Init /\ [][Next]_vars

(* Both tasks are scheduled, and a timed wait ends.                         *)
FairSpec == Spec /\ WF_vars(UiStep) /\ WF_vars(WorkerStep)

-----------------------------------------------------------------------------
(* Properties *)

(* Types, and a worker exists exactly while the controller is initialized   *)
(* or being shut down.                                                      *)
TypeOK ==
  /\ intensity \in Intensities /\ duration \in Durations
  /\ generation \in 0..MaxCommands
  /\ initialized \in BOOLEAN /\ running \in BOOLEAN /\ notified \in BOOLEAN
  /\ duty \in Intensities \cup {KickDuty}
  /\ initialized => worker.at # "None"
  /\ ui.at = "Idle" /\ ~initialized => worker = NoWorker /\ duty = 0

Settled == ui.at = "Idle" /\ worker.at = "Wait" /\ ~notified

(***************************************************************************)
(* README: "running modes have a five-second safety cutoff".  When nothing *)
(* is left to happen the motor is not driven, and running() says so.       *)
(***************************************************************************)
SettledIsOff == Settled => duty = 0 /\ ~running

(***************************************************************************)
(* docs/haptics.md: stop "immediately writes zero".  After off returns and *)
(* until the next pulse the worker never drives the motor, whatever it was *)
(* doing when off was called.                                              *)
(***************************************************************************)
OffHolds == ui.at = "Idle" /\ intensity = 0 => duty = 0

(***************************************************************************)
(* docs/haptics.md: "A new command supersedes the previous command".  A    *)
(* worker that is to sleep through a pulse runs the last command, with its *)
(* own intensity and duration, never a mixture of two.                     *)
(***************************************************************************)
RunsLatestCommand ==
  ui.at = "Idle" /\ worker.at = "RunWait" /\ ~notified =>
    /\ worker.g = generation
    /\ worker.i = intensity /\ worker.d = duration

(***************************************************************************)
(* The motor is always switched off again.                                 *)
(***************************************************************************)
MotorStops == duty > 0 ~> duty = 0

=============================================================================
