-------------------------------- MODULE Boot --------------------------------
(***************************************************************************)
(* FirmwareApplication::start over HardwarePlatform: two executions of     *)
(* execute_startup_plan, one inside a step of the other.  The boot plan    *)
(* (this module's StartupPlan, without a session) reaches the hardware     *)
(* platform; its start runs the hardware plan (HW, with a session) and its *)
(* outcome is the outcome of the step; rolling the step back shuts the     *)
(* session down.                                                           *)
(***************************************************************************)
EXTENDS StartupPlan

VARIABLES
  called,        \* HardwarePlatform::start was called by the step boot is at
  hwAt, hwIndex, hwCompleted, hwRecorded, hwActive, hwComponent

HW == INSTANCE StartupPlan WITH
  Plan <- HardwarePlan, HasSession <- TRUE,
  at <- hwAt, index <- hwIndex, completed <- hwCompleted,
  recorded <- hwRecorded, active <- hwActive, component <- hwComponent

hwVars == <<hwAt, hwIndex, hwCompleted, hwRecorded, hwActive, hwComponent>>
bootVars == <<vars, called, hwVars>>

HardwareStep == 4   \* "hardware platform" in BootPlan

BootInit == Init /\ HW!Init /\ called = FALSE

AtHardware == index = HardwareStep /\ at \in {"Start", "Rollback"}

\* A step of boot that is not the hardware platform's
OtherStep == ~AtHardware /\ Next /\ UNCHANGED <<called, hwVars>>

\* HardwarePlatform::start: nothing to do while the session is active
HardwareStart ==
  /\ AtHardware /\ at = "Start" /\ ~called
  /\ HW!Execute
  /\ called' = TRUE
  /\ UNCHANGED vars

HardwareRuns == AtHardware /\ HW!Progress /\ UNCHANGED <<vars, called>>

HardwareStarted ==
  /\ AtHardware /\ hwAt = "Idle" /\ hwActive
  /\ StepSucceeds
  /\ called' = FALSE
  /\ UNCHANGED hwVars

HardwareFailed ==
  /\ AtHardware /\ called /\ hwAt = "Idle" /\ ~hwActive
  /\ StepFails
  /\ called' = FALSE
  /\ UNCHANGED hwVars

\* HardwarePlatform::stop: shutdown_startup_plan of the session
HardwareStop ==
  /\ AtHardware /\ at = "Rollback" /\ HardwareStep \in completed
  /\ HW!Shutdown
  /\ UNCHANGED <<vars, called>>

HardwareStopped ==
  /\ AtHardware /\ hwAt = "Idle"
  /\ HardwareStep \in completed => ~hwActive
  /\ Rollback
  /\ UNCHANGED <<called, hwVars>>

BootNext ==
  \/ OtherStep
  \/ HardwareStart \/ HardwareRuns \/ HardwareStarted \/ HardwareFailed
  \/ HardwareStop \/ HardwareStopped

BootSpec == BootInit /\ [][BootNext]_bootVars

-----------------------------------------------------------------------------
(* Properties *)

(***************************************************************************)
(* The two plans nest: no device is started or stopped while anything that *)
(* boot started after the hardware platform (LVGL adapters, jobs,          *)
(* services, applications, shell) is on.                                   *)
(***************************************************************************)
DevicesOutliveUsers ==
  [][hwComponent' # hwComponent =>
       \A j \in HardwareStep + 1 .. Len(Plan) :
         Plan[j].rollback => component[j] = "off"]_bootVars

=============================================================================
