---------------------------- MODULE StartupPlan ----------------------------
(***************************************************************************)
(* core::execute_startup_plan and shutdown_startup_plan over any plan: the *)
(* boot plan of FirmwareApplication (no session, retried after a failure)  *)
(* and the plan of HardwarePlatform (a session, stopped and started        *)
(* again).  The component a step starts is on or off; whether its start    *)
(* fails is its own affair.                                                *)
(***************************************************************************)
EXTENDS Naturals, Sequences

CONSTANTS Plan,         \* the steps: [critical, transactional, rollback]
          HasSession    \* a StartupSession is passed

\* startup_step and transactional_startup_step build no other step; a plan
\* the executor accepts has at most 16.
ASSUME PlanAssumption ==
  /\ Plan \in Seq([critical : BOOLEAN, transactional : BOOLEAN, rollback : BOOLEAN])
  /\ Len(Plan) \in 0..16
  /\ \A i \in DOMAIN Plan : Plan[i].transactional => Plan[i].rollback
  /\ HasSession \in BOOLEAN

Steps == 1..Len(Plan)

\* startup_step of a component with stop(), of one without, transactional
Step(critical) == [critical |-> critical, transactional |-> FALSE, rollback |-> TRUE]
Bare(critical) == [critical |-> critical, transactional |-> FALSE, rollback |-> FALSE]
Trans(critical) == [critical |-> critical, transactional |-> TRUE, rollback |-> TRUE]

\* FirmwareApplication::start: safe state, NVS, LVGL, hardware platform, LVGL
\* display, touch adapter, jobs, services, applications, SD discovery, shell
BootPlan ==
  <<Bare(TRUE), Trans(TRUE), Trans(TRUE), Step(TRUE), Step(TRUE), Step(FALSE),
    Step(TRUE), Step(TRUE), Step(TRUE), Bare(FALSE), Step(TRUE)>>

\* HardwarePlatform::lifecycle_plan: fixed resources, haptics, display, touch,
\* storage, power, audio
HardwarePlan ==
  <<Trans(TRUE), Trans(TRUE), Trans(TRUE), Trans(FALSE), Trans(FALSE),
    Trans(FALSE), Trans(FALSE)>>

VARIABLES
  at,          \* what the executor is doing
  index,       \* the step it is at
  completed,   \* the steps that succeeded: the local list
  recorded,    \* StartupSession::completed_
  active,      \* StartupSession::active_; without a session, the plan succeeded
  component    \* the component of every step

vars == <<at, index, completed, recorded, active, component>>

Init ==
  /\ at = "Idle" /\ index = 0
  /\ completed = {} /\ recorded = {} /\ active = FALSE
  /\ component = [i \in Steps |-> "off"]

\* HardwarePlatform::start does nothing while the session is active.
Execute ==
  /\ at = "Idle" /\ ~active
  /\ at' = "Start" /\ index' = 1
  /\ completed' = {} /\ recorded' = {}
  /\ UNCHANGED <<active, component>>

StepSucceeds ==
  /\ at = "Start" /\ index \in Steps
  /\ component' = [component EXCEPT ![index] = "on"]
  /\ completed' = completed \cup {index}
  /\ recorded' = IF HasSession THEN recorded \cup {index} ELSE recorded
  /\ index' = index + 1
  /\ UNCHANGED <<at, active>>

\* A start that fails may leave its component partly acquired.  The step of a
\* transactional component stops it; any other component cleans up by itself.
Cleaned(i, left) == IF Plan[i].transactional THEN "off" ELSE left

Leftover(i) == IF Plan[i].transactional THEN {"on", "off"} ELSE {component[i]}

\* Mutant: a critical failure does not end the plan.
StepFailsOptional ==
  /\ at = "Start" /\ index \in Steps
  /\ \E left \in Leftover(index) :
       component' = [component EXCEPT ![index] = Cleaned(index, left)]
  /\ index' = index + 1
  /\ UNCHANGED <<at, completed, recorded, active>>

StepFails ==
  /\ at = "Start" /\ index \in Steps
  /\ \E left \in Leftover(index) :
       component' = [component EXCEPT ![index] = Cleaned(index, left)]
  /\ IF Plan[index].critical THEN at' = "Rollback" /\ index' = index - 1
                             ELSE at' = "Start" /\ index' = index + 1
  /\ UNCHANGED <<completed, recorded, active>>

Started ==
  /\ at = "Start" /\ index \notin Steps
  /\ at' = "Idle" /\ active' = TRUE
  /\ UNCHANGED <<index, completed, recorded, component>>

\* Reverse order, over the completed steps of this run or of the session.
Undo(i) ==
  component' = IF i \in completed /\ Plan[i].rollback
               THEN [component EXCEPT ![i] = "off"] ELSE component

\* Mutant: completed steps are undone in start order.
RollbackForward ==
  /\ at = "Rollback" /\ index \in Steps
  /\ LET i == Len(Plan) + 1 - index IN Undo(i)
  /\ index' = index - 1
  /\ UNCHANGED <<at, completed, recorded, active>>

Rollback ==
  /\ at = "Rollback" /\ index \in Steps
  /\ Undo(index)
  /\ index' = index - 1
  /\ UNCHANGED <<at, completed, recorded, active>>

RolledBack ==
  /\ at = "Rollback" /\ index \notin Steps
  /\ at' = "Idle"
  /\ recorded' = {}
  /\ UNCHANGED <<index, completed, active, component>>

Shutdown ==
  /\ at = "Idle" /\ active /\ HasSession
  /\ at' = "Shutdown" /\ index' = Len(Plan)
  /\ UNCHANGED <<completed, recorded, active, component>>

UndoRecorded(i) ==
  component' = IF i \in recorded /\ Plan[i].rollback
               THEN [component EXCEPT ![i] = "off"] ELSE component

ShutdownStep ==
  /\ at = "Shutdown" /\ index \in Steps
  /\ UndoRecorded(index)
  /\ index' = index - 1
  /\ UNCHANGED <<at, completed, recorded, active>>

ShutDown ==
  /\ at = "Shutdown" /\ index \notin Steps
  /\ at' = "Idle"
  /\ recorded' = {} /\ active' = FALSE
  /\ UNCHANGED <<index, completed, component>>

Progress ==
  \/ StepSucceeds \/ StepFails \/ Started \/ Rollback \/ RolledBack
  \/ ShutdownStep \/ ShutDown

Next == Execute \/ Shutdown \/ Progress

Spec == Init /\ [][Next]_vars

-----------------------------------------------------------------------------
(* Properties *)

(* Types; the session records only what the run completed.                  *)
TypeOK ==
  /\ at \in {"Idle", "Start", "Rollback", "Shutdown"}
  /\ index \in 0..Len(Plan) + 1
  /\ completed \subseteq Steps /\ recorded \subseteq completed
  /\ active \in BOOLEAN
  /\ component \in [Steps -> {"on", "off"}]

(***************************************************************************)
(* docs/architecture.md: "Critical failures roll back completed steps", a  *)
(* failed boot can be retried, and shutdown releases what the session      *)
(* recorded.  Between calls a plan is in force as a whole or has left      *)
(* nothing on that it could stop.                                          *)
(***************************************************************************)
AllOrNothing ==
  at = "Idle" /\ ~active =>
    \A i \in Steps : Plan[i].rollback => component[i] = "off"

(***************************************************************************)
(* A plan in force has every critical step on.                             *)
(***************************************************************************)
CriticalRun ==
  active /\ at = "Idle" => \A i \in Steps : Plan[i].critical => component[i] = "on"

(***************************************************************************)
(* An optional component whose start failed is left released, also when    *)
(* the start stopped half way.                                             *)
(***************************************************************************)
OnlyCompletedRun ==
  at = "Idle" => \A i \in Steps :
    Plan[i].rollback /\ component[i] = "on" => i \in completed

(***************************************************************************)
(* What a plan promises between calls, whatever failed.                    *)
(***************************************************************************)
PlanSafe == AllOrNothing /\ CriticalRun /\ OnlyCompletedRun

(***************************************************************************)
(* Reverse order: a component is stopped only when no stoppable component  *)
(* started after it still runs.                                            *)
(***************************************************************************)
StopsInReverse ==
  [][\A i \in Steps : at # "Start" /\ component[i] = "on" /\ component'[i] = "off" =>
       \A j \in i + 1 .. Len(Plan) : Plan[j].rollback => component[j] = "off"]_vars

=============================================================================
