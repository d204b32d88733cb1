------------------------- MODULE StartupPlanProofs -------------------------
(***************************************************************************)
(* Whatever the steps of a plan are and wherever it fails, it is in force  *)
(* as a whole or leaves nothing on, and everything stops in reverse order. *)
(***************************************************************************)
EXTENDS StartupPlan, TLAPS

\* A stoppable component that is on is one of S, at or before step n.
Holds(S, n) ==
  \A i \in Steps : Plan[i].rollback /\ component[i] = "on" => i \in S /\ i <= n

Criticals(n) ==
  \A i \in Steps : Plan[i].critical /\ i < n => component[i] = "on"

StartInv ==
  at = "Start" => /\ index >= 1 /\ ~active /\ completed \subseteq 1..index - 1
                  /\ Holds(completed, index - 1)
                  /\ Criticals(index)

UndoInv ==
  /\ at = "Rollback" => index <= Len(Plan) /\ ~active /\ Holds(completed, index)
  /\ at = "Shutdown" => index <= Len(Plan) /\ active /\ HasSession
                        /\ Holds(recorded, index)

IdleInv ==
  at = "Idle" => IF active THEN Holds(completed, Len(Plan)) /\ Criticals(Len(Plan) + 1)
                           ELSE Holds({}, 0)

\* AllOrNothing alone is not inductive: it needs to know, while a plan runs or
\* is undone, which components can still be on, and that the session has
\* recorded all of them.
IInv == TypeOK /\ (HasSession /\ at \in {"Start", "Shutdown"} => recorded = completed)
        /\ (HasSession /\ at = "Idle" /\ active => recorded = completed)
        /\ StartInv /\ UndoInv /\ IdleInv

LEMMA PlanLength == Len(Plan) \in Nat /\ Steps = 1..Len(Plan) /\ DOMAIN Plan = Steps
  BY PlanAssumption DEF Steps

(* Init establishes the invariant.                                          *)
LEMMA InitInv == Init => IInv
<1> SUFFICES ASSUME Init PROVE IInv
  OBVIOUS
<1> USE PlanLength DEF Init
<1>1. TypeOK
  <2>1. component \in [Steps -> {"on", "off"}]
    OBVIOUS
  <2>2. index \in 0..Len(Plan) + 1
    OBVIOUS
  <2> QED
    BY <2>1, <2>2 DEF TypeOK
<1>2. StartInv /\ UndoInv
  BY DEF StartInv, UndoInv
<1>3. IdleInv
  BY DEF IdleInv, Holds
<1> QED
  BY <1>1, <1>2, <1>3 DEF IInv

(* Every step keeps the invariant.                                          *)
LEMMA NextInv == IInv /\ [Next]_vars => IInv'
<1> SUFFICES ASSUME IInv, [Next]_vars PROVE IInv'
  OBVIOUS
<1> USE PlanLength DEF IInv, TypeOK, StartInv, UndoInv, IdleInv, Holds, Criticals
<1>1. CASE Execute
  BY <1>1 DEF Execute
<1>2. CASE Shutdown
  BY <1>2 DEF Shutdown
<1>3. CASE StepSucceeds
  BY <1>3 DEF StepSucceeds
<1>4. CASE StepFails
  <2>1. PICK left \in {"on", "off"} :
          component' = [component EXCEPT ![index] = Cleaned(index, left)]
                       /\ left \in Leftover(index)
    BY <1>4 DEF StepFails, Leftover
  <2>2. Plan[index].rollback => Cleaned(index, left) = "off"
    BY <1>4, <2>1 DEF StepFails, Leftover, Cleaned
  <2>3. Cleaned(index, left) \in {"on", "off"}
    BY <2>1 DEF Cleaned
  <2>4. CASE Plan[index].critical
    BY <1>4, <2>1, <2>2, <2>3, <2>4 DEF StepFails
  <2>5. CASE ~Plan[index].critical
    BY <1>4, <2>1, <2>2, <2>3, <2>5 DEF StepFails
  <2> QED
    BY <2>4, <2>5
<1>5. CASE Started
  BY <1>5 DEF Started
<1>6. CASE Rollback
  BY <1>6 DEF Rollback, Undo
<1>7. CASE RolledBack
  BY <1>7 DEF RolledBack
<1>8. CASE ShutdownStep
  BY <1>8 DEF ShutdownStep, UndoRecorded
<1>9. CASE ShutDown
  <2>1. index < 1
    BY <1>9 DEF ShutDown
  <2>2. \A i \in Steps : ~(Plan[i].rollback /\ component[i] = "on")
    BY <1>9, <2>1 DEF ShutDown
  <2> QED
    BY <1>9, <2>2 DEF ShutDown
<1>10. CASE UNCHANGED vars
  BY <1>10 DEF vars
<1> QED
  BY <1>1, <1>2, <1>3, <1>4, <1>5, <1>6, <1>7, <1>8, <1>9, <1>10 DEF Next, Progress

(* The inductive invariant holds in every behaviour.                        *)
THEOREM Invariance == Spec => []IInv
  BY InitInv, NextInv, PTL DEF Spec

(* Every value has its type and the session records only completed steps.   *)
THEOREM TypeCorrect == Spec => []TypeOK
<1>1. IInv => TypeOK
  BY DEF IInv
<1> QED
  BY <1>1, Invariance, PTL

(***************************************************************************)
(* For every plan: between calls it is in force, with all its critical     *)
(* components running, or leaves nothing on, and a component whose start   *)
(* failed is released.                                                     *)
(***************************************************************************)
THEOREM PlanSafeHolds == Spec => []PlanSafe
<1>1. IInv => AllOrNothing
  BY DEF IInv, TypeOK, IdleInv, AllOrNothing, Holds
<1>2. IInv => CriticalRun
  BY PlanLength DEF IInv, IdleInv, CriticalRun, Criticals
<1>3. IInv => OnlyCompletedRun
  BY PlanLength DEF IInv, IdleInv, OnlyCompletedRun, Holds
<1>4. IInv => PlanSafe
  BY <1>1, <1>2, <1>3 DEF PlanSafe
<1> QED
  BY <1>4, Invariance, PTL

(***************************************************************************)
(* For every plan: components are stopped in the reverse of their order.   *)
(***************************************************************************)
THEOREM StopsInReverseHolds == Spec => StopsInReverse
<1> DEFINE Reverse ==
      \A i \in Steps : at # "Start" /\ component[i] = "on" /\ component'[i] = "off" =>
        \A j \in i + 1 .. Len(Plan) : Plan[j].rollback => component[j] = "off"
<1>1. IInv /\ Next => Reverse
  <2> SUFFICES ASSUME IInv, Next PROVE Reverse
    OBVIOUS
  <2> USE PlanLength DEF IInv, TypeOK, UndoInv, Holds
  <2>1. CASE Rollback
    BY <2>1 DEF Rollback, Undo
  <2>2. CASE ShutdownStep
    BY <2>2 DEF ShutdownStep, UndoRecorded
  <2>3. CASE StepSucceeds \/ StepFails
    BY <2>3 DEF StepSucceeds, StepFails
  <2>4. CASE Execute \/ Shutdown \/ Started \/ RolledBack \/ ShutDown
    BY <2>4 DEF Execute, Shutdown, Started, RolledBack, ShutDown
  <2> QED
    BY <2>1, <2>2, <2>3, <2>4 DEF Next, Progress
<1>2. IInv /\ [Next]_vars => [Reverse]_vars
  BY <1>1
<1> QED
  BY <1>2, Invariance, PTL DEF Spec, StopsInReverse
=============================================================================
