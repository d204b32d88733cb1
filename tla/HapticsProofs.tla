---------------------------- MODULE HapticsProofs ----------------------------
(***************************************************************************)
(* The motor obeys the last command and comes to rest, for any intensities *)
(* durations and number of commands.  What needs the worker's check and    *)
(* its write to be one step says so (~Preempted).                          *)
(***************************************************************************)
EXTENDS Haptics, TLAPS

UiLabels ==
  {"Idle", "PulseIntensity", "PulseDuration", "PulseGeneration", "Notify", "OffIntensity",
   "OffDuration", "OffGeneration", "OffDuty", "Uninitialize", "Delete"}

\* From the load of the duration to the end of the pulse
Committed == {"Kick", "KickWait", "Recheck", "Run", "RunWait"}
WorkerLabels ==
  {"None", "Wait", "LoadGeneration", "LoadIntensity", "LoadDuration", "Superseded",
   "Complete"} \cup Committed

Shape ==
  /\ ui \in [at : UiLabels, i : Intensities, d : Durations, stop : BOOLEAN]
  /\ worker \in [at : WorkerLabels, g : Nat, i : Intensities, d : Durations]
  /\ generation \in Nat

(***************************************************************************)
(* Between two commands intensity and duration are both zero or both not.  *)
(* A command that has begun still has its generation to advance.           *)
(***************************************************************************)
Settling == {"Idle", "PulseIntensity", "OffIntensity", "Notify", "Uninitialize", "Delete"}

CommandInv ==
  /\ ui.at \in Settling => (intensity = 0 <=> duration = 0)
  /\ ui.at \in {"PulseIntensity", "PulseDuration", "PulseGeneration"} => ui.i # 0 /\ ui.d # 0
  /\ ui.at \in {"PulseDuration", "PulseGeneration"} => intensity # 0
  /\ ui.at = "PulseGeneration" => duration # 0
  /\ ui.at \in {"OffDuration", "OffGeneration", "OffDuty", "Uninitialize", "Delete"}
       => intensity = 0
  /\ ui.at \in {"OffGeneration", "OffDuty"} => duration = 0
  /\ ui.at \in {"PulseIntensity", "PulseDuration", "PulseGeneration",
                "OffIntensity", "OffDuration", "OffGeneration"} => generation < MaxCommands

LifeInv ==
  /\ ~initialized => ui.at \in {"Idle", "Delete"} /\ intensity = 0
  /\ ui.at = "Delete" => ~initialized
  /\ ui.stop => ui.at \notin {"Idle", "PulseIntensity", "PulseDuration", "PulseGeneration"}
  /\ ui.stop /\ ui.at = "Notify" => intensity = 0

(***************************************************************************)
(* A worker that no notification awaits has read the command that is in    *)
(* force, as far as it has read.                                           *)
(***************************************************************************)
LatestInv ==
  /\ worker.g <= generation
  /\ ui.at \in Settling \ {"Notify"} /\ ~notified =>
       /\ worker.at \in Committed \cup {"LoadIntensity", "LoadDuration"}
            => worker.g = generation
       /\ worker.at \in Committed \cup {"LoadDuration"} => worker.i = intensity
       /\ worker.at \in Committed => worker.d = duration

CommandsInv == TypeOK /\ Shape /\ CommandInv /\ LifeInv /\ LatestInv

(***************************************************************************)
(* off is in force: the motor rests, and the worker is on no path to a     *)
(* write.  It may still be before its check, which fails: its generation   *)
(* is an old one.                                                          *)
(***************************************************************************)
OffInv ==
  /\ intensity = 0 /\ ui.at \in Settling =>
       /\ duty = 0 /\ ~running
       /\ worker.at \notin {"Kick", "Run"}
       /\ worker.at \in {"KickWait", "Recheck"} => worker.g # generation
  /\ ui.at = "OffDuty" /\ worker.at \in {"Kick", "KickWait", "Recheck"}
       => worker.g # generation

\* Whoever drives the motor is followed by somebody who will look at it again.
CutoffInv ==
  duty # 0 \/ running =>
    \/ notified
    \/ worker.at \notin {"None", "Wait"}
    \/ ui.at \in {"PulseDuration", "PulseGeneration", "Notify",
                  "OffDuration", "OffGeneration", "OffDuty"}

MotorInv == OffInv /\ CutoffInv

-----------------------------------------------------------------------------
\* The three flags by themselves: their provers differ.
Flags == initialized \in BOOLEAN /\ running \in BOOLEAN /\ notified \in BOOLEAN

LEMMA InitCommands == Init => CommandsInv /\ MotorInv
<1> SUFFICES ASSUME Init PROVE CommandsInv /\ MotorInv
  OBVIOUS
<1>1. Flags
  BY Zenon DEF Init, Flags
<1> QED
  BY <1>1, HapticsAssumption
  DEF Init, CommandsInv, TypeOK, Shape, UiLabels, WorkerLabels, Committed, Settling,
      CommandInv, LifeInv, LatestInv, MotorInv, OffInv, CutoffInv, NoWorker, Flags

LEMMA FlagsStep == CommandsInv /\ [Next]_vars => Flags'
<1> SUFFICES ASSUME CommandsInv, [Next]_vars PROVE Flags'
  OBVIOUS
<1> USE DEF CommandsInv, TypeOK, Flags, commands, motor
<1>1. CASE Initialize
  BY <1>1, Zenon DEF Initialize
<1>2. CASE Pulse
  BY <1>2, Zenon DEF Pulse
<1>3. CASE Stop
  BY <1>3, Zenon DEF Stop
<1>4. CASE PulseIntensity
  BY <1>4, Zenon DEF PulseIntensity
<1>5. CASE PulseDuration
  BY <1>5, Zenon DEF PulseDuration
<1>6. CASE PulseGeneration
  BY <1>6, Zenon DEF PulseGeneration
<1>7. CASE Notify
  BY <1>7, Zenon DEF Notify
<1>8. CASE OffIntensity
  BY <1>8, Zenon DEF OffIntensity
<1>9. CASE OffDuration
  BY <1>9, Zenon DEF OffDuration
<1>10. CASE OffGeneration
  BY <1>10, Zenon DEF OffGeneration
<1>11. CASE OffDuty
  BY <1>11, Zenon DEF OffDuty
<1>12. CASE Uninitialize
  BY <1>12, Zenon DEF Uninitialize
<1>13. CASE Delete
  BY <1>13, Zenon DEF Delete
<1>14. CASE Take
  BY <1>14, Zenon DEF Take
<1>15. CASE LoadGeneration
  BY <1>15, Zenon DEF LoadGeneration
<1>16. CASE LoadIntensity
  BY <1>16, Zenon DEF LoadIntensity
<1>17. CASE LoadDuration
  BY <1>17, Zenon DEF LoadDuration
<1>18. CASE Kick
  BY <1>18, Zenon DEF Kick
<1>19. CASE KickWait
  BY <1>19, Zenon DEF KickWait
<1>20. CASE Recheck
  BY <1>20, Zenon DEF Recheck
<1>21. CASE Run
  BY <1>21, Zenon DEF Run
<1>22. CASE RunWait
  BY <1>22, Zenon DEF RunWait
<1>23. CASE Supersede
  BY <1>23, Zenon DEF Supersede
<1>24. CASE Complete
  BY <1>24, Zenon DEF Complete
<1>25. CASE UNCHANGED vars
  BY <1>25, Zenon DEF vars
<1> QED
  BY <1>1, <1>2, <1>3, <1>4, <1>5, <1>6, <1>7, <1>8, <1>9, <1>10, <1>11,
     <1>12, <1>13, <1>14, <1>15, <1>16, <1>17, <1>18, <1>19, <1>20, <1>21,
     <1>22, <1>23, <1>24, <1>25 DEF Next, UiStep, WorkerStep

LEMMA CommandsStep == CommandsInv /\ [Next]_vars => CommandsInv'
<1> SUFFICES ASSUME CommandsInv, [Next]_vars PROVE CommandsInv'
  OBVIOUS
<1> USE HapticsAssumption
    DEF CommandsInv, TypeOK, Shape, UiLabels, WorkerLabels, Committed, Settling,
        CommandInv, LifeInv, LatestInv, NoWorker, commands, motor, UiAt, WorkerAt, Stops
<1>1. CASE Initialize
  <2>1. TypeOK'
    BY <1>1, FlagsStep DEF Initialize, Flags
  <2>2. Shape'
    BY <1>1 DEF Initialize
  <2>3. CommandInv'
    BY <1>1 DEF Initialize
  <2>4. LifeInv'
    BY <1>1 DEF Initialize
  <2>5. LatestInv'
    BY <1>1 DEF Initialize
  <2> QED
    BY <2>1, <2>2, <2>3, <2>4, <2>5
<1>2. CASE Pulse
  BY <1>2 DEF Pulse
<1>3. CASE Stop
  BY <1>3 DEF Stop
<1>4. CASE PulseIntensity
  BY <1>4 DEF PulseIntensity
<1>5. CASE PulseDuration
  BY <1>5 DEF PulseDuration
<1>6. CASE PulseGeneration
  BY <1>6 DEF PulseGeneration
<1>7. CASE Notify
  <2>1. TypeOK'
    BY <1>7 DEF Notify
  <2>2. Shape'
    BY <1>7 DEF Notify
  <2>3. CommandInv'
    BY <1>7 DEF Notify
  <2>4. LifeInv'
    BY <1>7 DEF Notify
  <2>5. LatestInv'
    BY <1>7 DEF Notify
  <2> QED
    BY <2>1, <2>2, <2>3, <2>4, <2>5
<1>8. CASE OffIntensity
  BY <1>8 DEF OffIntensity
<1>9. CASE OffDuration
  BY <1>9 DEF OffDuration
<1>10. CASE OffGeneration
  BY <1>10 DEF OffGeneration
<1>11. CASE OffDuty
  BY <1>11 DEF OffDuty
<1>12. CASE Uninitialize
  BY <1>12 DEF Uninitialize
<1>13. CASE Delete
  <2>1. TypeOK'
    BY <1>13 DEF Delete
  <2>2. Shape'
    BY <1>13 DEF Delete
  <2>3. CommandInv'
    BY <1>13 DEF Delete
  <2>4. LifeInv'
    BY <1>13 DEF Delete
  <2>5. LatestInv'
    BY <1>13 DEF Delete
  <2> QED
    BY <2>1, <2>2, <2>3, <2>4, <2>5
<1>14. CASE Take
  BY <1>14 DEF Take
<1>15. CASE LoadGeneration
  <2>1. TypeOK'
    BY <1>15 DEF LoadGeneration
  <2>2. Shape'
    BY <1>15 DEF LoadGeneration
  <2>3. CommandInv'
    BY <1>15 DEF LoadGeneration
  <2>4. LifeInv'
    BY <1>15 DEF LoadGeneration
  <2>5. LatestInv'
    BY <1>15 DEF LoadGeneration
  <2> QED
    BY <2>1, <2>2, <2>3, <2>4, <2>5
<1>16. CASE LoadIntensity
  <2>1. TypeOK'
    BY <1>16 DEF LoadIntensity
  <2>2. Shape'
    BY <1>16 DEF LoadIntensity
  <2>3. CommandInv'
    BY <1>16 DEF LoadIntensity
  <2>4. LifeInv'
    BY <1>16 DEF LoadIntensity
  <2>5. LatestInv'
    BY <1>16 DEF LoadIntensity
  <2> QED
    BY <2>1, <2>2, <2>3, <2>4, <2>5
<1>17. CASE LoadDuration
  <2>1. TypeOK'
    BY <1>17 DEF LoadDuration
  <2>2. Shape'
    BY <1>17 DEF LoadDuration
  <2>3. CommandInv'
    BY <1>17 DEF LoadDuration
  <2>4. LifeInv'
    BY <1>17 DEF LoadDuration
  <2>5. LatestInv'
    BY <1>17 DEF LoadDuration
  <2> QED
    BY <2>1, <2>2, <2>3, <2>4, <2>5
<1>18. CASE Kick
  BY <1>18 DEF Kick
<1>19. CASE KickWait
  <2>1. TypeOK'
    BY <1>19, FlagsStep DEF KickWait, Flags
  <2>2. Shape'
    BY <1>19 DEF KickWait
  <2>3. CommandInv'
    BY <1>19 DEF KickWait
  <2>4. LifeInv'
    BY <1>19 DEF KickWait
  <2>5. LatestInv'
    BY <1>19 DEF KickWait
  <2> QED
    BY <2>1, <2>2, <2>3, <2>4, <2>5
<1>20. CASE Recheck
  BY <1>20 DEF Recheck
<1>21. CASE Run
  BY <1>21 DEF Run
<1>22. CASE RunWait
  <2>1. TypeOK'
    BY <1>22, FlagsStep DEF RunWait, Flags
  <2>2. Shape'
    BY <1>22 DEF RunWait
  <2>3. CommandInv'
    BY <1>22 DEF RunWait
  <2>4. LifeInv'
    BY <1>22 DEF RunWait
  <2>5. LatestInv'
    BY <1>22 DEF RunWait
  <2> QED
    BY <2>1, <2>2, <2>3, <2>4, <2>5
<1>23. CASE Supersede
  BY <1>23 DEF Supersede
<1>24. CASE Complete
  <2>1. TypeOK'
    BY <1>24, FlagsStep DEF Complete, Flags
  <2>2. Shape'
    BY <1>24 DEF Complete
  <2>3. CommandInv'
    BY <1>24 DEF Complete
  <2>4. LifeInv'
    BY <1>24 DEF Complete
  <2>5. LatestInv'
    BY <1>24 DEF Complete
  <2> QED
    BY <2>1, <2>2, <2>3, <2>4, <2>5
<1>25. CASE UNCHANGED vars
  BY <1>25 DEF vars
<1> QED
  BY <1>1, <1>2, <1>3, <1>4, <1>5, <1>6, <1>7, <1>8, <1>9, <1>10, <1>11,
     <1>12, <1>13, <1>14, <1>15, <1>16, <1>17, <1>18, <1>19, <1>20, <1>21,
     <1>22, <1>23, <1>24, <1>25 DEF Next, UiStep, WorkerStep

LEMMA MotorStep ==
  ~Preempted /\ CommandsInv /\ MotorInv /\ [Next]_vars => MotorInv'
<1> SUFFICES ASSUME ~Preempted, CommandsInv, MotorInv, [Next]_vars PROVE MotorInv'
  OBVIOUS
<1> USE HapticsAssumption
    DEF CommandsInv, TypeOK, Shape, UiLabels, WorkerLabels, Committed, Settling,
        CommandInv, LifeInv, LatestInv, MotorInv, OffInv, CutoffInv, NoWorker,
        commands, motor, UiAt, WorkerAt, Stops
<1>1. CASE Initialize
  BY <1>1 DEF Initialize
<1>2. CASE Pulse
  BY <1>2 DEF Pulse
<1>3. CASE Stop
  BY <1>3 DEF Stop
<1>4. CASE PulseIntensity
  BY <1>4 DEF PulseIntensity
<1>5. CASE PulseDuration
  BY <1>5 DEF PulseDuration
<1>6. CASE PulseGeneration
  BY <1>6 DEF PulseGeneration
<1>7. CASE Notify
  BY <1>7 DEF Notify
<1>8. CASE OffIntensity
  BY <1>8 DEF OffIntensity
<1>9. CASE OffDuration
  BY <1>9 DEF OffDuration
<1>10. CASE OffGeneration
  BY <1>10 DEF OffGeneration
<1>11. CASE OffDuty
  BY <1>11 DEF OffDuty
<1>12. CASE Uninitialize
  BY <1>12 DEF Uninitialize
<1>13. CASE Delete
  BY <1>13 DEF Delete
<1>14. CASE Take
  BY <1>14 DEF Take
<1>15. CASE LoadGeneration
  BY <1>15 DEF LoadGeneration
<1>16. CASE LoadIntensity
  BY <1>16 DEF LoadIntensity
<1>17. CASE LoadDuration
  BY <1>17 DEF LoadDuration
<1>18. CASE Kick
  BY <1>18 DEF Kick
<1>19. CASE KickWait
  BY <1>19 DEF KickWait
<1>20. CASE Recheck
  BY <1>20 DEF Recheck
<1>21. CASE Run
  BY <1>21 DEF Run
<1>22. CASE RunWait
  BY <1>22 DEF RunWait
<1>23. CASE Supersede
  BY <1>23 DEF Supersede
<1>24. CASE Complete
  BY <1>24 DEF Complete
<1>25. CASE UNCHANGED vars
  BY <1>25 DEF vars
<1> QED
  BY <1>1, <1>2, <1>3, <1>4, <1>5, <1>6, <1>7, <1>8, <1>9, <1>10, <1>11,
     <1>12, <1>13, <1>14, <1>15, <1>16, <1>17, <1>18, <1>19, <1>20, <1>21,
     <1>22, <1>23, <1>24, <1>25 DEF Next, UiStep, WorkerStep

LEMMA Commands == Spec => []CommandsInv
  BY InitCommands, CommandsStep, PTL DEF Spec

LEMMA Motor ==
  ASSUME ~Preempted
  PROVE  Spec => []MotorInv
<1>1. CommandsInv /\ MotorInv /\ [Next]_vars => MotorInv'
  BY MotorStep
<1> QED
  BY <1>1, InitCommands, Commands, PTL DEF Spec

-----------------------------------------------------------------------------
(* Every value has its type, and a worker exists while the controller is    *)
(* initialized.                                                             *)
THEOREM TypeCorrect == Spec => []TypeOK
<1>1. CommandsInv => TypeOK
  BY DEF CommandsInv
<1> QED
  BY <1>1, Commands, PTL

(* The worker sleeps only through the last command, however commands and    *)
(* reads of it interleave: pulse writes its parts in the order in which the *)
(* worker's notification makes them safe to read.                           *)
THEOREM RunsLatestCommandHolds == Spec => []RunsLatestCommand
<1>1. CommandsInv => RunsLatestCommand
  BY DEF CommandsInv, LatestInv, Settling, Committed, RunsLatestCommand
<1> QED
  BY <1>1, Commands, PTL

(* off holds, when it does not come between a check of the worker and the   *)
(* write that follows.                                                      *)
THEOREM OffHoldsHolds ==
  ASSUME ~Preempted
  PROVE  Spec => []OffHolds
<1>1. MotorInv => OffHolds
  BY DEF MotorInv, OffInv, Settling, OffHolds
<1> QED
  BY <1>1, Motor, PTL

(* And then the motor is never left on with nobody to stop it: the window   *)
(* is the only way to lose the cutoff.                                      *)
THEOREM SettledIsOffHolds ==
  ASSUME ~Preempted
  PROVE  Spec => []SettledIsOff
<1>1. MotorInv => SettledIsOff
  BY DEF MotorInv, CutoffInv, Settled, SettledIsOff
<1> QED
  BY <1>1, Motor, PTL

=============================================================================
