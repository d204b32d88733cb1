--------------------------- MODULE FirmwareProofs ---------------------------
(***************************************************************************)
(* A boot of the firmware: the two plans nest, the devices behind them     *)
(* follow, and the frames of the running firmware write no memory that the *)
(* DMA reads.                                                              *)
(***************************************************************************)
EXTENDS Firmware, StartupPlanProofs, FiniteSetTheorems, SequenceTheorems

\* What StartupPlanProofs shows of any plan, for the hardware plan
Hardware == INSTANCE StartupPlanProofs WITH
  Plan <- HardwarePlan, HasSession <- TRUE,
  at <- hwAt, index <- hwIndex, completed <- hwCompleted,
  recorded <- hwRecorded, active <- hwActive, component <- hwComponent

-----------------------------------------------------------------------------
(* Display transfers                                                        *)

DisplayTypes ==
  buffer \in {1, 2} /\ dma \in Seq({Staging, 1, 2})

\* A flush that is pending reads the other buffer and gives the token.
PendingFlush == flushing /\ ~done /\ dma = <<3 - buffer>>

\* A transfer under way keeps the token away; a wait that the token ended, and
\* a transfer that begins, leave none behind.
TransferInv ==
  ~adrift =>
    /\ frame \in {"idle", "render", "await"} => dma = <<>> \/ PendingFlush
    /\ frame \in {"flush", "copy", "clear"} => dma = <<>>
    /\ frame = "draw" => dma = <<>> /\ ~done
    /\ frame = "sent" => dma = <<>> \/ (dma = <<Staging>> /\ ~done)

\* LVGL waits only for a flush it knows to be pending.
DisplayInv ==
  /\ DisplayTypes
  /\ frame \in {"idle", "render", "await", "flush", "copy", "clear", "draw", "sent"}
  /\ TransferInv

(* Neither a frame nor an interrupt breaks the invariant of the transfers.  *)
LEMMA FramesKeep == DisplayInv /\ Frames => DisplayInv'
<1> SUFFICES ASSUME DisplayInv, Frames PROVE DisplayInv'
  OBVIOUS
<1> USE DEF Goes, Returns
<1>1. DisplayTypes'
  <2>1. CASE Render \/ Rendered \/ FlushAwaited \/ Flush \/ Copied
    BY <2>1 DEF DisplayInv, DisplayTypes, Render, Rendered, FlushAwaited, Flush, Copied, Wait, WaitGivesUp
  <2>2. CASE ClearToken \/ DrawFails
    BY <2>2 DEF DisplayInv, DisplayTypes, ClearToken, DrawFails
  <2>3. CASE DrawDirect \/ DrawStaged
    BY <2>3 DEF DisplayInv, DisplayTypes, DrawDirect, DrawStaged, Staging
  <2>4. CASE ChunkSent \/ ChunkLost
    BY <2>4 DEF DisplayInv, DisplayTypes, ChunkSent, ChunkLost, Wait, WaitGivesUp
  <2>5. CASE TransferDone
    BY <2>5 DEF DisplayInv, DisplayTypes, TransferDone
  <2> QED
    BY <2>1, <2>2, <2>3, <2>4, <2>5 DEF Frames
<1>2. TransferInv'
  <2> USE DEF DisplayInv, DisplayTypes, TransferInv, PendingFlush
  <2>1. CASE Render \/ Rendered \/ FlushAwaited \/ Flush \/ Copied
    BY <2>1 DEF Render, Rendered, FlushAwaited, Flush, Copied, Wait, WaitGivesUp
  <2>2. CASE ClearToken \/ DrawFails
    BY <2>2 DEF ClearToken, DrawFails
  <2>3. CASE DrawDirect \/ DrawStaged
    <3>1. Append(<<>>, buffer) = <<buffer>> /\ Append(<<>>, Staging) = <<Staging>>
      OBVIOUS
    <3>2. CASE DrawDirect
      BY <3>1, <3>2 DEF DrawDirect
    <3>3. CASE DrawStaged
      BY <3>1, <3>3 DEF DrawStaged
    <3> QED
      BY <2>3, <3>2, <3>3
  <2>4. CASE ChunkSent \/ ChunkLost
    BY <2>4 DEF ChunkSent, ChunkLost, Wait, WaitGivesUp
  <2>5. CASE TransferDone
    <3>1. \A b : Tail(<<b>>) = <<>>
      OBVIOUS
    <3> QED
      BY <2>5, <3>1 DEF TransferDone
  <2> QED
    BY <2>1, <2>2, <2>3, <2>4, <2>5 DEF Frames
<1>3. (frame \in {"idle", "render", "await", "flush", "copy", "clear", "draw", "sent"})'
  BY DEF DisplayInv, Frames, Render, Rendered, FlushAwaited, Flush, Copied, ClearToken,
         DrawFails, DrawDirect, DrawStaged, ChunkSent, ChunkLost, TransferDone, Wait, WaitGivesUp
<1> QED
  BY <1>1, <1>2, <1>3 DEF DisplayInv

(* Nor does the boot, whenever it takes or frees the draw buffers.          *)
LEMMA DisplayStep == DisplayInv /\ [FirmwareNext]_firmwareVars => DisplayInv'
<1> SUFFICES ASSUME DisplayInv, [FirmwareNext]_firmwareVars PROVE DisplayInv'
  OBVIOUS
<1>1. CASE Frames
  BY <1>1, FramesKeep
<1>2. CASE ~Frames
  <2>1. UNCHANGED <<frame, area, row, buffer, flushing, done, dma, adrift>>
    BY <1>2 DEF FirmwareNext, BootSteps, LoopSteps, AllocateDrawBuffers, FreeDrawBuffers,
                firmwareVars, displayVars
  <2> QED
    BY <2>1 DEF DisplayInv, DisplayTypes, TransferInv, PendingFlush
<1> QED
  BY <1>1, <1>2

(***************************************************************************)
(* For any areas, staging rows and queue depth: no draw buffer is written  *)
(* while a transfer reads it, until a wait gives up and again from the     *)
(* next transfer that begins alone.                                        *)
(***************************************************************************)
THEOREM DmaReadsStillBufferHolds == FirmwareSpec => []DmaReadsStillBuffer
<1>1. FirmwareInit => DisplayInv
  BY DEF FirmwareInit, DisplayInit, DisplayInv, DisplayTypes, TransferInv
<1>2. DisplayInv => DmaReadsStillBuffer
  BY DEF DisplayInv, DisplayTypes, TransferInv, PendingFlush, DmaReadsStillBuffer, Written,
         Staging
<1> QED
  BY <1>1, <1>2, DisplayStep, PTL DEF FirmwareSpec

-----------------------------------------------------------------------------
(* The two plans                                                            *)

\* FirmwareApplication::start runs its plan without a session.
TheBootPlan == Plan = BootPlan /\ HasSession = FALSE

LEMMA BootPlanIs ==
  ASSUME TheBootPlan
  PROVE  /\ Len(Plan) = 11 /\ Steps = 1..11 /\ HasSession = FALSE
         /\ Plan[HardwareStep].critical /\ Plan[HardwareStep].rollback
         /\ ~Plan[HardwareStep].transactional
  BY DEF TheBootPlan, BootPlan, Steps, Step, Bare, Trans, HardwareStep

LEMMA HardwarePlanIs ==
  /\ Len(HardwarePlan) = 7 /\ HW!Steps = 1..7 /\ Hardware!Steps = 1..7
  /\ \A i \in 1..7 : HardwarePlan[i].rollback /\ HardwarePlan[i].transactional
  BY DEF HardwarePlan, HW!Steps, Hardware!Steps, Trans

LEMMA HardwareAssumption == Hardware!PlanAssumption
<1>1. HardwarePlan \in Seq([critical : BOOLEAN, transactional : BOOLEAN, rollback : BOOLEAN])
  BY DEF HardwarePlan, Trans
<1>2. DOMAIN HardwarePlan = 1..7
  BY DEF HardwarePlan
<1> QED
  BY <1>1, <1>2, HardwarePlanIs DEF Hardware!PlanAssumption

(* The hardware plan is a plan, and the lemmas of any plan are its own.     *)
LEMMA HardwareInit == HW!Init => Hardware!IInv
<1>1. HW!Init => Hardware!Init
  BY DEF HW!Init, Hardware!Init, HW!Steps, Hardware!Steps
<1>2. Hardware!Init => Hardware!IInv
  BY Hardware!InitInv, HardwareAssumption DEF Hardware!PlanAssumption
<1> QED
  BY <1>1, <1>2

LEMMA HardwareNext == Hardware!IInv /\ [HW!Next]_hwVars => Hardware!IInv'
<1>1. [HW!Next]_hwVars => [Hardware!Next]_(Hardware!vars)
  BY DEF HW!Next, HW!Progress, HW!Execute, HW!Shutdown, HW!StepSucceeds, HW!StepFails,
         HW!Started, HW!Rollback, HW!RolledBack, HW!ShutdownStep, HW!ShutDown, HW!Undo,
         HW!UndoRecorded, HW!Steps, HW!Cleaned, HW!Leftover, hwVars,
         Hardware!Next, Hardware!Progress, Hardware!Execute, Hardware!Shutdown,
         Hardware!StepSucceeds, Hardware!StepFails, Hardware!Started, Hardware!Rollback,
         Hardware!RolledBack, Hardware!ShutdownStep, Hardware!ShutDown, Hardware!Undo,
         Hardware!UndoRecorded, Hardware!Steps, Hardware!Cleaned, Hardware!Leftover,
         Hardware!vars
<1>2. Hardware!IInv /\ [Hardware!Next]_(Hardware!vars) => Hardware!IInv'
  BY Hardware!NextInv, HardwareAssumption DEF Hardware!PlanAssumption
<1> QED
  BY <1>1, <1>2

\* The hardware plan runs inside the step that starts it and is undone inside
\* the step that stops it; between them its session is in force.
Nesting ==
  /\ called => at = "Start" /\ index = HardwareStep
  /\ hwAt \in {"Start", "Rollback"} => called
  /\ hwAt = "Shutdown" => at = "Rollback" /\ index = HardwareStep
  /\ at = "Idle" => (hwActive <=> active)
  /\ at \in {"Start", "Rollback"} /\ index < HardwareStep => ~hwActive
  /\ at = "Start" /\ index = HardwareStep /\ ~called => ~hwActive
  /\ at = "Start" /\ index > HardwareStep => hwActive /\ HardwareStep \in completed
  /\ at = "Rollback" /\ index > HardwareStep => hwActive
  /\ at = "Rollback" /\ index >= HardwareStep => HardwareStep \in completed

BootInv == IInv /\ Hardware!IInv /\ Nesting

(* What one step of each plan does to the other                             *)
LEMMA BootIsPlan == BootNext => [Next]_vars /\ [HW!Next]_hwVars
  BY DEF BootNext, OtherStep, HardwareStart, HardwareRuns, HardwareStarted, HardwareFailed,
         HardwareStop, HardwareStopped, Next, Progress, HW!Next

LEMMA NestingStep == ASSUME TheBootPlan, BootInv, BootNext PROVE Nesting'
<1>a. Steps = 1..11 /\ HasSession = FALSE /\ Len(Plan) = 11 /\ Plan[4].critical
  BY BootPlanIs DEF HardwareStep
<1>0. index \in 0..12 /\ at \in {"Idle", "Start", "Rollback", "Shutdown"}
  BY <1>a DEF BootInv, IInv, TypeOK
<1>1. /\ at # "Shutdown" /\ (at \in {"Start", "Rollback"} => ~active)
      /\ at = "Start" => index >= 1
      /\ at = "Rollback" => index <= 11
  BY <1>a, <1>0 DEF BootInv, IInv, UndoInv, StartInv
<1> USE <1>a, <1>0, <1>1 DEF Nesting, HardwareStep
<1>2. CASE OtherStep
  <2>1. UNCHANGED <<called, hwAt, hwActive>> /\ ~(index = 4 /\ at \in {"Start", "Rollback"})
    BY <1>2 DEF OtherStep, AtHardware, hwVars
  <2> USE <2>1 DEF BootInv
  <2>2. CASE Execute \/ Shutdown
    BY <2>2 DEF Execute, Shutdown
  <2>3. CASE StepSucceeds
    BY <2>3 DEF StepSucceeds
  <2>4. CASE StepFails
    BY <2>4 DEF StepFails
  <2>5. CASE Started
    BY <2>5 DEF Started
  <2>6. CASE Rollback
    BY <2>6 DEF Rollback
  <2>7. CASE RolledBack
    BY <2>7 DEF RolledBack
  <2>8. CASE ShutdownStep \/ ShutDown
    BY <2>8 DEF ShutdownStep, ShutDown
  <2> QED
    BY <1>2, <2>2, <2>3, <2>4, <2>5, <2>6, <2>7, <2>8 DEF OtherStep, Next, Progress
<1>3. CASE HardwareStart
  BY <1>3 DEF HardwareStart, AtHardware, HW!Execute, vars, BootInv
<1>4. CASE HardwareRuns
  BY <1>4 DEF HardwareRuns, AtHardware, HW!Progress, HW!StepSucceeds, HW!StepFails, HW!Started,
              HW!Rollback, HW!RolledBack, HW!ShutdownStep, HW!ShutDown, vars, BootInv
<1>5. CASE HardwareStarted
  BY <1>5 DEF HardwareStarted, AtHardware, StepSucceeds, hwVars, BootInv
<1>6. CASE HardwareFailed
  BY <1>6 DEF HardwareFailed, AtHardware, StepFails, hwVars, BootInv
<1>7. CASE HardwareStop
  BY <1>7 DEF HardwareStop, AtHardware, HW!Shutdown, vars, BootInv
<1>8. CASE HardwareStopped
  BY <1>8 DEF HardwareStopped, AtHardware, Rollback, hwVars, BootInv
<1> QED
  BY <1>2, <1>3, <1>4, <1>5, <1>6, <1>7, <1>8 DEF BootNext

LEMMA BootStep == ASSUME TheBootPlan PROVE BootInv /\ [BootNext]_bootVars => BootInv'
<1> SUFFICES ASSUME BootInv, [BootNext]_bootVars PROVE BootInv'
  OBVIOUS
<1>1. [Next]_vars /\ [HW!Next]_hwVars
  BY BootIsPlan DEF bootVars
<1>2. IInv' /\ Hardware!IInv'
  BY <1>1, NextInv, HardwareNext DEF BootInv
<1>3. CASE BootNext
  BY <1>2, <1>3, NestingStep DEF BootInv
<1>4. CASE UNCHANGED bootVars
  BY <1>2, <1>4 DEF BootInv, Nesting, bootVars, vars, hwVars
<1> QED
  BY <1>3, <1>4

LEMMA FirmwareBootStep == [FirmwareNext]_firmwareVars => [BootNext]_bootVars
  BY DEF FirmwareNext, BootSteps, LoopSteps, firmwareVars

LEMMA BootStarts == BootInit => BootInv
<1> SUFFICES ASSUME BootInit PROVE BootInv
  OBVIOUS
<1>1. IInv /\ Hardware!IInv
  BY InitInv, HardwareInit DEF BootInit
<1>2. Nesting
  BY DEF BootInit, Init, HW!Init, Nesting
<1> QED
  BY <1>1, <1>2 DEF BootInv

(***************************************************************************)
(* The hardware plan runs only inside its step of the boot plan, and the   *)
(* session is in force exactly from the end of that step until it is       *)
(* undone.                                                                 *)
(***************************************************************************)
THEOREM PlansNest == ASSUME TheBootPlan PROVE FirmwareSpec => []BootInv
  BY BootStarts, BootStep, FirmwareBootStep, PTL DEF FirmwareSpec, FirmwareInit

(***************************************************************************)
(* With everything behind its steps the boot is still an execution of its  *)
(* plan, and what holds of any plan holds of it.                           *)
(***************************************************************************)
THEOREM BootIsPlanSafe == FirmwareSpec => []PlanSafe
<1>1. FirmwareInit => Init
  BY DEF FirmwareInit, BootInit
<1>2. [FirmwareNext]_firmwareVars => [Next]_vars
  BY FirmwareBootStep, BootIsPlan DEF bootVars
<1>3. FirmwareSpec => Spec
  BY <1>1, <1>2, PTL DEF FirmwareSpec, Spec
<1> QED
  BY <1>3, PlanSafeHolds, PTL

(***************************************************************************)
(* No device is started or stopped while a user of the devices is on.      *)
(***************************************************************************)
THEOREM DevicesOutliveUsersHolds ==
  ASSUME TheBootPlan PROVE FirmwareSpec => DevicesOutliveUsers
<1> DEFINE UsersOff ==
      hwComponent' # hwComponent =>
        \A j \in HardwareStep + 1 .. Len(Plan) : Plan[j].rollback => component[j] = "off"
<1>1. ASSUME BootInv, BootNext PROVE UsersOff
  <2> SUFFICES ASSUME hwComponent' # hwComponent,
                      NEW j \in HardwareStep + 1 .. Len(Plan), Plan[j].rollback
               PROVE  component[j] = "off"
    OBVIOUS
  <2>1. AtHardware
    BY <1>1 DEF BootNext, OtherStep, HardwareStart, HardwareRuns, HardwareStarted,
                HardwareFailed, HardwareStop, HardwareStopped, hwVars
  <2>a. Len(Plan) = 11 /\ Steps = 1..11
    BY BootPlanIs
  <2>2. j \in Steps /\ j > HardwareStep
    BY <2>a DEF HardwareStep
  <2>3. component[j] \in {"on", "off"}
    BY <1>1, <2>2 DEF BootInv, IInv, TypeOK
  <2>4. component[j] # "on"
    BY <1>1, <2>1, <2>2 DEF BootInv, IInv, StartInv, UndoInv, Holds, AtHardware, HardwareStep
  <2> QED
    BY <2>3, <2>4
<1>2. BootInv /\ [BootNext]_bootVars => [UsersOff]_bootVars
  BY <1>1
<1> QED
  BY <1>2, PlansNest, FirmwareBootStep, PTL DEF FirmwareSpec, DevicesOutliveUsers

-----------------------------------------------------------------------------
(* Steps of the hardware plan and their devices                             *)

On(d) == hwComponent[DeviceStep[d]] = "on"

(* The executor starts and stops one component at a time, and a component  *)
(* is off when its step starts it and when that start has failed.           *)
LEMMA OneAtATime ==
  ASSUME Hardware!IInv, [HW!Next]_hwVars, NEW i \in 1..7
  PROVE  /\ hwComponent[i] \in {"on", "off"} /\ hwComponent'[i] \in {"on", "off"}
         /\ hwComponent'[i] # hwComponent[i] =>
              /\ \A j \in 1..7 \ {i} : hwComponent'[j] = hwComponent[j]
              /\ hwComponent'[i] = "on" => hwAt = "Start" /\ hwIndex = i /\ hwIndex' # hwIndex
         /\ hwAt = "Start" /\ hwIndex = i /\ hwIndex' # hwIndex =>
              /\ hwComponent[i] = "off"
              /\ i \in hwCompleted' <=> hwComponent'[i] = "on"
              /\ \A j \in 1..7 \ {i} : hwComponent'[j] = hwComponent[j]
<1>0. /\ HW!Steps = 1..7 /\ Hardware!Steps = 1..7 /\ Len(HardwarePlan) = 7
      /\ \A j \in 1..7 : HardwarePlan[j].rollback /\ HardwarePlan[j].transactional
  BY HardwarePlanIs
<1>1. /\ hwComponent \in [1..7 -> {"on", "off"}] /\ hwIndex \in 0..8
      /\ hwCompleted \subseteq 1..7
      /\ hwAt \in {"Idle", "Start", "Rollback", "Shutdown"}
  BY <1>0 DEF Hardware!IInv, Hardware!TypeOK
<1>2. hwAt = "Start" =>
        /\ \A j \in 1..7 : hwComponent[j] = "on" => j \in hwCompleted /\ j <= hwIndex - 1
        /\ hwCompleted \subseteq 1..hwIndex - 1
  BY <1>0 DEF Hardware!IInv, Hardware!StartInv, Hardware!Holds
<1>3. /\ hwAt = "Start" /\ hwIndex = i => hwComponent[i] = "off" /\ i \notin hwCompleted
  BY <1>1, <1>2
<1>4. CASE HW!StepSucceeds
  <2>1. /\ hwAt = "Start" /\ hwIndex \in 1..7 /\ hwIndex' = hwIndex + 1
        /\ hwComponent' = [hwComponent EXCEPT ![hwIndex] = "on"]
        /\ hwCompleted' = hwCompleted \cup {hwIndex}
    BY <1>0, <1>4 DEF HW!StepSucceeds
  <2> QED
    BY <2>1, <1>1, <1>3
<1>5. CASE HW!StepFails
  <2>1. /\ hwAt = "Start" /\ hwIndex \in 1..7 /\ hwCompleted' = hwCompleted
        /\ hwComponent' = [hwComponent EXCEPT ![hwIndex] = "off"]
    BY <1>0, <1>5 DEF HW!StepFails, HW!Cleaned
  <2>2. hwComponent[hwIndex] = "off"
    BY <2>1, <1>1, <1>2
  <2>3. hwComponent' = hwComponent
    BY <2>1, <2>2, <1>1
  <2> QED
    BY <2>1, <2>3, <1>1, <1>3
<1>6. CASE HW!Rollback \/ HW!ShutdownStep
  <2>1. hwAt # "Start" /\ hwIndex \in 1..7
        /\ (hwComponent' = hwComponent \/ hwComponent' = [hwComponent EXCEPT ![hwIndex] = "off"])
    BY <1>0, <1>6 DEF HW!Rollback, HW!ShutdownStep, HW!Undo, HW!UndoRecorded
  <2> QED
    BY <2>1, <1>1
<1>7. CASE UNCHANGED hwComponent /\ (hwAt = "Start" => UNCHANGED hwIndex)
  BY <1>1, <1>7
<1> QED
  BY <1>4, <1>5, <1>6, <1>7 DEF HW!Next, HW!Progress, HW!Execute, HW!Shutdown, HW!Started,
     HW!RolledBack, HW!ShutDown, hwVars

-----------------------------------------------------------------------------
(* The shared I2C port                                                      *)

PortType == [references : Nat, configuration : Configurations \cup {NotWired}, driver : BOOLEAN]
BusType == [port : PortType, acquired : SUBSET BusDevices]

\* The lease table counts the devices that hold the port, and no other.
Counted(b) ==
  /\ b \in BusType
  /\ b.port.references = Cardinality(b.acquired)
  /\ b.port.driver <=> b.acquired # {}

LEMMA Holders == ASSUME NEW S \in SUBSET BusDevices PROVE IsFiniteSet(S) /\ Cardinality(S) \in Nat
<1>1. IsFiniteSet({"touch"}) /\ BusDevices = {"touch"} \cup {"codec"}
  BY FS_Singleton DEF BusDevices
<1>2. IsFiniteSet(BusDevices)
  BY <1>1, FS_AddElement
<1>3. IsFiniteSet(S)
  BY <1>2, FS_Subset
<1> QED
  BY <1>3, FS_CardinalityType

LEMMA AcquireCounts ==
  ASSUME NEW b, Counted(b), NEW d \in BusDevices \ b.acquired,
         wiring[d] \in Configurations \cup {NotWired}
  PROVE  Counted(Acquired(b, d)) /\ Acquired(b, d).acquired = b.acquired \cup {d}
<1> DEFINE a == Acquired(b, d)
<1>1. a = [port |-> [references |-> b.port.references + 1, configuration |-> wiring[d],
                     driver |-> TRUE],
           acquired |-> b.acquired \cup {d}]
  BY DEF Acquired, Leased
<1>2. b.port.references \in Nat /\ b.acquired \in SUBSET BusDevices
  BY DEF Counted, BusType, PortType
<1>3. Cardinality(b.acquired \cup {d}) = Cardinality(b.acquired) + 1
  BY <1>2, Holders, FS_AddElement
<1> HIDE DEF a
<1>4. a \in BusType
  BY <1>1, <1>2 DEF BusType, PortType
<1>5. a.port.references = Cardinality(a.acquired)
  BY <1>1, <1>3 DEF Counted
<1>6. a.port.driver /\ a.acquired # {} /\ a.acquired = b.acquired \cup {d}
  BY <1>1
<1>7. Counted(a) /\ a.acquired = b.acquired \cup {d}
  BY <1>4, <1>5, <1>6 DEF Counted
<1> QED
  BY <1>7 DEF a

LEMMA ReleaseCounts ==
  ASSUME NEW b, Counted(b), NEW d \in BusDevices
  PROVE  Counted(Released(b, d)) /\ Released(b, d).acquired = b.acquired \ {d}
<1>1. CASE d \notin b.acquired
  BY <1>1 DEF Released
<1>2. CASE d \in b.acquired
  <2> DEFINE r == Released(b, d)
  <2>1. r = [port |-> Returned(b.port), acquired |-> b.acquired \ {d}]
    BY <1>2 DEF Released
  <2>2. /\ b.port.references \in Nat /\ b.acquired \in SUBSET BusDevices /\ b.port \in PortType
        /\ b.port.references = Cardinality(b.acquired) /\ b.port.driver
    BY <1>2 DEF Counted, BusType, PortType
  <2>3. Cardinality(b.acquired \ {d}) = Cardinality(b.acquired) - 1
    BY <1>2, <2>2, Holders, FS_RemoveElement
  <2>4. Cardinality(b.acquired \ {d}) = 0 <=> b.acquired \ {d} = {}
    BY <2>2, Holders, FS_EmptySet
  <2> HIDE DEF r
  <2>5. CASE b.port.references <= 1
    <3>1. r.port = Unused /\ r.acquired = b.acquired \ {d}
      BY <2>1, <2>5 DEF Returned
    <3>2. Cardinality(b.acquired \ {d}) \in Nat
      BY <2>2, Holders
    <3>3. r.acquired = {} /\ Cardinality(r.acquired) = 0
      BY <2>2, <2>3, <2>4, <2>5, <3>1, <3>2
    <3>a. Unused \in PortType /\ ~Unused.driver /\ Unused.references = 0
      BY DEF PortType, Unused
    <3>4. r \in BusType
      BY <2>1, <2>2, <3>1, <3>a DEF BusType
    <3> QED
      BY <3>1, <3>3, <3>4, <3>a DEF Counted, r
  <2>6. CASE ~(b.port.references <= 1)
    <3>1. r.port = Returned(b.port) /\ r.acquired = b.acquired \ {d}
      BY <2>1
    <3>2. b.port.references - 1 \in Nat /\ b.port.references - 1 # 0
      BY <2>2, <2>6
    <3>a. r.port = [b.port EXCEPT !.references = b.port.references - 1]
      BY <2>6, <3>1 DEF Returned
    <3>b. r.port \in PortType /\ r.port.references = b.port.references - 1
          /\ r.port.driver = b.port.driver
      BY <2>2, <3>2, <3>a DEF PortType
    <3>3. r \in BusType
      BY <2>1, <2>2, <3>1, <3>b DEF BusType
    <3>4. r.port.references = Cardinality(r.acquired) /\ r.port.driver /\ r.acquired # {}
      BY <2>2, <2>3, <2>4, <3>1, <3>2, <3>b
    <3>5. Counted(r) /\ r.acquired = b.acquired \ {d}
      BY <3>1, <3>3, <3>4 DEF Counted
    <3> QED
      BY <3>5 DEF r
  <2> QED
    BY <2>2, <2>5, <2>6
<1> QED
  BY <1>1, <1>2

\* Holders are the devices that are on and need the port.
BusInv ==
  /\ wiring \in [BusDevices -> Configurations \cup {NotWired}]
  /\ Counted(bus)
  /\ bus.acquired = {d \in BusDevices : On(d) /\ wiring[d] # NotWired}

(* A device that starts while it is off takes its reference, one that fails *)
(* gives back what it took, and a stop gives the reference back once.       *)
LEMMA DeviceCounts ==
  ASSUME BusInv, NEW d \in BusDevices
  PROVE  /\ ~On(d) /\ DeviceStarts(d) =>
              Counted(bus') /\ bus'.acquired = bus.acquired \cup {e \in {d} : wiring[e] # NotWired}
         /\ ~On(d) /\ DeviceFails(d) => Counted(bus') /\ bus'.acquired = bus.acquired
         /\ DeviceStops(d) => Counted(bus') /\ bus'.acquired = bus.acquired \ {d}
<1>1. Counted(bus) /\ (~On(d) => d \notin bus.acquired) /\ wiring[d] \in Configurations \cup {NotWired}
  BY DEF BusInv
<1>2. d \notin bus.acquired =>
        Counted(Acquired(bus, d)) /\ Acquired(bus, d).acquired = bus.acquired \cup {d}
  BY <1>1, AcquireCounts
<1>3. \A b : Counted(b) => Counted(Released(b, d)) /\ Released(b, d).acquired = b.acquired \ {d}
  BY ReleaseCounts
<1>4. ASSUME ~On(d), DeviceStarts(d)
      PROVE  Counted(bus') /\ bus'.acquired = bus.acquired \cup {e \in {d} : wiring[e] # NotWired}
  BY <1>1, <1>2, <1>4 DEF DeviceStarts
<1>5. ASSUME ~On(d), DeviceFails(d) PROVE Counted(bus') /\ bus'.acquired = bus.acquired
  <2>1. PICK b \in {bus, Acquired(bus, d)} : bus' = Released(Released(b, d), d)
    BY <1>5 DEF DeviceFails
  <2>2. Counted(b) /\ b.acquired \ {d} = bus.acquired
    BY <1>1, <1>2, <1>5, <2>1
  <2>3. Counted(Released(b, d)) /\ Released(b, d).acquired = bus.acquired
    BY <1>3, <2>2
  <2>4. Counted(bus') /\ bus'.acquired = bus.acquired \ {d}
    BY <1>3, <2>1, <2>3
  <2> QED
    BY <1>1, <1>5, <2>4
<1>6. ASSUME DeviceStops(d) PROVE Counted(bus') /\ bus'.acquired = bus.acquired \ {d}
  BY <1>1, <1>3, <1>6 DEF DeviceStops
<1> QED
  BY <1>4, <1>5, <1>6

\* What a step of the hardware plan does to the component of a device
OthersStay(d) ==
  \A e \in BusDevices \ {d} : hwComponent'[DeviceStep[e]] = hwComponent[DeviceStep[e]]

Moves(d) ==
  /\ hwComponent[DeviceStep[d]] \in {"on", "off"}
  /\ hwComponent'[DeviceStep[d]] \in {"on", "off"}
  /\ On(d)' # On(d) => OthersStay(d) /\ (Starting(d) \/ Stopping(d))
  /\ Starting(d) => ~On(d) /\ (DeviceStep[d] \in hwCompleted' <=> On(d)') /\ OthersStay(d)
  /\ Stopping(d) => ~(On(d)') /\ OthersStay(d)

(* Every step of the firmware leaves the port with the devices that are on. *)
LEMMA BusStep ==
  ASSUME BusInv, Hardware!IInv, [FirmwareNext]_firmwareVars PROVE BusInv'
<1>0. BusDevices = {"touch", "codec"} /\ DeviceStep["touch"] = 4 /\ DeviceStep["codec"] = 7
  BY DEF BusDevices, DeviceStep
<1>1. [HW!Next]_hwVars
  BY FirmwareBootStep, BootIsPlan DEF bootVars
<1>2. /\ wiring \in [BusDevices -> Configurations \cup {NotWired}] /\ Counted(bus)
      /\ bus.acquired = {d \in BusDevices : On(d) /\ wiring[d] # NotWired}
  BY DEF BusInv
<1>3. \A d \in BusDevices : Moves(d)
  <2> SUFFICES ASSUME NEW d \in BusDevices PROVE Moves(d)
    OBVIOUS
  <2>1. DeviceStep[d] \in 1..7
        /\ \A e \in BusDevices \ {d} : DeviceStep[e] \in 1..7 \ {DeviceStep[d]}
    BY <1>0
  <2>2. PICK i \in 1..7 : i = DeviceStep[d]
    BY <2>1
  <2> QED
    BY <1>1, <2>1, <2>2, OneAtATime DEF Moves, OthersStay, On, Starting, Stopping
<1>4. CASE \E d \in BusDevices : BusSteps(d)
  <2> PICK d \in BusDevices : BusSteps(d)
    BY <1>4
  <2>0. /\ \A e \in BusDevices \ {d} : On(e)' <=> On(e)
        /\ UNCHANGED wiring
    BY <1>3 DEF Moves, OthersStay, BusSteps, On, DeviceStarts, DeviceFails, DeviceStops
  <2>1. CASE Starting(d) /\ DeviceStep[d] \in hwCompleted' /\ DeviceStarts(d)
    BY <1>2, <1>3, <2>0, <2>1, DeviceCounts DEF BusInv, Moves
  <2>2. CASE Starting(d) /\ DeviceStep[d] \notin hwCompleted' /\ DeviceFails(d)
    BY <1>2, <1>3, <2>0, <2>2, DeviceCounts DEF BusInv, Moves
  <2>3. CASE Stopping(d) /\ DeviceStops(d)
    BY <1>2, <1>3, <2>0, <2>3, DeviceCounts DEF BusInv, Moves
  <2> QED
    BY <2>1, <2>2, <2>3 DEF BusSteps
<1>5. CASE UNCHANGED busVars /\ \A d \in BusDevices : On(d)' <=> On(d)
  BY <1>2, <1>5 DEF BusInv, busVars
<1>6. CASE NoBusStep /\ UNCHANGED busVars
  <2>1. \A d \in BusDevices : On(d)' <=> On(d)
    BY <1>3, <1>6 DEF NoBusStep, Moves
  <2> QED
    BY <1>5, <1>6, <2>1
<1>7. CASE UNCHANGED hwVars /\ UNCHANGED busVars
  <2>1. \A d \in BusDevices : On(d)' <=> On(d)
    BY <1>7 DEF hwVars, On
  <2> QED
    BY <1>5, <1>7, <2>1
<1> QED
  BY <1>4, <1>6, <1>7 DEF FirmwareNext, BootSteps, LoopSteps, firmwareVars, bootVars

-----------------------------------------------------------------------------
(* The card                                                                 *)

StorageType ==
  [bus : BOOLEAN, mounted : BOOLEAN, wait : Nat,
   health : {"stopped", "starting", "ready", "degraded"}]

\* The SPI bus belongs to a mounted card, and health tells of it.
Sound(s) ==
  /\ s \in StorageType
  /\ s.bus <=> s.mounted /\ driver = "sdspi"
  /\ s.mounted <=> s.health = "ready"

\* Before the loop runs the card is there exactly when its step completed;
\* afterwards it may come late, and stays.
CardInv ==
  /\ driver \in StorageDrivers
  /\ Sound(storage)
  /\ On("storage") => storage.mounted
  /\ ~active /\ ~On("storage") => storage = NoCard

LEMMA CardIsSound ==
  ASSUME NEW b \in BOOLEAN, NEW m \in BOOLEAN, NEW w \in Nat,
         NEW h \in {"stopped", "starting", "ready", "degraded"},
         b <=> m /\ driver = "sdspi", m <=> h = "ready"
  PROVE  Sound([bus |-> b, mounted |-> m, wait |-> w, health |-> h])
<1>1. [bus |-> b, mounted |-> m, wait |-> w, health |-> h] \in StorageType
  BY DEF StorageType
<1> QED
  BY <1>1 DEF Sound

(* Whatever an attempt to mount meets, it keeps no bus that it does not use. *)
LEMMA AttemptsAreSound ==
  ASSUME driver \in StorageDrivers, NEW s, Sound(s), NEW t \in StorageAttempts(s)
  PROVE  Sound(t) /\ (s.mounted => t.mounted)
<1>0. driver \in {"none", "sdspi", "sdmmc"} /\ RetrySamples \in Nat
  BY StorageAssumption
<1>1. PICK b, m, w, h : s = [bus |-> b, mounted |-> m, wait |-> w, health |-> h]
        /\ b \in BOOLEAN /\ m \in BOOLEAN /\ w \in Nat
        /\ h \in {"stopped", "starting", "ready", "degraded"}
  BY DEF Sound, StorageType
<1>2. CASE s.mounted
  BY <1>2 DEF StorageAttempts
<1>3. CASE ~s.mounted /\ driver = "none"
  BY <1>1, <1>3 DEF StorageAttempts, Sound, StorageType
<1>4. CASE ~s.mounted /\ driver = "sdspi"
  <2>1. \/ t = [bus |-> b, mounted |-> m, wait |-> w, health |-> "starting"]
        \/ t = [bus |-> TRUE, mounted |-> TRUE, wait |-> 0, health |-> "ready"]
        \/ t = [bus |-> FALSE, mounted |-> FALSE, wait |-> RetrySamples, health |-> "degraded"]
    BY <1>1, <1>4 DEF StorageAttempts, MountSucceeded, MountFailed, Waits
  <2>2. ~b /\ ~m
    BY <1>1, <1>4 DEF Sound
  <2> QED
    BY <1>0, <1>1, <1>4, <2>1, <2>2, CardIsSound
<1>5. CASE ~s.mounted /\ driver = "sdmmc"
  <2>1. \/ t = [bus |-> b, mounted |-> TRUE, wait |-> 0, health |-> "ready"]
        \/ t = [bus |-> FALSE, mounted |-> FALSE, wait |-> RetrySamples, health |-> "degraded"]
    BY <1>1, <1>5 DEF StorageAttempts, MountSucceeded, MountFailed, Waits
  <2>2. ~b /\ ~m
    BY <1>1, <1>5 DEF Sound
  <2> QED
    BY <1>0, <1>1, <1>5, <2>1, <2>2, CardIsSound
<1> QED
  BY <1>0, <1>2, <1>3, <1>4, <1>5

LEMMA NoCardIsSound == Sound(NoCard)
  BY DEF Sound, NoCard, StorageType

(* A sample either waits or attempts.                                       *)
LEMMA SampleIsSound == ASSUME CardInv, Sample PROVE Sound(storage')
<1>1. CASE ShouldAttempt(storage)
  BY <1>1, AttemptsAreSound DEF Sample, CardInv
<1>2. CASE ~ShouldAttempt(storage)
  <2>1. storage \in StorageType /\ ~storage.mounted /\ driver # "none"
    BY DEF CardInv, Sound, Sample
  <2>2. storage.wait \in Nat /\ storage.wait # 0
    BY <1>2, <2>1 DEF StorageType, ShouldAttempt
  <2>3. storage' = [bus |-> storage.bus, mounted |-> storage.mounted, wait |-> storage.wait - 1,
                    health |-> storage.health]
    BY <1>2, <2>1 DEF Sample, StorageType
  <2>4. /\ storage.bus \in BOOLEAN /\ storage.mounted \in BOOLEAN /\ storage.wait - 1 \in Nat
        /\ storage.health \in {"stopped", "starting", "ready", "degraded"}
    BY <2>1, <2>2 DEF StorageType
  <2>5. (storage.bus <=> storage.mounted /\ driver = "sdspi")
        /\ (storage.mounted <=> storage.health = "ready")
    BY DEF CardInv, Sound
  <2> QED
    BY <2>3, <2>4, <2>5, CardIsSound
<1> QED
  BY <1>1, <1>2

(* Starts, stops and samples leave the card as its step says.               *)
LEMMA CardStep ==
  ASSUME TheBootPlan, BootInv, CardInv, [FirmwareNext]_firmwareVars PROVE CardInv'
<1>1. [Next]_vars /\ [HW!Next]_hwVars
  BY FirmwareBootStep, BootIsPlan DEF bootVars
<1>2. ~active' => ~active
  <2>1. at # "Shutdown"
    BY BootPlanIs DEF BootInv, IInv, UndoInv
  <2> QED
    BY <1>1, <2>1 DEF Next, Progress, Execute, Shutdown, StepSucceeds, StepFails, Started, Rollback,
                      RolledBack, ShutdownStep, ShutDown, vars
<1>3. DeviceStep["storage"] = 5
  BY DEF DeviceStep
<1>4. /\ hwComponent[5] \in {"on", "off"} /\ hwComponent'[5] \in {"on", "off"}
      /\ ~Starting("storage") /\ ~Stopping("storage") => (On("storage")' <=> On("storage"))
      /\ Starting("storage") => (5 \in hwCompleted' <=> On("storage")')
      /\ Stopping("storage") => ~(On("storage")')
  BY <1>1, <1>3, OneAtATime DEF BootInv, On, Starting, Stopping
<1>5. driver' = driver /\ driver \in StorageDrivers
  BY DEF CardInv, FirmwareNext, BootSteps, LoopSteps, StorageSteps, StorageStarts, StorageFails,
         StorageStops, Sample, firmwareVars, storageVars
<1>6. CASE UNCHANGED storageVars /\ (On("storage")' <=> On("storage"))
  BY <1>2, <1>6 DEF CardInv, storageVars, Sound
<1>7. CASE StorageSteps
  <2>1. CASE Starting("storage") /\ 5 \in hwCompleted' /\ StorageStarts
    <3>1. Sound(storage') /\ storage'.mounted
      BY <2>1, AttemptsAreSound DEF CardInv, StorageStarts
    <3> QED
      BY <1>4, <1>5, <2>1, <3>1 DEF CardInv, Sound
  <2>2. CASE storage' = NoCard /\ ~(On("storage")')
    BY <1>5, <2>2, NoCardIsSound DEF CardInv, Sound
  <2>3. CASE ~Starting("storage") /\ ~Stopping("storage") /\ UNCHANGED storageVars
    BY <1>4, <1>6, <2>3
  <2> QED
    BY <1>3, <1>4, <1>7, <2>1, <2>2, <2>3 DEF StorageSteps, StorageFails, StorageStops
<1>8. CASE LoopSteps
  <2>1. On("storage")' <=> On("storage")
    BY <1>8 DEF LoopSteps, bootVars, hwVars, On
  <2>2. active /\ active'
    BY <1>8 DEF LoopSteps, bootVars, vars
  <2>3. CASE Sample
    BY <1>5, <2>1, <2>2, <2>3, SampleIsSound DEF CardInv, Sample, Sound
  <2> QED
    BY <1>6, <1>8, <2>1, <2>3 DEF LoopSteps
<1>9. CASE UNCHANGED firmwareVars
  BY <1>6, <1>9 DEF firmwareVars, bootVars, hwVars, On
<1> QED
  BY <1>7, <1>8, <1>9 DEF FirmwareNext, BootSteps

-----------------------------------------------------------------------------
(* The devices between boots                                                *)

DevicesInv == BusInv /\ CardInv

LEMMA DevicesStart == FirmwareInit => DevicesInv
<1> SUFFICES ASSUME FirmwareInit PROVE DevicesInv
  OBVIOUS
<1>1. \A i \in 1..7 : hwComponent[i] = "off"
  BY HardwarePlanIs DEF FirmwareInit, BootInit, HW!Init
<1>2. \A d \in BusDevices \cup {"storage"} : ~On(d)
  BY <1>1 DEF On, DeviceStep, BusDevices
<1>3. BusInv
  <2>1. bus \in BusType
    BY DEF FirmwareInit, BusInit, BusType, PortType, Unused
  <2>2. Cardinality({}) = 0
    BY FS_EmptySet
  <2> QED
    BY <1>2, <2>1, <2>2 DEF FirmwareInit, BusInit, BusInv, Counted, Unused
<1>4. CardInv
  BY <1>2, NoCardIsSound DEF FirmwareInit, StorageInit, CardInv
<1> QED
  BY <1>3, <1>4 DEF DevicesInv

(***************************************************************************)
(* Devices hold the port and the card exactly while their components are   *)
(* on, at every step of a boot, of its rollback and of the loop.           *)
(***************************************************************************)
THEOREM DevicesFollowSteps == ASSUME TheBootPlan PROVE FirmwareSpec => [](BootInv /\ DevicesInv)
<1>1. FirmwareInit => BootInv /\ DevicesInv
  BY BootStarts, DevicesStart DEF FirmwareInit
<1>2. (BootInv /\ DevicesInv) /\ [FirmwareNext]_firmwareVars => (BootInv /\ DevicesInv)'
  BY BootStep, FirmwareBootStep, BusStep, CardStep DEF BootInv, DevicesInv
<1> QED
  BY <1>1, <1>2, PTL DEF FirmwareSpec

(***************************************************************************)
(* Nothing of the hardware stays on after a boot that failed, a boot in    *)
(* force has the session active, and either way port and card are held by  *)
(* exactly what is on.                                                     *)
(***************************************************************************)
THEOREM HardwareFollowsBootHolds ==
  ASSUME TheBootPlan PROVE FirmwareSpec => []HardwareFollowsBoot
<1>1. BootInv /\ DevicesInv => HardwareFollowsBoot
  <2> SUFFICES ASSUME BootInv, DevicesInv, at = "Idle" PROVE HardwareFollowsBoot
    BY DEF HardwareFollowsBoot
  <2>0. HW!Steps = 1..7 /\ Hardware!Steps = 1..7 /\ DeviceStep["storage"] = 5
        /\ \A i \in 1..7 : HardwarePlan[i].rollback
    BY HardwarePlanIs DEF DeviceStep
  <2>1. hwAt = "Idle" /\ (hwActive <=> active)
    BY DEF BootInv, Nesting, Hardware!IInv, Hardware!TypeOK
  <2>2. ~active => \A i \in 1..7 : hwComponent[i] = "off"
    BY <2>0, <2>1 DEF BootInv, Hardware!IInv, Hardware!TypeOK, Hardware!IdleInv, Hardware!Holds
  <2>3. BusFollows({d \in BusDevices : hwComponent[DeviceStep[d]] = "on"})
    BY DEF DevicesInv, BusInv, Counted, On, BusFollows
  <2>4. StorageConsistent /\ (On("storage") => storage.mounted)
    BY DEF DevicesInv, CardInv, Sound, StorageConsistent
  <2>5. ~active => storage = NoCard
    BY <2>0, <2>2 DEF DevicesInv, CardInv, On
  <2> QED
    BY <2>0, <2>1, <2>2, <2>3, <2>4, <2>5 DEF HardwareFollowsBoot, On
<1> QED
  BY <1>1, DevicesFollowSteps, PTL

=============================================================================
