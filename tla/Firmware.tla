------------------------------ MODULE Firmware ------------------------------
(***************************************************************************)
(* FirmwareApplication: the boot plan, whose hardware platform starts two  *)
(* devices that share an I2C port and the card, one step of which          *)
(* registers the display with LVGL, and then what the runtime loop does:   *)
(* frames, and samples that mount a card that was not there.               *)
(***************************************************************************)
EXTENDS Boot, Display, I2cBus, Storage

firmwareVars == <<bootVars, displayVars, busVars, storageVars>>

FirmwareInit == BootInit /\ DisplayInit /\ BusInit /\ StorageInit

LvglDisplayStep == 5   \* "LVGL display adapter" in BootPlan
DeviceStep == [touch |-> 4, storage |-> 5, codec |-> 7]   \* in HardwarePlan

Starting(d) == hwAt = "Start" /\ hwIndex = DeviceStep[d] /\ hwIndex' # hwIndex
Stopping(d) == hwComponent[DeviceStep[d]] = "on" /\ hwComponent'[DeviceStep[d]] = "off"

BusSteps(d) ==
  \/ Starting(d) /\ DeviceStep[d] \in hwCompleted' /\ DeviceStarts(d)
  \/ Starting(d) /\ DeviceStep[d] \notin hwCompleted' /\ DeviceFails(d)
  \/ Stopping(d) /\ DeviceStops(d)

NoBusStep == \A d \in BusDevices : ~Starting(d) /\ ~Stopping(d)

\* The card, and nothing while its step is not due
StorageSteps ==
  \/ Starting("storage") /\ DeviceStep["storage"] \in hwCompleted' /\ StorageStarts
  \/ Starting("storage") /\ DeviceStep["storage"] \notin hwCompleted' /\ StorageFails
  \/ Stopping("storage") /\ StorageStops
  \/ ~Starting("storage") /\ ~Stopping("storage") /\ UNCHANGED storageVars

\* A boot step; the LVGL display takes its buffers and gives them back.
BootSteps ==
  /\ BootNext
  /\ (\E d \in BusDevices : BusSteps(d)) \/ (NoBusStep /\ UNCHANGED busVars)
  /\ StorageSteps
  /\ IF component'[LvglDisplayStep] = component[LvglDisplayStep] THEN UNCHANGED displayVars
     ELSE IF component'[LvglDisplayStep] = "on" THEN AllocateDrawBuffers
     ELSE FreeDrawBuffers

\* LVGL's timers and the services' ticks run in the loop, and only there.
LoopSteps ==
  /\ active /\ at = "Idle"
  /\ \/ Frames /\ UNCHANGED storageVars
     \/ Sample /\ UNCHANGED displayVars
  /\ UNCHANGED <<bootVars, busVars>>

FirmwareNext == BootSteps \/ LoopSteps

FirmwareSpec == FirmwareInit /\ [][FirmwareNext]_firmwareVars

-----------------------------------------------------------------------------
(* Properties *)

(***************************************************************************)
(* docs/architecture.md: a failed boot rolls back, and the same object     *)
(* graph can be started again.  Nothing of the hardware stays on after a   *)
(* boot that failed, at whatever step and in whichever plan, and a boot in *)
(* force has the hardware session active.  Either way the devices that are *)
(* on hold the I2C port, and the driver is installed when one of them is:  *)
(* a device that fails, is refused or stopped twice takes nothing from the *)
(* other.  The card is mounted when its start says so, also one that came  *)
(* later, never while the platform is off, and no attempt keeps its bus.   *)
(***************************************************************************)
HardwareFollowsBoot ==
  at = "Idle" =>
    /\ hwActive <=> active
    /\ ~active => \A i \in HW!Steps : hwComponent[i] = "off"
    /\ BusFollows({d \in BusDevices : hwComponent[DeviceStep[d]] = "on"})
    /\ StorageConsistent
    /\ hwComponent[DeviceStep["storage"]] = "on" => storage.mounted
    /\ ~active => storage = NoCard

=============================================================================
