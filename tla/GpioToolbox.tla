----------------------------- MODULE GpioToolbox -----------------------------
(***************************************************************************)
(* The broker with its users on the UI task: the hardware platform, which  *)
(* reserves what a board has committed (hal::fixed_resource_plan), the     *)
(* GPIO toolbox, which takes every header pin that is left, and expansion  *)
(* code with leases of its own (expansion::ExpansionManager).              *)
(***************************************************************************)
EXTENDS ResourceBroker, SequencesExt

CONSTANTS
  System, Toolbox, Expansions,   \* OwnerId 1, 0x4750, others
  Boards,                        \* descriptors: [requests, headers]
  MaxReservations,               \* BoardResourcePlan::maximum_reservations
  MaxCandidates                  \* the capacity of a GpioPinCatalog

ASSUME OwnersAssumption ==
  /\ Owners = {System, Toolbox} \cup Expansions
  /\ System # Toolbox /\ {System, Toolbox} \cap Expansions = {}

Reservation == [key : Keys, mode : Modes]
PinHeader == [gpio : BOOLEAN, pins : Seq(Keys)]

\* A descriptor asks for valid resources in a valid mode; the pins it has not
\* (-1), which both functions skip, are not among them.
ASSUME BoardsAssumption ==
  /\ MaxReservations \in Nat /\ MaxCandidates \in Nat
  /\ \A b \in Boards : b.requests \in Seq(Reservation) /\ b.headers \in Seq(PinHeader)

VARIABLES
  board,      \* the descriptor of this build
  platform,   \* the fixed reservations: off, being made, made
  at,         \* what the toolbox is doing
  todo,       \* candidates left, or reservations left while platform starts
  pins        \* leased_pins_

toolboxVars == <<slots, board, platform, at, todo, pins>>

\* BoardResourcePlan::add: one reservation of a resource, exclusive wins.
AddReservation(plan, r) ==
  IF \E i \in DOMAIN plan : plan[i].key = r.key
  THEN [i \in DOMAIN plan |->
         IF plan[i].key = r.key /\ r.mode = "exclusive" THEN r ELSE plan[i]]
  ELSE IF Len(plan) < MaxReservations THEN Append(plan, r) ELSE plan

FixedResourcePlan == FoldLeft(AddReservation, <<>>, board.requests)

AddCandidate(catalog, pin) ==
  IF Contains(catalog, pin) \/ Len(catalog) = MaxCandidates
  THEN catalog ELSE Append(catalog, pin)

AddHeader(catalog, h) ==
  IF h.gpio THEN FoldLeft(AddCandidate, catalog, h.pins) ELSE catalog

\* gpio_pin_catalog: the first pins of the GPIO headers, each once.
GpioPinCatalog == FoldLeft(AddHeader, <<>>, board.headers)

ToolboxInit ==
  /\ Init /\ board \in Boards
  /\ platform = "off" /\ at = "stopped"
  /\ todo = <<>> /\ pins = <<>>

Refused(k, o, m) == ~ENABLED Reserve(k, o, m)

-----------------------------------------------------------------------------
(* HardwarePlatform::FixedResourceLifecycle, a transactional startup step. *)

PlatformStart ==
  /\ platform = "off"
  /\ platform' = "starting" /\ todo' = FixedResourcePlan
  /\ UNCHANGED <<slots, board, at, pins>>

ReserveFixed ==
  /\ platform = "starting" /\ todo # <<>>
  /\ Reserve(Head(todo).key, System, Head(todo).mode)
  /\ todo' = Tail(todo)
  /\ UNCHANGED <<board, platform, at, pins>>

PlatformStarted ==
  /\ platform = "starting" /\ todo = <<>>
  /\ platform' = "on"
  /\ UNCHANGED <<slots, board, at, todo, pins>>

\* A failed reservation fails the step, which stops it.
PlatformFails ==
  /\ platform = "starting" /\ todo # <<>>
  /\ Refused(Head(todo).key, System, Head(todo).mode)
  /\ Reset
  /\ platform' = "off" /\ todo' = <<>>
  /\ UNCHANGED <<board, at, pins>>

\* The firmware stops its applications first.
PlatformStop ==
  /\ platform = "on" /\ at = "stopped"
  /\ Reset
  /\ platform' = "off"
  /\ UNCHANGED <<board, at, todo, pins>>

-----------------------------------------------------------------------------
(* GpioToolboxApp::start and stop *)

ToolboxStart ==
  /\ platform = "on" /\ at = "stopped"
  /\ at' = "acquire" /\ todo' = GpioPinCatalog
  /\ UNCHANGED <<slots, board, platform, pins>>

AcquirePin ==
  /\ at = "acquire" /\ todo # <<>>
  /\ Reserve(Head(todo), Toolbox, "exclusive")
  /\ at' = "configure" /\ pins' = Append(pins, Head(todo))
  /\ UNCHANGED <<board, platform, todo>>

SkipPin ==
  /\ at = "acquire" /\ todo # <<>>
  /\ Refused(Head(todo), Toolbox, "exclusive")
  /\ todo' = Tail(todo)
  /\ UNCHANGED <<slots, board, platform, at, pins>>

\* The output is configured and its row is in the view.
PinReady ==
  /\ at = "configure"
  /\ at' = "acquire" /\ todo' = Tail(todo)
  /\ UNCHANGED <<slots, board, platform, pins>>

\* Mutant: the dropped pin stays leased.
DropPinUnreleased ==
  /\ at = "configure"
  /\ pins' = Front(pins)
  /\ at' = "acquire" /\ todo' \in {Tail(todo), <<>>}
  /\ UNCHANGED <<slots, board, platform>>

\* Configuration fails, and the next pin is tried, or the view has no row
\* left, and no more pins are.
DropPin ==
  /\ at = "configure"
  /\ Release(Last(pins), Toolbox) /\ pins' = Front(pins)
  /\ at' = "acquire" /\ todo' \in {Tail(todo), <<>>}
  /\ UNCHANGED <<board, platform>>

ToolboxStarted ==
  /\ at = "acquire" /\ todo = <<>>
  /\ at' = "running"
  /\ UNCHANGED <<slots, board, platform, todo, pins>>

ToolboxStop ==
  /\ at = "running"
  /\ at' = "stopping"
  /\ UNCHANGED <<slots, board, platform, todo, pins>>

ReleasePin ==
  /\ at = "stopping" /\ pins # <<>>
  /\ Release(Head(pins), Toolbox) /\ pins' = Tail(pins)
  /\ UNCHANGED <<board, platform, at, todo>>

ToolboxStopped ==
  /\ at = "stopping" /\ pins = <<>>
  /\ at' = "stopped"
  /\ UNCHANGED <<slots, board, platform, todo, pins>>

-----------------------------------------------------------------------------
(* Expansion code, between two calls of the toolbox. *)

ExpansionAcquire ==
  /\ platform = "on" /\ at \in {"stopped", "running"}
  /\ \E k \in Keys, o \in Expansions, m \in Modes : Reserve(k, o, m)
  /\ UNCHANGED <<board, platform, at, todo, pins>>

ExpansionRelease ==
  /\ platform = "on" /\ at \in {"stopped", "running"}
  /\ \E k \in Keys, o \in Expansions : Release(k, o)
  /\ UNCHANGED <<board, platform, at, todo, pins>>

ToolboxNext ==
  \/ PlatformStart \/ ReserveFixed \/ PlatformStarted \/ PlatformFails \/ PlatformStop
  \/ ToolboxStart \/ AcquirePin \/ SkipPin \/ PinReady \/ DropPin
  \/ ToolboxStarted \/ ToolboxStop \/ ReleasePin \/ ToolboxStopped
  \/ ExpansionAcquire \/ ExpansionRelease

ToolboxSpec == ToolboxInit /\ [][ToolboxNext]_toolboxVars

-----------------------------------------------------------------------------
(* Properties *)

(***************************************************************************)
(* "Direct GPIO access to a pin already committed to a fixed bus is        *)
(* rejected" (docs/architecture.md).  At every point of the toolbox's      *)
(* start and stop, the pins it lists are the pins it has leased, each      *)
(* once, exclusively and alone, and none is committed by the board.        *)
(***************************************************************************)
ToolboxOwnsItsPins ==
  /\ ToSet(pins) = {k \in Keys : HeldBy(k, Toolbox)}
  /\ \A k \in ToSet(pins) :
       /\ ModeOf(k) = "exclusive"
       /\ RefsOf(k) = [Nothing EXCEPT ![Toolbox] = 1]
  /\ platform = "on" =>
       \A i \in DOMAIN FixedResourcePlan :
         HeldBy(FixedResourcePlan[i].key, System)
=============================================================================
