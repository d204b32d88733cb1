------------------------------- MODULE I2cBus -------------------------------
(***************************************************************************)
(* hal::EspI2cBus and its I2cLeaseTable, with the two devices that share a *)
(* port: the touch controller and the codec of the audio.  A port has one  *)
(* configuration (pins and clock) and counts its holders; the first one    *)
(* installs the driver and the last one deletes it.                        *)
(***************************************************************************)
EXTENDS Naturals, FiniteSets

CONSTANTS Configurations,  \* pins and clock
          NotWired         \* a device that needs no I2C, or another port

ASSUME WiringAssumption == NotWired \notin Configurations

BusDevices == {"touch", "codec"}

VARIABLES
  wiring,   \* what the board's devices ask of the port
  bus       \* port: references, configuration and whether the driver is
            \* installed; acquired: i2c_acquired_ and acquired_ of the devices

busVars == <<wiring, bus>>

Unused == [references |-> 0, configuration |-> NotWired, driver |-> FALSE]

BusInit ==
  /\ wiring \in [BusDevices -> Configurations \cup {NotWired}]
  /\ bus = [port |-> Unused, acquired |-> {}]

\* I2cLeaseTable::acquire
MayLease(port, configuration) ==
  port.references = 0 \/ port.configuration = configuration

Leased(port, configuration) ==
  [references |-> port.references + 1, configuration |-> configuration, driver |-> TRUE]

\* I2cLeaseTable::release
Returned(port) ==
  IF port.references <= 1 THEN Unused ELSE [port EXCEPT !.references = @ - 1]

Acquired(b, d) ==
  [port |-> Leased(b.port, wiring[d]), acquired |-> b.acquired \cup {d}]

\* Mutant: a stop looks at no flag.
ReleasedTwice(b, d) ==
  [port |-> Returned(b.port), acquired |-> b.acquired \ {d}]

\* stop of a device, which may be called again
Released(b, d) ==
  IF d \in b.acquired
  THEN [port |-> Returned(b.port), acquired |-> b.acquired \ {d}]
  ELSE b

DeviceStarts(d) ==
  /\ wiring[d] # NotWired => MayLease(bus.port, wiring[d])
  /\ bus' = IF wiring[d] = NotWired THEN bus ELSE Acquired(bus, d)
  /\ UNCHANGED wiring

\* Refused, or no driver, or no answer of the device; it stops itself, and the
\* startup step stops it again.
DeviceFails(d) ==
  LET begun == IF wiring[d] = NotWired \/ ~MayLease(bus.port, wiring[d])
               THEN {bus} ELSE {bus, Acquired(bus, d)}
  IN /\ bus' \in {Released(Released(b, d), d) : b \in begun}
     /\ UNCHANGED wiring

DeviceStops(d) == bus' = Released(bus, d) /\ UNCHANGED wiring

-----------------------------------------------------------------------------
\* Every reference is that of a device, and the driver is there while it is used.
BusFollows(devices) ==
  /\ bus.acquired = {d \in devices : wiring[d] # NotWired}
  /\ bus.port.references = Cardinality(bus.acquired)
  /\ bus.port.driver <=> bus.acquired # {}
=============================================================================
