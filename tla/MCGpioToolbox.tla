---------------------------- MODULE MCGpioToolbox ----------------------------
(* GpioToolbox for TLC: a board whose pins and buses overlap, and one that  *)
(* commits more resources than the broker has slots for.                    *)
EXTENDS GpioToolbox

CONSTANTS led, io1, io2, i2c, bus, system, toolbox, sensor, relay

MCKeys == {led, io1, io2, i2c, bus}
MCExpansions == {sensor, relay}
MCOwners == {system, toolbox} \cup MCExpansions

Request(k, m) == [key |-> k, mode |-> m]
Header(gpio, pins_) == [gpio |-> gpio, pins |-> pins_]

Roomy ==
  [requests |-> <<Request(led, "exclusive"), Request(bus, "shared")>>,
   headers |-> <<Header(TRUE, <<led, io1>>), Header(FALSE, <<bus>>),
                 Header(TRUE, <<io1, io2>>)>>]

\* The display's bus is also the storage's: exclusive wins.  The header has a
\* pin more than the catalog.
Overlapping ==
  [requests |-> <<Request(bus, "shared"), Request(led, "exclusive"),
                  Request(bus, "exclusive"), Request(led, "exclusive")>>,
   headers |-> <<Header(TRUE, <<io1, io2, led, i2c>>)>>]

Crowded ==
  [requests |-> <<Request(led, "exclusive"), Request(io1, "exclusive"),
                  Request(io2, "exclusive"), Request(bus, "shared"),
                  Request(i2c, "shared")>>,
   headers |-> <<>>]

MCBoards == {Roomy, Overlapping, Crowded}
=============================================================================
