SPECIFICATION FairSpec
CONSTANTS
  MaxRetries = 2
  MaxEvents = 3
  Timings <- MCTimings
INVARIANTS
  ServerIsHeldOnce
  StoppedIsQuiet
  SavesInsideSession
  PolicyAgreesWithRadio
PROPERTIES
  ConnectingResolves
  CallsReturn
