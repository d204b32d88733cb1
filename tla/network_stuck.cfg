SPECIFICATION Spec
CONSTANTS
  MaxRetries = 1
  MaxEvents = 2
  Timings <- MCRadioRaces
INVARIANT
  ServerCanRestart
