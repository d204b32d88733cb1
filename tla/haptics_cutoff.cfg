SPECIFICATION Spec
CONSTANTS
  Intensities <- MCIntensities
  Durations <- MCDurations
  Kicked <- MCKicked
  KickDuty = 3
  MaxCommands = 4
  Preempted = TRUE
INVARIANT
  SettledIsOff
CHECK_DEADLOCK FALSE
