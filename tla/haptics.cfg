SPECIFICATION FairSpec
CONSTANTS
  Intensities <- MCIntensities
  Durations <- MCDurations
  Kicked <- MCKicked
  KickDuty = 3
  MaxCommands = 4
  Preempted = FALSE
INVARIANTS
  OffHolds
  RunsLatestCommand
PROPERTY
  MotorStops
CHECK_DEADLOCK FALSE
