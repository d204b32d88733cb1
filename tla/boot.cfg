SPECIFICATION FirmwareSpec
CONSTANTS
  Plan <- BootPlan
  HasSession = FALSE
  AreaRows <- MCAreaRows
  StagingRows = 2
  QueueDepth = 2
  fast = fast
  slow = slow
  NotWired = NotWired
  Configurations <- MCConfigurations
  StorageDrivers <- MCStorageDrivers
  RetrySamples = 1
INVARIANTS
  PlanSafe
  HardwareFollowsBoot
  DmaReadsStillBuffer
PROPERTIES
  DevicesOutliveUsers
SYMMETRY MCSymmetry
