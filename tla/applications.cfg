SPECIFICATION ApplicationsSpec
CONSTANTS
  recorder = recorder
  notes = notes
  hardware = hardware
  lua1 = lua1
  lua2 = lua2
  Apps <- MCApps
  NoApp = NoApp
  Capacity = 5
  MaxJobs = 2
  RecorderId = recorder
  NotesId = notes
  HardwareId = hardware
  External <- MCExternal
  MaxButtons = 1
  Capture = 2
  Texts <- MCTexts
  Presets <- MCPresets
INVARIANTS
  PendingIsUnderway
  PlayedIsOneClip
  WidgetsHaveLiveOwner
  RegisteredAreCreated
  DisabledMotorRests
PROPERTY
  WorkerOwnsData
