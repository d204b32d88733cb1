SPECIFICATION ToolboxSpec
CONSTANTS
  led = led
  io1 = io1
  io2 = io2
  i2c = i2c
  bus = bus
  system = system
  toolbox = toolbox
  sensor = sensor
  relay = relay
  Keys <- MCKeys
  Owners <- MCOwners
  System = system
  Toolbox = toolbox
  Expansions <- MCExpansions
  Boards <- MCBoards
  MaxReservations = 5
  MaxCandidates = 3
  MaxResources = 4
  MaxOwners = 2
  MaxReferences = 2
INVARIANT
  ToolboxOwnsItsPins
PROPERTY
  ImplementsLeases
