SPECIFICATION RuntimeSpec
CONSTANTS
  settings_id = settings_id
  assets_id = assets_id
  diagnostics_id = diagnostics_id
  network_id = network_id
  home = home
  office = office
  Services <- MCServices
  Criticals <- MCCriticals
  Capacity = 4
  Networks <- MCNetworks
  NoValue = NoValue
  MailboxCapacity = 2
  MaxPosts = 3
  SameCore = FALSE
  SettingsId = settings_id
  NetworkId = network_id
  Catalogs <- MCCatalogs
INVARIANTS
  StopReachesRunning
  HealthIsHonest
  WifiPairWhole
  EventsInOrder
PROPERTY
  SavesMeetOpenStore
