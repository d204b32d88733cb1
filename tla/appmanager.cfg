SPECIFICATION FairSpec
CONSTANTS
  a1 = a1
  a2 = a2
  a3 = a3
  Apps <- MCApps
  NoApp = NoApp
  Capacity = 3
  MaxJobs = 3
INVARIANTS OneApplicationAlive JobsHaveLiveOwner LiveIsRegistered
PROPERTY TransitionEnds
