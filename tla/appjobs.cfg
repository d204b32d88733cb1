SPECIFICATION FairSpec
CONSTANTS
  j1 = j1
  j2 = j2
  s1 = s1
  s2 = s2
  Jobs <- MCJobs
  Environments <- MCEnvironments
  QueueLength = 2
  CounterSize = 16
INVARIANTS DrainedBeforeDelete ObjectsOutliveUsers
PROPERTIES QuiesceMeansIdle ImplementsExecutor CallsReturn AcceptedJobRuns
\* a join that times out on a null handle deletes the UI task
CHECK_DEADLOCK FALSE
