SPECIFICATION FairSpec
CONSTANTS
  Nodes = {n1, n2}
  Objects = {1, 2}
  Procs = {n1, n2, 1, 2}
  Nobody = Nobody
  Abandoned = Abandoned
  Broken = Broken
  NoObject = NoObject
  NoTime = NoTime
  MaxFails = 1
  MaxTime = 2
  MaxCalls = 2
  MaxFaults = 1
INVARIANTS TypeOK RunsBounded TrackedJobsRun
PROPERTIES CanceledNeverRuns RemovedForCause AlwaysUnlocked EventuallyRun
CHECK_DEADLOCK FALSE
