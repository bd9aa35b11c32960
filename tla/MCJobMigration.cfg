SPECIFICATION FairSpec
CONSTANTS
  j1 = j1  j2 = j2  n1 = n1  n2 = n2
  Jobs = {j1, j2}
  Nodes = {n1, n2}
  NoJob = NoJob
  Kind = "batch"
  AdminUpdates = {}
  MaxBatches = 2
  MaxFaults = 3
INVARIANTS TypeOK OneRunner OneActiveJob SuccessMeansDone RecordedIsDone CompleteMeansDone
PROPERTIES EventuallyFinished
