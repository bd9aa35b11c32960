SPECIFICATION Spec
CONSTANTS
  j1 = j1  j2 = j2  n1 = n1  n2 = n2
  Jobs = {j1, j2}
  Nodes = {n1, n2}
  NoJob = NoJob
  Kind = "indexing"
  AdminUpdates = {"cancel_requested"}
  MaxBatches = 2
  MaxFaults = 2
INVARIANTS CancellationHolds
SYMMETRY Symmetry
