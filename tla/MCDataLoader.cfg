CONSTANTS
  Ids = {a, b, empty}
  Falsy = {empty}
  PolledIds = {a, b}
  Callers = {c1, c2}
  Fetches = {f1, f2}
  MaxBatchSize = 1
SPECIFICATION FairSpec
INVARIANTS
  TypeOK
  TimeoutPending
  NothingLost
PROPERTIES
  ResolvedMeansReceived
  EventuallyResolved
  EventuallyPolled
CHECK_DEADLOCK FALSE
