CONSTANTS
  Conns = {w1, w2, w3}
  Ids = {i1, i2, i3, i4}
  NoConn = NoConn
  NoId = NoId
  Nil = Nil
  deadQueueSize = 2
  sendQueueSize = 1
  MaxEvents = 2
  MaxFaults = 2
SPECIFICATION Spec
SYMMETRY MCSymmetry
INVARIANTS
  NothingLeftBehind
  IndexSound
PROPERTY ImplementsEventStream
CHECK_DEADLOCK FALSE
