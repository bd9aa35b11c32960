CONSTANTS
  Conns = {w1, w2}
  Ids = {i1, i2, i3, i4}
  NoConn = NoConn
  NoId = NoId
  Nil = Nil
  deadQueueSize = 2
  sendQueueSize = 2
  MaxEvents = 3
  MaxFaults = 3
SPECIFICATION Spec
SYMMETRY MCSymmetry
INVARIANT IndexReleased
CHECK_DEADLOCK FALSE
