CONSTANTS
  Conns = {w1, w2}
  Ids = {i1, i2, i3}
  NoConn = NoConn
  NoId = NoId
  Nil = Nil
  deadQueueSize = 2
  sendQueueSize = 2
  MaxEvents = 3
  MaxFaults = 1
SPECIFICATION FairSpec
INVARIANTS
  TypeOK
  ClientInSequence
PROPERTIES
  ImplementsEventStream
  EventuallyAccounted
CHECK_DEADLOCK FALSE
