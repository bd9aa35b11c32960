CONSTANTS
  Requests = {r1, r2}
  PageSize = 1
  InitialPosts = 1
  MaxPosts = 3
  MaxLag = 1
SPECIFICATION Spec
SYMMETRY Symmetry
INVARIANTS
  TypeOK
  NoSilentGap
PROPERTIES
  OrderKept
  PageOpensNoGap
  PostsKept
CHECK_DEADLOCK FALSE
