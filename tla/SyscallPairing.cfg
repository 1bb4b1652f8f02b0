SPECIFICATION Spec
CONSTANTS
  Keys = {k1, k2, k3}
  PendingMax = 2
  MaxCalls = 5
INVARIANTS
  PairCorrect
  NothingLost
  LiveKept
  EvictedOldest
  ShutdownInOrder
PROPERTIES
  ImplementsStraceLog
CHECK_DEADLOCK FALSE
