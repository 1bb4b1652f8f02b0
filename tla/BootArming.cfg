SPECIFICATION FairBootSpec
CONSTANTS
  Vcpus = {v1}
  RetCapture = TRUE
  Faults = {}
  MaxAttempts = 3
  Worlds <- AllWorlds
INVARIANTS
  BootTypeOK
  SafeUntilOverlap
  BootSyncHolds
PROPERTIES
  PollingEnds
CHECK_DEADLOCK FALSE
