SPECIFICATION BootSpec
CONSTANTS
  Vcpus = {v1}
  RetCapture = TRUE
  Faults = {}
  MaxAttempts = 3
  Worlds <- FaultlessWorld
INVARIANTS
  NoNullTimer
CHECK_DEADLOCK FALSE
