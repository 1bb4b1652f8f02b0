SPECIFICATION MonitorSpec
CONSTANTS
  Vcpus = {v1, v2}
  RetCapture = TRUE
  Faults = {}
  Keys = {k1, k2}
  PendingMax = 2
  MaxCalls = 3
INVARIANTS
  LoggedOnce
  DisarmedOnlyInStepOver
CHECK_DEADLOCK FALSE
