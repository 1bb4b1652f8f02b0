SPECIFICATION MonitorSpec
CONSTANTS
  Vcpus = {v1}
  RetCapture = FALSE
  Faults = {"insert", "silent"}
  Keys = {k1, k2}
  PendingMax = 1
  MaxCalls = 4
INVARIANTS
  NothingLeaks
  EntryOnlyInOrder
CHECK_DEADLOCK FALSE
