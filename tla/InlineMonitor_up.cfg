SPECIFICATION FairMonitorSpec
CONSTANTS
  Vcpus = {v1}
  RetCapture = TRUE
  Faults = {}
  Keys = {k1, k2, k3}
  PendingMax = 2
  MaxCalls = 4
PROPERTIES
  ImplementsPairing
  GuestNotStuck
CHECK_DEADLOCK FALSE
