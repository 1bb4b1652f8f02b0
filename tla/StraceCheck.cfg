SPECIFICATION CheckSpec
CONSTANTS
  Threads = {t1, t2}
  CallNames = {"read", "write", "rseq"}
  VmiName <- MCVmiName
  MaxCalls = 4
  MaxNoise = 1
INVARIANTS
  CaptureConfirmed
  OnlyUnreturned
CHECK_DEADLOCK FALSE
