SPECIFICATION FairSpec
CONSTANTS
  MaxEvents = 2
INVARIANTS
  BootCaptureTypeOK
  ReadyOnAttach
PROPERTIES
  NamesakeSpared
  EveryGuestRuns
CHECK_DEADLOCK FALSE
