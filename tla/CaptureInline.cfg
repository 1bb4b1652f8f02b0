SPECIFICATION FairSpec
CONSTANTS
  Scripts = {s1, s2}
  MaxLines = 2
  Timed = {s2}
  MayBeQuiet = {s2}
  ShowAfterReady = TRUE
  CtrlC = {"tail"}
INVARIANTS
  CaptureTypeOK
  ShownFaithful
  CountsOwnRun
  NoInstanceLeft
PROPERTIES
  LiveViewCatchesUp
  CaptureEnds
CHECK_DEADLOCK FALSE
