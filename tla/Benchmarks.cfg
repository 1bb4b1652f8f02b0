SPECIFICATION Spec
CONSTANTS
  Reps = 2
  Exported = {FALSE, TRUE}
INVARIANTS
  LeavesAsFound
  MeasuredAsLabelled
CHECK_DEADLOCK FALSE
