CONSTANTS
  Start = 1
  Tip = 3
  Limit = 2
  HeaderBuffer = 1
  MayCancel = TRUE
SPECIFICATION Spec
INVARIANT CancellationIsClean
CHECK_DEADLOCK FALSE
