CONSTANTS
  Start = 0
  Tip = 3
  Limit = 2
  HeaderBuffer = 1
  MayCancel = TRUE
  Empty = Empty
  Answers <- MCAllAnswers
SPECIFICATION NodeSpec
INVARIANT NothingSentPastEmpty
PROPERTY ImplementsStream
CHECK_DEADLOCK FALSE
