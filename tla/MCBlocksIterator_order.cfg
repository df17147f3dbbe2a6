CONSTANTS
  Start = 1
  Tip = 4
  Limit = 2
  HeaderBuffer = 1
  MayCancel = TRUE
SPECIFICATION FairSpec
INVARIANTS
  DeliveredInOrder
  NothingLeftBehind
  IteratorInvariant
PROPERTIES
  ImplementsStream
  AllBlocksHandled
  ScannerStops
CHECK_DEADLOCK FALSE
