CONSTANTS
  c1 = c1
  c2 = c2
  k1 = k1
  k2 = k2
  v1 = v1
  Saver = Saver
  Nobody = Nobody
  NoValue = NoValue
  Torn = Torn
  Callers <- MCCallers
  Keys <- MCKeys
  Values <- MCOneValue
  Ops <- MCRoles
  EarlyStops = TRUE
  Persistent = TRUE
SPECIFICATION Spec
INVARIANTS Exclusion LastSaveHasAll
PROPERTY RecoveredIsSaved
CHECK_DEADLOCK FALSE
