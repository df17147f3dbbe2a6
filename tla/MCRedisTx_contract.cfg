CONSTANTS
  N = 4
  TxFaults <- MCTxFaults
SPECIFICATION FairTxSpec
INVARIANT TxInvariant
PROPERTIES ImplementsTransaction GoroutinesEnd
CHECK_DEADLOCK FALSE
