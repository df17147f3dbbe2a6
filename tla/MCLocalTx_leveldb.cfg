CONSTANTS
  c1 = c1
  c2 = c2
  c3 = c3
  NoCaller = NoCaller
  Callers <- MCCallers
  N = 2
  TxFaults <- MCAllFaults
SPECIFICATION FairSpec
INVARIANT LocalTxInvariant
PROPERTIES ImplementsTransactions EveryDoReturns
CHECK_DEADLOCK FALSE
