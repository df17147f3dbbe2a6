CONSTANTS
  NoHash = NoHash
  Absent = Absent
  Spent = Spent
  NoFile = NoFile
  Torn = Torn
  TxID <- MCTxID
  Addr <- MCAddr
  Hash <- MCHash
  MaxHeight <- MCMaxHeight
  Chain <- MCChain
  InitialStores <- MCStores
  FaultKinds <- MCSafetyFaults
  MaxFaults = 1
SPECIFICATION Spec
INVARIANT CancelledCommitIsRolledBack
CHECK_DEADLOCK FALSE
