CONSTANTS
  NoHash = NoHash
  Absent = Absent
  Spent = Spent
  TxID <- MCTxID
  Addr <- MCAddr
  Hash <- MCHash
  MaxHeight <- MCMaxHeight
  Chain <- MCChain
  TxsAt <- MCTxsAt
  VoutsAt <- MCVoutsAt
  BatchSizes <- Two
  FaultKinds <- CrashAndMove
  MaxFaults = 2
  MaxVersion = 2
SPECIFICATION Spec
INVARIANT RecoveredMigrationIsSound
CHECK_DEADLOCK FALSE
