CONSTANTS
  NoHash = NoHash
  Absent = Absent
  Spent = Spent
  TxID <- MCTxID
  Addr <- MCAddr
  Hash <- MCHash
  MaxHeight <- MCMaxHeight
  Chain <- MCChain
  TxsAt <- MCTxsAt
  VoutsAt <- MCVoutsAt
  BatchSizes <- TwoOrOne
  FaultKinds <- CrashAndRedis
  MaxFaults = 2
  MaxVersion = 3
SPECIFICATION FairSpec
INVARIANTS
  ServedStoreIsSound
  NewestVersionSound
  ServedHeightNeverFalls
  DealtWithIsStored
PROPERTY GetsToServe
CHECK_DEADLOCK FALSE
