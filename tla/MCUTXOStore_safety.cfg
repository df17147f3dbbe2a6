CONSTANTS
  NoHash = NoHash
  Absent = Absent
  Spent = Spent
  NoFile = NoFile
  Torn = Torn
  TxID <- MCTxID
  Addr <- MCAddr
  Hash <- MCHash
  MaxHeight <- MCMaxHeight
  Chain <- MCChain
  InitialStores <- MCStores
  FaultKinds <- MCSafetyFaults
  MaxFaults = 2
SPECIFICATION FairSpec
INVARIANTS
  TypeOK
  ConsistentStoreServesTheChain
  NeverStrandedMidBlock
  StoreInvariant
  SettledInvariant
  NextBlockAccepted
  StartDecides
  FirstBlockNeverRolledBack
PROPERTIES ImplementsLedger AllBlocksStored
CHECK_DEADLOCK FALSE
