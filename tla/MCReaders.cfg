CONSTANTS
  NoHash = NoHash
  Absent = Absent
  Spent = Spent
  NoFile = NoFile
  Torn = Torn
  NoHeight = NoHeight
  TxID <- MCTxID
  Addr <- MCAddr
  Hash <- MCHash
  MaxHeight <- MCMaxHeight
  Chain <- MCChain
  InitialStores <- FreshOrTwo
  FaultKinds <- Cuts
  MaxFaults = 1
  Queries <- AllQueries
  ReadFaults <- LostReplies
  NodeStart = 2
SPECIFICATION ReadersSpec
INVARIANTS
  AnswerBetweenBlocks
  AnswerNeverMixesBlocks
  ReadersInvariant
  HashNotOlderThanHeight
PROPERTY SyncedIsOfOneCopy
CHECK_DEADLOCK FALSE
