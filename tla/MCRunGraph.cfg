CONSTANTS
  c1 = c1
  c2 = c2
  Calls <- MCCalls
  Attempts = 2
  Txns <- MCTxns
  Keys <- OneKey
  Bounds <- WholeRange
  Values = {v1}
  NoValue = NoValue
  Unread = Unread
  PoolSize = 2
  MaxLog = 1
  MaxReads = 2
SPECIFICATION FairSpec
INVARIANTS
  AppliedAtMostOnce
  ResultTellsApplied
  NoLateCommit
  ConnectionsAccounted
PROPERTIES
  ReadsCurrentAtCommit
  EveryCallReturns
