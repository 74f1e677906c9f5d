SPECIFICATION SceneSpec
CONSTANTS
  Txs = {tx1, sys1}
  SysTxs = {sys1}
  MaxNumber = 2
  BlockSizes = {1}
  MarkFailures = 1
  SizeMod = 16
  ConsensusRefuses = FALSE
  ViewChanges = TRUE
CHECK_DEADLOCK FALSE
INVARIANTS
  TypeOK
  SealedAccounted
  SealedOnce
PROPERTIES
  WaitIsRespected
  FetchedTxsLeave
