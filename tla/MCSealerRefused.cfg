SPECIFICATION Spec
CONSTANTS
  Txs = {tx1}
  SysTxs = {}
  MaxNumber = 2
  BlockSizes = {1}
  MarkFailures = 0
  SizeMod = 16
  ConsensusRefuses = TRUE
  ViewChanges = FALSE
CHECK_DEADLOCK FALSE
INVARIANTS
  SealedAccounted
