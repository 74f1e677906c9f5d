SPECIFICATION Spec
CONSTANTS
  Txs = {tx1, sys1}
  SysTxs = {sys1}
  MaxNumber = 2
  BlockSizes = {1}
  MarkFailures = 0
  SizeMod = 16
  ConsensusRefuses = FALSE
  ViewChanges = FALSE
CHECK_DEADLOCK FALSE
PROPERTIES
  SysBlockIsBarrier
