CONSTANTS
  Tx <- MCTx
  Outpoint <- MCOutpoint
  Address <- MCAddress
  NoAddress = "nobody"
  Outputs <- MCOutputs
  Inputs <- MCInputs
  Owner <- MCOwner
  BlockTxs <- MCBlockTxs
  Tag = {"a", "b"}
  MaxChain = 3
  MaxReorgs = 2
  MaxReorgDepth = 2
  ReorgDepth = 4
  BatchSize = 2
  MaxFaults = 0
SPECIFICATION Spec
INVARIANT LedgerMatchesHashes
