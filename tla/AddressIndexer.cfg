CONSTANTS
  Tx <- MCTx
  Outpoint <- MCOutpoint
  Address <- MCAddress
  NoAddress = "nobody"
  Outputs <- MCOutputs
  Inputs <- MCInputs
  Owner <- MCOwner
  BlockTxs <- MCBlockTxs
  Tag = {"a", "b"}
  MaxChain = 4
  MaxReorgs = 2
  MaxReorgDepth = 3
  ReorgDepth = 3
  BatchSize = 2
  MaxFaults = 2
SPECIFICATION Spec
INVARIANTS TypeOK PointerInStep UnbrokenLedger
PROPERTIES RollsBackToAncestor FollowsChain
