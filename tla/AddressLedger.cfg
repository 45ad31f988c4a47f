CONSTANTS
  Tx <- MCTx
  Outpoint <- MCOutpoint
  Address <- MCAddress
  NoAddress = "nobody"
  Outputs <- MCOutputs
  Inputs <- MCInputs
  Owner <- MCOwner
  Hash = {h1, h2}
  MaxHeight = 3
SPECIFICATION Spec
INVARIANTS TypeOK HistoryCoversLedger HashPerHeight
PROPERTY RecoversEveryVersion
