CONSTANTS
  Name = {n1}
  Item = {"i"}
  Member = {"p", "q"}
  Score <- MCScore
  Keep = 1
  Value = {5}
  Slots = 2
  MaxWrites = 3
  FirstTip = 3
  MaxTip = 5
  BlocksPerBatch = 2
  MaxRuns = 2
  MaxFailures = 2
  FirstRows <- MCFirstRows
  NewKeys = {"e"}
  Chunk = 3
  BatchRows = 2
  Verify = TRUE
  MaxChanges = 2
  MaxStarts = 3
SPECIFICATION Spec
INVARIANTS TypeOK ReadsAgree NothingSkippedUnseen RowsDoneAreCopied
PROPERTY BackgroundWorkEnds
CHECK_DEADLOCK FALSE
