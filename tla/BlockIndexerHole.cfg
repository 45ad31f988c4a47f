CONSTANTS
  Tag = {a, b}
  Absent = Absent
  MaxChain = 3
  MaxReorgs = 1
  MaxReorgDepth = 1
  ReorgDepth = 3
  BatchSize = 2
  RecentKept = 3
  MaxFaults = 0
  MaxBadWrites = 1
  MaxCrashes = 0
  MaxTroubles = 3
SPECIFICATION Spec
INVARIANT NoHole
