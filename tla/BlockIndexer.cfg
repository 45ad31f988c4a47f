CONSTANTS
  Tag = {a, b}
  Absent = Absent
  MaxChain = 3
  MaxReorgs = 1
  MaxReorgDepth = 2
  ReorgDepth = 3
  BatchSize = 2
  RecentKept = 2
  MaxFaults = 1
  MaxBadWrites = 1
  MaxCrashes = 1
  MaxTroubles = 1
SPECIFICATION Spec
INVARIANTS TypeOK UnbrokenNoHole BodyBehindHash
PROPERTIES PointerMovesOverStored FollowsChain ListsNoOrphan
CHECK_DEADLOCK FALSE
