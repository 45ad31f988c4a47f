CONSTANTS
  Snapshot = {s1, s2}
  Absent = Absent
  Height <- MCHeight
  HeightRange <- MCRange
  Recipients <- MCRecipients
  Registered <- MCRegistered
  SettableStatus = {"draft", "rejected"}
  SettableEntry = {}
  MaxReorgs = 0
  MaxFaults = 2
  MaxCrashes = 0
SPECIFICATION Spec
INVARIANTS TypeOK NoOrphanRows TotalsMatch CoversRange
PROPERTY AdminStatusStands
SYMMETRY Symmetry
CHECK_DEADLOCK FALSE
