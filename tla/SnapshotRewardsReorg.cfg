CONSTANTS
  Snapshot = {s1}
  Absent = Absent
  Height <- MCHeight
  HeightRange <- MCRange
  Recipients <- MCRecipients
  Registered <- MCRegistered
  SettableStatus = {}
  SettableEntry = {}
  MaxReorgs = 1
  MaxFaults = 0
  MaxCrashes = 0
SPECIFICATION Spec
INVARIANTS CoversRange
CHECK_DEADLOCK FALSE
