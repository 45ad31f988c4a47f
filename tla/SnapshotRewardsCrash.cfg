CONSTANTS
  Snapshot = {s1}
  Absent = Absent
  Height <- MCHeight
  HeightRange <- MCRange
  Recipients <- MCRecipients
  Registered <- MCRegistered
  SettableStatus = {"draft", "generated", "rejected"}
  SettableEntry = {"paid"}
  MaxReorgs = 1
  MaxFaults = 1
  MaxCrashes = 1
SPECIFICATION Spec
PROPERTIES UnbrokenDraftEnds
CHECK_DEADLOCK FALSE
