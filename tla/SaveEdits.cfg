SPECIFICATION Spec
CONSTANTS
  Capacity = 4
  Disks <- MCEdited
  Zekylls = {1, 2, 3, 4, 6}
  Labels = {0, 1}
  Sizes <- MCGrow
  MaxSaves = 1
  Slow = {}
  ToolFails = TRUE
  Early = FALSE
INVARIANTS
  TypeOK
  CleanTableIsSaved
  OnlyUnstartedIsSilent
PROPERTIES
  NothingElseVanishes
CHECK_DEADLOCK FALSE
