SPECIFICATION Spec
CONSTANTS
  Capacity = 4
  Disks <- MCLate
  Zekylls = {1, 2, 3}
  Labels = {0, 1}
  Sizes = {3}
  MaxSaves = 2
  Slow = {"resize"}
  ToolFails = TRUE
  Early = TRUE
INVARIANTS
  OnlyUnstartedIsSilent
PROPERTIES
  NothingElseVanishes
CHECK_DEADLOCK FALSE
