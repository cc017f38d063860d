SPECIFICATION Spec
CONSTANTS
  Capacity = 4
  Disks <- MCLate
  Zekylls = {1, 2, 3, 6}
  Labels = {0, 1, 2}
  Sizes = {1}
  MaxSaves = 1
  Slow = {}
  ToolFails = FALSE
  Early = FALSE
PROPERTIES
  NothingElseVanishes
CHECK_DEADLOCK FALSE
