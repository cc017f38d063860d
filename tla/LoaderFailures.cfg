SPECIFICATION Spec
CONSTANTS
  p1 = p1
  p2 = p2
  NoPath = NoPath
  Paths = {p1}
  Indexes = {1, 2}
  Capacity = 3
  Listing <- MCListing
  Early = {"reload", "select"}
  SlowKill = TRUE
  StartFails = TRUE
INVARIANTS
  PreparedOnlyWhileLoading
