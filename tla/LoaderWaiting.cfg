SPECIFICATION FairSpec
CONSTANTS
  p1 = p1
  p2 = p2
  NoPath = NoPath
  Paths = {p1, p2}
  Indexes = {1, 2}
  Capacity = 3
  Listing <- MCListing
  Early = {}
  SlowKill = FALSE
  StartFails = FALSE
INVARIANTS
  TypeOK
  RowsAreCurrentListing
  SelectionKept
  IssuesAreCurrent
PROPERTIES
  ListWentWell
  ImplementsAtomicLoader
  EveryRequestAnswered
