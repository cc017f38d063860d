SPECIFICATION Spec
CONSTANTS
  Branches <- MCBranches
  NoBranch = "-"
  Order <- MCOrder
  Master = "master"
  Shared = {"master"}
  MaxCommits = 5
  MaxLiberties = 0
  Liberties = {}
VIEW MCView
INVARIANTS
  ConcludedOnce
CHECK_DEADLOCK FALSE
