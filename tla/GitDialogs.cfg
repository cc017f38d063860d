SPECIFICATION Spec
CONSTANTS
  Branches <- MCBranches
  NoBranch = "-"
  Order <- MCOrder
  Master = "master"
  Shared = {"master"}
  MaxCommits = 4
  MaxLiberties = 1
  Liberties = {"outside", "nested", "switched", "again", "covered", "elsewhere"}
VIEW MCView
INVARIANTS
  TypeOK
  NothingMergedAway
  NothingSmuggledIn
  ConflictsBelongToAMerge
  HaltsOnlyWhenNested
PROPERTIES
  BranchesOnlyAdvance
  CommitsAreOnTop
  MergesWhatIsShown
CHECK_DEADLOCK FALSE
