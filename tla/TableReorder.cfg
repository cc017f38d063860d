SPECIFICATION Spec
CONSTANTS
  Capacity = 4
  Listing <- MCFull
  Texts = {1, 2, 3, 4, 5}
  Ops = {"click", "move", "minus", "edit", "zcode"}
INVARIANTS
  TypeOK
  ListMirrorsTable
  FollowsFutureOrder
