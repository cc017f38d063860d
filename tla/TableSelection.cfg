SPECIFICATION Spec
CONSTANTS
  Capacity = 10
  Listing <- MCHoles
  Texts = {}
  Ops = {"click", "zcode"}
INVARIANTS
  SelectionCopiesAgree
PROPERTIES
  VisitKeepsSelection
