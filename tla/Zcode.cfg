SPECIFICATION Spec
CONSTANTS
  Sizes <- MCSizes
  Boxes = {1, 25}
  Values <- MCValues
  Sites = {1, 3}
  Known <- MCKnown
  Texts <- MCTexts
VIEW MCView
INVARIANTS
  TypeOK
  TextIsTheNumber
PROPERTIES
  VisitKeepsAll
  EntryObeyed
  EnteredTextStands
