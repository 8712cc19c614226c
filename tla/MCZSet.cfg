SPECIFICATION Spec
CONSTANTS
  Names <- NameNumbers
  Scores <- ScoreNumbers
  Offsets <- MCOffsets
  Limits <- MCLimits
  None = None
INVARIANT IndicesAgree
PROPERTY ImplementsSortedSet
