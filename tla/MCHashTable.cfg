SPECIFICATION Spec
CONSTANTS
  Nodes <- NodeNumbers
  hcode <- Hashes
  InitSlots = 2
  MaxLoad = 1
  Work = 1
  None = None
INVARIANTS TypeOK InItsSlot LeftAreAhead NeverOverdue
PROPERTY ImplementsNodeSet
