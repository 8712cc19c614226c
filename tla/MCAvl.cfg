SPECIFICATION MCSpec
CONSTANTS
  Nodes <- NodeNumbers
  Sizes <- FewAndMany
  NULL = NULL
INVARIANTS Balanced OneStepOff WalksRight
PROPERTY ImplementsNodeOrder
