CONSTANTS
  Entries = {e1, e2, e3, e4, e5, e6}
  Times = {1, 2, 3}
  None = None
SYMMETRY EntrySymmetry
SPECIFICATION Spec
INVARIANTS TypeOK HeapOrder BackRefs TopIsEarliest
PROPERTY ImplementsTimerQueue
