CONSTANTS
  Keys = {k1, k2}
  Vals = {v1, v2}
  Names = {n1, n2}
  Entries = {e1, e2, e3}
  Ttls <- MCTtls
  MaxNow = 2
  LargeSize = 1
  MaxWorks = 1
  None = None
SYMMETRY KeyspaceSymmetry
SPECIFICATION Spec
INVARIANTS OneOwner TimersOwned
PROPERTY ImplementsKeyValueStore
