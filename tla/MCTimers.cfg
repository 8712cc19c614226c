CONSTANTS
  Conns = {c1, c2}
  Entries = {e1, e2, e3}
  Ttls <- MCTtls
  IdleTimeout = 1
  MaxWorks = 1
  Half = 128
  MaxEvents = 1
  MaxNow = 3
  None = None
SPECIFICATION Spec
INVARIANTS IdleListOrdered PassComplete WakesInTime
PROPERTIES IdleConnsClose ExpiredKeysGo
