CONSTANTS
  Conns = {c1}
  Entries = {e1}
  Ttls <- MCLongTtls
  IdleTimeout = 2
  MaxWorks = 1
  Half = 8
  MaxEvents = 1
  MaxNow = 4
  None = None
SPECIFICATION Spec
INVARIANT NoTimeoutNoTimers
