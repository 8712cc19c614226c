SPECIFICATION Spec
CONSTANTS
  Clients = {c1}
  Fds <- OneFd
  Listen = Listen
  Kinds = {"ok"}
  Faults = {"eof", "reset"}
  MaxReqs = 2
  ReadMax = 3
  RxCap = 1
  MaxEvents = 2
  None = None
INVARIANT WriteErrorClosesConn
CHECK_DEADLOCK FALSE
