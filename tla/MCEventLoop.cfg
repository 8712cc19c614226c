SPECIFICATION Spec
CONSTANTS
  Clients = {c1, c2, c3}
  Fds <- TwoFds
  Listen = Listen
  Kinds = {"ok", "bad"}
  Faults = {"eof", "reset", "accept", "add", "idle"}
  MaxReqs = 1
  ReadMax = 3
  RxCap = 1
  MaxEvents = 2
  None = None
SYMMETRY ClientSymmetry
INVARIANTS TypeOK InterestInSync AssertsHold IdleListIsConns EventForItsConn
CHECK_DEADLOCK FALSE
