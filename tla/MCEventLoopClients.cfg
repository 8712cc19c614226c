SPECIFICATION Spec
CONSTANTS
  Clients = {c1}
  Fds <- OneFd
  Listen = Listen
  Kinds = {"ok", "bad", "huge"}
  Faults = {"eof", "reset"}
  MaxReqs = 4
  ReadMax = 3
  RxCap = 1
  MaxEvents = 3
  None = None
INVARIANTS ResponsesInOrder OutgoingBounded
PROPERTIES Answered BadOnesClosed
CHECK_DEADLOCK FALSE
