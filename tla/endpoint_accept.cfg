SPECIFICATION Spec
CONSTANTS
  Peers = {"p1", "p2"}
  MaxConns = 2
  MaxEvents = 2
  Failures = FALSE
  Dispatch = {"missing"}
INVARIANT InitialsAccepted
CHECK_DEADLOCK FALSE
