SPECIFICATION FairSpec
CONSTANTS
  Peers = {"p1", "p2"}
  MaxConns = 2
  MaxEvents = 2
  Failures = TRUE
  Dispatch = {"method", "missing"}
INVARIANTS TypeOK AcceptedOnce CloseFrameReturned
PROPERTIES ClosedLeaves ImplementsAcceptor
CHECK_DEADLOCK FALSE
