SPECIFICATION FairSpec
CONSTANTS
  FirstStates = {"initial", "handshake"}
  Failures = TRUE
  Codes = {"app"}
  MaxStream = 2
INVARIANTS TypeOK ClosedOnce ByPeerHonest PeriodsNoticed CloseReasonKept
PROPERTIES CloseCompletes ImplementsClose
CHECK_DEADLOCK FALSE
