SPECIFICATION FairSpec
CONSTANTS
  FirstStates = {"initial", "handshake"}
  Failures = FALSE
  Codes = {"app"}
  MaxStream = 2
PROPERTY IdleCloses
CHECK_DEADLOCK FALSE
