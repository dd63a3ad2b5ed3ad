SPECIFICATION FairSpec
CONSTANTS
  StreamIds = {3, 7}
  IsServer = TRUE
  WriteSizes = {1}
  MaxBytes = 1
  MaxRx = 0
  MaxCredit = 1
  MaxCwnd = 1
  Env = {"stop", "reset"}
  MaxDatagrams = 2
INVARIANT NextIdAbove
PROPERTIES OpenedStaysOpen DrainTerminates
CHECK_DEADLOCK FALSE
