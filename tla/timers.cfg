SPECIFICATION FairSpec
CONSTANTS
  Rows = 2
  MS = 2
  Apis = {"timeout", "expiry"}
  MaxTime = 7
  MaxLag = 2
INVARIANT TypeOK
PROPERTIES NeverLate NotTooEarly TimerHandled
CHECK_DEADLOCK FALSE
