SPECIFICATION Spec
CONSTANTS
  StreamIds = {0}
  IsServer = FALSE
  WriteSizes = {1}
  MaxBytes = 1
  MaxRx = 1
  MaxCredit = 1
  MaxCwnd = 1
  Env = {}
  MaxDatagrams = 2
INVARIANT FinSentHonest
CHECK_DEADLOCK FALSE
