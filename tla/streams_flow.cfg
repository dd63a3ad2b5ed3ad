SPECIFICATION FlowSpec
CONSTANTS
  StreamIds = {0, 3}
  IsServer = TRUE
  WriteSizes = {1}
  MaxBytes = 1
  MaxRx = 0
  MaxCredit = 1
  MaxCwnd = 1
  Env = {}
  MaxDatagrams = 2
PROPERTY BytesLeave
CHECK_DEADLOCK FALSE
