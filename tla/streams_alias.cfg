SPECIFICATION Spec
CONSTANTS
  StreamIds = {0, 4}
  IsServer = FALSE
  WriteSizes = {1}
  MaxBytes = 1
  MaxRx = 0
  MaxCredit = 1
  MaxCwnd = 1
  Env = {}
  MaxDatagrams = 2
PROPERTY FreshStreamPerOpen
CHECK_DEADLOCK FALSE
