SPECIFICATION Spec
CONSTANTS
  StreamIds = {0}
  IsServer = FALSE
  WriteSizes = {1}
  MaxBytes = 2
  MaxRx = 2
  MaxCredit = 1
  MaxCwnd = 2
  Env = {"fatal", "stop", "reset", "close"}
  MaxDatagrams = 3
INVARIANTS TypeOK Conservation StreamKnown NoLostWakeup PartialFlushed ReadableHonest
PROPERTIES FinCarriesAll ImplementsSendSide
CHECK_DEADLOCK FALSE
