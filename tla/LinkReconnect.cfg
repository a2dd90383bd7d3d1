SPECIFICATION LossySpec
CONSTANTS
  MAX_REQUEST_COUNT = 3
  Msgs = {m1, m2}
  NoMsg = NoMsg
  NULL = NULL
  ResetDuringExt = FALSE
  MaxCoalesce = 1
  DevInterruptsExt = FALSE
  StatRequests = FALSE
  MaxReconnects = 1
  MaxRestarts = 0
PROPERTIES
  SlotNotInUseIsIgnored
CHECK_DEADLOCK FALSE
