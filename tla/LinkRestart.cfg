SPECIFICATION FairSpec
CONSTANTS
  MAX_REQUEST_COUNT = 3
  Msgs = {m1, m2}
  NoMsg = NoMsg
  NULL = NULL
  ResetDuringExt = FALSE
  MaxCoalesce = 1
  DevInterruptsExt = FALSE
  StatRequests = FALSE
  MaxReconnects = 0
  MaxRestarts = 1
INVARIANTS
  TypeOK
  NoDuplicateSlotUsage
PROPERTIES
  PoolRefined
  ReplyAnswersItsRequest
  RequestLeavesQueue
  LineComesUp
CHECK_DEADLOCK FALSE
