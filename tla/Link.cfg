SPECIFICATION Spec
CONSTANTS
  MAX_REQUEST_COUNT = 4
  Msgs = {m1, m2, m3}
  NoMsg = NoMsg
  NULL = NULL
  ResetDuringExt = FALSE
  MaxCoalesce = 2
  DevInterruptsExt = TRUE
  StatRequests = TRUE
  MaxReconnects = 0
  MaxRestarts = 0
INVARIANTS
  NoDuplicateSlotUsage
  NoNullTransmit
PROPERTIES
  PoolRefined
  ReplyAnswersItsRequest
CONSTRAINT FewWhenOvertaken
CHECK_DEADLOCK FALSE
SYMMETRY MsgSymmetry
