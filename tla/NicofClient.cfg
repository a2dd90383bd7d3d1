SPECIFICATION ClientFairSpec
CONSTANTS
  Tags = {t1}
  NO_FILTER = NO_FILTER
  INIT_REQ_COUNT = 1
  MaxRequests = 3
  MaxMsgId = 13
INVARIANTS
  ClientTypeOK
  PendingIsOutstanding
  NoLostWakeup
PROPERTY
  WaitEnds
CHECK_DEADLOCK FALSE
