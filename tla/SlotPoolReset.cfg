SPECIFICATION PoolSpec
CONSTANTS
  MAX_REQUEST_COUNT = 3
  Msgs = {m1, m2, m3}
  NoMsg = NoMsg
  NULL = NULL
  ResetDuringExt = TRUE
INVARIANT
  TakenSlotIsFree
