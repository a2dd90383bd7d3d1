SPECIFICATION PoolSpec
CONSTANTS
  MAX_REQUEST_COUNT = 5
  Msgs = {m1, m2, m3, m4, m5}
  NoMsg = NoMsg
  NULL = NULL
  ResetDuringExt = FALSE
INVARIANTS
  PoolTypeOK
  OneOwner
  TakenSlotIsFree
  SlotCarriesPendingMsg
  NoMessageForgotten
PROPERTY
  RejectOnlyWhenExhausted
SYMMETRY MsgSymmetry
