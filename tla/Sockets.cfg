SPECIFICATION SocketsFairSpec
CONSTANTS
  FD_SETSIZE = 2
  MaxRequests = 3
  MaxObjs = 3
  MaxBytes = 2
  MaxFailures = 1
  MaxLookups = 1
  BufLens = {1, 2}
  Programs <- MCPrograms
  Careful = TRUE
INVARIANTS
  SocketsTypeOK
  ReceivedInOrder
  SentInOrder
  NumbersMatch
  NoLeakedRequest
  OwnResponse
PROPERTIES
  CallReturns
CHECK_DEADLOCK FALSE
