SPECIFICATION SocketsSpec
CONSTANTS
  FD_SETSIZE = 2
  MaxRequests = 3
  MaxObjs = 3
  MaxBytes = 2
  MaxFailures = 0
  MaxLookups = 0
  BufLens = {1, 2}
  Programs <- SelectPrograms
  Careful = TRUE
INVARIANT
  RemainingIsReadable
CHECK_DEADLOCK FALSE
