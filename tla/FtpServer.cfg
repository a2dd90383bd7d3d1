SPECIFICATION FtpFairSpec
CONSTANTS
  Clients <- MCClients
  Names <- MCNames
  disks <- MCDisks
  ftOverrides <- MCOverrides
  reqPwd = TRUE
  autoOverwrite = FALSE
  FD_SETSIZE = 5
  PACKETLEN = 4
  DefaultLrecl = 2
  Scripts <- MCScripts
  Stored <- MCStored
  MaxFailures = 1
INVARIANTS
  FtpTypeOK
  SocketsMatch
  StoredInOrder
PROPERTIES
  ChangesAllowed
  DoneIsComplete
  CommandAnswered
  ServerEnds
CHECK_DEADLOCK FALSE
