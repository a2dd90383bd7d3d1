SPECIFICATION StreamsSpec
CONSTANTS
  STREAM_BUFFER_LEN = 2
  Programs <- MCPrograms
  LF = LF
  CR = CR
  Platforms = {3}
  FirstIds <- MCApartIds
  MaxStreams = 3
  MaxReads = 4
  MaxWritten = 3
  MaxFailures = 1
INVARIANTS
  ReadIsPrefix
CHECK_DEADLOCK FALSE
