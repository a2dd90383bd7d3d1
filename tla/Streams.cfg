SPECIFICATION StreamsSpec
CONSTANTS
  STREAM_BUFFER_LEN = 2
  Programs <- MCPrograms
  LF = LF
  CR = CR
  Platforms = {2, 3}
  FirstIds <- MCFirstIds
  MaxStreams = 3
  MaxReads = 4
  MaxWritten = 3
  MaxFailures = 1
INVARIANTS
  StreamsTypeOK
  ReadInOrder
  WrittenInOrder
  EofAtEnd
  IdsMatch
  TextInLines
CHECK_DEADLOCK FALSE
