CONSTANTS
  LENGTH_CHUNK_SIZE = 2
  BufferSize = 6
  ReceiveSize = 9
  StreamEnd = 22
  Starts <- MCStarts
  WordAt <- MCWordAt
  Garbage = 1
  Unknown = Unknown
  CleanBreak = TRUE
SPECIFICATION FormerSpec
INVARIANT NothingWithheld
PROPERTY HandsOutNext
CHECK_DEADLOCK FALSE
