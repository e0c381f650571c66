CONSTANTS
  p1 = p1
  p2 = p2
  Producers = {a, b}
  Clients = {a, b}
  Packets <- MCPackets
  Size <- MCSize
  Sockets = {h1, h2}
  None = None
  MaxQueueSize = 2
  MaxSends = 3
SPECIFICATION FairSpec
INVARIANTS NoLostWakeup OverloadReportedOnce
PROPERTIES ImplementsStream AllWritten
CHECK_DEADLOCK FALSE
