CONSTANTS
  quote = quote
  charge = charge
  s1 = s1
  Requests <- MCRequests
  SidOf <- MCSidOf
  TypeOf <- MCTypeOf
  None = None
  Broken = Broken
  LastArrival = 1
  Sids <- MCSids
  Clients = {c1}
  TimerIds = {t1}
  NullTimer = NullTimer
  Uninit = Uninit
  ResponseTimeout = 1
  SessionTimeout = 2
  BatchSize = 2
  MaxTime = 2
  MaxCreated = 4
SPECIFICATION FairSpec
INVARIANTS DroppedOnlyAtStart AcceptedIsKept
PROPERTY Settles
CHECK_DEADLOCK FALSE
