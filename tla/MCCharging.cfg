CONSTANTS
  quote = quote
  charge = charge
  debit = debit
  s1 = s1
  s2 = s2
  Requests <- AllRequests
  SidOf <- MCSidOf
  TypeOf <- MCTypeOf
  None = None
  Broken = Broken
  LastArrival = 1
  Sids <- MCSids
  Clients = {c1}
  TimerIds = {t1, t2}
  NullTimer = NullTimer
  Uninit = Uninit
  ResponseTimeout = 1
  SessionTimeout = 2
  BatchSize = 2
  MaxTime = 2
  MaxCreated = 4
SPECIFICATION Spec
SYMMETRY Symmetry
INVARIANTS SettledOnce Watched AnswerFindsRequest
CHECK_DEADLOCK FALSE
