CONSTANTS
  Sids = {s1, s2}
  Clients = {c1}
  TimerIds = {t1, t2}
  NullTimer = NullTimer
  Uninit = Uninit
  ResponseTimeout = 1
  SessionTimeout = 2
  BatchSize = 1
  MaxTime = 3
  MaxCreated = 3
SPECIFICATION FairSpec
INVARIANTS TimersLinked TimersConserved DeadlineFollowsTraffic
PROPERTY NoEarlyExpiry
PROPERTIES OverdueExpires NotificationsDelivered
