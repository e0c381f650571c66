CONSTANTS
  Handles = {h1, h2}
  Requests <- MCRequests
  Threads = {p1, p2}
  None = None
  MaxQueueSize = 1
  MaxId = 2
  MaxRequests = 2
  NullTimer = NullTimer
  Uninit = Uninit
SPECIFICATION Spec
SYMMETRY Symmetry
INVARIANTS TypeOK MustNotEnter ToItsClient UnsentCounted KeptAnswered
CHECK_DEADLOCK FALSE
