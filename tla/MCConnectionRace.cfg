CONSTANTS
  Threads = {t1, t2}
  None = None
  QueueSize = 2
  MaxFaults = 2
  PromptStop = TRUE
SPECIFICATION Spec
INVARIANT ActiveIsConnected
CHECK_DEADLOCK FALSE
