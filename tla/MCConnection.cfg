CONSTANTS
  Threads = {t1, t2}
  None = None
  QueueSize = 2
  MaxFaults = 3
  PromptStop = TRUE
SPECIFICATION FairSpec
INVARIANTS SocketsOwned StartedMeansAnswered
PROPERTY Recovers
