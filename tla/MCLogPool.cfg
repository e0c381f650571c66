CONSTANTS
  Threads = {a, b}
  Messages = {m1, m2}
  Null = Null
  MAX_LOGLVL = 2
  commonLogLevel = 0
  separateLogLevel = 1
  isLogInCommonFile = TRUE
  logInSeparateFiles = TRUE
  recordCount = 1
  MaxFile = 3
  MaxRecords = 2
SPECIFICATION FairSpec
INVARIANTS OneOwner PromisesKept LogInOrder FilesKept NullAfterFailure
PROPERTIES QueuedIsLogged WaitingIsServed
CHECK_DEADLOCK FALSE
