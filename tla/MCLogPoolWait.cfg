CONSTANTS
  Threads = {a, b}
  Messages = {m1}
  Null = Null
  MAX_LOGLVL = 2
  commonLogLevel = 0
  separateLogLevel = 1
  isLogInCommonFile = TRUE
  logInSeparateFiles = TRUE
  recordCount = 1
  MaxFile = 3
  MaxRecords = 1
SPECIFICATION Spec
SYMMETRY Symmetry
INVARIANT NobodyWaits
CHECK_DEADLOCK FALSE
