CONSTANTS
  l1 = l1
  l2 = l2
  None = None
  Logs <- MCLogs
  Recognized <- MCRecognizedAll
  Valid <- MCLogs
  Conns <- MCConns
  Ticks = {1, 2}
  NameLen = 2
  SolLen = 3
  KeyLen = 2
  MacLen = 2
  DataLen = 3
  BufLen = 3
  MaxReads = 2
  FreshTicks = FALSE
SPECIFICATION Spec
INVARIANT NoLogLost
CHECK_DEADLOCK FALSE
