CONSTANTS
  l1 = l1
  l2 = l2
  None = None
  Logs <- MCLogs
  Recognized <- MCRecognizedCut
  Valid <- MCLogs
  Conns <- MCConns
  Ticks = {1, 2}
  NameLen = 2
  SolLen = 3
  KeyLen = 2
  MacLen = 2
  DataLen = 3
  BufLen = 3
  MaxReads = 2
  FreshTicks = TRUE
SPECIFICATION FairSpec
INVARIANTS
  NoLogLost
  OnlyKnownStored
  RetryNeverSaves
  AtMostTwoTransmissions
PROPERTIES
  SessionsEnd
  KnownLogsDelivered
  ImplementsDelivery
CHECK_DEADLOCK FALSE
