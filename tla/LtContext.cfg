CONSTANTS
  t1 = t1
  t2 = t2
  n1 = n1
  n2 = n2
  None = None
  Threads <- MCThreads
  Names <- MCNames
  MaxCalls = 2
  MaxDeaths = 1
SPECIFICATION FairSpec
INVARIANTS
  HeadersFirst
  NoSilentLoss
  OneWriter
  MutexIsReleased
PROPERTY
  CallsReturn
CHECK_DEADLOCK FALSE
