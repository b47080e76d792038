CONSTANTS
  a1 = a1
  a2 = a2
  s1 = s1
  s2 = s2
  Apps <- MCApps
  Unsendable <- MCUnsendable
  Sessions <- MCSessions
  MaxFaults = 1
SPECIFICATION Spec
INVARIANT OneSweeperOfAll
CHECK_DEADLOCK FALSE
