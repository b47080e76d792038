CONSTANTS
  l1 = l1
  l2 = l2
  l3 = l3
  l4 = l4
  g1 = g1
  g2 = g2
  Logs <- MCLogs
  Groups <- MCGroups
  GroupOf <- MCGroupOf
  Bad <- MCBad
  Known <- MCKnown
  Early <- MCEarly
  MaxMishaps = 1
SPECIFICATION FairSpec
INVARIANTS
  NothingForgotten
  CountedOncePerRun
  PagesAreCurrent
PROPERTIES
  CountedBeforeMoved
  GoodLogsLeave
