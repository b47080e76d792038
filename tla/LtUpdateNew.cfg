CONSTANTS
  l1 = l1
  l2 = l2
  l3 = l3
  l4 = l4
  g1 = g1
  g2 = g2
  Logs <- MCNewLogs
  Groups <- MCNewGroups
  GroupOf <- MCNewGroupOf
  Bad <- MCBad
  Known = {}
  Early = {}
  MaxMishaps = 0
SPECIFICATION Spec
INVARIANT
  NewIsNew
