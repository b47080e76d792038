CONSTANTS
  s1 = s1
  s2 = s2
  x1 = x1
  x2 = x2
  o1 = o1
  o2 = o2
  warning = warning
  e1 = e1
  e2 = e2
  m1 = m1
  m2 = m2
  h1 = h1
  SubSystems = {s1}
  States <- MCStates
  Ops <- MCOps
  Levels = {warning}
  Errors = {e1}
  Machines <- MCMachines
  Samples = {1}
  Days = {1}
  Hours = {h1}
  RangeDivisor = 3
  MaxBuckets = 3
  PerfSizes <- MCPerfSizes
  DaysBack = 3
  DaysForward = 2
  MaxRecords = 5
  MaxValues = 0
SPECIFICATION Spec
INVARIANT OperationsAreMirrored
