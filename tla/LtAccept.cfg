SPECIFICATION Spec
CONSTANTS
  c1 = c1
  c2 = c2
  c3 = c3
  None = None
  Clients <- AllClients
  MaxThreads = 2
INVARIANTS
  CountIsThreads
PROPERTIES
  ConnectionsAreTaken
  ServerStops
CHECK_DEADLOCK FALSE
