SPECIFICATION HttpSpec
CONSTANTS
  Callers = {server, c1}
  Server = server
  MaxContexts = 4
  MaxWhileServing = 2
  Clients = {k1, k2}
  Limits = {0, 1}
INVARIANTS
  CancellationReachesChildren
  ServedInFull
PROPERTIES
  CancellationIsSettled
  ShutdownEndsServing
CHECK_DEADLOCK FALSE
