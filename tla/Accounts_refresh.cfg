SPECIFICATION MCSpec
CONSTANTS
  Clients = {c1}
  MaxGen = 2
  MaxFaults = 1
  Callers = {k1}
  Gateways = {g1}
  MaxDials = 1
  DefaultGateway = g1
  None = None
INVARIANTS RefreshedNotLost
CHECK_DEADLOCK FALSE
