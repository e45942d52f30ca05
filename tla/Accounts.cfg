SPECIFICATION MCSpec
CONSTANTS
  Clients = {c1, c2, c3}
  MaxGen = 3
  MaxFaults = 2
  Callers = {k1, k2, k3}
  Gateways = {g1, g2}
  MaxDials = 3
  DefaultGateway = g1
  None = None
INVARIANTS TypeOK StoreIsCurrent PasswordSurvives NoConnectionLeaks
PROPERTIES TokensNeverGoBack CallersAreServed
CHECK_DEADLOCK FALSE
