SPECIFICATION Spec
CONSTANTS
  Ids = {a, b}
  Structs = {x, y}
  Nil = Nil
  Clients = {c}
  Intervals = {1}
  Deadlines = {0, 1}
  Grace = 1
  SaveMayFail = TRUE
  MaxTime = 3
  MaxCrashes = 1
SYMMETRY Symmetry
INVARIANTS TypeOK FiresOnceOverdue RestartKeepsAcked
PROPERTIES ImplementsPromise
CHECK_DEADLOCK FALSE
