SPECIFICATION FairSpec
CONSTANTS
  Ids = {a}
  Structs = {x, y}
  Nil = Nil
  Clients = {c}
  Intervals = {0, 1}
  Deadlines = {0, 1}
  Grace = 1
  SaveMayFail = FALSE
  MaxTime = 3
  MaxCrashes = 0
PROPERTIES EventuallyFires
CHECK_DEADLOCK FALSE
