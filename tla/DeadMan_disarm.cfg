SPECIFICATION Spec
CONSTANTS
  Ids = {a}
  Structs = {x}
  Nil = Nil
  Clients = {c}
  Intervals = {1}
  Deadlines = {0}
  Grace = 0
  SaveMayFail = FALSE
  MaxTime = 2
  MaxCrashes = 0
PROPERTIES DisarmIsPermanent
CHECK_DEADLOCK FALSE
