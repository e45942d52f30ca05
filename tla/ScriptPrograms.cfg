SPECIFICATION MCSpec
CONSTANTS
  ann = ann
  bob = bob
  Sessions = {s1, s2}
  Addresses <- MCAddresses
  NoOne = NoOne
  Verdicts <- MCVerdicts
  Upstream = TRUE
  MaxData = 2
  Source <- MCSource
  Mail <- MCMail
  Scripts <- MCScripts
  MaxCalls = 1
  Loadable = {"mark", "domains"}
  NoScript = "none"
  ScriptLines = 1
  Mboxes <- MCMboxes
  Maildirs <- MCMaildirs
  Limits = {0, 1, 2}
  Builtins = {"a/b", "c/d"}
  Foreign = {"a__b"}
  Slot <- MCSlot
  Codes = {"x", "y"}
  NoCode = ""
  MaxDiskFaults = 2
INVARIANTS TypesOK AckMeansTaken TakenIsRight StatsAddUp EngineDecides ResultsAreTheMessages RegistryHonest
PROPERTIES DataIsAnswered
CHECK_DEADLOCK FALSE
