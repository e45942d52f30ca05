SPECIFICATION MCSpec
CONSTANTS
  Jobs = {j1, j2}
  Readers = {r1}
  Account = Account
  a1 = a1
  a2 = a2
  Attachments = {a1, a2}
  None = None
  MaxStoreFaults = 1
  Mboxes <- MCMboxes
  Databases <- MCDatabases
  Files = {1, 2}
  Walks <- MCWalks
  KeyBytes <- MCKeyBytes
  Coefficients <- MCCoefficients
  Groups <- MCGroups
  Thresholds = {1, 3}
  MaxThreads = 2
  MaxHand = 3
  MsgIds = {"m1", "m2"}
  Amounts = {1, 2, 4}
  MinimumStake = 2
  Policies = {"burn", "recipient"}
  Balance = 3
  StakeTTL = 1
  MaxStakeClock = 2
  MaxLocks = 2
  Lines <- MCLines
  SwitchIds = {"d1"}
  MaxLines = 3
  MaxTrouble = 1
  MaxRepClock = 3
  MaxCount = 2
  SealKeys = {"k1", "k2"}
  Letters = {"x", "y"}
  Chained = TRUE
  MaxSeals = 2
SYMMETRY Symmetry
INVARIANTS ServicesTypeOK WholeMessages ImportIsExact AnyMSharesSuffice PaidOutOnce OneAnswerEach ScoreIsAShare SealsHold
CHECK_DEADLOCK FALSE
