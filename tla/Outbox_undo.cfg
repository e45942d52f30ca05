SPECIFICATION Spec
CONSTANTS
  MaxTime = 1
  Sends = {s1}
  Messages = {m1}
  Nil = Nil
  Clients = {c1}
  Delays = {0}
  DefaultDelay = 1
  Mails = {}
  MailIds = {}
  NoId = NoId
  SendTimes = {}
  ComposerDelay = 1
  Letters = {}
  Recipients = {}
  Scores = {}
  MaxWaits = {}
  Answers = {}
  OpenTimes = {}
  MaxOpens = 0
  Minutes = {}
  MaxProbes = 0
  Exchanges = {}
  MaxExchanges = 0
  Moments = {}
  BusyLists = {}
INVARIANTS UndoneNeverSent
CHECK_DEADLOCK FALSE
