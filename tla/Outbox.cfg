SPECIFICATION MCSpec
CONSTANTS
  MaxTime = 2
  Sends = {s1, s2}
  Messages = {m1}
  Nil = Nil
  Clients = {c1}
  Delays = {0}
  DefaultDelay = 1
  Mails = {n1, n2}
  MailIds = {i1}
  NoId = NoId
  SendTimes = {0, 1}
  ComposerDelay = 2
  Letters = {l1, l2}
  Recipients = {r1}
  Scores = {0, 7}
  MaxWaits = {0, 1}
  Answers <- MCAnswers
  OpenTimes = {60}
  MaxOpens = 1
  Minutes = {57}
  MaxProbes = 1
  Exchanges <- MCExchanges
  MaxExchanges = 3
  Moments <- MCMoments
  BusyLists <- MCBusyLists
INVARIANTS TypeOK UndoIsOpen InOnePlace NothingAfterStop TimesAreSound
PROPERTIES EverythingLeaves
CHECK_DEADLOCK FALSE
