SPECIFICATION MCSpec
CONSTANTS
  MaxTasks = 2
  Dues = {1}
  NoTask = NoTask
  MaxTaskFaults = 0
  m1 = m1
  m2 = m2
  m3 = m3
  Mailbox <- MCMailbox
  NoMessage = NoMessage
  MaxNotes = 3
  MaxNoteFaults = 2
  Cores = {"", "x"}
  Forms <- MCForms
  Unreadable = Unreadable
  Clock <- MCClock
  Foreign <- MCForeign
  MaxEvents = 2
  MaxCalFaults = 1
  Emails = {"e", "f"}
  Places = {1, 2}
  NoContact = NoContact
  MaxContacts = 3
  MaxContactFaults = 1
  MaxCommitments = 2
  DueDays = {0, 1}
  ModelAnswers <- MCModelAnswers
  Remarks = {"", "n"}
  MaxDay = 2
  MaxCommitmentFaults = 2
  Stages <- MCStages
  ChannelSize = 10
  MaxDialogs = 7
  MaxMigrations = 2
PROPERTIES RefreshWritesNothing
