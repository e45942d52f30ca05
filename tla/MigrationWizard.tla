---------------------------- MODULE MigrationWizard ----------------------------
(***************************************************************************)
(* The migration wizard of the desktop client, internal/gui/migration.go.  *)
(* Each step is a new dialog on top of those before it, whose buttons act  *)
(* again when it is closed.  Start begins a migration on goroutines of its *)
(* own: one that reports its stages, in place of a MigrationJob, and one   *)
(* that shows the reports and opens the last step.                         *)
(*                                                                         *)
(* The step and the widgets have no mutex.  A thread that changes the step *)
(* reads it, writes it and reads it again in showStep.  What is chosen in  *)
(* the dialogs is read by nothing.                                         *)
(***************************************************************************)
EXTENDS Integers, SequencesExt

CONSTANTS
  Stages,       \* the percentages that are reported, one for each message
  ChannelSize,  \* the buffer of each channel
  MaxDialogs,   \* bound on the dialogs that are open
  MaxMigrations \* bound on the migrations

ASSUME WizardAssumption ==
  /\ Stages \in Seq(1..100) /\ ChannelSize \in Nat \ {0}
  /\ MaxDialogs \in Nat /\ MaxMigrations \in Nat

VARIABLES
  currentStep, \* m.currentStep
  dialogs,     \* the steps the open dialogs were built for, the top one last
  turn,        \* for each thread how far it is in changing the step
  logChan,     \* for each migration the messages not received
  progress,    \*   and the percentages
  backend,     \* how many values its first goroutine has sent
  viewer,      \* where its second goroutine is, and the log text it has read
  migrationLog,
  progressBar,
  dialogClosed \* history: the user has closed a dialog

wizardVars ==
  <<currentStep, dialogs, turn, logChan, progress, backend, viewer, migrationLog, progressBar,
    dialogClosed>>

Migrations == 1..MaxMigrations

\* The UI goroutine is thread 0.
Threads == {0} \cup Migrations

Steps == 0..6
Welcome == 0
Confirmation == 4
Migration == 5
Completion == 6

Settled == [at |-> "none", was |-> 0, by |-> 0, starts |-> FALSE]

\* A wizard that has not been shown.
WizardInit ==
  /\ currentStep = Welcome /\ dialogs = <<>>
  /\ turn = [t \in Threads |-> Settled]
  /\ logChan = [g \in Migrations |-> <<>>] /\ progress = [g \in Migrations |-> <<>>]
  /\ backend = [g \in Migrations |-> 0]
  /\ viewer = [g \in Migrations |-> [at |-> "none", text |-> <<>>]]
  /\ migrationLog = <<>> /\ progressBar = 0
  /\ dialogClosed = FALSE

migrationVars == <<logChan, progress, backend, migrationLog>>

Started == {g \in Migrations : viewer[g].at # "none"}

------------------------------------------------------------------------------
(***************************************************************************)
(* Changing the step.                                                      *)
(***************************************************************************)
Counts(t, by, starts) ==
  turn' = [turn EXCEPT ![t] = [at |-> "write", was |-> currentStep, by |-> by, starts |-> starts]]

\* A button of the dialog on top; the buttons leave the step at most one outside
\* of those there are.
Presses(on, by, starts) ==
  /\ turn[0] = Settled
  /\ dialogs # <<>> /\ Last(dialogs) \in on
  /\ Len(dialogs) < MaxDialogs /\ currentStep \in Steps
  /\ Counts(0, by, starts)
  /\ UNCHANGED <<currentStep, dialogs, migrationVars, viewer, progressBar, dialogClosed>>

NextStep == Presses(0..3, 1, FALSE)

BackStep == Presses(1..4, -1, FALSE)

StartMigration == Started # Migrations /\ Presses({Confirmation}, 1, TRUE)

WriteStep(t) ==
  /\ turn[t].at = "write"
  /\ currentStep' = turn[t].was + turn[t].by
  /\ turn' = [turn EXCEPT ![t].at = "show"]
  /\ UNCHANGED <<dialogs, migrationVars, viewer, progressBar, dialogClosed>>

\* showStep: a dialog for the step as it is now, if there is such a step; then
\* Start's handler starts the goroutines.
ShowStep(t) ==
  /\ turn[t].at = "show"
  /\ dialogs' = IF currentStep \in Steps THEN Append(dialogs, currentStep) ELSE dialogs
  /\ progressBar' = IF currentStep = Migration THEN 0 ELSE progressBar
  /\ turn' = [turn EXCEPT ![t] = Settled]
  /\ viewer' = IF turn[t].starts
               THEN LET g == Min(Migrations \ Started) IN [viewer EXCEPT ![g].at = "select"]
               ELSE viewer
  /\ UNCHANGED <<currentStep, migrationVars, dialogClosed>>

CloseDialog ==
  /\ turn[0] = Settled /\ dialogs # <<>>
  /\ dialogs' = Front(dialogs)
  /\ dialogClosed' = TRUE
  /\ UNCHANGED <<currentStep, turn, migrationVars, viewer, progressBar>>

------------------------------------------------------------------------------
(***************************************************************************)
(* A migration.                                                            *)
(***************************************************************************)

\* The first goroutine sends a message and a percentage for each stage; then it
\* closes the channels.
ToSend == 2 * Len(Stages)

ChannelsClosed(g) == backend[g] > ToSend

SendMessage(g) ==
  LET n == backend[g] \div 2 + 1 IN
  /\ g \in Started /\ backend[g] < ToSend /\ backend[g] % 2 = 0
  /\ Len(logChan[g]) < ChannelSize
  /\ logChan' = [logChan EXCEPT ![g] = Append(@, <<g, n>>)]
  /\ backend' = [backend EXCEPT ![g] = @ + 1]
  /\ UNCHANGED <<currentStep, dialogs, turn, progress, viewer, migrationLog, progressBar, dialogClosed>>

SendPercentage(g) ==
  LET n == backend[g] \div 2 + 1 IN
  /\ backend[g] < ToSend /\ backend[g] % 2 = 1
  /\ Len(progress[g]) < ChannelSize
  /\ progress' = [progress EXCEPT ![g] = Append(@, Stages[n])]
  /\ backend' = [backend EXCEPT ![g] = @ + 1]
  /\ UNCHANGED <<currentStep, dialogs, turn, logChan, viewer, migrationLog, progressBar, dialogClosed>>

CloseChannels(g) ==
  /\ g \in Started /\ backend[g] = ToSend
  /\ backend' = [backend EXCEPT ![g] = @ + 1]
  /\ UNCHANGED <<currentStep, dialogs, turn, logChan, progress, viewer, migrationLog, progressBar, dialogClosed>>

\* The second goroutine: a message is appended to the text it reads now.
ReceiveMessage(g) ==
  /\ viewer[g].at = "select" /\ logChan[g] # <<>>
  /\ logChan' = [logChan EXCEPT ![g] = Tail(@)]
  /\ viewer' = [viewer EXCEPT ![g] = [at |-> "settext", text |-> Append(migrationLog, Head(logChan[g]))]]
  /\ UNCHANGED <<currentStep, dialogs, turn, progress, backend, migrationLog, progressBar, dialogClosed>>

SetText(g) ==
  /\ viewer[g].at = "settext"
  /\ migrationLog' = viewer[g].text
  /\ viewer' = [viewer EXCEPT ![g] = [at |-> "select", text |-> <<>>]]
  /\ UNCHANGED <<currentStep, dialogs, turn, logChan, progress, backend, progressBar, dialogClosed>>

ReceivePercentage(g) ==
  /\ viewer[g].at = "select" /\ progress[g] # <<>>
  /\ progress' = [progress EXCEPT ![g] = Tail(@)]
  /\ progressBar' = Head(progress[g])
  /\ UNCHANGED <<currentStep, dialogs, turn, logChan, backend, viewer, migrationLog, dialogClosed>>

EndsWithProgress(g) ==
  /\ viewer[g].at = "select" /\ ChannelsClosed(g) /\ progress[g] = <<>>
  /\ viewer' = [viewer EXCEPT ![g].at = "returned"]
  /\ Counts(g, 1, FALSE)
  /\ UNCHANGED <<currentStep, dialogs, migrationVars, progressBar, dialogClosed>>

\* The messages have been received and their channel is closed, whatever is left of
\* the percentages.  (The other two, once closed, are ready for ever and say nothing.)
MigrationEnds(g) ==
  /\ viewer[g].at = "select" /\ ChannelsClosed(g) /\ logChan[g] = <<>>
  /\ viewer' = [viewer EXCEPT ![g].at = "returned"]
  /\ Counts(g, 1, FALSE)
  /\ UNCHANGED <<currentStep, dialogs, migrationVars, progressBar, dialogClosed>>

\* The menu item makes a new wizard; here once nothing of the last one is left.
ShowMigrationWizard ==
  /\ dialogs = <<>> /\ \A t \in Threads : turn[t] = Settled
  /\ \A g \in Started : viewer[g].at = "returned"
  /\ currentStep' = Welcome /\ dialogs' = <<Welcome>>
  /\ logChan' = [g \in Migrations |-> <<>>] /\ progress' = [g \in Migrations |-> <<>>]
  /\ backend' = [g \in Migrations |-> 0]
  /\ viewer' = [g \in Migrations |-> [at |-> "none", text |-> <<>>]]
  /\ migrationLog' = <<>> /\ progressBar' = 0
  /\ dialogClosed' = FALSE
  /\ UNCHANGED turn

WizardHandlers == ShowMigrationWizard \/ NextStep \/ BackStep \/ StartMigration \/ CloseDialog

\* What goes on meanwhile.
WizardGoes ==
  \/ \E t \in Threads : WriteStep(t) \/ ShowStep(t)
  \/ \E g \in Migrations :
       \/ SendMessage(g) \/ SendPercentage(g) \/ CloseChannels(g)
       \/ ReceiveMessage(g) \/ SetText(g) \/ ReceivePercentage(g) \/ MigrationEnds(g)

------------------------------------------------------------------------------
(***************************************************************************)
(* Properties                                                              *)
(***************************************************************************)
WizardTypeOK ==
  /\ currentStep \in -1..(7 + MaxMigrations) /\ dialogs \in Seq(Steps)
  /\ \A t \in Threads : turn[t].at \in {"none", "write", "show"}
  /\ \A g \in Migrations :
       /\ backend[g] \in 0..(ToSend + 1)
       /\ viewer[g].at \in {"none", "select", "settext", "returned"}
  /\ progressBar \in 0..100 /\ dialogClosed \in BOOLEAN

Reported(g) == [n \in DOMAIN Stages |-> <<g, n>>]

\* A migration that has opened its last step has shown each of its messages, in
\* order, unless another one wrote to the log meanwhile.  And as long as the user
\* closes no dialog, buttons and goroutines do not get in each other's way: there is
\* one migration, the dialog on top is that of the step, and "Migration Complete!"
\* is not shown before it is.
WizardShowsMigration ==
  /\ \A g \in Started :
       viewer[g].at = "returned" /\ Started = {g} => migrationLog = Reported(g)
  /\ ~dialogClosed =>
       /\ Cardinality(Started) <= 1
       /\ dialogs # <<>> /\ (\A t \in Threads : turn[t] = Settled) => Last(dialogs) = currentStep
       /\ Completion \in ToSet(dialogs) => \E g \in Started : migrationLog = Reported(g)

==============================================================================
