------------------------------- MODULE Desktop --------------------------------
(***************************************************************************)
(* The tabs of the desktop client, built by internal/gui/gui.go: mail,     *)
(* contacts, calendar, notes, to-do and commitments; and the migration     *)
(* wizard of the Tools menu.  Every handler runs on the one UI goroutine;  *)
(* the refreshes of the to-do list nest inside its handlers, so nothing    *)
(* else runs until they have returned, except the wizard's goroutines.     *)
(***************************************************************************)
EXTENDS TasksTab, MailView, NotesTab, CalendarTab, ContactsTab, CommitmentsView,
        MigrationWizard

desktopVars == <<taskVars, viewVars, noteVars, calendarVars, contactVars, commitVars,
                 wizardVars>>

Init ==
  /\ TasksInit /\ ViewInit /\ NotesInit
  /\ CalendarInit /\ ContactsInit /\ CommitmentsInit /\ WizardInit

\* No handler is under way.
UIFree == Idle /\ turn[0] = Settled

TasksStep ==
  turn[0] = Settled /\ TasksNext
    /\ UNCHANGED <<viewVars, noteVars, calendarVars, contactVars, commitVars, wizardVars>>

ViewStep ==
  UIFree /\ ViewNext
    /\ UNCHANGED <<taskVars, noteVars, calendarVars, contactVars, commitVars, wizardVars>>

NotesStep ==
  UIFree /\ NotesNext
    /\ UNCHANGED <<taskVars, viewVars, calendarVars, contactVars, commitVars, wizardVars>>

CalendarStep ==
  UIFree /\ CalendarNext
    /\ UNCHANGED <<taskVars, viewVars, noteVars, contactVars, commitVars, wizardVars>>

ContactsStep ==
  UIFree /\ ContactsNext
    /\ UNCHANGED <<taskVars, viewVars, noteVars, calendarVars, commitVars, wizardVars>>

CommitmentsStep ==
  UIFree /\ CommitmentsNext
    /\ UNCHANGED <<taskVars, viewVars, noteVars, calendarVars, contactVars, wizardVars>>

WizardStep ==
  ((Idle /\ WizardHandlers) \/ WizardGoes)
    /\ UNCHANGED <<taskVars, viewVars, noteVars, calendarVars, contactVars, commitVars>>

Next ==
  \/ TasksStep \/ ViewStep \/ NotesStep
  \/ CalendarStep \/ ContactsStep \/ CommitmentsStep
  \/ WizardStep

Spec == Init /\ [][Next]_desktopVars

------------------------------------------------------------------------------
(***************************************************************************)
(* Properties                                                              *)
(***************************************************************************)

TypeOK ==
  /\ TasksTypeOK /\ ViewTypeOK /\ NotesTypeOK
  /\ CalendarTypeOK /\ ContactsTypeOK /\ CommitmentsTypeOK /\ WizardTypeOK

\* The message viewer deletes the message it shows, and the note editor saves the note
\* it shows, a new one once, whatever has been deleted, searched or added meanwhile.
ActsOnDisplayed == ViewerActsOnDisplayed /\ EditorHasOneNote

\* What a tab shows, and what its buttons act on, is what is stored: the agenda
\* and the contact on the panel as long as no call of storage has failed, the rows
\* of the commitments unless the last query has.  (That the ID the panel acts on is
\* the one it shows holds whatever failed.)
ScreenIsStored == AgendaIsStored /\ PanelIsStored /\ RowsAreCurrent

------------------------------------------------------------------------------
(***************************************************************************)
(* For TLC.  The tabs share no state, so one behaviour uses one of them:   *)
(* an interleaving of two adds nothing to what each of them does.          *)
(***************************************************************************)
CONSTANTS m1, m2, m3

MCMailbox ==
  <<[id |-> m1, unread |-> TRUE], [id |-> m2, unread |-> FALSE], [id |-> m3, unread |-> TRUE]>>

\* Half past something in a place an hour ahead of Greenwich.
MCClock == {[wall |-> 90, below |-> "fraction", zone |-> 60]}

Form(title, location, description, start, end) ==
  [title |-> title, location |-> location, description |-> description, start |-> start, end |-> end]

Words == [core |-> "x", blanks |-> TRUE]

MCForms ==
  {Form(Words, Words, Words, 30, Unreadable), Form(Words, Empty, Words, Unreadable, 30), Form(Empty, Words, Empty, 40, 30)}

MCForeign ==
  {<<>>,
   <<Line("END", Empty), Line("BEGIN", Empty), Line("SUMMARY", Words), Line("BEGIN", Empty),
     Line("DTSTART", Unreadable), Line("END", Empty), Line("SUMMARY", Empty)>>,
   <<Line("BEGIN", Empty), Line("DTEND", [Minute(60) EXCEPT !.below = "seconds"]),
     Line("END", Empty), Line("BEGIN", Empty), Line("SUMMARY", Words)>>}

MCModelAnswers ==
  {[kind |-> "json", items |-> <<[due |-> 1, readable |-> TRUE], [due |-> 1, readable |-> FALSE]>>],
   [kind |-> "prose", items |-> <<>>]}

\* Two stages are one before the last.
MCStages == <<50, 100>>

\* Once the user has closed a dialog, a button that opens another one is pressed only
\* when there are two at most, and none for a second migration.
FewDialogs ==
  turn[0] = Settled /\ turn'[0] # Settled =>
    ~dialogClosed \/ (Len(dialogs) <= 2 /\ Started # Migrations)

OneTab ==
  \/ ViewInit /\ NotesInit /\ CalendarInit /\ ContactsInit /\ CommitmentsInit /\ WizardInit /\ TasksStep
  \/ TasksInit /\ NotesInit /\ CalendarInit /\ ContactsInit /\ CommitmentsInit /\ WizardInit /\ ViewStep
  \/ TasksInit /\ ViewInit /\ CalendarInit /\ ContactsInit /\ CommitmentsInit /\ WizardInit /\ NotesStep
  \/ TasksInit /\ ViewInit /\ NotesInit /\ ContactsInit /\ CommitmentsInit /\ WizardInit /\ CalendarStep
  \/ TasksInit /\ ViewInit /\ NotesInit /\ CalendarInit /\ CommitmentsInit /\ WizardInit /\ ContactsStep
  \/ TasksInit /\ ViewInit /\ NotesInit /\ CalendarInit /\ ContactsInit /\ WizardInit /\ CommitmentsStep
  \/ TasksInit /\ ViewInit /\ NotesInit /\ CalendarInit /\ ContactsInit /\ CommitmentsInit /\ WizardStep /\ FewDialogs

MCSpec == Init /\ [][OneTab]_desktopVars

==============================================================================
