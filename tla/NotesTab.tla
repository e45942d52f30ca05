------------------------------- MODULE NotesTab -------------------------------
(***************************************************************************)
(* The notes of the desktop client, internal/gui/notes.go, over            *)
(* pkg/storage/notes.go, on the UI goroutine.  The editor belongs to the   *)
(* note selectedID names, to a new one when it is -1, and is closed when   *)
(* it is 0.  A write that fails shows a dialog and ends the handler; when  *)
(* Reload's query fails nothing at all happens.                            *)
(***************************************************************************)
EXTENDS Integers, FiniteSets

CONSTANTS
  MaxNotes,     \* bound on the notes ever added
  MaxNoteFaults \* bound on the statements that fail

ASSUME NotesAssumption == MaxNotes \in Nat /\ MaxNoteFaults \in Nat

VARIABLES
  notes,      \* the IDs in the notes table
  lastNote,   \* its AUTOINCREMENT counter
  listed,     \* t.notes
  selectedID, \* t.selectedID
  added,      \* history: the notes this opening of the editor has added
  noteFaults  \* history: failed statements

noteVars == <<notes, lastNote, listed, selectedID, added, noteFaults>>

NotesInit ==
  /\ notes = {} /\ lastNote = 0 /\ listed = {}
  /\ selectedID = 0 /\ added = {}
  /\ noteFaults = 0

Fails == noteFaults < MaxNoteFaults /\ noteFaults' = noteFaults + 1

OpenEditor(id) == selectedID' = id /\ added' = {}

\* OnSelected: the list may show a note that is no longer in the table.
SelectNote(id) ==
  /\ id \in listed
  /\ OpenEditor(id)
  /\ UNCHANGED <<notes, lastNote, listed, noteFaults>>

CreateNewNote ==
  /\ OpenEditor(-1)
  /\ UNCHANGED <<notes, lastNote, listed, noteFaults>>

\* Reload reads the table as the handler leaves it; when that fails, the editor
\* stays open with what the handler made of it.
Reloads(id, saved) ==
  \/ listed' = notes' /\ OpenEditor(0) /\ UNCHANGED noteFaults
  \/ Fails /\ selectedID' = id /\ added' = saved /\ UNCHANGED listed

ReloadNotes ==
  /\ UNCHANGED <<notes, lastNote>>
  /\ Reloads(selectedID, added)

\* The dialog: the write failed, the handler returns.
NoteError ==
  /\ selectedID # 0
  /\ Fails
  /\ UNCHANGED <<notes, lastNote, listed, selectedID, added>>

DeleteSelectedNote ==
  /\ selectedID > 0
  /\ notes' = notes \ {selectedID}
  /\ Reloads(selectedID, added)
  /\ UNCHANGED lastNote

SaveForgetsID ==
  /\ selectedID = -1 /\ lastNote < MaxNotes
  /\ lastNote' = lastNote + 1
  /\ notes' = notes \cup {lastNote'}
  /\ Reloads(-1, added \cup {lastNote'})

\* Save in the editor of a new note.
SaveNewNote ==
  /\ selectedID = -1 /\ lastNote < MaxNotes
  /\ lastNote' = lastNote + 1
  /\ notes' = notes \cup {lastNote'}
  /\ Reloads(lastNote', added \cup {lastNote'})

\* Save in the editor of a stored one: an UPDATE of no row is no error.
SaveStoredNote ==
  /\ selectedID > 0
  /\ UNCHANGED <<notes, lastNote>>
  /\ Reloads(selectedID, added)

NotesNext ==
  \/ \E id \in 1..MaxNotes : SelectNote(id)
  \/ CreateNewNote \/ ReloadNotes \/ NoteError
  \/ DeleteSelectedNote \/ SaveNewNote \/ SaveStoredNote

------------------------------------------------------------------------------
(***************************************************************************)
(* Properties                                                              *)
(***************************************************************************)

NotesTypeOK ==
  /\ notes \subseteq 1..lastNote /\ lastNote \in 0..MaxNotes
  /\ listed \subseteq 1..lastNote
  /\ selectedID \in -1..lastNote
  /\ added \subseteq 1..lastNote
  /\ noteFaults \in 0..MaxNoteFaults

\* The editor of a new note stores one note, however often Save is pressed and
\* whichever statement after the INSERT fails.
SaveAddsOnce == Cardinality(added) <= 1

\* As long as no statement fails, the note in the editor is in the table: Save's
\* UPDATE, which would not say that it found no row, does find it.
EditedNoteIsStored == (noteFaults = 0 /\ selectedID > 0) => selectedID \in notes

\* What is saved in the editor is one note, the same one each time.
EditorHasOneNote == SaveAddsOnce /\ EditedNoteIsStored

==============================================================================
