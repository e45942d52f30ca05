---------------------------- MODULE CommitmentsView ----------------------------
(***************************************************************************)
(* The commitments tab of the desktop client, internal/gui/commitments.go, *)
(* over pkg/storage/commitments.go, on the UI goroutine.  The buttons of a *)
(* row act on the commitment the row showed when the list was last         *)
(* painted; `commitments' is what it would be painted from.                *)
(*                                                                         *)
(* Nothing in the repository calls SaveCommitment yet, nor the extraction  *)
(* of pkg/commitments whose result it takes; here a message may be looked  *)
(* at, and what is found in it saved, at any time.                         *)
(***************************************************************************)
EXTENDS Integers, SequencesExt, Slices

CONSTANTS
  MaxCommitments,     \* bound on the commitments ever saved
  DueDays,            \* due dates; 0 is none
  ModelAnswers,       \* of the language model: records [kind, items], items a sequence of
                      \*   records [due, readable]
  Remarks,            \* the user's notes
  MaxDay,             \* bound on the clock
  MaxCommitmentFaults \* bound on the statements that fail

ASSUME CommitmentsAssumption ==
  /\ DueDays \subseteq Nat /\ 0 \in DueDays /\ "" \in Remarks
  /\ \A answer \in ModelAnswers : \A i \in DOMAIN answer.items :
       answer.items[i].due \in DueDays /\ answer.items[i].readable \in BOOLEAN
  /\ {MaxCommitments, MaxDay, MaxCommitmentFaults} \subseteq Nat /\ MaxDay > 0

VARIABLES
  ledger,      \* the commitments table
  today,       \* time.Now(), in days
  show,        \* filterSelect.Selected
  commitments, \* the list's slice
  painted,     \* what the rows on the screen show and act on
  outdated,    \* history: the last query has failed
  commitFaults \* history: failed statements

commitVars == <<ledger, today, show, commitments, painted, outdated, commitFaults>>

Filters == {"Open", "Overdue", "Resolved", "Snoozed", "All"}

StatusOf == [Open |-> "open", Resolved |-> "resolved", Snoozed |-> "snoozed"]

------------------------------------------------------------------------------
(***************************************************************************)
(* The table.                                                              *)
(***************************************************************************)

\* Open, with a due date that has passed.
Overdue(c) == c.status = "open" /\ c.due # 0 /\ c.due < today

Selected(filter, c) ==
  CASE filter = "All"     -> TRUE
    [] filter = "Overdue" -> Overdue(c)
    [] OTHER              -> c.status = StatusOf[filter]

\* Those without a due date last; the later extracted first.
Sooner(c, d) ==
  \/ c.due # 0 /\ (d.due = 0 \/ c.due < d.due)
  \/ c.due = d.due /\ c.id > d.id

ListCommitments(tab, filter) ==
  LET found == {c \in tab : Selected(filter, c)} IN
  InOrder(found, {p \in found \X found : Sooner(p[1], p[2])})

SetStatus(tab, id, s) == {IF c.id = id THEN [c EXCEPT !.status = s] ELSE c : c \in tab}

UpdateNotes(tab, id, text) == {IF c.id = id THEN [c EXCEPT !.notes = text] ELSE c : c \in tab}

Changed(tab, lost) ==
  ledger' = tab /\ commitFaults' = commitFaults + lost /\ commitFaults' <= MaxCommitmentFaults

------------------------------------------------------------------------------
(***************************************************************************)
(* refreshList.                                                            *)
(***************************************************************************)
RefreshKeepsRows(tab, filter, lost) ==
  /\ show' = filter
  /\ Changed(tab, lost)
  /\ commitments' = ListCommitments(tab, filter) /\ painted' = painted
  /\ outdated' = FALSE

\* After a handler has made the table `tab', losing some statements.  When its
\* query fails, the overdue ones stay as they are, silently; for every other
\* filter the slice is emptied, a dialog is shown, and the screen stays.
RefreshList(tab, filter, lost) ==
  /\ show' = filter
  /\ \/ /\ Changed(tab, lost)
        /\ commitments' = ListCommitments(tab, filter) /\ painted' = commitments'
        /\ outdated' = FALSE
     \/ /\ Changed(tab, lost + 1)
        /\ commitments' = IF filter = "Overdue" THEN commitments ELSE <<>>
        /\ painted' = painted
        /\ outdated' = TRUE

\* The view is built over the table as it is: what earlier runs have left there.
CommitmentsInit ==
  /\ ledger = {} /\ today = 1
  /\ show = "Open" /\ commitments = <<>> /\ painted = <<>> /\ outdated = FALSE
  /\ commitFaults = 0

SelectFilter(filter) ==
  /\ RefreshList(ledger, filter, 0)
  /\ UNCHANGED today

\* The list is painted again, as when it is scrolled or shown.
Repaint ==
  /\ painted # commitments
  /\ painted' = commitments
  /\ UNCHANGED <<ledger, today, show, commitments, outdated, commitFaults>>

\* The check mark of a row.  When the write fails there is a dialog, and no refresh.
ResolveRow(i) ==
  /\ \/ RefreshList(SetStatus(ledger, painted[i].id, "resolved"), show, 0)
     \/ /\ Changed(ledger, 1)
        /\ UNCHANGED <<show, commitments, painted, outdated>>
  /\ UNCHANGED today

\* The details of a row: the notes are saved first, then the status.  Neither error
\* is looked at.  Whatever closes the dialog but "Resolve" snoozes, also what was
\* resolved.
CloseDetail(i, text, resolve) ==
  LET id == painted[i].id
      status == IF resolve THEN "resolved" ELSE "snoozed"
  IN  /\ \E noted, marked \in BOOLEAN :
           LET tab == IF noted THEN UpdateNotes(ledger, id, text) ELSE ledger IN
           RefreshList(IF marked THEN SetStatus(tab, id, status) ELSE tab, show,
                       Cardinality({k \in {1, 2} : ~<<noted, marked>>[k]}))
      /\ UNCHANGED today

\* The due dates of the commitments found in a message: none when the query fails,
\* or its answer is no JSON; no date when it is written in no known layout.
Extract(answer) ==
  IF answer.kind # "json" THEN <<>>
  ELSE [i \in DOMAIN answer.items |-> IF answer.items[i].readable THEN answer.items[i].due ELSE 0]

\* One of them, open and without notes; no refresh.
SaveCommitment(due) ==
  /\ Cardinality(ledger) < MaxCommitments
  /\ ledger' = ledger \cup
       {[id |-> Cardinality(ledger) + 1, due |-> due, status |-> "open", notes |-> ""]}
  /\ UNCHANGED <<today, show, commitments, painted, outdated, commitFaults>>

DayPasses ==
  /\ today < MaxDay
  /\ today' = today + 1
  /\ UNCHANGED <<ledger, show, commitments, painted, outdated, commitFaults>>

CommitmentsNext ==
  \/ \E filter \in Filters : SelectFilter(filter)
  \/ \E i \in DOMAIN painted :
       ResolveRow(i) \/ \E text \in Remarks, resolve \in BOOLEAN : CloseDetail(i, text, resolve)
  \/ Repaint
  \/ \E answer \in ModelAnswers : \E i \in DOMAIN Extract(answer) :
       SaveCommitment(Extract(answer)[i])
  \/ DayPasses

------------------------------------------------------------------------------
(***************************************************************************)
(* Properties                                                              *)
(***************************************************************************)
Commitment ==
  [id : 1..MaxCommitments, due : DueDays, status : {"open", "resolved", "snoozed"}, notes : Remarks]

CommitmentsTypeOK ==
  /\ ledger \subseteq Commitment /\ today \in 1..MaxDay
  /\ show \in Filters
  /\ {commitments, painted} \subseteq Seq(Commitment)
  /\ outdated \in BOOLEAN
  /\ commitFaults \in 0..MaxCommitmentFaults

\* Unless the last query has failed, a row shows a commitment as it is in the
\* table, each once, and only those of the filter chosen, whichever of the writes
\* before it got lost: no button acts on what another handler has changed.
RowsAreCurrent ==
  ~outdated =>
    /\ \A i \in DOMAIN painted : painted[i] \in ledger /\ Selected(show, painted[i])
    /\ \A i, j \in DOMAIN painted : i # j => painted[i].id # painted[j].id

==============================================================================
