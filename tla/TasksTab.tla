------------------------------- MODULE TasksTab -------------------------------
(***************************************************************************)
(* The to-do list of the desktop client, internal/gui/tasks.go, over the   *)
(* tasks table of pkg/storage/tasks.go.  All of it runs on the one UI      *)
(* goroutine.                                                              *)
(*                                                                         *)
(* The list widget (external) keeps one check box per visible row and uses *)
(* it for whatever task the row shows next; SetChecked calls the OnChanged *)
(* it finds if the value changes.  The tab sets the value of a row first   *)
(* and its OnChanged after that, so a refresh calls the callback of the    *)
(* task the box showed before; the callback writes that task and reloads,  *)
(* which refreshes again, inside the first refresh.  `frames' is the stack *)
(* of the refreshes under way.                                             *)
(***************************************************************************)
EXTENDS Integers, SequencesExt, Slices

CONSTANTS
  MaxTasks,     \* bound on the tasks ever added
  Dues,         \* due dates
  NoTask,
  MaxTaskFaults \* bound on the statements that fail

ASSUME TasksAssumption ==
  /\ MaxTasks \in Nat /\ MaxTaskFaults \in Nat
  /\ Dues \subseteq Nat

VARIABLES
  table,     \* the tasks table
  lastTask,  \* its AUTOINCREMENT counter
  tasks,     \* t.tasks
  rows,      \* the check box of each visible row: [task, checked]
  pool,      \* the boxes of rows that went away
  frames,    \* the refreshes under way, innermost first: [row, n, task]
  selected,  \* t.selected
  hideDone,  \* t.hideDone
  taskFaults \* history: failed statements

taskVars == <<table, lastTask, tasks, rows, pool, frames, selected, hideDone, taskFaults>>

Task == [id : 1..MaxTasks, due : Dues, done : BOOLEAN]

Fresh == [task |-> NoTask, checked |-> FALSE]

TasksInit ==
  /\ table = {} /\ lastTask = 0
  /\ tasks = <<>> /\ rows = <<>> /\ pool = {} /\ frames = <<>>
  /\ selected = -1
  /\ hideDone = FALSE
  /\ taskFaults = 0

Idle == frames = <<>>

------------------------------------------------------------------------------
(***************************************************************************)
(* Statements.                                                             *)
(***************************************************************************)

\* ORDER BY due_date ASC, created_at DESC.
Before(s, t) == s.due < t.due \/ (s.due = t.due /\ s.id > t.id)

ListTasks(tab, hide) ==
  LET listed == {t \in tab : hide => ~t.done} IN
  InOrder(listed, {p \in listed \X listed : Before(p[1], p[2])})

UpdateTask(t) == {IF s.id = t.id THEN t ELSE s : s \in table}

\* A write whose error the tab ignores, then Reload, which leaves everything as
\* it is when the query fails.  list.Refresh: rows come and go, their boxes from
\* and to the pool; every row that is left is then updated in turn.
WriteAndReload(new, boxes, stack) ==
  \E written, read \in BOOLEAN :
    /\ taskFaults' = taskFaults + (IF written THEN 0 ELSE 1) + (IF read THEN 0 ELSE 1)
    /\ taskFaults' <= MaxTaskFaults
    /\ table' = IF written THEN new ELSE table
    /\ IF ~read
       THEN tasks' = tasks /\ rows' = boxes /\ pool' = pool /\ frames' = stack
       ELSE /\ tasks' = ListTasks(table', hideDone')
            /\ LET n == Len(tasks') IN
               /\ frames' = <<[row |-> 1, n |-> n, task |-> NoTask]>> \o stack
               /\ IF n <= Len(boxes)
                  THEN /\ rows' = SubSeq(boxes, 1, n)
                       /\ pool' = pool \cup {boxes[i] : i \in (n + 1)..Len(boxes)}
                  ELSE \E more \in [1..(n - Len(boxes)) -> pool \cup {Fresh}] :
                         rows' = boxes \o more /\ pool' = pool \ Range(more)

OnChangedInverted(i, v, stack) ==
  LET t == [rows[i].task EXCEPT !.done = ~v] IN
  WriteAndReload(UpdateTask(t), [rows EXCEPT ![i] = [task |-> t, checked |-> v]], stack)

\* The callback of row i's box, called with v.
OnChanged(i, v, stack) ==
  LET t == [rows[i].task EXCEPT !.done = v] IN
  WriteAndReload(UpdateTask(t), [rows EXCEPT ![i] = [task |-> t, checked |-> v]], stack)

------------------------------------------------------------------------------
(***************************************************************************)
(* A refresh: the update function for row after row.                       *)
(***************************************************************************)
Top == Head(frames)

Updating == ~Idle /\ Top.task = NoTask /\ Top.row <= Top.n

NextRow == frames' = [frames EXCEPT ![1] = [row |-> Top.row + 1, n |-> Top.n, task |-> NoTask]]

\* The box already has the task's value, or has no callback yet.
UpdateRow ==
  /\ Updating
  /\ LET t == tasks[Top.row]
         box == rows[Top.row]
     IN  /\ box.checked = t.done \/ box.task = NoTask
         /\ rows' = [rows EXCEPT ![Top.row] = [task |-> t, checked |-> t.done]]
  /\ NextRow
  /\ UNCHANGED <<table, lastTask, tasks, pool, selected, hideDone, taskFaults>>

\* SetChecked changes the box and calls the callback of the task it showed.
UpdateCallsBack ==
  /\ Updating
  /\ LET t == tasks[Top.row]
         box == rows[Top.row]
     IN  /\ box.checked # t.done /\ box.task # NoTask
         /\ UNCHANGED <<lastTask, selected, hideDone>>
         /\ OnChanged(Top.row, t.done, [frames EXCEPT ![1].task = t])

\* The callback has returned: the box gets the task this refresh had read.
UpdateResumes ==
  /\ ~Idle /\ Top.task # NoTask
  /\ rows' = [rows EXCEPT ![Top.row].task = Top.task]
  /\ NextRow
  /\ UNCHANGED <<table, lastTask, tasks, pool, selected, hideDone, taskFaults>>

RefreshReturns ==
  /\ ~Idle /\ Top.task = NoTask /\ Top.row > Top.n
  /\ frames' = Tail(frames)
  /\ UNCHANGED <<table, lastTask, tasks, rows, pool, selected, hideDone, taskFaults>>

RefreshStep == UpdateRow \/ UpdateCallsBack \/ UpdateResumes \/ RefreshReturns

------------------------------------------------------------------------------
(***************************************************************************)
(* The user.                                                               *)
(***************************************************************************)
Toggle(i) ==
  /\ Idle /\ i \in DOMAIN rows
  /\ UNCHANGED <<lastTask, selected, hideDone>>
  /\ OnChanged(i, ~rows[i].checked, <<>>)

HideCompleted ==
  /\ Idle
  /\ hideDone' = ~hideDone
  /\ UNCHANGED <<lastTask, selected>>
  /\ WriteAndReload(table, rows, <<>>)

SelectTask(i) ==
  /\ Idle /\ i \in DOMAIN tasks
  /\ selected' = tasks[i].id
  /\ UNCHANGED <<table, lastTask, tasks, rows, pool, frames, hideDone, taskFaults>>

ClearForm ==
  /\ Idle
  /\ selected' = -1
  /\ UNCHANGED <<table, lastTask, tasks, rows, pool, frames, hideDone, taskFaults>>

\* The Save button without a selected task.  A failed insert returns ID 0.
AddTask(d) ==
  /\ Idle /\ selected <= 0 /\ lastTask < MaxTasks
  /\ UNCHANGED hideDone
  /\ WriteAndReload(table \cup {[id |-> lastTask + 1, due |-> d, done |-> FALSE]}, rows, <<>>)
  /\ lastTask' = IF table' = table THEN lastTask ELSE lastTask + 1
  /\ selected' = IF table' = table THEN 0 ELSE lastTask + 1

\* The Save button with one: its completion is the one in the list, if any.
SaveTask(d) ==
  LET done == \E i \in DOMAIN tasks : tasks[i].id = selected /\ tasks[i].done IN
  /\ Idle /\ selected > 0
  /\ UNCHANGED <<lastTask, selected, hideDone>>
  /\ WriteAndReload(UpdateTask([id |-> selected, due |-> d, done |-> done]), rows, <<>>)

DeleteTask ==
  /\ Idle /\ selected > 0
  /\ selected' = -1
  /\ UNCHANGED <<lastTask, hideDone>>
  /\ WriteAndReload({t \in table : t.id # selected}, rows, <<>>)

TasksNext ==
  \/ RefreshStep
  \/ \E i \in 1..MaxTasks : Toggle(i) \/ SelectTask(i)
  \/ HideCompleted \/ ClearForm \/ DeleteTask
  \/ \E d \in Dues : AddTask(d) \/ SaveTask(d)

------------------------------------------------------------------------------
(***************************************************************************)
(* Properties                                                              *)
(***************************************************************************)

TasksTypeOK ==
  /\ table \subseteq Task /\ lastTask \in 0..MaxTasks
  /\ tasks \in Seq(Task)
  /\ rows \in Seq([task : Task \cup {NoTask}, checked : BOOLEAN])
  /\ pool \subseteq [task : Task \cup {NoTask}, checked : BOOLEAN]
  /\ frames \in Seq([row : Nat, n : Nat, task : Task \cup {NoTask}])
  /\ selected \in -1..MaxTasks
  /\ hideDone \in BOOLEAN /\ taskFaults \in 0..MaxTaskFaults

\* The callbacks a refresh sets off come to an end: however boxes and tasks got
\* mixed up, n tasks nest at most (n + 1)^2 refreshes, and as many again for each
\* statement that has failed.
RefreshesEnd ==
  Len(frames) <= (lastTask + 1) * (lastTask + 1) * (taskFaults + 1)

\* No refresh, outer ones included, asks for a row past the end of the list that
\* the refreshes inside it have loaded; the update function does not check.
RowsAreInTheList ==
  Updating => Top.row \in DOMAIN tasks \cap DOMAIN rows

\* A refresh ends, and finds the rows it asks for.
RefreshesStayInList == RefreshesEnd /\ RowsAreInTheList

\* "Handle completion toggle": the callback is for the user's clicks; showing the
\* list, filtered or not, changes no task.
RefreshWritesNothing == [][~Idle => table' = table]_taskVars

==============================================================================
