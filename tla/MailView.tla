------------------------------- MODULE MailView -------------------------------
(***************************************************************************)
(* The three-pane mail view, internal/gui/folders.go.  The list is a Go    *)
(* slice; the toolbar's selectedMessage and the message the viewer acts on *)
(* are pointers into its backing array.  Deleting a message shifts the     *)
(* array under both of them.  Searching, folders and accounts replace the  *)
(* slice; pointers into the old one keep what they point at.               *)
(***************************************************************************)
EXTENDS Integers, SequencesExt, Slices

CONSTANTS
  Mailbox,  \* what getMockMessages returns: a sequence of [id, unread]
  NoMessage

ASSUME MailboxAssumption ==
  /\ Mailbox \in Seq([id : {Mailbox[i].id : i \in DOMAIN Mailbox}, unread : BOOLEAN])
  /\ IsInjective([i \in DOMAIN Mailbox |-> Mailbox[i].id])
  /\ \A i \in DOMAIN Mailbox : Mailbox[i].id # NoMessage

VARIABLES
  array, \* the backing array of state.messages
  shown, \* the length of the slice
  sel,   \* state.selectedMessage
  view,  \* the message the viewer's buttons act on
  label  \* the message the viewer displays

viewVars == <<array, shown, sel, view, label>>

Messages == {Mailbox[i].id : i \in DOMAIN Mailbox}

\* A pointer is a slot of the array or, slot 0, a message of an older array.
Nowhere == [slot |-> 0, id |-> NoMessage]
At(i) == [slot |-> i, id |-> NoMessage]
Deref(p) == IF p.slot = 0 THEN p.id ELSE array[p.slot].id
Detached(p) == [slot |-> 0, id |-> Deref(p)]

ViewInit ==
  /\ array = Mailbox /\ shown = Len(Mailbox)
  /\ sel = Nowhere /\ view = Nowhere /\ label = NoMessage

\* Every search, folder and account filters the mailbox into a new slice.
Filter(keep) ==
  /\ array' = Only(Mailbox, {m \in ToSet(Mailbox) : m.id \in keep})
  /\ shown' = Len(array')
  /\ sel' = Detached(sel) /\ view' = Detached(view)
  /\ UNCHANGED label

\* OnSelected of the list.
SelectMessage(i) ==
  /\ i <= shown
  /\ sel' = At(i) /\ view' = At(i) /\ label' = array[i].id
  /\ UNCHANGED <<array, shown>>

RemoveMessageAlways(id) ==
  LET found == {i \in 1..shown : array[i].id = id} IN
  /\ array' = [j \in DOMAIN array |->
                 IF j < shown /\ \E i \in found : i <= j THEN array[j + 1] ELSE array[j]]
  /\ shown' = shown - 1

\* append(messages[:i], messages[i+1:]...): the slots from i on move down, and
\* the one after the new end keeps its message.
RemoveMessage(id) ==
  LET found == {i \in 1..shown : array[i].id = id} IN
  /\ array' = [j \in DOMAIN array |->
                 IF j < shown /\ \E i \in found : i <= j THEN array[j + 1] ELSE array[j]]
  /\ shown' = shown - Cardinality(found)

ToolbarDeleteOnly ==
  /\ sel # Nowhere
  /\ RemoveMessage(Deref(sel))
  /\ sel' = Nowhere
  /\ UNCHANGED <<view, label>>

\* The toolbar's Delete, confirmed.
ToolbarDelete ==
  /\ sel # Nowhere
  /\ RemoveMessage(Deref(sel))
  /\ sel' = Nowhere /\ view' = Nowhere /\ label' = NoMessage

\* The viewer's Delete, confirmed.
ViewerDelete ==
  /\ view # Nowhere
  /\ RemoveMessage(Deref(view))
  /\ view' = Nowhere /\ label' = NoMessage
  /\ UNCHANGED sel

MarkRead ==
  /\ sel # Nowhere
  /\ array' = [j \in DOMAIN array |-> IF j = sel.slot THEN [array[j] EXCEPT !.unread = FALSE] ELSE array[j]]
  /\ UNCHANGED <<shown, sel, view, label>>

ViewNext ==
  \/ \E keep \in SUBSET Messages : Filter(keep)
  \/ \E i \in DOMAIN Mailbox : SelectMessage(i)
  \/ ToolbarDelete \/ ViewerDelete \/ MarkRead

------------------------------------------------------------------------------
(***************************************************************************)
(* Properties                                                              *)
(***************************************************************************)

ViewTypeOK ==
  /\ array \in Seq([id : Messages, unread : BOOLEAN])
  /\ shown \in 0..Len(array)
  /\ {sel, view} \subseteq [slot : 0..Len(array), id : Messages \cup {NoMessage}]
  /\ label \in Messages \cup {NoMessage}

\* The viewer's Delete removes the message the viewer displays: nothing shifts
\* the array while the viewer's pointer is in use.
ViewerActsOnDisplayed == Deref(view) = label

==============================================================================
