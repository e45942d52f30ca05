----------------------------- MODULE DesktopProofs -----------------------------
(***************************************************************************)
(* Theorems about the tabs of Desktop, for any mailbox and for any number  *)
(* of notes, contacts, commitments and failing statements.                 *)
(***************************************************************************)
EXTENDS Desktop, FunctionTheorems, FiniteSetTheorems, SequenceTheorems, TLAPS

------------------------------------------------------------------------------
(***************************************************************************)
(* The mail view.                                                          *)
(***************************************************************************)
Items == [id : Messages, unread : BOOLEAN]

\* The viewer's pointer is at the message the viewer displays, wherever it points.
ViewInv == ViewTypeOK /\ ViewerActsOnDisplayed

LEMMA ViewInitial == ViewInit => ViewInv
<1> SUFFICES ASSUME ViewInit PROVE ViewInv
  OBVIOUS
<1>1. Mailbox \in Seq(Items) /\ Len(Mailbox) \in Nat
  BY MailboxAssumption, LenProperties DEF Items, Messages
<1>2. QED
  BY <1>1 DEF ViewInit, ViewInv, ViewTypeOK, ViewerActsOnDisplayed, Deref, Nowhere, Items

\* Deleting shifts the array.
LEMMA RemoveMessageTypes ==
  ASSUME ViewTypeOK, NEW id, RemoveMessage(id)
  PROVE  array' \in Seq(Items) /\ Len(array') = Len(array) /\ shown' \in 0..Len(array)
<1> DEFINE found == {i \in 1..shown : array[i].id = id}
<1>1. array \in Seq(Items) /\ Len(array) \in Nat /\ DOMAIN array = 1..Len(array) /\ shown \in 0..Len(array)
  BY LenProperties DEF ViewTypeOK, Items
<1>2. Cardinality(found) \in 0..shown
  <2>1. IsFiniteSet(1..shown) /\ Cardinality(1..shown) = shown
    BY <1>1, FS_Interval
  <2>2. found \in SUBSET (1..shown)
    OBVIOUS
  <2> HIDE DEF found
  <2>3. IsFiniteSet(found) /\ Cardinality(found) <= Cardinality(1..shown)
    BY <2>1, <2>2, FS_Subset
  <2>4. Cardinality(found) \in Nat
    BY <2>3, FS_CardinalityType
  <2>5. QED
    BY <1>1, <2>1, <2>3, <2>4
<1>3. /\ array' = [j \in DOMAIN array |->
                     IF j < shown /\ \E i \in found : i <= j THEN array[j + 1] ELSE array[j]]
      /\ shown' = shown - Cardinality(found)
  BY DEF RemoveMessage
<1> HIDE DEF found
<1>4. \A j \in 1..Len(array) : array'[j] \in Items
  <2>1. \A j \in 1..Len(array) : array[j] \in Items
    BY <1>1, ElementOfSeq
  <2>2. \A j \in 1..Len(array) : j < shown => j + 1 \in 1..Len(array)
    BY <1>1
  <2>3. QED
    BY <1>1, <1>3, <2>1, <2>2
<1>5. array' \in Seq(Items) /\ Len(array') = Len(array)
  BY <1>1, <1>3, <1>4
<1>6. QED
  BY <1>1, <1>2, <1>3, <1>5

LEMMA ViewPreserved == ViewInv /\ [ViewNext]_viewVars => ViewInv'
<1> SUFFICES ASSUME ViewInv, [ViewNext]_viewVars PROVE ViewInv'
  OBVIOUS
<1> DEFINE N == Len(array)
           Pointers(n) == [slot : 0..n, id : Messages \cup {NoMessage}]
<1>0. /\ array \in Seq(Items) /\ N \in Nat /\ DOMAIN array = 1..N /\ shown \in 0..N
      /\ sel \in Pointers(N) /\ view \in Pointers(N) /\ label \in Messages \cup {NoMessage}
      /\ Deref(view) = label
  BY LenProperties DEF ViewInv, ViewTypeOK, ViewerActsOnDisplayed, Items
<1>i. \A j \in 1..N : array[j] \in Items /\ array[j].id \in Messages
  <2>1. \A j \in 1..N : array[j] \in Items
    BY <1>0, ElementOfSeq
  <2>2. QED
    BY <2>1 DEF Items
<1>d. \A p \in Pointers(N) : Deref(p) \in Messages \cup {NoMessage}
  BY <1>i DEF Deref
<1>1. ASSUME NEW keep \in SUBSET Messages, Filter(keep) PROVE ViewInv'
  <2> DEFINE K == {m \in ToSet(Mailbox) : m.id \in keep}
  <2>1. array' = Only(Mailbox, K)
    BY <1>1 DEF Filter
  <2>2. Mailbox \in Seq(Items)
    BY MailboxAssumption DEF Items, Messages
  <2> HIDE DEF K
  <2>3. array' \in Seq(Items) /\ Len(array') \in Nat
    BY <2>1, <2>2, OnlyProperties
  <2>4. sel' \in Pointers(Len(array')) /\ view' \in Pointers(Len(array'))
    BY <1>0, <1>1, <1>d, <2>3 DEF Filter, Detached
  <2>5. Deref(view)' = label' /\ shown' = Len(array') /\ label' = label
    BY <1>0, <1>1 DEF Filter, Detached, Deref
  <2>6. QED
    BY <1>0, <2>3, <2>4, <2>5 DEF ViewInv, ViewTypeOK, ViewerActsOnDisplayed, Items
<1>2. ASSUME NEW i \in DOMAIN Mailbox, SelectMessage(i) PROVE ViewInv'
  <2>1. i \in 1..N
    BY <1>0, <1>2, MailboxAssumption, LenProperties DEF SelectMessage
  <2>2. sel' = At(i) /\ view' = At(i) /\ label' = array[i].id /\ array' = array /\ shown' = shown
    BY <1>2 DEF SelectMessage
  <2>3. At(i) \in Pointers(N) /\ Deref(view)' = label'
    BY <2>1, <2>2 DEF At, Deref
  <2>4. QED
    BY <1>0, <1>i, <2>1, <2>2, <2>3 DEF ViewInv, ViewTypeOK, ViewerActsOnDisplayed, Items
<1>3. CASE ToolbarDelete
  <2>1. array' \in Seq(Items) /\ Len(array') = N /\ shown' \in 0..N
    BY <1>3, RemoveMessageTypes DEF ToolbarDelete, ViewInv
  <2>2. sel' = Nowhere /\ view' = Nowhere /\ label' = NoMessage /\ Nowhere \in Pointers(N)
    BY <1>0, <1>3 DEF ToolbarDelete, Nowhere
  <2>3. Deref(view)' = label'
    BY <2>2 DEF Deref, Nowhere
  <2>4. QED
    BY <1>0, <2>1, <2>2, <2>3 DEF ViewInv, ViewTypeOK, ViewerActsOnDisplayed, Items
<1>4. CASE ViewerDelete
  <2>1. array' \in Seq(Items) /\ Len(array') = N /\ shown' \in 0..N
    BY <1>4, RemoveMessageTypes DEF ViewerDelete, ViewInv
  <2>2. sel' = sel /\ view' = Nowhere /\ label' = NoMessage /\ Nowhere \in Pointers(N)
    BY <1>0, <1>4 DEF ViewerDelete, Nowhere
  <2>3. Deref(view)' = label'
    BY <2>2 DEF Deref, Nowhere
  <2>4. QED
    BY <1>0, <2>1, <2>2, <2>3 DEF ViewInv, ViewTypeOK, ViewerActsOnDisplayed, Items
<1>5. CASE MarkRead
  <2>1. /\ array' = [j \in 1..N |-> IF j = sel.slot THEN [array[j] EXCEPT !.unread = FALSE] ELSE array[j]]
        /\ UNCHANGED <<shown, sel, view, label>>
    BY <1>0, <1>5 DEF MarkRead
  <2>2. \A j \in 1..N : array'[j] \in Items /\ array'[j].id = array[j].id
    BY <1>i, <2>1 DEF Items
  <2>3. array' \in Seq(Items) /\ Len(array') = N
    BY <1>0, <2>1, <2>2
  <2>4. Deref(view)' = label'
    BY <1>0, <2>1, <2>2 DEF Deref
  <2>5. QED
    BY <1>0, <2>1, <2>3, <2>4 DEF ViewInv, ViewTypeOK, ViewerActsOnDisplayed, Items
<1>6. CASE UNCHANGED viewVars
  BY <1>6 DEF viewVars, ViewInv, ViewTypeOK, ViewerActsOnDisplayed, Deref
<1>7. QED
  BY <1>1, <1>2, <1>3, <1>4, <1>5, <1>6 DEF ViewNext

------------------------------------------------------------------------------
(***************************************************************************)
(* The notes tab.                                                          *)
(***************************************************************************)

\* What this opening of the editor has added is the note the editor now belongs to;
\* and as long as no statement failed, the list is the table and holds that note.
NotesInv ==
  /\ NotesTypeOK
  /\ added \subseteq {selectedID} /\ (selectedID <= 0 => added = {})
  /\ noteFaults = 0 => listed = notes /\ (selectedID > 0 => selectedID \in notes)

LEMMA NotesInitial == NotesInit => NotesInv
BY NotesAssumption DEF NotesInit, NotesInv, NotesTypeOK

\* A reload that fails leaves only what the handler made of the editor to answer for.
LEMMA ReloadsKeeps ==
  ASSUME NotesInv, notes' \subseteq 1..lastNote', lastNote' \in lastNote..MaxNotes,
         NEW id \in -1..lastNote', NEW saved, Reloads(id, saved),
         saved \subseteq {id}, id <= 0 => saved = {}
  PROVE  NotesInv'
<1>1. CASE listed' = notes' /\ OpenEditor(0) /\ UNCHANGED noteFaults
  BY <1>1, NotesAssumption DEF NotesInv, NotesTypeOK, OpenEditor
<1>2. CASE Fails /\ selectedID' = id /\ added' = saved /\ UNCHANGED listed
  <2>1. noteFaults' \in 1..MaxNoteFaults
    BY <1>2, NotesAssumption DEF NotesInv, NotesTypeOK, Fails
  <2>2. listed' \subseteq 1..lastNote' /\ added' \subseteq 1..lastNote'
    BY <1>2, NotesAssumption DEF NotesInv, NotesTypeOK
  <2>3. QED
    BY <1>2, <2>1, <2>2, NotesAssumption DEF NotesInv, NotesTypeOK
<1>3. QED
  BY <1>1, <1>2 DEF Reloads

LEMMA NotesPreserved == NotesInv /\ [NotesNext]_noteVars => NotesInv'
<1> SUFFICES ASSUME NotesInv, [NotesNext]_noteVars PROVE NotesInv'
  OBVIOUS
<1>0. /\ notes \subseteq 1..lastNote /\ lastNote \in 0..MaxNotes /\ MaxNotes \in Nat
      /\ selectedID \in -1..lastNote /\ added \subseteq {selectedID}
      /\ selectedID <= 0 => added = {}
  BY NotesAssumption DEF NotesInv, NotesTypeOK
<1>1. ASSUME NEW id \in 1..MaxNotes, SelectNote(id) PROVE NotesInv'
  BY <1>0, <1>1 DEF NotesInv, NotesTypeOK, SelectNote, OpenEditor
<1>2. CASE CreateNewNote
  BY <1>0, <1>2 DEF NotesInv, NotesTypeOK, CreateNewNote, OpenEditor
<1>3. CASE ReloadNotes
  <2>1. notes' \subseteq 1..lastNote' /\ lastNote' \in lastNote..MaxNotes /\ selectedID \in -1..lastNote'
    BY <1>0, <1>3 DEF ReloadNotes
  <2>2. Reloads(selectedID, added)
    BY <1>3 DEF ReloadNotes
  <2>3. QED
    BY <1>0, <2>1, <2>2, ReloadsKeeps
<1>4. CASE NoteError
  BY <1>0, <1>4, NotesAssumption DEF NotesInv, NotesTypeOK, NoteError, Fails
<1>5. CASE DeleteSelectedNote
  <2>1. notes' \subseteq 1..lastNote' /\ lastNote' \in lastNote..MaxNotes /\ selectedID \in -1..lastNote'
    BY <1>0, <1>5 DEF DeleteSelectedNote
  <2>2. Reloads(selectedID, added)
    BY <1>5 DEF DeleteSelectedNote
  <2>3. QED
    BY <1>0, <2>1, <2>2, ReloadsKeeps
<1>6. CASE SaveNewNote
  <2>1. /\ lastNote' = lastNote + 1 /\ lastNote' \in lastNote..MaxNotes
        /\ notes' \subseteq 1..lastNote' /\ lastNote' \in -1..lastNote'
    BY <1>0, <1>6 DEF SaveNewNote
  <2>2. added \cup {lastNote'} \subseteq {lastNote'} /\ ~ (lastNote' <= 0)
    BY <1>0, <1>6, <2>1 DEF SaveNewNote
  <2>3. Reloads(lastNote', added \cup {lastNote'})
    BY <1>6 DEF SaveNewNote
  <2>4. QED
    BY <2>1, <2>2, <2>3, ReloadsKeeps
<1>7. CASE SaveStoredNote
  <2>1. notes' \subseteq 1..lastNote' /\ lastNote' \in lastNote..MaxNotes /\ selectedID \in -1..lastNote'
    BY <1>0, <1>7 DEF SaveStoredNote
  <2>2. Reloads(selectedID, added)
    BY <1>7 DEF SaveStoredNote
  <2>3. QED
    BY <1>0, <2>1, <2>2, ReloadsKeeps
<1>8. CASE UNCHANGED noteVars
  BY <1>8 DEF noteVars, NotesInv, NotesTypeOK
<1>9. QED
  BY <1>1, <1>2, <1>3, <1>4, <1>5, <1>6, <1>7, <1>8 DEF NotesNext

LEMMA NotesMeans == NotesInv => EditorHasOneNote
<1> SUFFICES ASSUME NotesInv PROVE EditorHasOneNote
  OBVIOUS
<1>1. IsFiniteSet({selectedID}) /\ Cardinality({selectedID}) = 1
  BY FS_Singleton
<1>2. Cardinality(added) <= 1
  BY <1>1, FS_Subset DEF NotesInv
<1>3. QED
  BY <1>2 DEF NotesInv, EditorHasOneNote, SaveAddsOnce, EditedNoteIsStored

------------------------------------------------------------------------------
(***************************************************************************)
(* The address book.                                                       *)
(***************************************************************************)

\* The IDs are those of the AUTOINCREMENT column, and as long as no statement failed,
\* every row of the list is in the table.
BookInv ==
  /\ ContactsTypeOK /\ PanelIsStored
  /\ IsFiniteSet(contacts)
  /\ \A c \in contacts : c.id <= lastContact
  /\ \A c, d \in contacts : c.id = d.id => c = d
  /\ contactFaults = 0 => \A i \in DOMAIN book : book[i] \in contacts

LEMMA ContactsInitial == ContactsInit => BookInv
<1> SUFFICES ASSUME ContactsInit PROVE BookInv
  OBVIOUS
<1>1. IsFiniteSet({})
  BY FS_EmptySet
<1>2. QED
  BY <1>1, ContactsAssumption
  DEF ContactsInit, BookInv, ContactsTypeOK, PanelIsStored

\* A contact is never the empty panel.
LEMMA CardsAreNumbered ==
  ASSUME NEW c \in Contact
  PROVE  c.id \in Nat /\ c.place \in Nat /\ c # NoContact
<1>1. c.id \in 1..MaxContacts /\ c.place \in Places /\ c.email \in Emails
      /\ c = [id |-> c.id, place |-> c.place, email |-> c.email]
  BY DEF Contact
<1>2. c.id \in Nat /\ c.place \in Nat
  BY <1>1, ContactsAssumption
<1>3. c \in [id : Nat, place : Nat, email : Emails]
  BY <1>1, <1>2
<1>4. QED
  BY <1>2, <1>3, ContactsAssumption

\* Names may be shared, so the ID decides between them.
LEMMA BookLists ==
  ASSUME NEW tab \in SUBSET Contact, IsFiniteSet(tab), \A c, d \in tab : c.id = d.id => c = d
  PROVE  /\ ListContacts(tab) \in Seq(Contact)
         /\ \A i \in DOMAIN ListContacts(tab) : ListContacts(tab)[i] \in tab
<1> DEFINE R == {p \in tab \X tab : ByName(p[1], p[2])}
<1>1. \A c \in tab : c.id \in Nat /\ c.place \in Nat
  BY CardsAreNumbered
<1>2. \A c, d \in tab : <<c, d>> \in R <=> ByName(c, d)
  OBVIOUS
<1>3. Orders(R, tab)
  BY <1>1, <1>2 DEF Orders, ByName
<1>4. ListContacts(tab) = InOrder(tab, R)
  BY DEF ListContacts
<1> HIDE DEF R
<1>5. /\ InOrder(tab, R) \in Seq(tab)
      /\ \A i \in DOMAIN InOrder(tab, R) : InOrder(tab, R)[i] \in tab
  BY <1>3, InOrderLists
<1>6. Seq(tab) \subseteq Seq(Contact)
  BY SeqMonotonic
<1>7. QED
  BY <1>4, <1>5, <1>6

\* A reload empties the panel, unless it fails and is counted.
LEMMA ReloadsBookKeeps ==
  ASSUME BookInv, ReloadsBook,
         contacts' \subseteq Contact, IsFiniteSet(contacts'),
         lastContact' \in 0..MaxContacts,
         \A c \in contacts' : c.id <= lastContact',
         \A c, d \in contacts' : c.id = d.id => c = d,
         UNCHANGED <<highlighted, composeTo>>
  PROVE  BookInv'
<1>1. CASE /\ book' = ListContacts(contacts')
           /\ chosen' = 0 /\ details' = NoContact
           /\ UNCHANGED contactFaults
  <2>1. book' \in Seq(Contact) /\ \A i \in DOMAIN book' : book'[i] \in contacts'
    BY <1>1, BookLists
  <2>2. ContactsTypeOK'
    BY <1>1, <2>1, ContactsAssumption DEF BookInv, ContactsTypeOK
  <2>3. PanelIsStored'
    BY <1>1 DEF PanelIsStored
  <2>4. QED
    BY <2>1, <2>2, <2>3 DEF BookInv
<1>2. CASE ContactFails /\ UNCHANGED <<book, chosen, details>>
  <2>1. contactFaults' \in 1..MaxContactFaults
    BY <1>2, ContactsAssumption DEF BookInv, ContactsTypeOK, ContactFails
  <2>2. ContactsTypeOK'
    BY <1>2, <2>1, ContactsAssumption DEF BookInv, ContactsTypeOK
  <2>3. PanelIsStored'
    BY <1>2, <2>1 DEF BookInv, PanelIsStored
  <2>4. QED
    BY <2>1, <2>2, <2>3 DEF BookInv
<1>3. QED
  BY <1>1, <1>2 DEF ReloadsBook

LEMMA ContactsPreserved == BookInv /\ [ContactsNext]_contactVars => BookInv'
<1> SUFFICES ASSUME BookInv, [ContactsNext]_contactVars PROVE BookInv'
  OBVIOUS
<1>0. /\ contacts \subseteq Contact /\ IsFiniteSet(contacts) /\ lastContact \in 0..MaxContacts
      /\ \A c \in contacts : c.id <= lastContact /\ c.id \in Nat
      /\ \A c, d \in contacts : c.id = d.id => c = d
      /\ MaxContacts \in Nat
  BY ContactsAssumption DEF BookInv, ContactsTypeOK, Contact
<1>1. ASSUME NEW i \in 1..MaxContacts, SelectContact(i) PROVE BookInv'
  <2>1. /\ i \in DOMAIN book
        /\ highlighted' = i /\ chosen' = book[i].id /\ details' = book[i]
        /\ UNCHANGED <<contacts, lastContact, book, composeTo, contactFaults>>
    BY <1>1 DEF SelectContact
  <2>2. book[i] \in Contact
    BY <2>1, ElementOfSeq, LenProperties DEF BookInv, ContactsTypeOK
  <2>3. book[i] # NoContact /\ book[i].id \in 0..MaxContacts
    <3>1. book[i].id \in 1..MaxContacts
      BY <2>2 DEF Contact
    <3>2. QED
      BY <2>2, <3>1, CardsAreNumbered, ContactsAssumption
  <2>4. ContactsTypeOK'
    BY <1>1, <2>1, <2>2, <2>3 DEF BookInv, ContactsTypeOK
  <2>5. PanelIsStored'
    BY <2>1, <2>3 DEF BookInv, PanelIsStored
  <2>6. QED
    BY <2>1, <2>4, <2>5 DEF BookInv
<1>2. ASSUME NEW p \in Places, NEW e \in Emails, AddContact(p, e) PROVE BookInv'
  <2> DEFINE c0 == [id |-> lastContact', place |-> p, email |-> e]
  <2>1. /\ lastContact < MaxContacts /\ lastContact' = lastContact + 1
        /\ contacts' = contacts \cup {c0}
        /\ ReloadsBook /\ UNCHANGED <<highlighted, composeTo>>
    BY <1>2 DEF AddContact
  <2>2. lastContact' \in 0..MaxContacts /\ c0 \in Contact /\ c0.id = lastContact'
    BY <1>0, <2>1 DEF Contact
  <2> HIDE DEF c0
  <2>3. IsFiniteSet(contacts')
    BY <1>0, <2>1, FS_AddElement
  <2>4. contacts' \subseteq Contact
    BY <1>0, <2>1, <2>2
  <2>5. \A c \in contacts' : c.id <= lastContact'
    BY <1>0, <2>1, <2>2
  <2>6. \A c, d \in contacts' : c.id = d.id => c = d
    <3>1. \A c \in contacts : c.id # c0.id
      BY <1>0, <2>1, <2>2
    <3>2. QED
      BY <1>0, <2>1, <3>1
  <2>7. QED
    BY <2>1, <2>2, <2>3, <2>4, <2>5, <2>6, ReloadsBookKeeps
<1>3. CASE RefreshBook
  <2>1. contacts' = contacts /\ lastContact' = lastContact /\ ReloadsBook
        /\ UNCHANGED <<highlighted, composeTo>>
    BY <1>3 DEF RefreshBook
  <2>2. QED
    BY <1>0, <2>1, ReloadsBookKeeps
<1>4. CASE DeleteContact
  <2>1. contacts' = {c \in contacts : c.id # chosen} /\ lastContact' = lastContact
        /\ ReloadsBook /\ UNCHANGED <<highlighted, composeTo>>
    BY <1>4 DEF DeleteContact
  <2>2. contacts' \subseteq contacts
    BY <2>1
  <2>3. IsFiniteSet(contacts')
    BY <1>0, <2>2, FS_Subset
  <2>4. QED
    BY <1>0, <2>1, <2>2, <2>3, ReloadsBookKeeps
<1>5. CASE ContactError
  <2>1. contactFaults' \in 1..MaxContactFaults
    BY <1>5, ContactsAssumption DEF BookInv, ContactsTypeOK, ContactError, ContactFails
  <2>2. QED
    BY <1>5, <2>1 DEF BookInv, ContactsTypeOK, PanelIsStored, ContactError
<1>6. CASE ComposeTo
  BY <1>6 DEF BookInv, ContactsTypeOK, PanelIsStored, ComposeTo
<1>7. CASE UNCHANGED contactVars
  BY <1>7 DEF BookInv, ContactsTypeOK, PanelIsStored, contactVars
<1>8. QED
  BY <1>1, <1>2, <1>3, <1>4, <1>5, <1>6, <1>7 DEF ContactsNext

------------------------------------------------------------------------------
(***************************************************************************)
(* Tables with an AUTOINCREMENT column of which no row is deleted.         *)
(***************************************************************************)

\* The IDs of a table of n rows are 1..n.
Numbered(tab) ==
  /\ IsFiniteSet(tab)
  /\ \A c \in tab : c.id <= Cardinality(tab)
  /\ \A c, d \in tab : c.id = d.id => c = d

\* A statement that changes rows and no ID leaves a table of as many.
LEMMA TableChanges ==
  ASSUME NEW tab, Numbered(tab), NEW T, NEW f \in [tab -> T],
         \A t \in T : \E c \in tab : f[c] = t,
         \A c \in tab : f[c].id = c.id
  PROVE  Numbered(T) /\ Cardinality(T) = Cardinality(tab)
<1>1. \A c, d \in tab : f[c] = f[d] => c = d
  BY DEF Numbered
<1>2. \A t, u \in T : t.id = u.id => t = u
  BY DEF Numbered
<1>3. \A t \in T : \E c \in tab : t.id = c.id
  OBVIOUS
<1>4. f \in Bijection(tab, T)
  BY <1>1, Fun_IsBij
<1>5. ExistsBijection(tab, T)
  BY <1>4, Fun_ExistsBij
<1>6. IsFiniteSet(T) /\ Cardinality(T) = Cardinality(tab)
  BY <1>5, FS_Bijection DEF Numbered
<1>7. Numbered(T)
  BY <1>2, <1>3, <1>6 DEF Numbered
<1>8. QED
  BY <1>6, <1>7

------------------------------------------------------------------------------
(***************************************************************************)
(* The commitments.                                                        *)
(***************************************************************************)

LEMMA CommitmentBounds ==
  /\ MaxCommitments \in Nat /\ MaxDay \in Nat /\ MaxDay > 0 /\ MaxCommitmentFaults \in Nat
  /\ \A c \in Commitment : c.id \in Nat /\ c.due \in Nat
<1>1. MaxCommitments \in Nat /\ MaxDay \in Nat /\ MaxDay > 0 /\ MaxCommitmentFaults \in Nat
      /\ DueDays \subseteq Nat
  BY Zenon, CommitmentsAssumption
<1>2. ASSUME NEW c \in Commitment PROVE c.id \in Nat /\ c.due \in Nat
  <2>1. c.id \in 1..MaxCommitments /\ c.due \in DueDays
    BY DEF Commitment
  <2>2. c.id \in Nat
    BY <1>1, <2>1
  <2>3. c.due \in Nat
    BY <1>1, <2>1
  <2>4. QED
    BY <2>2, <2>3
<1>3. QED
  BY <1>1, <1>2

Ledgers(tab) ==
  /\ Numbered(tab)
  /\ tab \subseteq Commitment /\ Cardinality(tab) <= MaxCommitments

\* Unless the last query failed, the slice is on the screen, and what a row shows is
\* in the table.
CommitInv ==
  /\ CommitmentsTypeOK /\ Ledgers(ledger)
  /\ ~outdated => commitments = painted
  /\ RowsAreCurrent

LEMMA LedgerChanges ==
  ASSUME NEW tab, Ledgers(tab), NEW f \in [tab -> Commitment], \A c \in tab : f[c].id = c.id
  PROVE  Ledgers({f[c] : c \in tab})
<1> DEFINE T == {f[c] : c \in tab}
<1>1. /\ T \subseteq Commitment /\ f \in [tab -> T] /\ Numbered(tab)
      /\ \A t \in T : \E c \in tab : f[c] = t
  BY DEF Ledgers
<1> HIDE DEF T
<1>2. Numbered(T) /\ Cardinality(T) = Cardinality(tab)
  BY <1>1, TableChanges
<1>3. Ledgers(T)
  BY <1>1, <1>2 DEF Ledgers
<1>4. QED
  BY <1>3 DEF T

LEMMA SetStatusKeeps ==
  ASSUME NEW tab, Ledgers(tab), NEW id, NEW s \in {"open", "resolved", "snoozed"}
  PROVE  Ledgers(SetStatus(tab, id, s))
<1> DEFINE f == [c \in tab |-> IF c.id = id THEN [c EXCEPT !.status = s] ELSE c]
<1>1. \A c \in tab : f[c] \in Commitment /\ f[c].id = c.id
  BY DEF Ledgers, Numbered, Commitment
<1>2. SetStatus(tab, id, s) = {f[c] : c \in tab}
  BY DEF SetStatus
<1>3. f \in [tab -> Commitment]
  BY <1>1
<1> HIDE DEF f
<1>4. QED
  BY <1>1, <1>2, <1>3, LedgerChanges

LEMMA UpdateNotesKeeps ==
  ASSUME NEW tab, Ledgers(tab), NEW id, NEW text \in Remarks
  PROVE  Ledgers(UpdateNotes(tab, id, text))
<1> DEFINE f == [c \in tab |-> IF c.id = id THEN [c EXCEPT !.notes = text] ELSE c]
<1>1. \A c \in tab : f[c] \in Commitment /\ f[c].id = c.id
  BY DEF Ledgers, Numbered, Commitment
<1>2. UpdateNotes(tab, id, text) = {f[c] : c \in tab}
  BY DEF UpdateNotes
<1>3. f \in [tab -> Commitment]
  BY <1>1
<1> HIDE DEF f
<1>4. QED
  BY <1>1, <1>2, <1>3, LedgerChanges

\* The rows a query finds, each once.
LEMMA CommitmentsListed ==
  ASSUME NEW tab, Ledgers(tab), NEW filter
  PROVE  LET listing == ListCommitments(tab, filter) IN
         /\ listing \in Seq(Commitment)
         /\ \A i \in DOMAIN listing : listing[i] \in tab /\ Selected(filter, listing[i])
         /\ \A i, j \in DOMAIN listing : i # j => listing[i].id # listing[j].id
<1> DEFINE found == {c \in tab : Selected(filter, c)}
           R == {p \in found \X found : Sooner(p[1], p[2])}
           listing == InOrder(found, R)
<1>1. found \subseteq tab /\ \A c \in found : Selected(filter, c)
  OBVIOUS
<1>2. \A c, d \in found : <<c, d>> \in R <=> Sooner(c, d)
  OBVIOUS
<1>3. \A c \in tab : c.id \in Nat /\ c.due \in Nat /\ c \in Commitment
  BY CommitmentBounds DEF Ledgers, Numbered
<1>4. ListCommitments(tab, filter) = listing
  BY DEF ListCommitments
<1> HIDE DEF found, R
<1>5. IsFiniteSet(found)
  BY <1>1, FS_Subset DEF Ledgers, Numbered
<1>6. \A c, d \in found : c.id = d.id => c = d
  BY <1>1 DEF Ledgers, Numbered
<1>7. Orders(R, found)
  BY <1>1, <1>2, <1>3, <1>6 DEF Orders, Sooner
<1>8. /\ listing \in Seq(found)
      /\ \A i \in DOMAIN listing : listing[i] \in found
      /\ \A i, j \in DOMAIN listing : i # j => listing[i] # listing[j]
  BY <1>5, <1>7, InOrderLists
<1> HIDE DEF listing
<1>9. Seq(found) \subseteq Seq(Commitment)
  BY <1>1, <1>3, SeqMonotonic
<1>10. QED
  BY <1>1, <1>4, <1>6, <1>8, <1>9

\* A refresh shows the table the handler made, or is outdated.
LEMMA RefreshListKeeps ==
  ASSUME CommitInv, NEW tab, Ledgers(tab), NEW filter \in Filters, NEW lost \in Nat,
         RefreshList(tab, filter, lost), UNCHANGED today
  PROVE  CommitInv'
<1>1. CASE /\ Changed(tab, lost)
           /\ commitments' = ListCommitments(tab, filter) /\ painted' = commitments'
           /\ outdated' = FALSE
  <2>1. /\ ledger' = tab /\ show' = filter /\ commitFaults' \in 0..MaxCommitmentFaults
    <3>1. ledger' = tab /\ show' = filter
      BY <1>1 DEF RefreshList, Changed
    <3>2. commitFaults \in Nat /\ commitFaults' = commitFaults + lost /\ commitFaults' <= MaxCommitmentFaults
      BY <1>1, CommitmentBounds DEF Changed, CommitInv, CommitmentsTypeOK
    <3>3. QED
      BY <3>1, <3>2, CommitmentBounds
  <2>2. /\ painted' \in Seq(Commitment)
        /\ \A i \in DOMAIN painted' : painted'[i] \in tab /\ Selected(filter, painted'[i])
        /\ \A i, j \in DOMAIN painted' : i # j => painted'[i].id # painted'[j].id
    BY <1>1, CommitmentsListed
  <2>3. CommitmentsTypeOK'
    BY <1>1, <2>1, <2>2 DEF CommitInv, CommitmentsTypeOK, Ledgers, Numbered
  <2>4. RowsAreCurrent'
    BY <2>1, <2>2 DEF RowsAreCurrent, Selected, Overdue
  <2>5. QED
    BY <1>1, <2>1, <2>3, <2>4 DEF CommitInv
<1>2. CASE /\ Changed(tab, lost + 1)
           /\ commitments' = IF filter = "Overdue" THEN commitments ELSE <<>>
           /\ painted' = painted
           /\ outdated' = TRUE
  <2>1. /\ ledger' = tab /\ show' = filter /\ commitFaults' \in 0..MaxCommitmentFaults
    <3>1. ledger' = tab /\ show' = filter
      BY <1>2 DEF RefreshList, Changed
    <3>2. commitFaults \in Nat /\ commitFaults' = commitFaults + lost + 1 /\ commitFaults' <= MaxCommitmentFaults
      BY <1>2, CommitmentBounds DEF Changed, CommitInv, CommitmentsTypeOK
    <3>3. QED
      BY <3>1, <3>2, CommitmentBounds
  <2>2. <<>> \in Seq(Commitment)
    BY EmptySeq
  <2>3. CommitmentsTypeOK'
    BY <1>2, <2>1, <2>2 DEF CommitInv, CommitmentsTypeOK, Ledgers, Numbered
  <2>4. QED
    BY <1>2, <2>1, <2>3 DEF CommitInv, RowsAreCurrent
<1>3. QED
  BY <1>1, <1>2 DEF RefreshList

LEMMA CommitmentsInitial == CommitmentsInit => CommitInv
<1> SUFFICES ASSUME CommitmentsInit PROVE CommitInv
  OBVIOUS
<1>1. IsFiniteSet({}) /\ Cardinality({}) = 0
  BY FS_EmptySet
<1>2. <<>> \in Seq(Commitment) /\ DOMAIN <<>> = {}
  BY EmptySeq
<1>3. CommitmentsTypeOK
  <2>1. today \in 1..MaxDay /\ commitFaults \in 0..MaxCommitmentFaults
    BY CommitmentBounds DEF CommitmentsInit
  <2>2. QED
    BY <1>2, <2>1 DEF CommitmentsInit, CommitmentsTypeOK, Filters
<1>4. Ledgers(ledger)
  BY <1>1, CommitmentBounds DEF CommitmentsInit, Ledgers, Numbered
<1>5. RowsAreCurrent
  BY <1>2 DEF CommitmentsInit, RowsAreCurrent
<1>6. QED
  BY <1>3, <1>4, <1>5 DEF CommitmentsInit, CommitInv

\* Closing the details: each of the two statements may be lost, the other is made.
LEMMA CloseDetailKeeps ==
  ASSUME CommitInv, NEW i, NEW text \in Remarks, NEW resolve \in BOOLEAN,
         CloseDetail(i, text, resolve)
  PROVE  CommitInv'
<1> DEFINE id == painted[i].id
           status == IF resolve THEN "resolved" ELSE "snoozed"
           noting(noted) == IF noted THEN UpdateNotes(ledger, id, text) ELSE ledger
           tab(noted, marked) ==
             IF marked THEN SetStatus(noting(noted), id, status) ELSE noting(noted)
           lost(noted, marked) == Cardinality({k \in {1, 2} : ~<<noted, marked>>[k]})
<1>1. PICK noted \in BOOLEAN, marked \in BOOLEAN :
        RefreshList(tab(noted, marked), show, lost(noted, marked))
  BY DEF CloseDetail
<1>2. UNCHANGED today /\ show \in Filters /\ Ledgers(ledger)
  BY DEF CloseDetail, CommitInv, CommitmentsTypeOK
<1>3. Ledgers(noting(noted))
  BY <1>2, UpdateNotesKeeps
<1>4. Ledgers(tab(noted, marked))
  <2> HIDE DEF noting, id
  <2>1. status \in {"open", "resolved", "snoozed"}
    OBVIOUS
  <2> HIDE DEF status
  <2>2. QED
    BY <1>3, <2>1, SetStatusKeeps
<1>5. lost(noted, marked) \in Nat
  <2> DEFINE L == {k \in {1, 2} : ~<<noted, marked>>[k]}
  <2>1. L \in SUBSET ({1} \cup {2})
    OBVIOUS
  <2> HIDE DEF L
  <2>2. IsFiniteSet(L)
    <3>1. IsFiniteSet({1} \cup {2})
      BY FS_Singleton, FS_AddElement
    <3>2. QED
      BY <2>1, <3>1, FS_Subset
  <2>3. Cardinality(L) \in Nat
    BY <2>2, FS_CardinalityType
  <2>4. QED
    BY <2>3 DEF L
<1> HIDE DEF tab, lost
<1>6. QED
  BY <1>1, <1>2, <1>4, <1>5, RefreshListKeeps

LEMMA CommitmentsPreserved == CommitInv /\ [CommitmentsNext]_commitVars => CommitInv'
<1> SUFFICES ASSUME CommitInv, [CommitmentsNext]_commitVars PROVE CommitInv'
  OBVIOUS
<1>0. /\ Ledgers(ledger) /\ CommitmentsTypeOK /\ show \in Filters
      /\ commitFaults \in Nat /\ today \in Nat
  BY CommitmentBounds DEF CommitInv, CommitmentsTypeOK
<1>1. ASSUME NEW filter \in Filters, SelectFilter(filter) PROVE CommitInv'
  BY <1>0, <1>1, RefreshListKeeps DEF SelectFilter
<1>2. ASSUME NEW i \in DOMAIN painted, ResolveRow(i) PROVE CommitInv'
  <2> DEFINE tab == SetStatus(ledger, painted[i].id, "resolved")
  <2>1. CASE RefreshList(tab, show, 0) /\ UNCHANGED today
    <3>1. Ledgers(tab)
      BY <1>0, SetStatusKeeps
    <3> HIDE DEF tab
    <3>2. QED
      BY <1>0, <2>1, <3>1, RefreshListKeeps
  <2>2. CASE Changed(ledger, 1) /\ UNCHANGED <<show, commitments, painted, outdated, today>>
    <3>1. ledger' = ledger /\ commitFaults' \in 0..MaxCommitmentFaults
      BY <1>0, <2>2, CommitmentBounds DEF Changed
    <3>2. CommitmentsTypeOK'
      BY <1>0, <2>2, <3>1 DEF CommitmentsTypeOK
    <3>3. RowsAreCurrent'
      BY <2>2, <3>1 DEF CommitInv, RowsAreCurrent, Selected, Overdue
    <3>4. QED
      BY <2>2, <3>1, <3>2, <3>3 DEF CommitInv
  <2>3. QED
    BY <1>2, <2>1, <2>2 DEF ResolveRow
<1>3. ASSUME NEW i \in DOMAIN painted, NEW text \in Remarks, NEW resolve \in BOOLEAN,
             CloseDetail(i, text, resolve)
      PROVE  CommitInv'
  BY <1>3, CloseDetailKeeps
<1>4. CASE Repaint
  <2>1. outdated /\ outdated' = outdated
    BY <1>4 DEF Repaint, CommitInv, CommitmentsTypeOK
  <2>2. CommitmentsTypeOK' /\ Ledgers(ledger)'
    BY <1>0, <1>4 DEF Repaint, CommitmentsTypeOK
  <2>3. QED
    BY <2>1, <2>2 DEF CommitInv, RowsAreCurrent
<1>5. ASSUME NEW answer \in ModelAnswers, NEW i \in DOMAIN Extract(answer),
             SaveCommitment(Extract(answer)[i])
      PROVE  CommitInv'
  <2> DEFINE due == Extract(answer)[i]
             c0 == [id |-> Cardinality(ledger) + 1, due |-> due, status |-> "open", notes |-> ""]
  <2>1. due \in DueDays
    <3>1. \A a \in ModelAnswers : \A k \in DOMAIN a.items : a.items[k].due \in DueDays
      BY Zenon, CommitmentsAssumption
    <3>2. 0 \in DueDays
      BY Zenon, CommitmentsAssumption
    <3>3. QED
      BY <3>1, <3>2 DEF Extract
  <2> HIDE DEF due
  <2>2. /\ Cardinality(ledger) < MaxCommitments /\ ledger' = ledger \cup {c0}
        /\ UNCHANGED <<today, show, commitments, painted, outdated, commitFaults>>
    BY <1>5 DEF SaveCommitment, due
  <2>3. Cardinality(ledger) \in Nat
    BY <1>0, FS_CardinalityType DEF Ledgers, Numbered
  <2>4. c0 \in Commitment /\ c0.id = Cardinality(ledger) + 1
    <3>1. "" \in Remarks
      BY Zenon, CommitmentsAssumption
    <3>2. Cardinality(ledger) + 1 \in 1..MaxCommitments
      <4>1. Cardinality(ledger) < MaxCommitments /\ MaxCommitments \in Nat
        BY <2>2, CommitmentBounds
      <4>2. QED
        BY <2>3, <4>1
    <3>3. QED
      BY <2>1, <3>1, <3>2 DEF Commitment
  <2> HIDE DEF c0
  <2>5. \A c \in ledger : c.id # c0.id
    BY <1>0, <2>3, <2>4, CommitmentBounds DEF Ledgers, Numbered
  <2>6. IsFiniteSet(ledger') /\ Cardinality(ledger') = Cardinality(ledger) + 1
    BY <1>0, <2>2, <2>5, FS_AddElement DEF Ledgers, Numbered
  <2>7. Ledgers(ledger)'
    <3>1. Cardinality(ledger') <= MaxCommitments
      BY <2>2, <2>3, <2>6, CommitmentBounds
    <3>2. \A c \in ledger' : c.id <= Cardinality(ledger')
      BY <1>0, <2>2, <2>3, <2>4, <2>6, CommitmentBounds DEF Ledgers, Numbered
    <3>3. \A c, d \in ledger' : c.id = d.id => c = d
      BY <1>0, <2>2, <2>5 DEF Ledgers, Numbered
    <3>4. ledger' \subseteq Commitment
      BY <1>0, <2>2, <2>4 DEF Ledgers, Numbered
    <3>5. QED
      BY <2>6, <3>1, <3>2, <3>3, <3>4 DEF Ledgers, Numbered
  <2>8. CommitmentsTypeOK'
    BY <1>0, <2>2, <2>7 DEF CommitmentsTypeOK, Ledgers, Numbered
  <2>9. RowsAreCurrent'
    BY <2>2 DEF CommitInv, RowsAreCurrent, Selected, Overdue
  <2>10. QED
    BY <2>2, <2>7, <2>8, <2>9 DEF CommitInv
<1>6. CASE DayPasses
  <2>1. /\ today' = today + 1 /\ today < MaxDay
        /\ UNCHANGED <<ledger, show, commitments, painted, outdated, commitFaults>>
    BY <1>6 DEF DayPasses
  <2>2. CommitmentsTypeOK'
    BY <1>0, <2>1, CommitmentBounds DEF CommitmentsTypeOK
  <2>3. ASSUME NEW c \in ledger, Selected(show, c) PROVE Selected(show, c)'
    <3>1. c.due \in Nat
      BY <1>0, CommitmentBounds DEF Ledgers, Numbered
    <3>2. QED
      BY <1>0, <2>1, <2>3, <3>1 DEF Selected, Overdue
  <2>4. RowsAreCurrent'
    BY <2>1, <2>3 DEF CommitInv, RowsAreCurrent
  <2>5. QED
    BY <2>1, <2>2, <2>4 DEF CommitInv, Ledgers, Numbered
<1>7. CASE UNCHANGED commitVars
  BY <1>7 DEF commitVars, CommitInv, CommitmentsTypeOK, Ledgers, Numbered, RowsAreCurrent, Selected, Overdue
<1>8. QED
  BY <1>1, <1>2, <1>3, <1>4, <1>5, <1>6, <1>7 DEF CommitmentsNext

------------------------------------------------------------------------------
(***************************************************************************)
(* The migration wizard.                                                   *)
(***************************************************************************)

\* The messages of migration g after the a-th, up to the b-th.
Stretch(g, a, b) == [n \in 1..(b - a) |-> <<g, a + n>>]

\* s of the messages of g have been sent.
HasSent(g, s) ==
  \/ backend[g] = 2 * s \/ backend[g] = 2 * s - 1
  \/ backend[g] = ToSend + 1 /\ s = Len(Stages)

\* What a thread has read of the step; only buttons start migrations.
WizardTypes ==
  /\ currentStep \in Int /\ dialogs \in Seq(Steps) /\ dialogClosed \in BOOLEAN
  /\ turn \in [Threads -> [at : {"none", "write", "show"}, was : Int, by : Int, starts : BOOLEAN]]
  /\ \A g \in Migrations : ~turn[g].starts
  /\ turn[0].starts => Started # Migrations
  /\ backend \in [Migrations -> 0..(ToSend + 1)]
  /\ DOMAIN logChan = Migrations
  /\ DOMAIN viewer = Migrations
  /\ \A g \in Migrations :
       /\ viewer[g] = [at |-> viewer[g].at, text |-> viewer[g].text]
       /\ viewer[g].at \in {"none", "select", "settext", "returned"}

\* r of the messages of the only migration have been received, and all of those are
\* in the log but the one that is about to be.
LogOf(g, r, s) ==
  /\ r <= s /\ HasSent(g, s)
  /\ logChan[g] = Stretch(g, r, s)
  /\ viewer[g].at = "settext" =>
       r > 0 /\ viewer[g].text = Stretch(g, 0, r) /\ migrationLog = Stretch(g, 0, r - 1)
  /\ viewer[g].at # "settext" => migrationLog = Stretch(g, 0, r)
  /\ viewer[g].at = "returned" => r = Len(Stages)

WizardLog ==
  /\ Started = {} => migrationLog = <<>>
  /\ \A g \in Migrations : viewer[g].at = "none" => backend[g] = 0 /\ logChan[g] = <<>>
  /\ \A g \in Migrations : Started = {g} => \E r, s \in 0..Len(Stages) : LogOf(g, r, s)

\* The user is on the way to the Start button; then a migration is, to the last step.
Walking ==
  /\ Started = {} /\ \A g \in Migrations : turn[g] = Settled
  /\ \A i \in DOMAIN dialogs : dialogs[i] \in 0..4
  /\ \/ /\ turn[0] = Settled /\ currentStep \in 0..4
        /\ dialogs # <<>> => Last(dialogs) = currentStep
     \/ /\ turn[0].at = "write" /\ turn[0].was \in 0..4
        /\ turn[0].was + turn[0].by \in 0..5
        /\ turn[0].starts <=> turn[0].was + turn[0].by = Migration
     \/ /\ turn[0].at = "show" /\ currentStep \in 0..5
        /\ turn[0].starts <=> currentStep = Migration

Migrating(g) ==
  /\ Started = {g} /\ \A t \in Threads : t # g => turn[t] = Settled
  /\ dialogs # <<>>
  /\ \/ /\ currentStep = Migration /\ Last(dialogs) = Migration
        /\ \A i \in DOMAIN dialogs : dialogs[i] # Completion
        /\ \/ turn[g] = Settled /\ viewer[g].at # "returned"
           \/ turn[g].at = "write" /\ turn[g].was + turn[g].by = Completion /\ viewer[g].at = "returned"
     \/ /\ currentStep = Completion /\ Last(dialogs) = Migration
        /\ turn[g].at = "show" /\ viewer[g].at = "returned"
        /\ \A i \in DOMAIN dialogs : dialogs[i] # Completion
     \/ /\ currentStep = Completion /\ Last(dialogs) = Completion
        /\ turn[g] = Settled /\ viewer[g].at = "returned"

WizardSteps == dialogClosed \/ Walking \/ \E g \in Migrations : Migrating(g)

WizardInv == WizardTypes /\ WizardLog /\ WizardSteps

LEMMA WizardConstants ==
  /\ MaxMigrations \in Nat /\ Migrations \subseteq Nat /\ 0 \notin Migrations
  /\ Threads = {0} \cup Migrations /\ Len(Stages) \in Nat /\ ToSend = 2 * Len(Stages)
  /\ DOMAIN Stages = 1..Len(Stages)
<1>1. MaxMigrations \in Nat /\ Stages \in Seq(1..100)
  BY Zenon, WizardAssumption
<1>2. Len(Stages) \in Nat /\ DOMAIN Stages = 1..Len(Stages)
  BY <1>1, LenProperties
<1>3. QED
  BY <1>1, <1>2 DEF Migrations, Threads, ToSend

LEMMA WizardInitial == WizardInit => WizardInv
<1> SUFFICES ASSUME WizardInit PROVE WizardInv
  OBVIOUS
<1>1. Started = {}
  BY DEF WizardInit, Started
<1>2. <<>> \in Seq(Steps) /\ DOMAIN <<>> = {}
  BY EmptySeq
<1>3. WizardTypes
  <2>1. turn = [t \in Threads |-> [at |-> "none", was |-> 0, by |-> 0, starts |-> FALSE]]
    BY DEF WizardInit, Settled
  <2>2. 0 \in 0..(ToSend + 1)
    BY WizardConstants
  <2>3. backend \in [Migrations -> 0..(ToSend + 1)]
    BY <2>2 DEF WizardInit
  <2>4. /\ turn \in [Threads -> [at : {"none", "write", "show"}, was : Int, by : Int, starts : BOOLEAN]]
        /\ \A g \in Migrations : ~turn[g].starts
        /\ ~turn[0].starts
    BY <2>1, WizardConstants
  <2>5. currentStep \in Int /\ dialogs \in Seq(Steps) /\ dialogClosed \in BOOLEAN
    <3>1. currentStep = 0 /\ dialogs = <<>> /\ dialogClosed = FALSE
      BY DEF WizardInit, Welcome
    <3>2. currentStep \in Int
      BY <3>1
    <3>3. dialogClosed \in BOOLEAN
      BY Zenon, <3>1
    <3>4. QED
      BY <1>2, <3>1, <3>2, <3>3
  <2>6. /\ DOMAIN logChan = Migrations /\ DOMAIN viewer = Migrations
        /\ \A g \in Migrations :
             /\ viewer[g] = [at |-> viewer[g].at, text |-> viewer[g].text]
             /\ viewer[g].at \in {"none", "select", "settext", "returned"}
    BY DEF WizardInit
  <2>7. QED
    BY <2>3, <2>4, <2>5, <2>6 DEF WizardTypes
<1>4. WizardLog
  BY <1>1 DEF WizardInit, WizardLog
<1>5. Walking
  BY <1>1, <1>2, WizardConstants DEF WizardInit, Walking, Welcome
<1>6. QED
  BY <1>3, <1>4, <1>5 DEF WizardInv, WizardSteps

\* The buttons and the writes to the step.
LEMMA WizardTypesKept ==
  ASSUME WizardTypes, WizardHandlers \/ WizardGoes
  PROVE  WizardTypes'
<1> DEFINE Turns == [at : {"none", "write", "show"}, was : Int, by : Int, starts : BOOLEAN]
           ViewerOK(v) == /\ v = [at |-> v.at, text |-> v.text]
                          /\ v.at \in {"none", "select", "settext", "returned"}
<1>0. /\ currentStep \in Int /\ dialogs \in Seq(Steps) /\ dialogClosed \in BOOLEAN
      /\ turn \in [Threads -> Turns]
      /\ \A g \in Migrations : ~turn[g].starts
      /\ turn[0].starts => Started # Migrations
      /\ backend \in [Migrations -> 0..(ToSend + 1)]
      /\ DOMAIN logChan = Migrations /\ DOMAIN viewer = Migrations
      /\ \A g \in Migrations : ViewerOK(viewer[g])
  BY DEF WizardTypes
<1>c. /\ 0 \notin Migrations /\ Threads = {0} \cup Migrations /\ ToSend \in Nat
      /\ Settled \in Turns /\ ~Settled.starts
  BY WizardConstants DEF Settled
<1>s. \A st : st \in Steps => Append(dialogs, st) \in Seq(Steps)
  BY <1>0, AppendProperties
<1>1. ASSUME NEW on, NEW by \in Int, NEW starts \in BOOLEAN, Presses(on, by, starts),
             starts => Started # Migrations
      PROVE  WizardTypes'
  <2>1. /\ turn' = [turn EXCEPT ![0] = [at |-> "write", was |-> currentStep, by |-> by, starts |-> starts]]
        /\ UNCHANGED <<currentStep, dialogs, logChan, backend, viewer, dialogClosed>>
    BY <1>1 DEF Presses, Counts, migrationVars
  <2>2. turn' \in [Threads -> Turns] /\ (\A g \in Migrations : ~turn'[g].starts)
        /\ turn'[0].starts = starts
    BY <1>0, <1>c, <2>1
  <2>3. Started' = Started
    BY <2>1 DEF Started
  <2>4. QED
    BY <1>0, <1>1, <2>1, <2>2, <2>3 DEF WizardTypes
<1>2. ASSUME NEW t \in Threads, WriteStep(t) PROVE WizardTypes'
  <2>1. /\ currentStep' = turn[t].was + turn[t].by
        /\ turn' = [turn EXCEPT ![t] = [turn[t] EXCEPT !.at = "show"]]
        /\ UNCHANGED <<dialogs, logChan, backend, viewer, dialogClosed>>
    BY <1>0, <1>2 DEF WriteStep, migrationVars
  <2>2. currentStep' \in Int
    BY <1>0, <2>1
  <2>3. turn' \in [Threads -> Turns] /\ \A u \in Threads : turn'[u].starts = turn[u].starts
    BY <1>0, <2>1
  <2>4. Started' = Started
    BY <2>1 DEF Started
  <2>5. QED
    BY <1>0, <1>c, <2>1, <2>2, <2>3, <2>4 DEF WizardTypes
<1>3. ASSUME NEW t \in Threads, ShowStep(t) PROVE WizardTypes'
  <2>1. /\ dialogs' = IF currentStep \in Steps THEN Append(dialogs, currentStep) ELSE dialogs
        /\ turn' = [turn EXCEPT ![t] = Settled]
        /\ UNCHANGED <<currentStep, logChan, backend, dialogClosed>>
    BY <1>3 DEF ShowStep, migrationVars
  <2>2. dialogs' \in Seq(Steps)
    BY <1>0, <1>s, <2>1
  <2>3. turn' \in [Threads -> Turns] /\ (\A g \in Migrations : ~turn'[g].starts)
    BY <1>0, <1>c, <2>1
  <2>4. CASE turn[t].starts
    <3> DEFINE g == Min(Migrations \ Started)
    <3>1. viewer' = [viewer EXCEPT ![g] = [viewer[g] EXCEPT !.at = "select"]]
      BY <1>3, <2>4 DEF ShowStep
    <3> HIDE DEF g
    <3>2. t = 0 /\ ~turn'[0].starts
      BY <1>0, <1>c, <2>1, <2>4
    <3>3. DOMAIN viewer' = Migrations /\ \A h \in Migrations : ViewerOK(viewer'[h])
      BY <1>0, <3>1
    <3>4. QED
      BY <1>0, <2>1, <2>2, <2>3, <3>2, <3>3 DEF WizardTypes
  <2>5. CASE ~turn[t].starts
    <3>1. viewer' = viewer /\ Started' = Started
      BY <1>3, <2>5 DEF ShowStep, Started
    <3>2. turn'[0].starts => turn[0].starts
      BY <1>0, <1>c, <2>1
    <3>3. QED
      BY <1>0, <2>1, <2>2, <2>3, <3>1, <3>2 DEF WizardTypes
  <2>6. QED
    BY <1>0, <2>4, <2>5
<1>4. CASE CloseDialog
  <2>1. /\ dialogs # <<>> /\ dialogs' = Front(dialogs) /\ dialogClosed' = TRUE
        /\ UNCHANGED <<currentStep, turn, logChan, backend, viewer>>
    BY <1>4 DEF CloseDialog, migrationVars
  <2>2. Front(dialogs) \in Seq(Steps)
    BY <1>0, <2>1 DEF Front
  <2>3. Started' = Started
    BY <2>1 DEF Started
  <2>4. QED
    BY <1>0, <2>1, <2>2, <2>3 DEF WizardTypes
<1>5. CASE ShowMigrationWizard
  <2>1. /\ currentStep' = 0 /\ dialogs' = <<0>> /\ dialogClosed' = FALSE /\ turn' = turn
        /\ logChan' = [g \in Migrations |-> <<>>] /\ backend' = [g \in Migrations |-> 0]
        /\ viewer' = [g \in Migrations |-> [at |-> "none", text |-> <<>>]]
        /\ turn[0] = Settled
    BY <1>5, <1>c DEF ShowMigrationWizard, Welcome
  <2>2. dialogs' \in Seq(Steps)
    BY <2>1 DEF Steps
  <2>3. 0 \in 0..(ToSend + 1)
    BY <1>c
  <2>4. backend' \in [Migrations -> 0..(ToSend + 1)]
    BY <2>1, <2>3
  <2>5. DOMAIN viewer' = Migrations /\ DOMAIN logChan' = Migrations
        /\ \A g \in Migrations : ViewerOK(viewer'[g])
    BY <2>1
  <2>6. currentStep' \in Int /\ ~turn'[0].starts
    BY <1>c, <2>1
  <2>7. dialogClosed' \in BOOLEAN
    BY Zenon, <2>1
  <2>8. QED
    BY <1>0, <2>1, <2>2, <2>4, <2>5, <2>6, <2>7 DEF WizardTypes
<1>6. ASSUME NEW g \in Migrations, SendMessage(g) \/ SendPercentage(g) \/ CloseChannels(g)
      PROVE  WizardTypes'
  <2>1. /\ backend' = [backend EXCEPT ![g] = @ + 1] /\ backend[g] <= ToSend
        /\ DOMAIN logChan' = DOMAIN logChan
        /\ UNCHANGED <<currentStep, dialogs, turn, viewer, dialogClosed>>
    <3>1. CASE SendMessage(g)
      BY <1>0, <1>c, <3>1 DEF SendMessage
    <3>2. CASE SendPercentage(g)
      BY <1>0, <1>c, <3>2 DEF SendPercentage
    <3>3. CASE CloseChannels(g)
      BY <1>0, <1>c, <3>3 DEF CloseChannels
    <3>4. QED
      BY <1>6, <3>1, <3>2, <3>3
  <2>2. backend' \in [Migrations -> 0..(ToSend + 1)]
    BY <1>0, <1>c, <2>1
  <2>3. Started' = Started
    BY <2>1 DEF Started
  <2>4. QED
    BY <1>0, <2>1, <2>2, <2>3 DEF WizardTypes
<1>7. ASSUME NEW g \in Migrations, ReceiveMessage(g) \/ SetText(g) PROVE WizardTypes'
  <2>0. PICK at \in {"select", "settext"} :
          \E text : viewer' = [viewer EXCEPT ![g] = [at |-> at, text |-> text]]
    BY <1>7 DEF ReceiveMessage, SetText
  <2>1. PICK text : viewer' = [viewer EXCEPT ![g] = [at |-> at, text |-> text]]
    BY <2>0
  <2>2. /\ viewer[g].at \in {"select", "settext"} /\ DOMAIN logChan' = DOMAIN logChan
        /\ UNCHANGED <<currentStep, dialogs, turn, backend, dialogClosed>>
    BY <1>7 DEF ReceiveMessage, SetText
  <2>3. DOMAIN viewer' = Migrations /\ \A h \in Migrations : ViewerOK(viewer'[h])
    BY <1>0, <2>1
  <2>4. Started' = Started
    BY <1>0, <2>1, <2>2 DEF Started
  <2>5. QED
    BY <1>0, <2>2, <2>3, <2>4 DEF WizardTypes
<1>8. ASSUME NEW g \in Migrations, ReceivePercentage(g) PROVE WizardTypes'
  BY <1>8 DEF ReceivePercentage, WizardTypes, Started
<1>9. ASSUME NEW g \in Migrations, MigrationEnds(g) PROVE WizardTypes'
  <2>1. /\ viewer[g].at = "select" /\ viewer' = [viewer EXCEPT ![g] = [viewer[g] EXCEPT !.at = "returned"]]
        /\ turn' = [turn EXCEPT ![g] = [at |-> "write", was |-> currentStep, by |-> 1, starts |-> FALSE]]
        /\ UNCHANGED <<currentStep, dialogs, logChan, backend, dialogClosed>>
    BY <1>9 DEF MigrationEnds, Counts, migrationVars
  <2>2. DOMAIN viewer' = Migrations /\ \A h \in Migrations : ViewerOK(viewer'[h])
    BY <1>0, <2>1
  <2>3. turn' \in [Threads -> Turns] /\ (\A h \in Migrations : ~turn'[h].starts) /\ turn'[0] = turn[0]
    BY <1>0, <1>c, <2>1
  <2>4. Started' = Started
    BY <1>0, <2>1 DEF Started
  <2>5. QED
    BY <1>0, <2>1, <2>2, <2>3, <2>4 DEF WizardTypes
<1>10. CASE NextStep \/ BackStep \/ StartMigration
  <2>1. 1 \in Int /\ -1 \in Int
    OBVIOUS
  <2>2. TRUE \in BOOLEAN /\ FALSE \in BOOLEAN
    OBVIOUS
  <2>3. CASE NextStep
    BY <1>1, <2>1, <2>2, <2>3 DEF NextStep
  <2>4. CASE BackStep
    BY <1>1, <2>1, <2>2, <2>4 DEF BackStep
  <2>5. CASE StartMigration
    BY <1>1, <2>1, <2>2, <2>5 DEF StartMigration
  <2>6. QED
    BY <1>10, <2>3, <2>4, <2>5
<1>11. QED
  BY <1>2, <1>3, <1>4, <1>5, <1>6, <1>7, <1>8, <1>9, <1>10 DEF WizardHandlers, WizardGoes

\* A channel is a stretch of the messages: sent at one end, received at the other.
LEMMA StretchIs ==
  ASSUME NEW g, NEW a \in Nat, NEW b \in Nat, a <= b
  PROVE  Stretch(g, a, b) \in Seq({g} \X Nat) /\ Len(Stretch(g, a, b)) = b - a
<1>1. Stretch(g, a, b) = [n \in 1..(b - a) |-> <<g, a + n>>] /\ b - a \in Nat
  BY DEF Stretch
<1>2. QED
  BY <1>1

LEMMA StretchEmpty ==
  ASSUME NEW g, NEW a \in Nat
  PROVE  Stretch(g, a, a) = <<>>
<1>1. a <= a /\ a - a = 0
  OBVIOUS
<1>2. Stretch(g, a, a) \in Seq({g} \X Nat) /\ Len(Stretch(g, a, a)) = 0
  BY <1>1, StretchIs
<1>3. QED
  BY <1>2

LEMMA StretchSent ==
  ASSUME NEW g, NEW a \in Nat, NEW b \in Nat, a <= b
  PROVE  Append(Stretch(g, a, b), <<g, b + 1>>) = Stretch(g, a, b + 1)
<1> DEFINE c == Stretch(g, a, b)
<1>1. c = [n \in 1..(b - a) |-> <<g, a + n>>] /\ b - a \in Nat
  BY DEF Stretch
<1>2. c \in Seq({g} \X Nat) /\ Len(c) = b - a
  BY StretchIs
<1>3. Append(c, <<g, b + 1>>) = [n \in 1..(b - a + 1) |-> IF n = b - a + 1 THEN <<g, b + 1>> ELSE c[n]]
  BY <1>1, <1>2
<1>4. (b + 1) - a = b - a + 1
  OBVIOUS
<1>5. \A n \in 1..(b - a + 1) : (IF n = b - a + 1 THEN <<g, b + 1>> ELSE c[n]) = <<g, a + n>>
  BY <1>1
<1>6. QED
  BY <1>3, <1>4, <1>5 DEF Stretch

LEMMA StretchReceived ==
  ASSUME NEW g, NEW a \in Nat, NEW b \in Nat, a < b
  PROVE  Head(Stretch(g, a, b)) = <<g, a + 1>> /\ Tail(Stretch(g, a, b)) = Stretch(g, a + 1, b)
<1> DEFINE c == Stretch(g, a, b)
<1>1. c = [n \in 1..(b - a) |-> <<g, a + n>>] /\ b - a \in Nat
  BY DEF Stretch
<1>2. c \in Seq({g} \X Nat) /\ Len(c) = b - a /\ c # <<>>
  <2>1. a <= b /\ b - a # 0
    OBVIOUS
  <2>2. c \in Seq({g} \X Nat) /\ Len(c) = b - a
    BY <2>1, StretchIs
  <2>3. QED
    BY <2>1, <2>2, EmptySeq
<1>3. b - (a + 1) = b - a - 1 /\ c[1] = <<g, a + 1>>
  BY <1>1
<1> HIDE DEF c
<1>4. Head(c) = c[1] /\ Tail(c) \in Seq({g} \X Nat) /\ Len(Tail(c)) = b - a - 1
      /\ \A n \in 1..Len(Tail(c)) : Tail(c)[n] = c[n + 1]
  BY <1>2, HeadTailProperties
<1>5. Tail(c) = [n \in 1..(b - a - 1) |-> c[n + 1]]
  BY <1>1, <1>4, IsASeq, LenProperties
<1>6. \A n \in 1..(b - a - 1) : c[n + 1] = <<g, (a + 1) + n>>
  BY <1>1
<1>7. Tail(c) = [n \in 1..(b - (a + 1)) |-> <<g, (a + 1) + n>>]
  BY <1>3, <1>5, <1>6
<1>8. QED
  BY <1>3, <1>4, <1>7 DEF c, Stretch

\* A step of migration g that leaves the others alone answers for g.
LEMMA WizardLogBy ==
  ASSUME WizardLog, NEW g \in Migrations, viewer[g].at # "none", viewer'[g].at # "none",
         \A h \in Migrations : h # g =>
           viewer'[h] = viewer[h] /\ backend'[h] = backend[h] /\ logChan'[h] = logChan[h],
         \A r, s \in 0..Len(Stages) :
           LogOf(g, r, s) => \E u, v \in 0..Len(Stages) : LogOf(g, u, v)'
  PROVE  WizardLog'
<1>1. Started' = Started /\ g \in Started
  BY DEF Started
<1>2. \A h \in Migrations : viewer'[h].at = "none" => backend'[h] = 0 /\ logChan'[h] = <<>>
  BY DEF WizardLog
<1>3. ASSUME NEW h \in Migrations, Started' = {h}
      PROVE  \E u, v \in 0..Len(Stages) : LogOf(h, u, v)'
  BY <1>1, <1>3 DEF WizardLog
<1>4. QED
  BY <1>1, <1>2, <1>3 DEF WizardLog

LEMMA WizardLogStays ==
  ASSUME WizardLog, UNCHANGED <<viewer, backend, logChan, migrationLog>>
  PROVE  WizardLog'
BY DEF WizardLog, LogOf, HasSent, Started

LEMMA WizardLogKept ==
  ASSUME WizardTypes, WizardLog, WizardHandlers \/ WizardGoes
  PROVE  WizardLog'
<1> DEFINE L == Len(Stages)
<1>0. /\ backend \in [Migrations -> 0..(ToSend + 1)]
      /\ DOMAIN logChan = Migrations /\ DOMAIN viewer = Migrations
      /\ \A g \in Migrations : viewer[g] = [at |-> viewer[g].at, text |-> viewer[g].text]
  BY DEF WizardTypes
<1>c. L \in Nat /\ ToSend = 2 * L
  BY WizardConstants
<1>1. ASSUME NEW t \in Threads, ShowStep(t) PROVE WizardLog'
  <2>1. UNCHANGED <<logChan, backend, migrationLog>>
    BY <1>1 DEF ShowStep, migrationVars
  <2>2. CASE ~turn[t].starts
    BY <1>1, <2>1, <2>2, WizardLogStays DEF ShowStep
  <2>3. CASE turn[t].starts
    <3>1. PICK g \in Migrations \ Started :
            viewer' = [viewer EXCEPT ![g] = [viewer[g] EXCEPT !.at = "select"]]
      <4> DEFINE left == Migrations \ Started
      <4>1. Started # Migrations /\ Started \subseteq Migrations
        BY <2>3, WizardConstants DEF WizardTypes, Started
      <4>2. left \in SUBSET Nat /\ left # {}
        BY <4>1, WizardConstants
      <4>3. viewer' = [viewer EXCEPT ![Min(left)] = [viewer[Min(left)] EXCEPT !.at = "select"]]
        BY <1>1, <2>3 DEF ShowStep
      <4> HIDE DEF left
      <4>4. Min(left) \in left
        BY <4>2, NatLeast DEF Min
      <4>5. QED
        BY <4>3, <4>4 DEF left
    <3>2. g \in Migrations
      BY <3>1
    <3>3. /\ viewer[g].at = "none" /\ viewer'[g].at = "select"
          /\ \A h \in Migrations : h # g => viewer'[h] = viewer[h]
      BY <1>0, <3>1, <3>2 DEF Started
    <3>4. g \in Started' /\ \A h \in Started : h \in Started'
      BY <3>2, <3>3 DEF Started
    <3>5. \A h \in Migrations : viewer'[h].at = "none" => backend'[h] = 0 /\ logChan'[h] = <<>>
      BY <2>1, <3>3 DEF WizardLog
    <3>6. ASSUME NEW h \in Migrations, Started' = {h}
          PROVE  \E u, v \in 0..L : LogOf(h, u, v)'
      <4>1. h = g /\ Started = {}
        BY <3>2, <3>4, <3>6 DEF Started
      <4>2. migrationLog' = <<>> /\ backend'[g] = 0 /\ logChan'[g] = <<>>
        BY <2>1, <3>2, <3>3, <4>1 DEF WizardLog
      <4>3. Stretch(g, 0, 0) = <<>>
        BY StretchEmpty
      <4>4. HasSent(g, 0)'
        BY <4>2 DEF HasSent
      <4>5. LogOf(g, 0, 0)'
        BY <3>3, <4>2, <4>3, <4>4 DEF LogOf
      <4>6. 0 \in 0..L
        BY <1>c
      <4>7. QED
        BY <4>1, <4>5, <4>6
    <3>7. QED
      BY <3>4, <3>5, <3>6 DEF WizardLog
  <2>4. QED
    BY <2>2, <2>3
<1>2. CASE ShowMigrationWizard
  <2>1. /\ \A g \in Migrations : viewer'[g].at = "none" /\ backend'[g] = 0 /\ logChan'[g] = <<>>
        /\ migrationLog' = <<>>
    BY <1>2 DEF ShowMigrationWizard
  <2>2. Started' = {}
    BY <2>1 DEF Started
  <2>3. QED
    BY <2>1, <2>2 DEF WizardLog
<1>3. ASSUME NEW g \in Migrations, SendMessage(g) PROVE WizardLog'
  <2> DEFINE n == backend[g] \div 2 + 1
  <2>1. /\ viewer[g].at # "none" /\ viewer' = viewer /\ migrationLog' = migrationLog
        /\ backend[g] < ToSend /\ backend[g] % 2 = 0
        /\ logChan' = [logChan EXCEPT ![g] = Append(logChan[g], <<g, n>>)]
        /\ backend' = [backend EXCEPT ![g] = backend[g] + 1]
    BY <1>0, <1>3 DEF SendMessage, Started
  <2>2. ASSUME NEW r \in 0..L, NEW s \in 0..L, LogOf(g, r, s)
        PROVE  \E u, v \in 0..L : LogOf(g, u, v)'
    <3>0. backend[g] \in Nat /\ HasSent(g, s)
      BY <1>0, <2>2 DEF LogOf
    <3>1. backend[g] = 2 * s /\ n = s + 1 /\ s + 1 \in 0..L
      BY <1>0, <1>c, <2>1, <2>2, <3>0, SMTT(30) DEF HasSent
    <3>2. backend'[g] = 2 * (s + 1) - 1 /\ logChan'[g] = Append(logChan[g], <<g, s + 1>>)
      BY <1>0, <2>1, <3>1
    <3>3. r \in Nat /\ s \in Nat /\ r <= s
      BY <1>c, <2>2 DEF LogOf
    <3>4. logChan'[g] = Stretch(g, r, s + 1)
      BY <2>2, <3>2, <3>3, StretchSent DEF LogOf
    <3>5. LogOf(g, r, s + 1)'
      BY <2>1, <2>2, <3>2, <3>3, <3>4 DEF LogOf, HasSent
    <3>6. QED
      BY <3>1, <3>5
  <2>3. \A h \in Migrations : h # g =>
          viewer'[h] = viewer[h] /\ backend'[h] = backend[h] /\ logChan'[h] = logChan[h]
    BY <1>0, <2>1
  <2>4. QED
    BY <2>1, <2>2, <2>3, WizardLogBy
<1>4. ASSUME NEW g \in Migrations, SendPercentage(g) PROVE WizardLog'
  <2>1. /\ viewer' = viewer /\ migrationLog' = migrationLog /\ logChan' = logChan
        /\ backend[g] < ToSend /\ backend[g] % 2 = 1
        /\ backend' = [backend EXCEPT ![g] = backend[g] + 1]
    BY <1>0, <1>4 DEF SendPercentage
  <2>2. viewer[g].at # "none"
    BY <2>1 DEF WizardLog
  <2>3. ASSUME NEW r \in 0..L, NEW s \in 0..L, LogOf(g, r, s)
        PROVE  \E u, v \in 0..L : LogOf(g, u, v)'
    <3>1. backend[g] = 2 * s - 1
      BY <1>0, <1>c, <2>1, <2>3 DEF LogOf, HasSent
    <3>2. backend'[g] = 2 * s
      BY <1>0, <2>1, <3>1
    <3>3. LogOf(g, r, s)'
      BY <2>1, <2>3, <3>2 DEF LogOf, HasSent
    <3>4. QED
      BY <3>3
  <2>4. \A h \in Migrations : h # g =>
          viewer'[h] = viewer[h] /\ backend'[h] = backend[h] /\ logChan'[h] = logChan[h]
    BY <1>0, <2>1
  <2>5. QED
    BY <2>1, <2>2, <2>3, <2>4, WizardLogBy
<1>5. ASSUME NEW g \in Migrations, CloseChannels(g) PROVE WizardLog'
  <2>1. /\ viewer[g].at # "none" /\ viewer' = viewer /\ migrationLog' = migrationLog
        /\ logChan' = logChan /\ backend[g] = ToSend
        /\ backend' = [backend EXCEPT ![g] = backend[g] + 1]
    BY <1>0, <1>5 DEF CloseChannels, Started
  <2>2. ASSUME NEW r \in 0..L, NEW s \in 0..L, LogOf(g, r, s)
        PROVE  \E u, v \in 0..L : LogOf(g, u, v)'
    <3>1. s = L
      BY <1>0, <1>c, <2>1, <2>2 DEF LogOf, HasSent
    <3>2. backend'[g] = ToSend + 1
      BY <1>0, <2>1
    <3>3. LogOf(g, r, s)'
      BY <2>1, <2>2, <3>1, <3>2 DEF LogOf, HasSent
    <3>4. QED
      BY <3>3
  <2>3. \A h \in Migrations : h # g =>
          viewer'[h] = viewer[h] /\ backend'[h] = backend[h] /\ logChan'[h] = logChan[h]
    BY <1>0, <2>1
  <2>4. QED
    BY <2>1, <2>2, <2>3, WizardLogBy
<1>6. ASSUME NEW g \in Migrations, ReceiveMessage(g) PROVE WizardLog'
  <2>1. /\ viewer[g].at = "select" /\ logChan[g] # <<>>
        /\ backend' = backend /\ migrationLog' = migrationLog
        /\ logChan' = [logChan EXCEPT ![g] = Tail(logChan[g])]
        /\ viewer' = [viewer EXCEPT ![g] =
             [at |-> "settext", text |-> Append(migrationLog, Head(logChan[g]))]]
    BY <1>0, <1>6 DEF ReceiveMessage
  <2>2. ASSUME NEW r \in 0..L, NEW s \in 0..L, LogOf(g, r, s)
        PROVE  \E u, v \in 0..L : LogOf(g, u, v)'
    <3>1. /\ r \in Nat /\ s \in Nat /\ r <= s /\ HasSent(g, s)
          /\ logChan[g] = Stretch(g, r, s) /\ migrationLog = Stretch(g, 0, r)
      BY <1>c, <2>1, <2>2 DEF LogOf
    <3>2. r < s
      BY <2>1, <3>1, StretchEmpty
    <3>3. Head(logChan[g]) = <<g, r + 1>> /\ Tail(logChan[g]) = Stretch(g, r + 1, s)
      BY <3>1, <3>2, StretchReceived
    <3>4. Append(migrationLog, <<g, r + 1>>) = Stretch(g, 0, r + 1)
      <4>1. 0 \in Nat /\ 0 <= r
        BY <3>1
      <4>2. QED
        BY <3>1, <4>1, StretchSent
    <3>5. /\ logChan'[g] = Stretch(g, r + 1, s)
          /\ viewer'[g].at = "settext" /\ viewer'[g].text = Stretch(g, 0, r + 1)
      BY <1>0, <2>1, <3>3, <3>4
    <3>6. r + 1 \in 0..L /\ (r + 1) - 1 = r /\ r + 1 <= s /\ r + 1 > 0
      BY <1>c, <3>1, <3>2
    <3>7. HasSent(g, s)'
      BY <2>1, <3>1 DEF HasSent
    <3>8. LogOf(g, r + 1, s)'
      BY <2>1, <3>1, <3>5, <3>6, <3>7 DEF LogOf
    <3>9. QED
      BY <3>6, <3>8
  <2>3. /\ viewer'[g].at = "settext"
        /\ \A h \in Migrations : h # g =>
             viewer'[h] = viewer[h] /\ backend'[h] = backend[h] /\ logChan'[h] = logChan[h]
    BY <1>0, <2>1
  <2>4. QED
    BY <2>1, <2>2, <2>3, WizardLogBy
<1>7. ASSUME NEW g \in Migrations, SetText(g) PROVE WizardLog'
  <2>1. /\ viewer[g].at = "settext" /\ migrationLog' = viewer[g].text
        /\ backend' = backend /\ logChan' = logChan
        /\ viewer' = [viewer EXCEPT ![g] = [at |-> "select", text |-> <<>>]]
    BY <1>7 DEF SetText
  <2>2. /\ viewer'[g].at = "select"
        /\ \A h \in Migrations : h # g =>
             viewer'[h] = viewer[h] /\ backend'[h] = backend[h] /\ logChan'[h] = logChan[h]
    BY <1>0, <2>1
  <2>3. ASSUME NEW r \in 0..L, NEW s \in 0..L, LogOf(g, r, s)
        PROVE  \E u, v \in 0..L : LogOf(g, u, v)'
    <3>1. LogOf(g, r, s)'
      BY <2>1, <2>2, <2>3 DEF LogOf, HasSent
    <3>2. QED
      BY <3>1
  <2>4. QED
    BY <2>1, <2>2, <2>3, WizardLogBy
<1>8. ASSUME NEW g \in Migrations, MigrationEnds(g) PROVE WizardLog'
  <2>1. /\ viewer[g].at = "select" /\ ChannelsClosed(g) /\ logChan[g] = <<>>
        /\ backend' = backend /\ logChan' = logChan /\ migrationLog' = migrationLog
        /\ viewer' = [viewer EXCEPT ![g] = [viewer[g] EXCEPT !.at = "returned"]]
    BY <1>0, <1>8 DEF MigrationEnds, migrationVars
  <2>2. /\ viewer'[g].at = "returned"
        /\ \A h \in Migrations : h # g =>
             viewer'[h] = viewer[h] /\ backend'[h] = backend[h] /\ logChan'[h] = logChan[h]
    BY <1>0, <2>1
  <2>3. ASSUME NEW r \in 0..L, NEW s \in 0..L, LogOf(g, r, s)
        PROVE  \E u, v \in 0..L : LogOf(g, u, v)'
    <3>1. backend[g] = ToSend + 1 /\ s = L
      BY <1>0, <1>c, <2>1, <2>3 DEF LogOf, HasSent, ChannelsClosed
    <3>2. r = s
      <4>1. r \in Nat /\ s \in Nat /\ r <= s /\ logChan[g] = Stretch(g, r, s)
        BY <1>c, <2>3 DEF LogOf
      <4>2. Len(Stretch(g, r, s)) = s - r /\ Stretch(g, r, s) = <<>>
        BY <2>1, <4>1, StretchIs
      <4>3. QED
        BY <4>1, <4>2, EmptySeq
    <3>3. LogOf(g, r, s)'
      BY <2>1, <2>2, <2>3, <3>1, <3>2 DEF LogOf, HasSent
    <3>4. QED
      BY <3>3
  <2>4. QED
    BY <2>1, <2>2, <2>3, WizardLogBy
<1>9. CASE UNCHANGED <<viewer, backend, logChan, migrationLog>>
  BY <1>9, WizardLogStays
<1>10. QED
  <2>1. CASE WizardHandlers
    BY <1>2, <1>9, <2>1
    DEF WizardHandlers, NextStep, BackStep, StartMigration, Presses, CloseDialog, migrationVars
  <2>2. ASSUME NEW t \in Threads, WriteStep(t) PROVE WizardLog'
    BY <1>9, <2>2 DEF WriteStep, migrationVars
  <2>3. ASSUME NEW g \in Migrations, ReceivePercentage(g) PROVE WizardLog'
    BY <1>9, <2>3 DEF ReceivePercentage
  <2>4. QED
    BY <1>1, <1>3, <1>4, <1>5, <1>6, <1>7, <1>8, <2>1, <2>2, <2>3 DEF WizardGoes

\* A new wizard is at its first step.
LEMMA NewWizardWalks == WizardTypes /\ ShowMigrationWizard => Walking'
<1> SUFFICES ASSUME WizardTypes, ShowMigrationWizard PROVE Walking'
  OBVIOUS
<1>1. /\ currentStep' = 0 /\ dialogs' = <<0>> /\ turn' = turn
      /\ \A t \in Threads : turn[t] = Settled
      /\ viewer' = [g \in Migrations |-> [at |-> "none", text |-> <<>>]]
  BY DEF ShowMigrationWizard, Welcome
<1>2. Started' = {}
  BY <1>1 DEF Started
<1>3. Last(dialogs') = 0 /\ \A i \in DOMAIN dialogs' : dialogs'[i] = 0
  BY <1>1 DEF Last
<1>4. turn'[0] = Settled /\ \A g \in Migrations : turn'[g] = Settled
  BY <1>1, WizardConstants
<1>5. QED
  BY <1>1, <1>2, <1>3, <1>4 DEF Walking

\* A new dialog on top.
LEMMA DialogOpened ==
  ASSUME NEW ds \in Seq(Steps), NEW st \in Steps
  PROVE  /\ Append(ds, st) # <<>> /\ Last(Append(ds, st)) = st
         /\ \A i \in DOMAIN Append(ds, st) : Append(ds, st)[i] = st \/ \E k \in DOMAIN ds : Append(ds, st)[i] = ds[k]
<1>1. /\ Append(ds, st) \in Seq(Steps) /\ Len(Append(ds, st)) = Len(ds) + 1
      /\ \A i \in 1..Len(ds) : Append(ds, st)[i] = ds[i]
      /\ Append(ds, st)[Len(ds) + 1] = st
  BY AppendProperties
<1>2. /\ Len(ds) \in Nat /\ DOMAIN ds = 1..Len(ds)
      /\ DOMAIN Append(ds, st) = 1..(Len(ds) + 1)
  BY <1>1, LenProperties
<1>3. Append(ds, st) # <<>>
  BY <1>1, <1>2, EmptySeq
<1>4. QED
  BY <1>1, <1>2, <1>3 DEF Last

LEMMA WizardStepsStay ==
  ASSUME WizardSteps, UNCHANGED <<currentStep, dialogs, turn, viewer, dialogClosed>>
  PROVE  WizardSteps'
BY DEF WizardSteps, Walking, Migrating, Started

\* Before the start only the user takes steps.
LEMMA WalkingGoesOn ==
  ASSUME WizardTypes, Walking, WizardHandlers \/ WizardGoes, ~dialogClosed'
  PROVE  Walking' \/ \E g \in Migrations : Migrating(g)'
<1>0. /\ turn \in [Threads -> [at : {"none", "write", "show"}, was : Int, by : Int, starts : BOOLEAN]]
      /\ DOMAIN viewer = Migrations /\ dialogs \in Seq(Steps) /\ currentStep \in Int
      /\ 0 \notin Migrations /\ Threads = {0} \cup Migrations
      /\ \A g \in Migrations : viewer[g].at = "none" /\ turn[g] = Settled
  BY WizardConstants DEF WizardTypes, Walking, Started
<1>1. CASE NextStep \/ BackStep \/ StartMigration
  <2>1. PICK by \in {-1, 1}, starts \in BOOLEAN :
          /\ turn' = [turn EXCEPT ![0] = [at |-> "write", was |-> currentStep, by |-> by, starts |-> starts]]
          /\ turn[0] = Settled /\ dialogs # <<>>
          /\ \/ by = 1 /\ ~starts /\ Last(dialogs) \in 0..3
             \/ by = -1 /\ ~starts /\ Last(dialogs) \in 1..4
             \/ by = 1 /\ starts /\ Last(dialogs) = 4
    <3>1. CASE NextStep
      BY <3>1 DEF NextStep, Presses, Counts
    <3>2. CASE BackStep
      BY <3>2 DEF BackStep, Presses, Counts
    <3>3. CASE StartMigration
      BY <3>3 DEF StartMigration, Presses, Counts, Confirmation
    <3>4. QED
      BY <1>1, <3>1, <3>2, <3>3
  <2>2. UNCHANGED <<currentStep, dialogs, viewer>>
    BY <1>1 DEF NextStep, BackStep, StartMigration, Presses
  <2>3. Last(dialogs) = currentStep
    BY <2>1 DEF Walking, Settled
  <2>4. /\ turn'[0] = [at |-> "write", was |-> currentStep, by |-> by, starts |-> starts]
        /\ \A g \in Migrations : turn'[g] = Settled
    BY <1>0, <2>1
  <2>5. /\ currentStep \in 0..4 /\ currentStep + by \in 0..5
        /\ starts <=> currentStep + by = 5
    BY <1>0, <2>1, <2>3
  <2>6. Started' = {} /\ \A i \in DOMAIN dialogs' : dialogs'[i] \in 0..4
    BY <2>2 DEF Walking, Started
  <2>7. QED
    BY <2>4, <2>5, <2>6 DEF Walking, Migration
<1>2. ASSUME NEW t \in Threads, WriteStep(t) PROVE Walking'
  <2>1. /\ turn[t].at = "write" /\ currentStep' = turn[t].was + turn[t].by
        /\ turn' = [turn EXCEPT ![t] = [turn[t] EXCEPT !.at = "show"]]
        /\ dialogs' = dialogs /\ viewer' = viewer
    BY <1>0, <1>2 DEF WriteStep
  <2>2. t = 0
    <3>1. \A g \in Migrations : turn[g].at = "none"
      BY <1>0 DEF Settled
    <3>2. t \notin Migrations
      BY <2>1, <3>1
    <3>3. QED
      BY <1>0, <3>2
  <2>3. /\ turn'[0].at = "show" /\ turn'[0].starts = turn[0].starts
        /\ \A g \in Migrations : turn'[g] = Settled
    BY <1>0, <2>1, <2>2
  <2>4. currentStep' \in 0..5 /\ (turn[0].starts <=> currentStep' = Migration)
    BY <2>1, <2>2 DEF Walking, Settled
  <2>5. Started' = {} /\ \A i \in DOMAIN dialogs' : dialogs'[i] \in 0..4
    BY <2>1 DEF Walking, Started
  <2>6. QED
    BY <2>3, <2>4, <2>5 DEF Walking
<1>3. ASSUME NEW t \in Threads, ShowStep(t) PROVE Walking' \/ \E g \in Migrations : Migrating(g)'
  <2>1. turn[t].at = "show" /\ t = 0
    BY <1>0, <1>3 DEF ShowStep, Settled
  <2>2. currentStep \in 0..5 /\ (turn[0].starts <=> currentStep = Migration)
    BY <2>1 DEF Walking, Settled
  <2>3. currentStep \in Steps
    BY <2>2 DEF Steps
  <2>4. dialogs' = Append(dialogs, currentStep) /\ currentStep' = currentStep
    BY <1>3, <2>3 DEF ShowStep
  <2>5. \A u \in Threads : turn'[u] = Settled
    BY <1>0, <1>3, <2>1 DEF ShowStep
  <2>6. /\ dialogs' # <<>> /\ Last(dialogs') = currentStep'
        /\ \A i \in DOMAIN dialogs' : dialogs'[i] = currentStep \/ dialogs'[i] \in 0..4
    BY <1>0, <2>3, <2>4, DialogOpened DEF Walking
  <2>7. CASE ~turn[0].starts
    <3>1. Started' = {}
      BY <1>3, <2>1, <2>7 DEF ShowStep, Walking, Started
    <3>2. currentStep \in 0..4
      BY <2>2, <2>7 DEF Migration
    <3>3. QED
      BY <1>0, <2>4, <2>5, <2>6, <3>1, <3>2 DEF Walking
  <2>8. CASE turn[0].starts
    <3> DEFINE left == Migrations \ Started
    <3>1. left = Migrations /\ left \in SUBSET Nat /\ left # {}
      BY <2>8, WizardConstants DEF WizardTypes, Walking
    <3>2. viewer' = [viewer EXCEPT ![Min(left)] = [viewer[Min(left)] EXCEPT !.at = "select"]]
      BY <1>3, <2>1, <2>8 DEF ShowStep
    <3> HIDE DEF left
    <3>3. Min(left) \in left
      BY <3>1, NatLeast DEF Min
    <3>4. PICK g \in Migrations : viewer' = [viewer EXCEPT ![g] = [viewer[g] EXCEPT !.at = "select"]]
      BY <3>1, <3>2, <3>3
    <3>5. viewer'[g].at = "select" /\ \A h \in Migrations : h # g => viewer'[h].at = "none"
      BY <1>0, <3>4 DEF WizardTypes
    <3>6. Started' = {g}
      BY <3>5 DEF Started
    <3>7. \A i \in DOMAIN dialogs' : dialogs'[i] # Completion
      BY <2>2, <2>6, <2>8 DEF Completion, Migration
    <3>8. Migrating(g)'
      BY <1>0, <2>2, <2>4, <2>5, <2>6, <2>8, <3>5, <3>6, <3>7 DEF Migrating
    <3>9. QED
      BY <3>8
  <2>9. QED
    BY <2>7, <2>8
<1>4. CASE CloseDialog
  BY <1>4 DEF CloseDialog
<1>5. CASE ShowMigrationWizard
  BY <1>5, NewWizardWalks
<1>6. ASSUME NEW g \in Migrations,
             \/ SendMessage(g) \/ SendPercentage(g) \/ CloseChannels(g)
             \/ ReceiveMessage(g) \/ SetText(g) \/ ReceivePercentage(g) \/ MigrationEnds(g)
      PROVE  Walking'
  <2>1. UNCHANGED <<currentStep, dialogs, turn, viewer>>
    BY <1>0, <1>6
    DEF SendMessage, SendPercentage, CloseChannels, ReceiveMessage, SetText, ReceivePercentage,
        MigrationEnds, Started
  <2>2. QED
    BY <2>1 DEF Walking, Started
<1>7. QED
  BY <1>1, <1>2, <1>3, <1>4, <1>5, <1>6 DEF WizardHandlers, WizardGoes

\* While a migration is under way no button of the dialog on top is left to press.
LEMMA MigratingGoesOn ==
  ASSUME WizardTypes, NEW g \in Migrations, Migrating(g), WizardHandlers \/ WizardGoes,
         ~dialogClosed'
  PROVE  Walking' \/ Migrating(g)'
<1>0. /\ turn \in [Threads -> [at : {"none", "write", "show"}, was : Int, by : Int, starts : BOOLEAN]]
      /\ DOMAIN viewer = Migrations /\ dialogs \in Seq(Steps)
      /\ 0 \notin Migrations /\ Threads = {0} \cup Migrations /\ g \in Threads /\ g # 0
      /\ \A t \in Threads : t # g => turn[t] = Settled /\ turn[t].at = "none"
      /\ ~turn[g].starts
      /\ \A h \in Migrations : viewer[h].at # "none" <=> h = g
      /\ dialogs # <<>> /\ Last(dialogs) \in {5, 6}
  <2>1. \A t \in Threads : t # g => turn[t] = Settled
    BY DEF Migrating
  <2>2. \A t \in Threads : t # g => turn[t].at = "none"
    BY <2>1 DEF Settled
  <2>3. Last(dialogs) \in {5, 6}
    BY DEF Migrating, Migration, Completion
  <2>4. QED
    BY <2>1, <2>2, <2>3, WizardConstants DEF WizardTypes, Migrating, Started
<1>1. CASE NextStep \/ BackStep \/ StartMigration
  <2>1. Last(dialogs) \in 0..4
    <3>1. CASE NextStep
      BY <3>1 DEF NextStep, Presses
    <3>2. CASE BackStep
      BY <3>2 DEF BackStep, Presses
    <3>3. CASE StartMigration
      BY <3>3 DEF StartMigration, Presses, Confirmation
    <3>4. QED
      BY <1>1, <3>1, <3>2, <3>3
  <2>2. QED
    BY <1>0, <2>1
<1>2. ASSUME NEW t \in Threads, WriteStep(t) PROVE Migrating(g)'
  <2>1. /\ turn[t].at = "write" /\ currentStep' = turn[t].was + turn[t].by
        /\ turn' = [turn EXCEPT ![t] = [turn[t] EXCEPT !.at = "show"]]
        /\ dialogs' = dialogs /\ viewer' = viewer
    BY <1>0, <1>2 DEF WriteStep
  <2>2. t = g
    BY <1>0, <2>1
  <2>3. /\ turn'[g].at = "show" /\ \A u \in Threads : u # g => turn'[u] = Settled
    BY <1>0, <2>1, <2>2
  <2>4. turn[g].at # "none" /\ turn[g].at # "show" /\ turn[g] # Settled
    BY <2>1, <2>2 DEF Settled
  <2>5. /\ currentStep' = Completion /\ Last(dialogs) = Migration /\ viewer[g].at = "returned"
        /\ \A i \in DOMAIN dialogs : dialogs[i] # Completion
    BY <2>1, <2>2, <2>4 DEF Migrating
  <2>6. Started' = {g}
    BY <2>1 DEF Migrating, Started
  <2>7. QED
    BY <1>0, <2>1, <2>3, <2>5, <2>6 DEF Migrating
<1>3. ASSUME NEW t \in Threads, ShowStep(t) PROVE Migrating(g)'
  <2>1. turn[t].at = "show" /\ t = g
    BY <1>0, <1>3 DEF ShowStep
  <2>2. turn[g] # Settled /\ turn[g].at # "write"
    BY <2>1 DEF Settled
  <2>3. currentStep = Completion /\ viewer[g].at = "returned"
    BY <2>1, <2>2 DEF Migrating
  <2>4. currentStep \in Steps
    BY <2>3 DEF Steps, Completion
  <2>5. /\ dialogs' = Append(dialogs, currentStep) /\ currentStep' = currentStep
        /\ viewer' = viewer /\ turn' = [turn EXCEPT ![g] = Settled]
    BY <1>0, <1>3, <2>1, <2>4 DEF ShowStep
  <2>6. dialogs' # <<>> /\ Last(dialogs') = Completion
    BY <1>0, <2>3, <2>4, <2>5, DialogOpened
  <2>7. turn'[g] = Settled /\ \A u \in Threads : u # g => turn'[u] = Settled
    BY <1>0, <2>5
  <2>8. Started' = {g}
    BY <2>5 DEF Migrating, Started
  <2>9. QED
    BY <2>3, <2>5, <2>6, <2>7, <2>8 DEF Migrating
<1>4. CASE CloseDialog
  BY <1>4 DEF CloseDialog
<1>5. CASE ShowMigrationWizard
  BY <1>5, NewWizardWalks
<1>6. ASSUME NEW h \in Migrations,
             \/ SendMessage(h) \/ SendPercentage(h) \/ CloseChannels(h) \/ ReceivePercentage(h)
      PROVE  Migrating(g)'
  <2>1. UNCHANGED <<currentStep, dialogs, turn, viewer>>
    BY <1>6 DEF SendMessage, SendPercentage, CloseChannels, ReceivePercentage
  <2>2. QED
    BY <2>1 DEF Migrating, Started
<1>7. ASSUME NEW h \in Migrations, ReceiveMessage(h) \/ SetText(h) PROVE Migrating(g)'
  <2>0. PICK at \in {"select", "settext"} :
          \E text : viewer' = [viewer EXCEPT ![h] = [at |-> at, text |-> text]]
    BY <1>7 DEF ReceiveMessage, SetText
  <2>1. PICK text : viewer' = [viewer EXCEPT ![h] = [at |-> at, text |-> text]]
    BY <2>0
  <2>2. /\ viewer[h].at # "none" /\ viewer[h].at # "returned"
        /\ UNCHANGED <<currentStep, dialogs, turn>>
    BY <1>7 DEF ReceiveMessage, SetText
  <2>3. h = g
    BY <1>0, <2>2
  <2>4. viewer'[g].at # "returned" /\ viewer'[g].at # "none"
        /\ \A k \in Migrations : k # g => viewer'[k] = viewer[k]
    BY <1>0, <2>1, <2>3
  <2>5. Started' = {g}
    BY <1>0, <2>4 DEF Started
  <2>6. /\ currentStep = Migration /\ Last(dialogs) = Migration /\ turn[g] = Settled
        /\ \A i \in DOMAIN dialogs : dialogs[i] # Completion
    BY <2>2, <2>3 DEF Migrating
  <2>7. QED
    BY <1>0, <2>2, <2>4, <2>5, <2>6 DEF Migrating
<1>8. ASSUME NEW h \in Migrations, MigrationEnds(h) PROVE Migrating(g)'
  <2>1. /\ viewer[h].at = "select" /\ viewer' = [viewer EXCEPT ![h] = [viewer[h] EXCEPT !.at = "returned"]]
        /\ turn' = [turn EXCEPT ![h] = [at |-> "write", was |-> currentStep, by |-> 1, starts |-> FALSE]]
        /\ UNCHANGED <<currentStep, dialogs>>
    BY <1>0, <1>8 DEF MigrationEnds, Counts, migrationVars
  <2>2. h = g
    BY <1>0, <2>1
  <2>3. /\ viewer'[g].at # "none" /\ viewer'[g].at = "returned"
        /\ \A k \in Migrations : k # g => viewer'[k] = viewer[k]
    BY <1>0, <2>1, <2>2
  <2>4. Started' = {g}
    <3>1. \A k \in Migrations : k # g => viewer'[k].at = "none"
      BY <1>0, <2>3
    <3>2. QED
      BY <2>3, <3>1 DEF Started
  <2>5. /\ currentStep = Migration /\ Last(dialogs) = Migration
        /\ \A i \in DOMAIN dialogs : dialogs[i] # Completion
    BY <2>1, <2>2 DEF Migrating
  <2>6. /\ turn'[g] = [at |-> "write", was |-> 5, by |-> 1, starts |-> FALSE]
        /\ \A u \in Threads : u # g => turn'[u] = Settled
    BY <1>0, <2>1, <2>2, <2>5 DEF Migration
  <2>7. QED
    BY <1>0, <2>1, <2>3, <2>4, <2>5, <2>6 DEF Migrating, Completion
<1>9. QED
  BY <1>1, <1>2, <1>3, <1>4, <1>5, <1>6, <1>7, <1>8 DEF WizardHandlers, WizardGoes

LEMMA WizardPreserved ==
  ASSUME WizardInv, [WizardHandlers \/ WizardGoes]_wizardVars
  PROVE  WizardInv'
<1>1. CASE WizardHandlers \/ WizardGoes
  <2>1. WizardTypes' /\ WizardLog'
    BY <1>1, WizardTypesKept, WizardLogKept DEF WizardInv
  <2>2. CASE dialogClosed'
    BY <2>1, <2>2 DEF WizardInv, WizardSteps
  <2>3. CASE ~dialogClosed' /\ dialogClosed
    <3>1. ShowMigrationWizard
      BY <1>1, <2>3
      DEF WizardHandlers, NextStep, BackStep, StartMigration, Presses, CloseDialog, WizardGoes,
          WriteStep, ShowStep, SendMessage, SendPercentage, CloseChannels, ReceiveMessage, SetText,
          ReceivePercentage, MigrationEnds
    <3>2. QED
      BY <2>1, <3>1, NewWizardWalks DEF WizardInv, WizardSteps
  <2>4. CASE ~dialogClosed' /\ ~dialogClosed
    <3>1. CASE Walking
      BY <1>1, <2>1, <2>4, <3>1, WalkingGoesOn DEF WizardInv, WizardSteps
    <3>2. ASSUME NEW g \in Migrations, Migrating(g) PROVE WizardSteps'
      BY <1>1, <2>4, <3>2, MigratingGoesOn DEF WizardInv, WizardSteps
    <3>3. QED
      BY <2>1, <2>4, <3>1, <3>2 DEF WizardInv, WizardSteps
  <2>5. QED
    BY <2>2, <2>3, <2>4
<1>2. CASE UNCHANGED wizardVars
  <2>1. WizardTypes'
    BY <1>2 DEF wizardVars, WizardInv, WizardTypes, Started
  <2>2. WizardLog'
    BY <1>2, WizardLogStays DEF wizardVars, WizardInv
  <2>3. WizardSteps'
    BY <1>2, WizardStepsStay DEF wizardVars, WizardInv
  <2>4. QED
    BY <2>1, <2>2, <2>3 DEF WizardInv
<1>3. QED
  BY <1>1, <1>2

LEMMA WizardMeans == WizardInv => WizardShowsMigration
<1> SUFFICES ASSUME WizardInv PROVE WizardShowsMigration
  OBVIOUS
<1>1. ASSUME NEW g \in Migrations, Started = {g}, viewer[g].at = "returned"
      PROVE  migrationLog = Reported(g)
  <2>1. PICK r, s \in 0..Len(Stages) : LogOf(g, r, s)
    BY <1>1 DEF WizardInv, WizardLog
  <2>2. migrationLog = Stretch(g, 0, Len(Stages))
    BY <1>1, <2>1 DEF LogOf
  <2>3. Len(Stages) - 0 = Len(Stages) /\ \A n \in 1..Len(Stages) : 0 + n = n
    BY WizardConstants
  <2>4. QED
    BY <2>2, <2>3, WizardConstants DEF Stretch, Reported
<1>2. ASSUME Walking
      PROVE  /\ Cardinality(Started) <= 1
             /\ dialogs # <<>> /\ (\A t \in Threads : turn[t] = Settled) => Last(dialogs) = currentStep
             /\ Completion \notin ToSet(dialogs)
  <2>1. Cardinality(Started) <= 1
    BY <1>2, FS_EmptySet DEF Walking
  <2>2. (\A t \in Threads : turn[t] = Settled) => turn[0] = Settled
    BY WizardConstants
  <2>3. Completion \notin ToSet(dialogs)
    BY <1>2 DEF Walking, Completion, ToSet
  <2>4. QED
    BY <1>2, <2>1, <2>2, <2>3 DEF Walking, Settled
<1>3. ASSUME NEW g \in Migrations, Migrating(g)
      PROVE  /\ Cardinality(Started) <= 1
             /\ (\A t \in Threads : turn[t] = Settled) => Last(dialogs) = currentStep
             /\ Completion \in ToSet(dialogs) => viewer[g].at = "returned" /\ Started = {g}
  <2>1. Cardinality(Started) <= 1
    <3>1. Started = {g} /\ Cardinality({g}) = 1
      BY <1>3, FS_Singleton DEF Migrating
    <3>2. QED
      BY <3>1
  <2>2. (\A t \in Threads : turn[t] = Settled) => turn[g] = Settled
    BY WizardConstants
  <2>3. QED
    BY <1>3, <2>1, <2>2 DEF Migrating, Settled, ToSet
<1>4. Started \subseteq Migrations
  BY DEF Started
<1>5. QED
  BY <1>1, <1>2, <1>3, <1>4 DEF WizardInv, WizardSteps, WizardShowsMigration

\* The migrations that have counted the step up.
Advanced == {g \in Migrations : viewer[g].at = "returned" /\ turn[g].at # "write"}

\* A button leaves the step at most one outside of those there are, and each migration
\* counts it up once, from wherever it finds it.
WizardRange ==
  /\ currentStep \in -1..(7 + Cardinality(Advanced))
  /\ turn[0].at = "write" => turn[0].was \in Steps /\ turn[0].by \in {-1, 1}
  /\ \A g \in Migrations : turn[g].at = "write" =>
       /\ viewer[g].at = "returned" /\ turn[g].by = 1
       /\ turn[g].was \in -1..(7 + Cardinality(Advanced))
  /\ progress \in [Migrations -> Seq(1..100)] /\ progressBar \in 0..100

LEMMA AdvancedFinite ==
  /\ IsFiniteSet(Advanced) /\ Cardinality(Advanced) \in 0..MaxMigrations
<1>1. IsFiniteSet(Migrations) /\ Cardinality(Migrations) = MaxMigrations
  <2>1. 1 \in Int /\ MaxMigrations \in Nat
    BY WizardConstants
  <2>2. IsFiniteSet(Migrations) /\ Cardinality(Migrations) = IF 1 > MaxMigrations THEN 0 ELSE MaxMigrations - 1 + 1
    BY <2>1, FS_Interval DEF Migrations
  <2>3. QED
    BY <2>1, <2>2
<1>2. Advanced \subseteq Migrations
  BY DEF Advanced
<1>3. IsFiniteSet(Advanced) /\ Cardinality(Advanced) <= MaxMigrations
  BY <1>1, <1>2, FS_Subset
<1>4. Cardinality(Advanced) \in Nat
  BY <1>3, FS_CardinalityType
<1>5. QED
  BY <1>3, <1>4, WizardConstants

LEMMA WizardRangeInitial == WizardInit => WizardRange
<1> SUFFICES ASSUME WizardInit PROVE WizardRange
  OBVIOUS
<1>1. \A t \in Threads : turn[t].at = "none"
  BY DEF WizardInit, Settled
<1>2. currentStep = 0 /\ progressBar = 0 /\ progress = [g \in Migrations |-> <<>>]
  BY DEF WizardInit, Welcome
<1>3. currentStep \in -1..(7 + Cardinality(Advanced))
  BY <1>2, AdvancedFinite
<1>4. <<>> \in Seq(1..100)
  BY EmptySeq
<1>5. QED
  BY <1>1, <1>2, <1>3, <1>4, WizardConstants DEF WizardRange

\* A step that changes neither who has counted nor what is about to be written.
LEMMA RangeStays ==
  ASSUME WizardRange, currentStep' = currentStep \/ currentStep' = 0,
         \A g \in Migrations :
           /\ viewer'[g].at = "returned" <=> viewer[g].at = "returned"
           /\ turn'[g].at # "write" <=> turn[g].at # "write"
           /\ turn'[g].at = "write" => turn'[g].was = turn[g].was /\ turn'[g].by = turn[g].by,
         turn'[0].at = "write" => turn'[0].was \in Steps /\ turn'[0].by \in {-1, 1},
         progress' \in [Migrations -> Seq(1..100)], progressBar' \in 0..100
  PROVE  WizardRange'
<1>1. Advanced' = Advanced
  BY DEF Advanced
<1>2. currentStep' \in -1..(7 + Cardinality(Advanced))
  BY AdvancedFinite DEF WizardRange
<1>3. QED
  BY <1>1, <1>2 DEF WizardRange

LEMMA WizardRangeKept ==
  ASSUME WizardTypes, WizardRange, WizardHandlers \/ WizardGoes
  PROVE  WizardRange'
<1> DEFINE Turns == [at : {"none", "write", "show"}, was : Int, by : Int, starts : BOOLEAN]
<1>0. /\ turn \in [Threads -> Turns] /\ \A g \in Migrations : ~turn[g].starts
      /\ turn[0].starts => Started # Migrations
      /\ DOMAIN viewer = Migrations /\ backend \in [Migrations -> 0..(ToSend + 1)]
      /\ \A g \in Migrations : viewer[g] = [at |-> viewer[g].at, text |-> viewer[g].text]
      /\ progress \in [Migrations -> Seq(1..100)] /\ progressBar \in 0..100
      /\ turn[0].at = "write" => turn[0].was \in Steps /\ turn[0].by \in {-1, 1}
  BY DEF WizardTypes, WizardRange
<1>c. /\ 0 \notin Migrations /\ Threads = {0} \cup Migrations /\ Settled.at = "none"
  BY WizardConstants DEF Settled
<1>1. ASSUME NEW on, NEW by \in {-1, 1}, NEW starts \in BOOLEAN, Presses(on, by, starts)
      PROVE  WizardRange'
  <2>1. /\ turn' = [turn EXCEPT ![0] = [at |-> "write", was |-> currentStep, by |-> by, starts |-> starts]]
        /\ currentStep \in Steps
        /\ UNCHANGED <<currentStep, viewer, progress, progressBar>>
    BY <1>1 DEF Presses, Counts, migrationVars
  <2>2. /\ turn'[0].was \in Steps /\ turn'[0].by \in {-1, 1}
        /\ \A g \in Migrations : turn'[g] = turn[g]
    BY <1>0, <1>c, <2>1
  <2>3. QED
    BY <1>0, <2>1, <2>2, RangeStays
<1>2. ASSUME WriteStep(0) PROVE WizardRange'
  <2>1. /\ turn[0].at = "write" /\ currentStep' = turn[0].was + turn[0].by
        /\ turn' = [turn EXCEPT ![0] = [turn[0] EXCEPT !.at = "show"]]
        /\ UNCHANGED <<viewer, progress, progressBar>>
    BY <1>0, <1>c, <1>2 DEF WriteStep, migrationVars
  <2>2. turn'[0].at = "show" /\ \A g \in Migrations : turn'[g] = turn[g]
    BY <1>0, <1>c, <2>1
  <2>3. Advanced' = Advanced
    BY <2>1, <2>2 DEF Advanced
  <2>4. currentStep' \in -1..(7 + Cardinality(Advanced))
    BY <1>0, <2>1, AdvancedFinite DEF Steps
  <2>5. QED
    BY <1>0, <2>1, <2>2, <2>3, <2>4 DEF WizardRange
<1>3. ASSUME NEW g \in Migrations, WriteStep(g) PROVE WizardRange'
  <2> DEFINE n == Cardinality(Advanced)
  <2>1. /\ turn[g].at = "write" /\ currentStep' = turn[g].was + turn[g].by
        /\ turn' = [turn EXCEPT ![g] = [turn[g] EXCEPT !.at = "show"]]
        /\ UNCHANGED <<viewer, progress, progressBar>>
    BY <1>0, <1>c, <1>3 DEF WriteStep, migrationVars
  <2>2. turn'[g].at = "show" /\ \A t \in Threads : t # g => turn'[t] = turn[t]
    BY <1>0, <1>c, <2>1
  <2>3. viewer[g].at = "returned" /\ turn[g].by = 1 /\ turn[g].was \in -1..(7 + n)
    BY <2>1 DEF WizardRange
  <2>4. Advanced' = Advanced \cup {g} /\ g \notin Advanced
    BY <1>c, <2>1, <2>2, <2>3 DEF Advanced
  <2>5. Cardinality(Advanced') = n + 1 /\ n \in Nat
    BY <2>4, AdvancedFinite, FS_AddElement
  <2>6. -1..(7 + n) \subseteq -1..(7 + Cardinality(Advanced'))
    BY <2>5
  <2>7. currentStep' \in -1..(7 + Cardinality(Advanced'))
    BY <2>1, <2>3, <2>5
  <2>8. ASSUME NEW h \in Migrations, turn'[h].at = "write"
        PROVE  /\ viewer'[h].at = "returned" /\ turn'[h].by = 1
               /\ turn'[h].was \in -1..(7 + Cardinality(Advanced'))
    <3>1. h # g /\ turn'[h] = turn[h]
      BY <1>c, <2>2, <2>8
    <3>2. QED
      BY <2>1, <2>6, <2>8, <3>1 DEF WizardRange
  <2>9. turn'[0] = turn[0]
    BY <1>c, <2>2
  <2> HIDE DEF n
  <2>10. QED
    BY <1>0, <2>1, <2>7, <2>8, <2>9 DEF WizardRange
<1>4. ASSUME NEW t \in Threads, ShowStep(t) PROVE WizardRange'
  <2>1. /\ turn[t].at = "show" /\ turn' = [turn EXCEPT ![t] = Settled]
        /\ currentStep' = currentStep /\ progress' = progress
        /\ progressBar' = IF currentStep = Migration THEN 0 ELSE progressBar
    BY <1>4 DEF ShowStep, migrationVars
  <2>2. /\ turn'[t] = Settled /\ turn'[t].at # "write" /\ turn[t].at # "write"
        /\ \A u \in Threads : u # t => turn'[u] = turn[u]
    BY <1>0, <1>c, <2>1
  <2>3. progressBar' \in 0..100
    BY <1>0, <2>1
  <2>4. \A g \in Migrations : viewer'[g].at = "returned" <=> viewer[g].at = "returned"
    <3>1. CASE turn[t].starts
      <4>1. PICK g \in Migrations \ Started :
              viewer' = [viewer EXCEPT ![g] = [viewer[g] EXCEPT !.at = "select"]]
        <5> DEFINE left == Migrations \ Started
        <5>1. left \in SUBSET Nat /\ left # {}
          BY <1>0, <1>c, <3>1, WizardConstants DEF Started
        <5>2. viewer' = [viewer EXCEPT ![Min(left)] = [viewer[Min(left)] EXCEPT !.at = "select"]]
          BY <1>4, <3>1 DEF ShowStep
        <5> HIDE DEF left
        <5>3. Min(left) \in left
          BY <5>1, NatLeast DEF Min
        <5>4. QED
          BY <5>2, <5>3 DEF left
      <4>2. viewer[g].at = "none"
        BY DEF Started
      <4>3. QED
        BY <1>0, <4>1, <4>2
    <3>2. CASE ~turn[t].starts
      BY <1>4, <3>2 DEF ShowStep
    <3>3. QED
      BY <3>1, <3>2
  <2>5. QED
    BY <1>0, <1>c, <2>1, <2>2, <2>3, <2>4, RangeStays
<1>5. CASE CloseDialog
  <2>1. UNCHANGED <<currentStep, turn, viewer, progress, progressBar>>
    BY <1>5 DEF CloseDialog, migrationVars
  <2>2. QED
    BY <1>0, <2>1, RangeStays
<1>6. CASE ShowMigrationWizard
  <2>1. /\ currentStep' = 0 /\ progressBar' = 0 /\ turn' = turn
        /\ progress' = [g \in Migrations |-> <<>>]
        /\ \A t \in Threads : turn[t] = Settled
    BY <1>6 DEF ShowMigrationWizard, Welcome
  <2>2. <<>> \in Seq(1..100)
    BY EmptySeq
  <2>3. progress' \in [Migrations -> Seq(1..100)] /\ progressBar' \in 0..100
    BY <2>1, <2>2
  <2>4. \A t \in Threads : turn'[t].at # "write"
    BY <1>c, <2>1
  <2>5. currentStep' \in -1..(7 + Cardinality(Advanced'))
    <3>1. Cardinality(Advanced') \in Nat
      <4>1. IsFiniteSet(Migrations) /\ Advanced' \subseteq Migrations
        <5>1. 1 \in Int /\ MaxMigrations \in Int
          BY WizardConstants
        <5>2. IsFiniteSet(Migrations)
          BY <5>1, FS_Interval DEF Migrations
        <5>3. QED
          BY <5>2 DEF Advanced
      <4>2. QED
        BY <4>1, FS_Subset, FS_CardinalityType
    <3>2. QED
      BY <2>1, <3>1
  <2>6. QED
    BY <1>c, <2>3, <2>4, <2>5 DEF WizardRange
<1>7. ASSUME NEW g \in Migrations, SendMessage(g) \/ CloseChannels(g) \/ ReceiveMessage(g) \/ SetText(g)
      PROVE  WizardRange'
  <2>1. UNCHANGED <<currentStep, turn, progress, progressBar>>
    BY <1>7 DEF SendMessage, CloseChannels, ReceiveMessage, SetText
  <2>2. \A h \in Migrations : viewer'[h].at = "returned" <=> viewer[h].at = "returned"
    <3>1. CASE SendMessage(g) \/ CloseChannels(g)
      BY <3>1 DEF SendMessage, CloseChannels
    <3>2. CASE ReceiveMessage(g)
      BY <1>0, <3>2 DEF ReceiveMessage
    <3>3. CASE SetText(g)
      BY <1>0, <3>3 DEF SetText
    <3>4. QED
      BY <1>7, <3>1, <3>2, <3>3
  <2>3. QED
    BY <1>0, <2>1, <2>2, RangeStays
<1>8. ASSUME NEW g \in Migrations, SendPercentage(g) PROVE WizardRange'
  <2> DEFINE n == backend[g] \div 2 + 1
             longer == Append(progress[g], Stages[n])
  <2>1. /\ backend[g] < ToSend /\ progress' = [progress EXCEPT ![g] = longer]
        /\ UNCHANGED <<currentStep, turn, viewer, progressBar>>
    BY <1>0, <1>8 DEF SendPercentage
  <2>2. n \in 1..Len(Stages)
    <3>1. backend[g] \in Nat /\ backend[g] < 2 * Len(Stages) /\ Len(Stages) \in Nat
      BY <1>0, <2>1, WizardConstants
    <3>2. QED
      BY <3>1
  <2>3. Stages[n] \in 1..100
    <3>1. Stages \in Seq(1..100)
      BY Zenon, WizardAssumption
    <3> HIDE DEF n
    <3>2. QED
      BY <2>2, <3>1, ElementOfSeq
  <2>4. longer \in Seq(1..100)
    <3>1. progress[g] \in Seq(1..100)
      BY <1>0
    <3> HIDE DEF n
    <3>2. QED
      BY <2>3, <3>1, AppendProperties
  <2> HIDE DEF longer, n
  <2>5. progress' \in [Migrations -> Seq(1..100)]
    BY <1>0, <2>1, <2>4
  <2>6. QED
    BY <1>0, <2>1, <2>5, RangeStays
<1>9. ASSUME NEW g \in Migrations, ReceivePercentage(g) PROVE WizardRange'
  <2>1. /\ progress[g] # <<>> /\ progress' = [progress EXCEPT ![g] = Tail(progress[g])]
        /\ progressBar' = Head(progress[g])
        /\ UNCHANGED <<currentStep, turn, viewer>>
    BY <1>0, <1>9 DEF ReceivePercentage
  <2>2. progress[g] \in Seq(1..100)
    BY <1>0
  <2>3. Head(progress[g]) \in 1..100 /\ Tail(progress[g]) \in Seq(1..100)
    BY <2>1, <2>2, HeadTailProperties
  <2>4. progress' \in [Migrations -> Seq(1..100)] /\ progressBar' \in 0..100
    BY <1>0, <2>1, <2>3
  <2>5. QED
    BY <1>0, <2>1, <2>4, RangeStays
<1>10. ASSUME NEW g \in Migrations, MigrationEnds(g) PROVE WizardRange'
  <2>1. /\ viewer[g].at = "select"
        /\ viewer' = [viewer EXCEPT ![g] = [viewer[g] EXCEPT !.at = "returned"]]
        /\ turn' = [turn EXCEPT ![g] = [at |-> "write", was |-> currentStep, by |-> 1, starts |-> FALSE]]
        /\ UNCHANGED <<currentStep, progress, progressBar>>
    BY <1>0, <1>10 DEF MigrationEnds, Counts, migrationVars
  <2>2. /\ viewer'[g].at = "returned" /\ turn'[g].at = "write"
        /\ turn'[g].was = currentStep /\ turn'[g].by = 1
        /\ \A h \in Migrations : h # g => viewer'[h] = viewer[h] /\ turn'[h] = turn[h]
        /\ turn'[0] = turn[0]
    BY <1>0, <1>c, <2>1
  <2>3. Advanced' = Advanced
    BY <2>1, <2>2 DEF Advanced
  <2>4. QED
    BY <1>0, <2>1, <2>2, <2>3 DEF WizardRange
<1>11. CASE NextStep \/ BackStep \/ StartMigration
  <2>1. 1 \in {-1, 1} /\ -1 \in {-1, 1} /\ TRUE \in BOOLEAN /\ FALSE \in BOOLEAN
    OBVIOUS
  <2>2. QED
    BY <1>1, <1>11, <2>1 DEF NextStep, BackStep, StartMigration
<1>12. QED
  BY <1>2, <1>3, <1>4, <1>5, <1>6, <1>7, <1>8, <1>9, <1>10, <1>11, <1>c DEF WizardHandlers, WizardGoes

LEMMA WizardTyped == WizardTypes /\ WizardRange => WizardTypeOK
<1> SUFFICES ASSUME WizardTypes, WizardRange PROVE WizardTypeOK
  OBVIOUS
<1>1. currentStep \in -1..(7 + MaxMigrations)
  BY AdvancedFinite, WizardConstants DEF WizardRange
<1>2. QED
  BY <1>1 DEF WizardTypes, WizardRange, WizardTypeOK

LEMMA WizardRangePreserved ==
  ASSUME WizardTypes, WizardRange, [WizardHandlers \/ WizardGoes]_wizardVars
  PROVE  WizardRange'
<1>1. CASE WizardHandlers \/ WizardGoes
  BY <1>1, WizardRangeKept
<1>2. CASE UNCHANGED wizardVars
  BY <1>2 DEF wizardVars, WizardRange, Advanced
<1>3. QED
  BY <1>1, <1>2

------------------------------------------------------------------------------
(***************************************************************************)
(* The calendar: reading a file line by line.                              *)
(***************************************************************************)

\* The recursion over the lines of a file has a value.
LEMMA ReaderExists ==
  ASSUME NEW r, NEW file, NEW N \in Nat
  PROVE  \E f : f = [n \in 0..N |-> IF n = 0 THEN r ELSE ReadLine(f[n - 1], file[n])]
<1> DEFINE Reader(f, k) == f = [n \in 0..k |-> IF n = 0 THEN r ELSE ReadLine(f[n - 1], file[n])]
           bad == {k \in Nat : ~ \E f : Reader(f, k)}
<1>1. SUFFICES ASSUME bad # {} PROVE FALSE
  BY <1>1
<1>2. PICK k \in bad : \A m \in bad : k <= m
  BY <1>1, NatLeast
<1>3. k # 0
  <2> DEFINE g == [n \in 0..0 |-> r]
  <2>1. Reader(g, 0)
    OBVIOUS
  <2>2. QED
    BY <2>1
<1>4. PICK f : Reader(f, k - 1)
  <2> HIDE DEF Reader
  <2>1. k - 1 \in Nat /\ k - 1 \notin bad
    BY <1>2, <1>3
  <2>2. QED
    BY <2>1
<1> DEFINE g == [n \in 0..k |-> IF n < k THEN f[n] ELSE ReadLine(f[k - 1], file[k])]
<1>5. \A n \in 0..k : g[n] = IF n = 0 THEN r ELSE ReadLine(g[n - 1], file[n])
  BY <1>2, <1>3, <1>4
<1>6. Reader(g, k)
  <2>1. g = [n \in 0..k |-> g[n]]
    OBVIOUS
  <2> HIDE DEF g
  <2>2. QED
    BY <1>5, <2>1
<1>7. QED
  BY <1>2, <1>6

\* f has the reader after each of the first N lines.
Reads(f, r, file, N) == f[0] = r /\ \A n \in 1..N : f[n] = ReadLine(f[n - 1], file[n])

LEMMA ReadingIs ==
  ASSUME NEW r, NEW file, Len(file) \in Nat
  PROVE  \E f : Reads(f, r, file, Len(file)) /\ Reading(r, file) = f[Len(file)]
<1> DEFINE f == CHOOSE f : f = [n \in 0..Len(file) |-> IF n = 0 THEN r ELSE ReadLine(f[n - 1], file[n])]
<1>1. f = [n \in 0..Len(file) |-> IF n = 0 THEN r ELSE ReadLine(f[n - 1], file[n])]
  BY ReaderExists
<1>2. Reading(r, file) = f[Len(file)]
  BY DEF Reading
<1> HIDE DEF f
<1>3. QED
  BY <1>1, <1>2 DEF Reads

\* Two readings of the same lines are the same.
LEMMA ReadingUnique ==
  ASSUME NEW f, NEW g, NEW r, NEW N \in Nat, NEW file, Reads(f, r, file, N), Reads(g, r, file, N)
  PROVE  f[N] = g[N]
<1> DEFINE bad == {n \in 0..N : f[n] # g[n]}
<1>1. SUFFICES ASSUME bad # {} PROVE FALSE
  BY <1>1
<1>2. PICK n \in bad : \A m \in bad : n <= m
  <2>1. bad \in SUBSET Nat
    OBVIOUS
  <2> HIDE DEF bad
  <2>2. QED
    BY <1>1, <2>1, NatLeast
<1>3. n \in 1..N /\ n - 1 \in 0..N /\ n - 1 \notin bad
  BY <1>2 DEF Reads
<1>4. f[n - 1] = g[n - 1]
  BY <1>3
<1>5. QED
  BY <1>2, <1>3, <1>4 DEF Reads

LEMMA ReadingNothing ==
  ASSUME NEW r
  PROVE  Reading(r, <<>>) = r
<1>1. Len(<<>>) = 0 /\ 0 \in Nat
  BY EmptySeq
<1>2. PICK f : f[0] = r /\ Reading(r, <<>>) = f[Len(<<>>)]
  BY <1>1, ReadingIs DEF Reads
<1>3. QED
  BY <1>1, <1>2

\* A file is read to the end of its first part, and on from there.
LEMMA ReadingOn ==
  ASSUME NEW r, NEW S, NEW a \in Seq(S), NEW b \in Seq(S)
  PROVE  Reading(r, a \o b) = Reading(Reading(r, a), b)
<1> DEFINE A == Len(a)
           B == Len(b)
           c == a \o b
<1>1. /\ A \in Nat /\ B \in Nat /\ c \in Seq(S) /\ Len(c) = A + B /\ A + B \in Nat
      /\ \A n \in 1..A : c[n] = a[n]
      /\ \A n \in 1..B : c[A + n] = b[n]
  BY ConcatProperties, LenProperties
<1> HIDE DEF c
<1>2. PICK f : Reads(f, r, c, Len(c)) /\ Reading(r, c) = f[Len(c)]
  BY <1>1, ReadingIs
<1>3. PICK g : Reads(g, r, a, A) /\ Reading(r, a) = g[A]
  BY <1>1, ReadingIs
<1>4. PICK h : Reads(h, g[A], b, B) /\ Reading(g[A], b) = h[B]
  BY <1>1, ReadingIs
<1>5. f[A] = g[A]
  <2>1. Reads(f, r, a, A)
    BY <1>1, <1>2 DEF Reads
  <2>2. QED
    BY <1>1, <1>3, <2>1, ReadingUnique
<1>6. f[A + B] = h[B]
  <2> DEFINE k == [n \in 0..B |-> f[A + n]]
  <2>1. k[0] = g[A]
    BY <1>1, <1>5
  <2>2. \A n \in 1..B : k[n] = ReadLine(k[n - 1], b[n])
    <3> SUFFICES ASSUME NEW n \in 1..B PROVE k[n] = ReadLine(k[n - 1], b[n])
      OBVIOUS
    <3>1. A + n \in 1..Len(c) /\ (A + n) - 1 = A + (n - 1) /\ n - 1 \in 0..B /\ n \in 0..B
      BY <1>1
    <3>2. f[A + n] = ReadLine(f[(A + n) - 1], c[A + n])
      BY <1>2, <3>1 DEF Reads
    <3>3. QED
      BY <1>1, <3>1, <3>2
  <2>3. k[B] = f[A + B]
    BY <1>1
  <2> HIDE DEF k
  <2>4. Reads(k, g[A], b, B)
    BY <2>1, <2>2 DEF Reads
  <2>5. QED
    BY <1>1, <1>4, <2>3, <2>4, ReadingUnique
<1>7. QED
  BY <1>1, <1>2, <1>3, <1>4, <1>6 DEF c

LEMMA ReadingOne ==
  ASSUME NEW r, NEW x
  PROVE  Reading(r, <<x>>) = ReadLine(r, x)
<1>1. Len(<<x>>) = 1 /\ 1 \in Nat /\ <<x>>[1] = x /\ 1 - 1 = 0
  OBVIOUS
<1>2. PICK f : Reads(f, r, <<x>>, Len(<<x>>)) /\ Reading(r, <<x>>) = f[Len(<<x>>)]
  BY <1>1, ReadingIs
<1>3. QED
  BY <1>1, <1>2 DEF Reads

------------------------------------------------------------------------------
(***************************************************************************)
(* The calendar: what the files and the table hold.                        *)
(***************************************************************************)

\* An event of a file, before storage has numbered it; and a reader of files.
Entries == [title : Texts, location : Texts, description : Texts, start : Times, end : Times]

Readers == [open : BOOLEAN, event : Entries, read : Seq(Entries)]

LEMMA EmptyIsText == Empty \in Texts
<1>1. "" \in Cores
  BY Zenon, CalendarAssumption
<1>2. QED
  BY <1>1 DEF Empty, Texts

LEMMA BlankIsEntry == Blank \in Entries /\ Closed \in Readers
<1>1. Empty \in Texts
  BY EmptyIsText
<1>2. ZeroTime \in Times
  BY DEF ZeroTime, Minute, Times
<1>3. Blank \in Entries
  BY <1>1, <1>2 DEF Blank, Entries
<1>4. <<>> \in Seq(Entries)
  BY EmptySeq
<1>5. QED
  BY <1>3, <1>4 DEF Closed, Readers

LEMMA ReadFieldTypes ==
  ASSUME NEW e \in Entries, NEW line \in Lines
  PROVE  ReadField(e, line) \in Entries
<1>1. CASE line.is = "SUMMARY" \/ line.is = "LOCATION"
  <2>1. line.of \in Texts
    BY <1>1 DEF Lines
  <2>2. TrimSpace(line.of) \in Texts
    BY <2>1 DEF TrimSpace, Texts
  <2>3. QED
    BY <1>1, <2>2 DEF ReadField, Entries
<1>2. CASE line.is = "DTSTART" \/ line.is = "DTEND"
  <2>1. line.of \in Times \cup {Unreadable}
    BY <1>2 DEF Lines
  <2>2. CASE line.of = Unreadable
    BY <1>2, <2>2 DEF ReadField
  <2>3. CASE line.of # Unreadable
    <3>1. line.of \in Times
      BY <2>1, <2>3
    <3>2. QED
      BY <1>2, <2>3, <3>1 DEF ReadField, Entries
  <2>4. QED
    BY <2>2, <2>3
<1>3. CASE line.is \notin {"SUMMARY", "LOCATION", "DTSTART", "DTEND"}
  BY <1>3 DEF ReadField
<1>4. QED
  BY <1>1, <1>2, <1>3

LEMMA ReadLineTypes ==
  ASSUME NEW r \in Readers, NEW line \in Lines
  PROVE  ReadLine(r, line) \in Readers
<1>1. r.open \in BOOLEAN /\ r.event \in Entries /\ r.read \in Seq(Entries)
  BY DEF Readers
<1>2. ReadField(r.event, line) \in Entries
  BY <1>1, ReadFieldTypes
<1>3. Append(r.read, r.event) \in Seq(Entries)
  BY <1>1, AppendProperties
<1>4. QED
  BY <1>1, <1>2, <1>3, BlankIsEntry DEF ReadLine, ReadEnd, Readers

LEMMA ReadingTypes ==
  ASSUME NEW r \in Readers, NEW file \in Seq(Lines)
  PROVE  Reading(r, file) \in Readers
<1> DEFINE N == Len(file)
<1>1. N \in Nat /\ \A n \in 1..N : file[n] \in Lines
  BY LenProperties, ElementOfSeq
<1>2. PICK f : Reads(f, r, file, N) /\ Reading(r, file) = f[N]
  BY <1>1, ReadingIs
<1> HIDE DEF N
<1> DEFINE bad == {n \in 0..N : f[n] \notin Readers}
<1>3. SUFFICES ASSUME bad # {} PROVE FALSE
  BY <1>1, <1>2, <1>3
<1>4. PICK n \in bad : \A m \in bad : n <= m
  <2>1. bad \in SUBSET Nat
    OBVIOUS
  <2> HIDE DEF bad
  <2>2. QED
    BY <1>3, <2>1, NatLeast
<1>5. n \in 1..N /\ n - 1 \in 0..N /\ n - 1 \notin bad
  BY <1>1, <1>2, <1>4 DEF Reads
<1>6. f[n - 1] \in Readers /\ f[n] = ReadLine(f[n - 1], file[n])
  BY <1>2, <1>5 DEF Reads
<1>7. QED
  BY <1>1, <1>4, <1>5, <1>6, ReadLineTypes

LEMMA StampTypes ==
  ASSUME NEW t \in Times
  PROVE  Stamp(t) \in Times /\ Stamp(t) # Unreadable
<1>1. Stamp(t) \in Times
  BY DEF Stamp, Times
<1>2. Unreadable \notin Times
  BY Zenon, CalendarAssumption
<1>3. QED
  BY <1>1, <1>2

\* What an event has in common with one that storage has numbered.
Whole(e) ==
  /\ e.title \in Texts /\ e.location \in Texts /\ e.description \in Texts
  /\ e.start \in Times /\ e.end \in Times

\* The pieces an event is written in.
First4(e) ==
  <<Line("BEGIN", Empty), Line("SUMMARY", e.title),
    Line("DTSTART", Stamp(e.start)), Line("DTEND", Stamp(e.end))>>

Place(e) == IF e.location = Empty THEN <<>> ELSE <<Line("LOCATION", e.location)>>

Remark(e) == IF e.description = Empty THEN <<>> ELSE <<Line("DESCRIPTION", e.description)>>

Last1 == <<Line("END", Empty)>>

LEMMA EventLinesTypes ==
  ASSUME NEW e, Whole(e)
  PROVE  /\ First4(e) \in Seq(Lines) /\ Place(e) \in Seq(Lines) /\ Remark(e) \in Seq(Lines)
         /\ Last1 \in Seq(Lines) /\ First4(e) \o Place(e) \in Seq(Lines)
         /\ (First4(e) \o Place(e)) \o Remark(e) \in Seq(Lines)
         /\ EventLines(e) = ((First4(e) \o Place(e)) \o Remark(e)) \o Last1
         /\ EventLines(e) \in Seq(Lines)
<1>1. /\ e.title \in Texts /\ e.location \in Texts /\ e.description \in Texts
      /\ Stamp(e.start) \in Times /\ Stamp(e.end) \in Times /\ Empty \in Texts
  BY StampTypes, EmptyIsText DEF Whole
<1>2. /\ Line("BEGIN", Empty) \in Lines /\ Line("END", Empty) \in Lines
      /\ Line("SUMMARY", e.title) \in Lines /\ Line("LOCATION", e.location) \in Lines
      /\ Line("DESCRIPTION", e.description) \in Lines
      /\ Line("DTSTART", Stamp(e.start)) \in Lines /\ Line("DTEND", Stamp(e.end)) \in Lines
  BY <1>1 DEF Line, Lines
<1>3. First4(e) \in Seq(Lines) /\ Place(e) \in Seq(Lines) /\ Remark(e) \in Seq(Lines) /\ Last1 \in Seq(Lines)
  BY <1>2 DEF First4, Place, Remark, Last1
<1>4. First4(e) \o Place(e) \in Seq(Lines)
  BY <1>3, ConcatProperties
<1>5. (First4(e) \o Place(e)) \o Remark(e) \in Seq(Lines)
  BY <1>3, <1>4, ConcatProperties
<1>6. EventLines(e) = ((First4(e) \o Place(e)) \o Remark(e)) \o Last1
  BY DEF EventLines, First4, Place, Remark, Last1
<1>7. EventLines(e) \in Seq(Lines)
  BY <1>3, <1>5, <1>6, ConcatProperties
<1>8. QED
  BY <1>3, <1>4, <1>5, <1>6, <1>7

\* A reader inside an event.
Inside(t, l, st, en, q) ==
  [open  |-> TRUE,
   event |-> [title |-> t, location |-> l, description |-> Empty, start |-> st, end |-> en],
   read  |-> q]

\* What each line of an exported event does to it.
LEMMA ReadLineIs ==
  ASSUME NEW t, NEW l, NEW st, NEW en, NEW q, NEW v
  PROVE  /\ ReadLine(Inside(t, l, st, en, q), Line("SUMMARY", v)) = Inside(TrimSpace(v), l, st, en, q)
         /\ ReadLine(Inside(t, l, st, en, q), Line("LOCATION", v)) = Inside(t, TrimSpace(v), st, en, q)
         /\ ReadLine(Inside(t, l, st, en, q), Line("DESCRIPTION", v)) = Inside(t, l, st, en, q)
         /\ v # Unreadable =>
              /\ ReadLine(Inside(t, l, st, en, q), Line("DTSTART", v)) = Inside(t, l, v, en, q)
              /\ ReadLine(Inside(t, l, st, en, q), Line("DTEND", v)) = Inside(t, l, st, v, q)
<1>1. ReadLine(Inside(t, l, st, en, q), Line("SUMMARY", v)) = Inside(TrimSpace(v), l, st, en, q)
  BY DEF ReadLine, ReadField, Inside, Line
<1>2. ReadLine(Inside(t, l, st, en, q), Line("LOCATION", v)) = Inside(t, TrimSpace(v), st, en, q)
  BY DEF ReadLine, ReadField, Inside, Line
<1>3. ReadLine(Inside(t, l, st, en, q), Line("DESCRIPTION", v)) = Inside(t, l, st, en, q)
  BY DEF ReadLine, ReadField, Inside, Line
<1>4. v # Unreadable => ReadLine(Inside(t, l, st, en, q), Line("DTSTART", v)) = Inside(t, l, v, en, q)
  BY DEF ReadLine, ReadField, Inside, Line
<1>5. v # Unreadable => ReadLine(Inside(t, l, st, en, q), Line("DTEND", v)) = Inside(t, l, st, v, q)
  BY DEF ReadLine, ReadField, Inside, Line
<1>6. QED
  BY <1>1, <1>2, <1>3, <1>4, <1>5

\* An exported event is read as what is left of it, whatever has been read before.
LEMMA ReadingEvent ==
  ASSUME NEW r \in Readers, NEW e, Whole(e)
  PROVE  Reading(r, EventLines(e)) =
           [open |-> FALSE, event |-> Blank, read |-> Append(r.read, Returned(e))]
<1> DEFINE q == r.read
           t == TrimSpace(e.title)
           l == TrimSpace(e.location)
           st == Stamp(e.start)
           en == Stamp(e.end)
<1>1. st # Unreadable /\ en # Unreadable
  BY StampTypes DEF Whole
<1>2. Reading(r, First4(e)) = Inside(t, Empty, st, en, q)
  <2>1. /\ Len(First4(e)) = 4 /\ First4(e)[1] = Line("BEGIN", Empty)
        /\ First4(e)[2] = Line("SUMMARY", e.title)
        /\ First4(e)[3] = Line("DTSTART", st) /\ First4(e)[4] = Line("DTEND", en)
    BY DEF First4
  <2>2. PICK f : Reads(f, r, First4(e), 4) /\ Reading(r, First4(e)) = f[4]
    <3>1. Len(First4(e)) \in Nat
      BY <2>1
    <3>2. PICK f : Reads(f, r, First4(e), Len(First4(e))) /\ Reading(r, First4(e)) = f[Len(First4(e))]
      BY <3>1, ReadingIs
    <3>3. QED
      BY <2>1, <3>2
  <2>3. /\ f[0] = r /\ f[1] = ReadLine(f[0], First4(e)[1]) /\ f[2] = ReadLine(f[1], First4(e)[2])
        /\ f[3] = ReadLine(f[2], First4(e)[3]) /\ f[4] = ReadLine(f[3], First4(e)[4])
    <3>1. \A n \in 1..4 : f[n] = ReadLine(f[n - 1], First4(e)[n])
      BY <2>2 DEF Reads
    <3>2. /\ 1 \in 1..4 /\ 1 - 1 = 0 /\ 2 \in 1..4 /\ 2 - 1 = 1
          /\ 3 \in 1..4 /\ 3 - 1 = 2 /\ 4 \in 1..4 /\ 4 - 1 = 3
      OBVIOUS
    <3>3. QED
      BY <2>2, <3>1, <3>2 DEF Reads
  <2>4. f[1] = Inside(Empty, Empty, ZeroTime, ZeroTime, q)
    BY <2>1, <2>3 DEF ReadLine, Line, Inside, Blank
  <2> HIDE DEF q, t, st, en
  <2>5. f[2] = Inside(t, Empty, ZeroTime, ZeroTime, q)
    BY <2>1, <2>3, <2>4, ReadLineIs DEF t
  <2>6. f[3] = Inside(t, Empty, st, ZeroTime, q)
    BY <1>1, <2>1, <2>3, <2>5, ReadLineIs
  <2>7. f[4] = Inside(t, Empty, st, en, q)
    BY <1>1, <2>1, <2>3, <2>6, ReadLineIs
  <2>8. QED
    BY <2>2, <2>7
<1>3. Reading(Reading(r, First4(e)), Place(e)) = Inside(t, l, st, en, q)
  <2>1. CASE e.location = Empty
    <3>1. l = Empty /\ Place(e) = <<>>
      <4>1. TrimSpace(Empty) = Empty
        <5>1. Empty = [Empty EXCEPT !.blanks = Empty.blanks]
          BY DEF Empty
        <5>2. Empty.blanks = FALSE
          BY Zenon DEF Empty
        <5>3. QED
          BY Zenon, <5>1, <5>2 DEF TrimSpace
      <4>2. QED
        BY <2>1, <4>1 DEF Place
    <3>2. QED
      BY <1>2, <3>1, ReadingNothing
  <2>2. CASE e.location # Empty
    <3>1. Place(e) = <<Line("LOCATION", e.location)>>
      BY <2>2 DEF Place
    <3> HIDE DEF q, t, l, st, en
    <3>2. Reading(Inside(t, Empty, st, en, q), <<Line("LOCATION", e.location)>>)
            = ReadLine(Inside(t, Empty, st, en, q), Line("LOCATION", e.location))
      BY ReadingOne
    <3>3. QED
      BY <1>2, <3>1, <3>2, ReadLineIs DEF l
  <2>3. QED
    BY <2>1, <2>2
<1>4. Reading(Inside(t, l, st, en, q), Remark(e)) = Inside(t, l, st, en, q)
  <2> HIDE DEF q, t, l, st, en
  <2>1. CASE e.description = Empty
    BY <2>1, ReadingNothing DEF Remark
  <2>2. CASE e.description # Empty
    <3>1. Remark(e) = <<Line("DESCRIPTION", e.description)>>
      BY <2>2 DEF Remark
    <3>2. Reading(Inside(t, l, st, en, q), <<Line("DESCRIPTION", e.description)>>)
            = ReadLine(Inside(t, l, st, en, q), Line("DESCRIPTION", e.description))
      BY ReadingOne
    <3>3. QED
      BY <3>1, <3>2, ReadLineIs
  <2>3. QED
    BY <2>1, <2>2
<1>5. Reading(Inside(t, l, st, en, q), Last1)
        = [open |-> FALSE, event |-> Blank, read |-> Append(q, Returned(e))]
  <2>1. Reading(Inside(t, l, st, en, q), Last1) = ReadLine(Inside(t, l, st, en, q), Line("END", Empty))
    BY ReadingOne DEF Last1
  <2>2. Returned(e) = [title |-> t, location |-> l, description |-> Empty, start |-> st, end |-> en]
    BY DEF Returned
  <2> HIDE DEF q, t, l, st, en
  <2>3. QED
    BY <2>1, <2>2 DEF ReadLine, ReadEnd, Inside, Line
<1> HIDE DEF q, t, l, st, en
<1>6. Reading(r, First4(e) \o Place(e)) = Inside(t, l, st, en, q)
  BY <1>3, EventLinesTypes, ReadingOn
<1>7. Reading(r, (First4(e) \o Place(e)) \o Remark(e)) = Inside(t, l, st, en, q)
  <2> DEFINE a == First4(e) \o Place(e)
  <2>1. a \in Seq(Lines) /\ Remark(e) \in Seq(Lines)
    BY EventLinesTypes
  <2>2. Reading(r, a) = Inside(t, l, st, en, q)
    BY <1>6
  <2> HIDE DEF a
  <2>3. Reading(r, a \o Remark(e)) = Reading(Reading(r, a), Remark(e))
    BY <2>1, ReadingOn
  <2>4. Reading(r, a \o Remark(e)) = Inside(t, l, st, en, q)
    BY <1>4, <2>2, <2>3
  <2>5. QED
    BY <2>4 DEF a
<1>8. Reading(r, EventLines(e)) = [open |-> FALSE, event |-> Blank, read |-> Append(q, Returned(e))]
  <2> DEFINE a == (First4(e) \o Place(e)) \o Remark(e)
  <2>1. a \in Seq(Lines) /\ Last1 \in Seq(Lines) /\ EventLines(e) = a \o Last1
    BY EventLinesTypes
  <2>2. Reading(r, a) = Inside(t, l, st, en, q)
    BY <1>7
  <2> HIDE DEF a
  <2>3. Reading(r, a \o Last1) = Reading(Reading(r, a), Last1)
    BY <2>1, ReadingOn
  <2>4. QED
    BY <1>5, <2>1, <2>2, <2>3
<1>9. QED
  BY <1>8 DEF q

\* The recursion over the events of the agenda has a value.
LEMMA WriterExists ==
  ASSUME NEW list, NEW N \in Nat
  PROVE  \E f : f = [n \in 0..N |-> IF n = 0 THEN <<>> ELSE f[n - 1] \o EventLines(list[n])]
<1> DEFINE Writer(f, k) == f = [n \in 0..k |-> IF n = 0 THEN <<>> ELSE f[n - 1] \o EventLines(list[n])]
           bad == {k \in Nat : ~ \E f : Writer(f, k)}
<1>1. SUFFICES ASSUME bad # {} PROVE FALSE
  BY <1>1
<1>2. PICK k \in bad : \A m \in bad : k <= m
  BY <1>1, NatLeast
<1>3. k # 0
  <2> DEFINE g == [n \in 0..0 |-> <<>>]
  <2>1. Writer(g, 0)
    OBVIOUS
  <2>2. QED
    BY <2>1
<1>4. PICK f : Writer(f, k - 1)
  <2> HIDE DEF Writer
  <2>1. k - 1 \in Nat /\ k - 1 \notin bad
    BY <1>2, <1>3
  <2>2. QED
    BY <2>1
<1> DEFINE g == [n \in 0..k |-> IF n < k THEN f[n] ELSE f[k - 1] \o EventLines(list[k])]
<1>5. \A n \in 0..k : g[n] = IF n = 0 THEN <<>> ELSE g[n - 1] \o EventLines(list[n])
  <2> SUFFICES ASSUME NEW n \in 0..k PROVE g[n] = IF n = 0 THEN <<>> ELSE g[n - 1] \o EventLines(list[n])
    OBVIOUS
  <2>1. k \in Nat /\ k # 0
    BY <1>2, <1>3
  <2>2. g[n] = IF n < k THEN f[n] ELSE f[k - 1] \o EventLines(list[k])
    OBVIOUS
  <2>3. n # 0 => g[n - 1] = f[n - 1]
    <3>1. n # 0 => n - 1 \in 0..k /\ n - 1 < k
      BY <2>1
    <3>2. QED
      BY <3>1
  <2>4. n < k => f[n] = IF n = 0 THEN <<>> ELSE f[n - 1] \o EventLines(list[n])
    <3>1. n < k => n \in 0..(k - 1)
      BY <2>1
    <3>2. QED
      BY <1>4, <3>1
  <2> HIDE DEF g
  <2>5. QED
    BY <2>1, <2>2, <2>3, <2>4
<1>6. Writer(g, k)
  <2>1. g = [n \in 0..k |-> g[n]]
    OBVIOUS
  <2> HIDE DEF g
  <2>2. QED
    BY <1>5, <2>1
<1>7. QED
  BY <1>2, <1>6

\* The file after each event.
LEMMA ICalIs ==
  ASSUME NEW list, Len(list) \in Nat
  PROVE  \E f : /\ f[0] = <<>>
                /\ \A n \in 1..Len(list) : f[n] = f[n - 1] \o EventLines(list[n])
                /\ ICal(list) = f[Len(list)]
<1> DEFINE f == CHOOSE f : f = [n \in 0..Len(list) |-> IF n = 0 THEN <<>> ELSE f[n - 1] \o EventLines(list[n])]
<1>1. f = [n \in 0..Len(list) |-> IF n = 0 THEN <<>> ELSE f[n - 1] \o EventLines(list[n])]
  BY WriterExists
<1>2. ICal(list) = f[Len(list)]
  BY DEF ICal
<1> HIDE DEF f
<1>3. f[0] = <<>>
  <2>1. 0 \in 0..Len(list)
    OBVIOUS
  <2>2. QED
    BY <1>1, <2>1
<1>4. \A n \in 1..Len(list) : f[n] = f[n - 1] \o EventLines(list[n])
  <2> SUFFICES ASSUME NEW n \in 1..Len(list) PROVE f[n] = f[n - 1] \o EventLines(list[n])
    OBVIOUS
  <2>1. n \in 0..Len(list) /\ n # 0
    OBVIOUS
  <2>2. QED
    BY <1>1, <2>1
<1>5. QED
  BY <1>2, <1>3, <1>4

\* A file of events is a sequence of lines, and has been read, to its end, as what is
\* left of each of them in turn.
LEMMA ICalReads ==
  ASSUME NEW list, Len(list) \in Nat, \A n \in 1..Len(list) : Whole(list[n])
  PROVE  /\ ICal(list) \in Seq(Lines)
         /\ ReadICal(ICal(list)) = [n \in 1..Len(list) |-> Returned(list[n])]
<1> DEFINE N == Len(list)
           Back(n) == [i \in 1..n |-> Returned(list[i])]
<1>1. PICK f : /\ f[0] = <<>> /\ \A n \in 1..N : f[n] = f[n - 1] \o EventLines(list[n])
               /\ ICal(list) = f[N]
  BY ICalIs
<1> DEFINE Good(n) ==
             /\ f[n] \in Seq(Lines)
             /\ Reading(Closed, f[n]) \in Readers
             /\ Reading(Closed, f[n]).read = Back(n)
           bad == {n \in 0..N : ~Good(n)}
<1>2. bad = {}
  <2>1. SUFFICES ASSUME bad # {} PROVE FALSE
    BY <2>1
  <2>2. PICK n \in bad : \A m \in bad : n <= m
    <3>1. bad \in SUBSET Nat
      OBVIOUS
    <3> HIDE DEF bad
    <3>2. QED
      BY <2>1, <3>1, NatLeast
  <2>3. Good(0)
    <3>1. <<>> \in Seq(Lines) /\ Reading(Closed, <<>>) = Closed
      BY EmptySeq, ReadingNothing
    <3>2. Closed.read = <<>> /\ Back(0) = <<>>
      BY DEF Closed
    <3>3. QED
      BY <1>1, <3>1, <3>2, BlankIsEntry
  <2> HIDE DEF Good
  <2>4. n \in 1..N /\ n - 1 \in 0..N /\ n - 1 \notin bad
    BY <2>2, <2>3
  <2>5. Good(n - 1)
    BY <2>4
  <2> DEFINE r == Reading(Closed, f[n - 1])
             e == list[n]
  <2>6. f[n - 1] \in Seq(Lines) /\ r \in Readers /\ r.read = Back(n - 1) /\ Whole(e)
    BY <2>4, <2>5 DEF Good
  <2>7. f[n] = f[n - 1] \o EventLines(e) /\ EventLines(e) \in Seq(Lines)
    BY <1>1, <2>4, <2>6, EventLinesTypes
  <2>8. f[n] \in Seq(Lines) /\ Reading(Closed, f[n]) = Reading(r, EventLines(e))
    BY <2>6, <2>7, ConcatProperties, ReadingOn
  <2>9. Reading(r, EventLines(e)) = [open |-> FALSE, event |-> Blank, read |-> Append(r.read, Returned(e))]
    BY <2>6, ReadingEvent
  <2>10. Reading(Closed, f[n]) \in Readers
    BY <2>8, ReadingTypes, BlankIsEntry
  <2>11. Append(Back(n - 1), Returned(e)) = Back(n)
    <3>1. Back(n - 1) \in Seq({Returned(list[i]) : i \in 1..N}) /\ Len(Back(n - 1)) = n - 1
      BY <2>4
    <3> DEFINE b == Back(n - 1)
               S == {Returned(list[i]) : i \in 1..N}
    <3>2. Returned(e) \in S
      BY <2>4
    <3>3. n - 1 \in Nat /\ (n - 1) + 1 = n
      BY <2>4
    <3>4. \A i \in 1..(n - 1) : b[i] = Returned(list[i])
      OBVIOUS
    <3> HIDE DEF b, S, Back
    <3>5. b \in Seq(S) /\ Len(b) = n - 1
      BY <3>1 DEF b, S
    <3>6. /\ Append(b, Returned(e)) \in Seq(S) /\ Len(Append(b, Returned(e))) = Len(b) + 1
          /\ \A i \in 1..Len(b) : Append(b, Returned(e))[i] = b[i]
          /\ Append(b, Returned(e))[Len(b) + 1] = Returned(e)
      BY <3>2, <3>5, AppendProperties
    <3>7. Append(b, Returned(e)) = [i \in 1..n |-> Append(b, Returned(e))[i]]
      <4> DEFINE c == Append(b, Returned(e))
      <4>1. c \in Seq(S) /\ Len(c) = n
        BY <3>3, <3>5, <3>6
      <4> HIDE DEF c
      <4>2. c = [i \in 1..n |-> c[i]]
        BY <4>1
      <4>3. QED
        BY <4>2 DEF c
    <3>8. \A i \in 1..n : Append(b, Returned(e))[i] = Returned(list[i])
      <4> SUFFICES ASSUME NEW i \in 1..n PROVE Append(b, Returned(e))[i] = Returned(list[i])
        OBVIOUS
      <4>1. CASE i = n
        BY <3>3, <3>5, <3>6, <4>1
      <4>2. CASE i # n
        <5>1. i \in 1..(n - 1)
          BY <4>2
        <5>2. QED
          BY <3>4, <3>5, <3>6, <5>1
      <4>3. QED
        BY <4>1, <4>2
    <3> HIDE DEF e
    <3>9. Back(n) = [i \in 1..n |-> Returned(list[i])]
      BY DEF Back
    <3>10. QED
      BY <3>7, <3>8, <3>9 DEF b
  <2>12. Reading(Closed, f[n]).read = Append(r.read, Returned(e))
    BY <2>8, <2>9
  <2>13. Good(n)
    <3>1. r.read = Back(n - 1)
      BY <2>6
    <3> HIDE DEF r, e, Back
    <3>2. Reading(Closed, f[n]).read = Back(n)
      BY <2>11, <2>12, <3>1
    <3>3. QED
      BY <2>8, <2>10, <3>2 DEF Good
  <2>14. QED
    BY <2>2, <2>13
<1>3. Good(N)
  <2> HIDE DEF Good
  <2>1. N \in 0..N
    OBVIOUS
  <2>2. QED
    BY <1>2, <2>1
<1>4. QED
  BY <1>1, <1>3 DEF ReadICal

------------------------------------------------------------------------------
(***************************************************************************)
(* The calendar: the table and the agenda.                                 *)
(***************************************************************************)

\* No event is deleted, so the IDs are the first numbers, and the next is free.
Calendars(tab) ==
  /\ Numbered(tab)
  /\ tab \subseteq Event /\ Cardinality(tab) <= MaxEvents

CalInv == CalendarTypeOK /\ Calendars(events) /\ AgendaIsStored

LEMMA CalendarBounds ==
  /\ MaxEvents \in Nat /\ MaxCalFaults \in Nat
  /\ Clock \subseteq Times /\ Foreign \subseteq Seq(Lines)
  /\ \A f \in Forms :
       /\ f.title \in Texts /\ f.location \in Texts /\ f.description \in Texts
       /\ f.start \in Nat \cup {Unreadable} /\ f.end \in Nat \cup {Unreadable}
<1>1. /\ MaxEvents \in Nat /\ MaxCalFaults \in Nat
      /\ Clock \subseteq Times /\ Foreign \subseteq Seq(Lines)
      /\ \A f \in Forms : {f.title, f.location, f.description} \subseteq Texts
      /\ \A f \in Forms : {f.start, f.end} \subseteq Nat \cup {Unreadable}
  BY Zenon, CalendarAssumption
<1>2. QED
  BY <1>1

LEMMA EventsAreWhole ==
  ASSUME NEW e \in Event
  PROVE  Whole(e) /\ e.id \in Nat /\ e.id \in 1..MaxEvents /\ e.start.wall \in Int
<1>1. e.id \in 1..MaxEvents /\ Whole(e)
  BY DEF Event, Whole
<1>2. e.id \in Nat
  BY <1>1, CalendarBounds
<1>3. e.start.wall \in Int
  BY <1>1 DEF Whole, Times
<1>4. QED
  BY <1>1, <1>2, <1>3

\* Events at the same time are listed by their IDs.
LEMMA AgendaLists ==
  ASSUME NEW tab, Calendars(tab)
  PROVE  ListEvents(tab) \in Seq(Event)
<1> DEFINE R == {p \in tab \X tab : Earlier(p[1], p[2])}
<1>1. \A d \in tab : d.id \in Nat /\ d.start.wall \in Int
  BY EventsAreWhole DEF Calendars
<1>2. \A d, e \in tab : <<d, e>> \in R <=> Earlier(d, e)
  OBVIOUS
<1>3. Orders(R, tab)
  BY <1>1, <1>2 DEF Orders, Earlier, Calendars, Numbered
<1>4. ListEvents(tab) = InOrder(tab, R)
  BY DEF ListEvents
<1> HIDE DEF R
<1>5. InOrder(tab, R) \in Seq(tab)
  BY <1>3, InOrderLists DEF Calendars, Numbered
<1>6. Seq(tab) \subseteq Seq(Event)
  BY SeqMonotonic DEF Calendars
<1>7. QED
  BY <1>4, <1>5, <1>6

\* Either the agenda shows the table, or a statement has failed.
LEMMA ReloadsAgendaKeeps ==
  ASSUME CalInv, NEW lost \in Nat, ReloadsAgenda(lost),
         Calendars(events'), calFaults' <= MaxCalFaults, UNCHANGED ical
  PROVE  CalInv'
<1>1. MaxCalFaults \in Nat /\ calFaults \in Nat
  BY CalendarBounds DEF CalInv, CalendarTypeOK
<1>2. CASE agenda' = ListEvents(events') /\ calFaults' = calFaults + lost
  <2>1. agenda' \in Seq(Event)
    BY <1>2, AgendaLists
  <2>2. calFaults' \in 0..MaxCalFaults
    BY <1>1, <1>2
  <2>3. CalendarTypeOK'
    BY <2>1, <2>2 DEF CalInv, CalendarTypeOK, Calendars
  <2>4. AgendaIsStored'
    BY <1>2 DEF AgendaIsStored
  <2>5. QED
    BY <2>3, <2>4 DEF CalInv
<1>3. CASE agenda' = agenda /\ calFaults' = calFaults + lost + 1
  <2>1. calFaults' \in 1..MaxCalFaults
    BY <1>1, <1>3
  <2>2. CalendarTypeOK'
    BY <1>1, <1>3, <2>1 DEF CalInv, CalendarTypeOK, Calendars
  <2>3. AgendaIsStored'
    BY <2>1 DEF AgendaIsStored
  <2>4. QED
    BY <2>2, <2>3 DEF CalInv
<1>4. QED
  BY <1>2, <1>3 DEF ReloadsAgenda

LEMMA EnteredTypes ==
  ASSUME NEW entry \in Nat \cup {Unreadable}, NEW t \in Times
  PROVE  Entered(entry, t) \in Times
<1>1. CASE entry = Unreadable
  BY <1>1 DEF Entered
<1>2. CASE entry # Unreadable
  <2>1. entry \in Int
    BY <1>2
  <2>2. QED
    BY <1>2, <2>1 DEF Entered, Minute, Times
<1>3. QED
  BY <1>1, <1>2

LEMMA FilledTypes ==
  ASSUME NEW e \in Event, NEW f \in Forms
  PROVE  Filled(e, f) \in Event /\ Filled(e, f).id = e.id
<1>1. /\ f.title \in Texts /\ f.location \in Texts /\ f.description \in Texts
      /\ Entered(f.start, e.start) \in Times /\ Entered(f.end, e.end) \in Times
  BY CalendarBounds, EventsAreWhole, EnteredTypes DEF Whole
<1>2. QED
  BY <1>1 DEF Filled, Event

\* An event with the next ID.
LEMMA EventAdded ==
  ASSUME NEW tab, Calendars(tab), NEW e \in Event, e.id = Cardinality(tab) + 1
  PROVE  Calendars(tab \cup {e})
<1>1. e \notin tab /\ \A d \in tab : d.id # e.id
  <2>1. Cardinality(tab) \in Nat
    BY FS_CardinalityType DEF Calendars, Numbered
  <2>2. \A d \in tab : d.id <= Cardinality(tab) /\ d.id \in Nat
    BY EventsAreWhole DEF Calendars, Numbered
  <2>3. QED
    BY <2>1, <2>2
<1>2. IsFiniteSet(tab \cup {e}) /\ Cardinality(tab \cup {e}) = Cardinality(tab) + 1
  BY <1>1, FS_AddElement DEF Calendars, Numbered
<1>3. e.id \in 1..MaxEvents /\ Cardinality(tab) \in Nat /\ MaxEvents \in Nat
  BY EventsAreWhole, CalendarBounds, FS_CardinalityType DEF Calendars, Numbered
<1>4. \A c \in tab \cup {e} : c.id <= Cardinality(tab \cup {e})
  BY <1>2, <1>3, EventsAreWhole DEF Calendars, Numbered
<1>5. \A c, d \in tab \cup {e} : c.id = d.id => c = d
  BY <1>1 DEF Calendars, Numbered
<1>6. Cardinality(tab \cup {e}) <= MaxEvents
  BY <1>2, <1>3
<1>7. QED
  BY <1>2, <1>4, <1>5, <1>6 DEF Calendars, Numbered

\* An event in the place of the one with its ID.
LEMMA EventReplaced ==
  ASSUME NEW tab, Calendars(tab), NEW e \in Event
  PROVE  Calendars({IF d.id = e.id THEN e ELSE d : d \in tab})
<1> DEFINE f == [d \in tab |-> IF d.id = e.id THEN e ELSE d]
           T == {IF d.id = e.id THEN e ELSE d : d \in tab}
<1>1. /\ T \subseteq Event /\ f \in [tab -> T] /\ Numbered(tab)
      /\ \A t \in T : \E c \in tab : f[c] = t
      /\ \A c \in tab : f[c].id = c.id
  BY DEF Calendars
<1> HIDE DEF T, f
<1>2. Numbered(T) /\ Cardinality(T) = Cardinality(tab)
  BY <1>1, TableChanges
<1>3. Calendars(T)
  BY <1>1, <1>2 DEF Calendars
<1>4. QED
  BY <1>3 DEF T

\* The events taken from a file are numbered in its order.
LEMMA Counted ==
  ASSUME NEW K \in Nat, NEW taken \in SUBSET (1..K)
  PROVE  /\ IsFiniteSet(taken) /\ Cardinality(taken) \in Nat
         /\ \A i \in taken : Cardinality({j \in taken : j <= i}) \in 1..Cardinality(taken)
         /\ \A i, j \in taken :
              Cardinality({k \in taken : k <= i}) = Cardinality({k \in taken : k <= j}) => i = j
<1> DEFINE R == {p \in taken \X taken : p[1] < p[2]}
           rank(i) == Rank(i, taken, R)
           count(i) == Cardinality({j \in taken : j <= i})
<1>1. IsFiniteSet(taken) /\ Cardinality(taken) \in Nat
  <2>1. IsFiniteSet(1..K)
    BY FS_Interval
  <2>2. QED
    BY <2>1, FS_Subset, FS_CardinalityType
<1>2. \A i, j \in taken : <<i, j>> \in R <=> i < j
  OBVIOUS
<1>3. \A i \in taken : i \in Int
  OBVIOUS
<1>4. \A i \in taken : {j \in taken : <<j, i>> \in R} = {j \in taken : j < i}
  BY <1>2
<1> HIDE DEF R
<1>5. Orders(R, taken)
  BY <1>2, <1>3 DEF Orders
<1>6. /\ \A i \in taken : rank(i) \in 0..(Cardinality(taken) - 1)
      /\ \A i, j \in taken : <<i, j>> \in R => rank(i) < rank(j)
  BY <1>1, <1>5, Ranks
<1>7. ASSUME NEW i \in taken PROVE count(i) = rank(i) + 1
  <2>1. IsFiniteSet({j \in taken : j < i}) /\ i \notin {j \in taken : j < i}
    BY <1>1, <1>3, FS_Subset
  <2>2. {j \in taken : j <= i} = {j \in taken : j < i} \cup {i}
    <3>1. \A j \in taken : j <= i <=> j < i \/ j = i
      BY <1>3
    <3>2. QED
      BY <3>1, Zenon
  <2>3. Cardinality({j \in taken : j < i} \cup {i}) = Cardinality({j \in taken : j < i}) + 1
    BY <2>1, FS_AddElement
  <2>4. rank(i) = Cardinality({j \in taken : j < i})
    BY <1>4 DEF Rank
  <2>5. QED
    BY <2>2, <2>3, <2>4
<1> HIDE DEF rank, count
<1>8. \A i \in taken : count(i) \in 1..Cardinality(taken)
  BY <1>1, <1>6, <1>7
<1>9. ASSUME NEW i \in taken, NEW j \in taken, count(i) = count(j) PROVE i = j
  <2>1. rank(i) = rank(j) /\ rank(i) \in Int
    BY <1>1, <1>6, <1>7, <1>9
  <2>2. ~(rank(i) < rank(j)) /\ ~(rank(j) < rank(i))
    BY <2>1
  <2>3. <<i, j>> \notin R /\ <<j, i>> \notin R
    BY <1>6, <2>2
  <2>4. ~(i < j) /\ ~(j < i)
    BY <1>2, <2>3
  <2>5. QED
    BY <1>3, <2>4
<1>10. QED
  BY <1>1, <1>8, <1>9 DEF count

\* The file of an agenda, and what is read from it.
LEMMA ExportReads ==
  ASSUME NEW list \in Seq(Event)
  PROVE  ICal(list) \in Seq(Lines) /\ ReadICal(ICal(list)) = [n \in DOMAIN list |-> Returned(list[n])]
<1>1. Len(list) \in Nat /\ DOMAIN list = 1..Len(list)
  BY LenProperties
<1>2. \A n \in 1..Len(list) : Whole(list[n])
  BY <1>1, ElementOfSeq, EventsAreWhole
<1>3. QED
  BY <1>1, <1>2, ICalReads

\* The rows of the events taken from a file.
Imported(tab, read, taken) ==
  {Added(Cardinality(tab) + Cardinality({j \in taken : j <= i}), read[i]) : i \in taken}

LEMMA EventsImported ==
  ASSUME NEW tab, Calendars(tab), NEW read \in Seq(Entries), NEW taken \in SUBSET DOMAIN read,
         Cardinality(tab) + Cardinality(taken) <= MaxEvents
  PROVE  /\ Calendars(tab \cup Imported(tab, read, taken))
         /\ Len(read) - Cardinality(taken) \in Nat
<1> DEFINE K == Len(read)
           C == Cardinality(tab)
           count(i) == Cardinality({j \in taken : j <= i})
           e(i) == Added(C + count(i), read[i])
           new == {e(i) : i \in taken}
<1>1. K \in Nat /\ DOMAIN read = 1..K /\ taken \in SUBSET (1..K)
  BY LenProperties
<1>2. C \in Nat /\ IsFiniteSet(tab) /\ MaxEvents \in Nat
  BY FS_CardinalityType, CalendarBounds DEF Calendars, Numbered
<1>3. /\ IsFiniteSet(taken) /\ Cardinality(taken) \in Nat
      /\ \A i \in taken : count(i) \in 1..Cardinality(taken)
      /\ \A i, j \in taken : count(i) = count(j) => i = j
  BY <1>1, Counted
<1>4. \A i \in taken : read[i] \in Entries
  BY <1>1, ElementOfSeq
<1> HIDE DEF count, C, K
<1>5. \A i \in taken : e(i).id = C + count(i)
  BY DEF Added
<1>6. \A i \in taken : C + count(i) \in 1..MaxEvents /\ C + count(i) > C
  BY <1>2, <1>3 DEF C
<1>7. \A i \in taken : e(i) \in Event
  <2> SUFFICES ASSUME NEW i \in taken PROVE e(i) \in Event
    OBVIOUS
  <2>1. C + count(i) \in 1..MaxEvents /\ read[i] \in Entries
    BY <1>4, <1>6
  <2>2. QED
    BY <2>1 DEF Added, Event, Entries
<1>8. \A i, j \in taken : e(i) = e(j) => i = j
  <2> SUFFICES ASSUME NEW i \in taken, NEW j \in taken, e(i) = e(j) PROVE i = j
    OBVIOUS
  <2>1. C + count(i) = C + count(j)
    BY <1>5
  <2>2. count(i) = count(j)
    BY <1>2, <1>3, <2>1
  <2>3. QED
    BY <1>3, <2>2
<1>9. IsFiniteSet(new) /\ Cardinality(new) = Cardinality(taken)
  <2> DEFINE f == [i \in taken |-> e(i)]
  <2>1. f \in [taken -> new] /\ \A t \in new : \E i \in taken : f[i] = t
    OBVIOUS
  <2>2. \A i, j \in taken : f[i] = f[j] => i = j
    BY <1>8
  <2> HIDE DEF f, new
  <2>3. f \in Bijection(taken, new)
    BY <2>1, <2>2, Fun_IsBij
  <2>4. ExistsBijection(taken, new)
    BY <2>3, Fun_ExistsBij
  <2>5. QED
    BY <1>3, <2>4, FS_Bijection
<1>10. \A t \in new : /\ t \in Event /\ t.id \in Nat /\ t.id > C
                      /\ t.id <= C + Cardinality(taken)
  <2> SUFFICES ASSUME NEW i \in taken
               PROVE  e(i) \in Event /\ e(i).id \in Nat /\ e(i).id > C /\ e(i).id <= C + Cardinality(taken)
    OBVIOUS
  <2>1. e(i).id = C + count(i) /\ count(i) \in 1..Cardinality(taken) /\ e(i) \in Event
    BY <1>3, <1>5, <1>7
  <2> HIDE DEF e
  <2>2. QED
    BY <1>2, <1>3, <2>1
<1>11. \A s, t \in new : s.id = t.id => s = t
  <2> SUFFICES ASSUME NEW i \in taken, NEW j \in taken, e(i).id = e(j).id PROVE e(i) = e(j)
    OBVIOUS
  <2>1. C + count(i) = C + count(j)
    BY <1>5
  <2>2. count(i) = count(j)
    BY <1>2, <1>3, <2>1
  <2>3. QED
    BY <1>3, <2>2
<1>12. \A d \in tab : d.id \in Nat /\ d.id <= C /\ d \in Event
  BY EventsAreWhole DEF Calendars, Numbered, C
<1> HIDE DEF new
<1>13. tab \cap new = {}
  <2> SUFFICES ASSUME NEW t \in tab, t \in new PROVE FALSE
    OBVIOUS
  <2>1. t.id \in Nat /\ t.id <= C /\ t.id > C
    BY <1>10, <1>12
  <2>2. QED
    BY <1>2, <2>1
<1>14. IsFiniteSet(tab \cup new) /\ Cardinality(tab \cup new) = C + Cardinality(taken)
  <2>1. Cardinality({}) = 0 /\ Cardinality(tab \cup new) = Cardinality(tab) + Cardinality(new) - Cardinality(tab \cap new)
        /\ IsFiniteSet(tab \cup new)
    BY <1>2, <1>9, FS_Union, FS_EmptySet
  <2>2. Cardinality(tab \cap new) = 0
    BY <1>13, <2>1
  <2>3. Cardinality(tab) = C /\ Cardinality(tab) \in Nat
    BY <1>2 DEF C
  <2>4. QED
    BY <1>3, <1>9, <2>1, <2>2, <2>3
<1>15. Calendars(tab \cup new)
  <2>1. \A c \in tab \cup new : c.id <= Cardinality(tab \cup new)
    BY <1>2, <1>3, <1>10, <1>12, <1>14
  <2>2. \A c, d \in tab \cup new : c.id = d.id => c = d
    <3> SUFFICES ASSUME NEW c \in tab \cup new, NEW d \in tab \cup new, c.id = d.id PROVE c = d
      OBVIOUS
    <3>1. \A s \in tab, t \in new : s.id # t.id
      BY <1>2, <1>10, <1>12
    <3>2. \A s, t \in tab : s.id = t.id => s = t
      BY DEF Calendars, Numbered
    <3>3. QED
      BY <1>11, <3>1, <3>2
  <2>3. tab \cup new \subseteq Event
    BY <1>10, <1>12
  <2>4. Cardinality(tab \cup new) <= MaxEvents
    BY <1>14 DEF C
  <2>5. QED
    BY <1>14, <2>1, <2>2, <2>3, <2>4 DEF Calendars, Numbered
<1>16. K - Cardinality(taken) \in Nat
  <2>1. IsFiniteSet(1..K) /\ Cardinality(1..K) = K
    BY <1>1, FS_Interval
  <2>2. Cardinality(taken) <= Cardinality(1..K)
    BY <1>1, <2>1, FS_Subset
  <2>3. QED
    BY <1>1, <1>3, <2>1, <2>2
<1>17. QED
  BY <1>15, <1>16 DEF new, K, C, count, Imported

LEMMA CalendarInitial == CalendarInit => CalInv
<1> SUFFICES ASSUME CalendarInit PROVE CalInv
  OBVIOUS
<1>1. IsFiniteSet({}) /\ Cardinality({}) = 0
  BY FS_EmptySet
<1>2. Calendars(events)
  BY <1>1, CalendarBounds DEF CalendarInit, Calendars, Numbered
<1>3. CalendarTypeOK
  BY CalendarBounds, EmptySeq DEF CalendarInit, CalendarTypeOK
<1>4. ListEvents({}) = <<>>
  BY <1>1 DEF ListEvents, InOrder
<1>5. AgendaIsStored
  BY <1>4 DEF CalendarInit, AgendaIsStored
<1>6. QED
  BY <1>2, <1>3, <1>5 DEF CalInv

LEMMA CalendarPreserved == CalInv /\ [CalendarNext]_calendarVars => CalInv'
<1> SUFFICES ASSUME CalInv, [CalendarNext]_calendarVars PROVE CalInv'
  OBVIOUS
<1>0. /\ Calendars(events) /\ agenda \in Seq(Event) /\ ical \in Seq(Lines)
      /\ Cardinality(events) \in Nat
  BY FS_CardinalityType DEF CalInv, CalendarTypeOK, Calendars, Numbered
<1>1. ASSUME NEW now \in Clock, NEW f \in Forms, SaveNewEvent(now, f) PROVE CalInv'
  <2> DEFINE e == [id |-> Cardinality(events) + 1, title |-> Empty, location |-> Empty,
                   description |-> Empty, start |-> now, end |-> now]
  <2>1. /\ Cardinality(events) < MaxEvents
        /\ \/ events' = events \cup {Filled(e, f)} /\ ReloadsAgenda(0)
           \/ events' = events /\ ReloadsAgenda(1)
        /\ calFaults' <= MaxCalFaults /\ UNCHANGED ical
    BY <1>1 DEF SaveNewEvent
  <2>2. e \in Event /\ e.id = Cardinality(events) + 1
    <3>1. Cardinality(events) + 1 \in 1..MaxEvents /\ now \in Times /\ Empty \in Texts
      BY <1>0, <2>1, CalendarBounds, EmptyIsText
    <3>2. QED
      BY <3>1 DEF Event
  <2> HIDE DEF e
  <2>3. Filled(e, f) \in Event /\ Filled(e, f).id = Cardinality(events) + 1
    BY <2>2, FilledTypes
  <2>4. Calendars(events \cup {Filled(e, f)})
    BY <1>0, <2>3, EventAdded
  <2>5. CASE events' = events \cup {Filled(e, f)} /\ ReloadsAgenda(0)
    <3>1. Calendars(events')
      BY <2>4, <2>5
    <3>2. QED
      BY <2>1, <2>5, <3>1, ReloadsAgendaKeeps
  <2>6. CASE events' = events /\ ReloadsAgenda(1)
    <3>1. Calendars(events')
      BY <1>0, <2>6
    <3>2. QED
      BY <2>1, <2>6, <3>1, ReloadsAgendaKeeps
  <2>7. QED
    BY <2>1, <2>5, <2>6
<1>2. ASSUME NEW i \in DOMAIN agenda, NEW f \in Forms, SaveEvent(i, f) PROVE CalInv'
  <2> DEFINE e == Filled(agenda[i], f)
             T == {IF d.id = e.id THEN e ELSE d : d \in events}
  <2>1. /\ \/ events' = T /\ ReloadsAgenda(0)
           \/ events' = events /\ ReloadsAgenda(1)
        /\ calFaults' <= MaxCalFaults /\ UNCHANGED ical
    BY <1>2 DEF SaveEvent
  <2>2. agenda[i] \in Event
    BY <1>0, ElementOfSeq, LenProperties
  <2>3. e \in Event
    BY <2>2, FilledTypes
  <2>4. Calendars(T)
    <3> HIDE DEF e
    <3>1. QED
      BY <1>0, <2>3, EventReplaced
  <2>5. CASE events' = T /\ ReloadsAgenda(0)
    <3> HIDE DEF T
    <3>1. Calendars(events')
      BY <2>4, <2>5
    <3>2. QED
      BY <2>1, <2>5, <3>1, ReloadsAgendaKeeps
  <2>6. CASE events' = events /\ ReloadsAgenda(1)
    <3>1. Calendars(events')
      BY <1>0, <2>6
    <3>2. QED
      BY <2>1, <2>6, <3>1, ReloadsAgendaKeeps
  <2>7. QED
    BY <2>1, <2>5, <2>6
<1>3. CASE ExportICal
  <2>1. ICal(agenda) \in Seq(Lines)
    BY <1>0, ExportReads
  <2>2. ical' \in Seq(Lines)
    <3>1. CASE ical' = ICal(agenda)
      BY <2>1, <3>1
    <3>2. ASSUME NEW n \in 0..Len(ICal(agenda)), ical' = SubSeq(ICal(agenda), 1, n)
          PROVE  ical' \in Seq(Lines)
      BY <2>1, <3>2, SubSeqProperties
    <3>3. QED
      BY <1>3, <3>1, <3>2 DEF ExportICal
  <2>3. events' = events /\ agenda' = agenda
    BY <1>3 DEF ExportICal
  <2>4. calFaults' \in 0..MaxCalFaults /\ (calFaults' = 0 => calFaults = 0)
    BY <1>3, CalendarBounds DEF ExportICal, CalInv, CalendarTypeOK
  <2>5. CalendarTypeOK'
    BY <2>2, <2>3, <2>4 DEF CalInv, CalendarTypeOK
  <2>6. AgendaIsStored'
    BY <2>3, <2>4 DEF CalInv, AgendaIsStored
  <2>7. Calendars(events')
    BY <1>0, <2>3
  <2>8. QED
    BY <2>5, <2>6, <2>7 DEF CalInv
<1>4. ASSUME NEW file \in Foreign \cup {ical}, ImportICal(file) PROVE CalInv'
  <2>1. file \in Seq(Lines)
    BY <1>0, CalendarBounds
  <2>2. ReadICal(file) \in Seq(Entries)
    <3>1. Reading(Closed, file) \in Readers
      BY <2>1, ReadingTypes, BlankIsEntry
    <3>2. QED
      BY <3>1 DEF ReadICal, Readers
  <2>3. PICK read \in Seq(Entries) : read = ReadICal(file)
    BY <2>2
  <2>4. PICK taken \in SUBSET DOMAIN read :
          /\ Cardinality(events) + Cardinality(taken) <= MaxEvents
          /\ events' = events \cup Imported(events, read, taken)
          /\ ReloadsAgenda(Len(read) - Cardinality(taken))
          /\ calFaults' <= MaxCalFaults
          /\ UNCHANGED ical
    BY <1>4, <2>3 DEF ImportICal, Imported
  <2>5. /\ Calendars(events \cup Imported(events, read, taken))
        /\ Len(read) - Cardinality(taken) \in Nat
    BY <1>0, <2>4, EventsImported
  <2>6. Calendars(events')
    BY <2>4, <2>5
  <2>7. QED
    BY <2>4, <2>5, <2>6, ReloadsAgendaKeeps
<1>5. CASE UNCHANGED calendarVars
  BY <1>5 DEF CalInv, CalendarTypeOK, AgendaIsStored, calendarVars
<1>6. QED
  BY <1>1, <1>2, <1>3, <1>4, <1>5 DEF CalendarNext

------------------------------------------------------------------------------
(***************************************************************************)
(* The to-do list.                                                         *)
(***************************************************************************)
Box == [task : Task \cup {NoTask}, checked : BOOLEAN]

Refresh == [row : Nat, n : Nat, task : Task \cup {NoTask}]

\* Of each ID a table has one task.
TaskTable(tab) ==
  /\ tab \subseteq Task
  /\ \A s, t \in tab : s.id = t.id => s = t

Visible(tab, hide) == {t \in tab : hide => ~t.done}

\* The refreshes of a stack ask for rows of the list, which has a row for each of its
\* tasks.  Whatever a callback writes, the next list is no shorter: where done tasks are
\* hidden, callbacks make tasks open again.
Fits(stack, boxes, list, tab, hide) ==
  stack # <<>> =>
    /\ Len(boxes) = Len(list) /\ Len(list) <= Cardinality(Visible(tab, hide))
    /\ hide => \A i \in 1..Len(list) : ~list[i].done
    /\ \A k \in 1..Len(stack) : stack[k].row > 0 /\ stack[k].n <= Len(list)

\* A box without a task is about to be updated.
Shown(stack, boxes) ==
  \A i \in 1..Len(boxes) :
    boxes[i].task \notin Task => stack # <<>> /\ i \in stack[1].row..stack[1].n

TasksInv ==
  /\ TasksTypeOK /\ TaskTable(table)
  /\ \A t \in table : t.id <= lastTask
  /\ Fits(frames, rows, tasks, table, hideDone) /\ Shown(frames, rows)

LEMMA TaskBounds ==
  /\ MaxTasks \in Nat /\ MaxTaskFaults \in Nat
  /\ \A t \in Task : t.id \in Nat /\ t.due \in Nat /\ t.done \in BOOLEAN
<1>1. MaxTasks \in Nat /\ MaxTaskFaults \in Nat /\ Dues \subseteq Nat
  BY Zenon, TasksAssumption
<1>2. ASSUME NEW t \in Task PROVE t.id \in Nat /\ t.due \in Nat /\ t.done \in BOOLEAN
  <2>1. t.id \in 1..MaxTasks /\ t.due \in Dues /\ t.done \in BOOLEAN
    BY DEF Task
  <2>2. t.id \in Nat
    BY <1>1, <2>1
  <2>3. t.due \in Nat
    BY <1>1, <2>1
  <2>4. QED
    BY <2>1, <2>2, <2>3
<1>3. QED
  BY <1>1, <1>2

LEMMA TasksFinite ==
  ASSUME NEW tab, TaskTable(tab), NEW hide
  PROVE  /\ IsFiniteSet(tab) /\ IsFiniteSet(Visible(tab, hide))
         /\ Cardinality(Visible(tab, hide)) \in Nat
<1> DEFINE f == [t \in tab |-> t.id]
<1>1. f \in [tab -> 1..MaxTasks]
  BY DEF TaskTable, Task
<1>2. f \in Injection(tab, 1..MaxTasks)
  BY <1>1, Fun_IsInj DEF TaskTable
<1>3. IsFiniteSet(1..MaxTasks)
  BY TaskBounds, FS_Interval
<1> HIDE DEF f
<1>4. IsFiniteSet(tab)
  BY <1>2, <1>3, FS_Injection
<1>5. Visible(tab, hide) \subseteq tab
  BY DEF Visible
<1>6. QED
  BY <1>4, <1>5, FS_Subset, FS_CardinalityType

\* The tasks a query finds.
LEMMA TasksListed ==
  ASSUME NEW tab, TaskTable(tab), NEW hide
  PROVE  LET list == ListTasks(tab, hide) IN
         /\ list \in Seq(Task) /\ Len(list) = Cardinality(Visible(tab, hide))
         /\ hide => \A i \in 1..Len(list) : ~list[i].done
<1> DEFINE S == Visible(tab, hide)
           R == {p \in S \X S : Before(p[1], p[2])}
           list == InOrder(S, R)
<1>1. S \subseteq tab /\ S \subseteq Task /\ hide => \A t \in S : ~t.done
  BY DEF Visible, TaskTable
<1>2. \A s, t \in S : <<s, t>> \in R <=> Before(s, t)
  OBVIOUS
<1>3. ListTasks(tab, hide) = list
  BY DEF ListTasks, Visible
<1>4. IsFiniteSet(S)
  BY TasksFinite
<1> HIDE DEF R
<1>5. S \subseteq tab /\ S \subseteq Task
  BY DEF Visible, TaskTable
<1>6. \A s, t \in S : s.id = t.id => s = t
  BY <1>5 DEF TaskTable
<1> HIDE DEF S
<1>7. Orders(R, S)
  BY <1>2, <1>5, <1>6, TaskBounds DEF Orders, Before
<1>8. /\ list \in Seq(S) /\ Len(list) = Cardinality(S)
      /\ \A i \in DOMAIN list : list[i] \in S
  BY <1>4, <1>7, InOrderLists
<1> HIDE DEF list
<1>9. list \in Seq(Task) /\ DOMAIN list = 1..Len(list)
  BY <1>5, <1>8, SeqMonotonic, LenProperties
<1>10. hide => \A i \in 1..Len(list) : ~list[i].done
  BY <1>8, <1>9 DEF S, Visible
<1>11. QED
  BY <1>3, <1>8, <1>9, <1>10 DEF S

\* An update changes no ID, and no task to a hidden one when it opens it.
LEMMA TaskUpdated ==
  ASSUME NEW t \in Task, TaskTable(table), NEW hide, hide => ~t.done
  PROVE  /\ TaskTable(UpdateTask(t))
         /\ \A u \in UpdateTask(t) : \E s \in table : s.id = u.id
         /\ Cardinality(Visible(table, hide)) <= Cardinality(Visible(UpdateTask(t), hide))
<1> DEFINE new == UpdateTask(t)
           now1(s) == IF s.id = t.id THEN t ELSE s
           f == [s \in Visible(table, hide) |-> now1(s)]
<1>1. new = {now1(s) : s \in table}
  BY DEF UpdateTask
<1>2. \A s \in table : now1(s) \in Task /\ now1(s).id = s.id
  BY DEF TaskTable
<1>3. \A s \in table : (hide => ~s.done) => (hide => ~now1(s).done)
  OBVIOUS
<1> HIDE DEF now1, new
<1>4. TaskTable(new)
  BY <1>1, <1>2 DEF TaskTable
<1>5. \A u \in new : \E s \in table : s.id = u.id
  BY <1>1, <1>2
<1>6. f \in [Visible(table, hide) -> Visible(new, hide)]
  BY <1>1, <1>3 DEF Visible
<1>7. \A s, u \in Visible(table, hide) : f[s] = f[u] => s = u
  BY <1>2 DEF TaskTable, Visible
<1> HIDE DEF f
<1>8. f \in Injection(Visible(table, hide), Visible(new, hide))
  BY <1>6, <1>7, Fun_IsInj
<1>9. Cardinality(Visible(table, hide)) <= Cardinality(Visible(new, hide))
  BY <1>4, <1>8, TasksFinite, FS_Injection
<1>10. QED
  BY <1>4, <1>5, <1>9 DEF new

\* A write and a reload leave what is on the screen fitting, whichever of the two fails.
LEMMA WritesReload ==
  ASSUME TasksTypeOK, hideDone' \in BOOLEAN, TaskTable(table),
         NEW new, TaskTable(new), NEW boxes \in Seq(Box), NEW stack \in Seq(Refresh),
         Fits(stack, boxes, tasks, table, hideDone'), Fits(stack, boxes, tasks, new, hideDone'),
         Shown(stack, boxes),
         WriteAndReload(new, boxes, stack)
  PROVE  /\ table' \in {table, new}
         /\ tasks' \in Seq(Task) /\ rows' \in Seq(Box) /\ pool' \subseteq Box
         /\ frames' \in Seq(Refresh) /\ taskFaults' \in 0..MaxTaskFaults
         /\ Fits(frames', rows', tasks', table', hideDone') /\ Shown(frames', rows')
<1>1. PICK written \in BOOLEAN, read \in BOOLEAN :
        /\ taskFaults' = taskFaults + (IF written THEN 0 ELSE 1) + (IF read THEN 0 ELSE 1)
        /\ taskFaults' <= MaxTaskFaults
        /\ table' = IF written THEN new ELSE table
        /\ IF ~read
           THEN tasks' = tasks /\ rows' = boxes /\ pool' = pool /\ frames' = stack
           ELSE /\ tasks' = ListTasks(table', hideDone')
                /\ LET n == Len(tasks') IN
                   /\ frames' = <<[row |-> 1, n |-> n, task |-> NoTask]>> \o stack
                   /\ IF n <= Len(boxes)
                      THEN /\ rows' = SubSeq(boxes, 1, n)
                           /\ pool' = pool \cup {boxes[i] : i \in (n + 1)..Len(boxes)}
                      ELSE \E more \in [1..(n - Len(boxes)) -> pool \cup {Fresh}] :
                             rows' = boxes \o more /\ pool' = pool \ Range(more)
  BY DEF WriteAndReload
<1>2. /\ table' \in {table, new} /\ TaskTable(table')
      /\ Fits(stack, boxes, tasks, table', hideDone')
  BY <1>1
<1>3. taskFaults' \in 0..MaxTaskFaults
  <2>1. taskFaults \in Nat
    BY TaskBounds DEF TasksTypeOK
  <2>2. taskFaults' \in Nat
    BY <1>1, <2>1
  <2>3. QED
    BY <1>1, <2>2, TaskBounds
<1>4. tasks \in Seq(Task) /\ pool \subseteq Box
  BY DEF TasksTypeOK, Box
<1>5. CASE ~read
  BY <1>1, <1>2, <1>3, <1>4, <1>5
<1>6. CASE read
  <2> DEFINE n == Len(tasks')
             f == [row |-> 1, n |-> n, task |-> NoTask]
  <2>1. /\ tasks' \in Seq(Task) /\ n = Cardinality(Visible(table', hideDone')) /\ n \in Nat
        /\ hideDone' => \A i \in 1..n : ~tasks'[i].done
    <3>1. tasks' = ListTasks(table', hideDone') /\ TaskTable(table')
      BY <1>1, <1>2, <1>6
    <3>2. /\ tasks' \in Seq(Task) /\ Len(tasks') = Cardinality(Visible(table', hideDone'))
          /\ hideDone' => \A i \in 1..Len(tasks') : ~tasks'[i].done
      BY <3>1, TasksListed
    <3>3. QED
      BY <3>2, LenProperties
  <2>2. frames' = <<f>> \o stack /\ f \in Refresh /\ f.row = 1 /\ f.n = n
    BY <1>1, <1>6, <2>1 DEF Refresh
  <2>3. rows' \in Seq(Box) /\ Len(rows') = n /\ pool' \subseteq Box
    <3>1. Len(boxes) \in Nat /\ \A i \in 1..Len(boxes) : boxes[i] \in Box
      BY LenProperties, ElementOfSeq
    <3>2. CASE n <= Len(boxes)
      <4>1. /\ rows' = SubSeq(boxes, 1, n)
            /\ pool' = pool \cup {boxes[i] : i \in (n + 1)..Len(boxes)}
        BY <1>1, <1>6, <3>2
      <4>2. rows' \in Seq(Box) /\ Len(rows') = n
        <5>1. \A i \in 1..n : boxes[i] \in Box
          BY <2>1, <3>1, <3>2
        <5> HIDE DEF n
        <5>2. QED
          BY <2>1, <4>1, <5>1, SubSeqProperties
      <4>3. pool' \subseteq Box
        BY <1>4, <2>1, <3>1, <4>1
      <4>4. QED
        BY <4>2, <4>3
    <3>3. CASE ~ (n <= Len(boxes))
      <4>1. PICK more \in [1..(n - Len(boxes)) -> pool \cup {Fresh}] :
              rows' = boxes \o more /\ pool' = pool \ Range(more)
        BY <1>1, <1>6, <3>3
      <4>2. n - Len(boxes) \in Nat
        BY <2>1, <3>1, <3>3
      <4>3. pool \cup {Fresh} \subseteq Box
        <5>1. Fresh \in Box
          BY DEF Fresh, Box
        <5>2. QED
          BY <1>4, <5>1
      <4>4. more \in Seq(Box) /\ Len(more) = n - Len(boxes)
        <5> HIDE DEF n
        <5>1. QED
          BY <4>2, <4>3
      <4>5. rows' \in Seq(Box) /\ Len(rows') = Len(boxes) + Len(more)
        BY <4>1, <4>4, ConcatProperties
      <4>6. QED
        BY <1>4, <2>1, <3>1, <4>1, <4>4, <4>5
    <3>4. QED
      BY <3>2, <3>3
  <2> HIDE DEF f
  <2>4. <<f>> \in Seq(Refresh) /\ Len(<<f>>) = 1 /\ <<f>>[1] = f
    BY <2>2
  <2>5. /\ frames' \in Seq(Refresh) /\ Len(frames') = 1 + Len(stack)
        /\ \A k \in 1..Len(frames') : frames'[k] = IF k = 1 THEN f ELSE stack[k - 1]
    <3>1. Len(stack) \in Nat
      BY LenProperties
    <3>2. frames' \in Seq(Refresh) /\ Len(frames') = 1 + Len(stack)
      BY <2>2, <2>4, ConcatProperties
    <3>3. ASSUME NEW k \in 1..Len(frames') PROVE frames'[k] = IF k = 1 THEN f ELSE stack[k - 1]
      <4>1. k \in 1 .. Len(<<f>>) + Len(stack)
        BY <2>4, <3>2
      <4>2. frames'[k] = IF k <= Len(<<f>>) THEN <<f>>[k] ELSE stack[k - Len(<<f>>)]
        BY <2>2, <2>4, <4>1, ConcatProperties
      <4>3. k <= 1 <=> k = 1
        BY <3>1, <3>2
      <4>4. QED
        BY <2>4, <4>2, <4>3
    <3>4. QED
      BY <3>2, <3>3
  <2>6. ASSUME NEW k \in 1..Len(frames') PROVE frames'[k].row > 0 /\ frames'[k].n <= n
    <3>1. CASE k = 1
      BY <2>1, <2>2, <2>5, <3>1
    <3>2. CASE k # 1
      <4>1. Len(stack) \in Nat /\ k - 1 \in 1..Len(stack)
        BY <2>5, <3>2, LenProperties
      <4>2. stack # <<>>
        BY <4>1, EmptySeq
      <4>3. /\ stack[k - 1].row > 0 /\ stack[k - 1].n <= Len(tasks)
            /\ Len(tasks) <= Cardinality(Visible(table', hideDone'))
        BY <1>2, <4>1, <4>2 DEF Fits
      <4>4. stack[k - 1].n \in Nat /\ Len(tasks) \in Nat
        <5>1. stack[k - 1] \in Refresh
          BY <4>1, ElementOfSeq
        <5>2. QED
          BY <1>4, <5>1, LenProperties DEF Refresh
      <4>5. stack[k - 1].n <= n
        BY <2>1, <4>3, <4>4
      <4>6. QED
        BY <2>5, <3>2, <4>3, <4>5
    <3>3. QED
      BY <3>1, <3>2
  <2>7. Fits(frames', rows', tasks', table', hideDone')
    BY <2>1, <2>3, <2>6 DEF Fits
  <2>8. Shown(frames', rows')
    <3>1. frames' # <<>> /\ frames'[1].row = 1 /\ frames'[1].n = n
      <4>1. Len(frames') \in Nat /\ Len(frames') > 0
        BY <2>5, LenProperties
      <4>2. QED
        BY <2>2, <2>5, <4>1, EmptySeq
    <3>2. QED
      BY <2>3, <3>1 DEF Shown
  <2>9. QED
    BY <1>2, <1>3, <2>1, <2>3, <2>5, <2>7, <2>8
<1>7. QED
  BY <1>5, <1>6

LEMMA TasksInitial == TasksInit => TasksInv
<1> SUFFICES ASSUME TasksInit PROVE TasksInv
  OBVIOUS
<1>1. /\ <<>> \in Seq(Task) /\ <<>> \in Seq(Box) /\ <<>> \in Seq(Refresh)
      /\ Len(rows) = 0
  BY EmptySeq DEF TasksInit
<1>2. lastTask \in 0..MaxTasks /\ selected \in -1..MaxTasks /\ taskFaults \in 0..MaxTaskFaults
  BY TaskBounds DEF TasksInit
<1>3. TasksTypeOK
  BY <1>1, <1>2 DEF TasksInit, TasksTypeOK, Box, Refresh
<1>4. TaskTable(table) /\ \A t \in table : t.id <= lastTask
  BY DEF TasksInit, TaskTable
<1>5. Fits(frames, rows, tasks, table, hideDone) /\ Shown(frames, rows)
  BY <1>1 DEF TasksInit, Fits, Shown
<1>6. QED
  BY <1>3, <1>4, <1>5 DEF TasksInv

\* A handler that writes while nothing is refreshed.
LEMMA HandlerReloads ==
  ASSUME TasksInv, Idle, NEW new, TaskTable(new), WriteAndReload(new, rows, <<>>),
         table' \in {table, new} => \A t \in table' : t.id <= lastTask',
         lastTask' \in 0..MaxTasks, hideDone' \in BOOLEAN, selected' \in -1..MaxTasks
  PROVE  TasksInv'
<1>1. TasksTypeOK /\ TaskTable(table) /\ rows \in Seq(Box) /\ <<>> \in Seq(Refresh)
  BY EmptySeq DEF TasksInv, TasksTypeOK, Box
<1>2. Fits(<<>>, rows, tasks, table, hideDone') /\ Fits(<<>>, rows, tasks, new, hideDone')
  BY DEF Fits
<1>3. Shown(<<>>, rows)
  BY DEF TasksInv, Idle
<1>4. /\ table' \in {table, new}
      /\ tasks' \in Seq(Task) /\ rows' \in Seq(Box) /\ pool' \subseteq Box
      /\ frames' \in Seq(Refresh) /\ taskFaults' \in 0..MaxTaskFaults
      /\ Fits(frames', rows', tasks', table', hideDone') /\ Shown(frames', rows')
  BY <1>1, <1>2, <1>3, WritesReload
<1>5. TaskTable(table')
  BY <1>1, <1>4
<1>6. TasksTypeOK'
  BY <1>4, <1>5 DEF TasksTypeOK, TaskTable, Box, Refresh
<1>7. QED
  BY <1>4, <1>5, <1>6 DEF TasksInv

\* A callback, of the user's click or inside a refresh.
LEMMA CallbackKeeps ==
  ASSUME TasksInv, NEW i \in 1..Len(rows), NEW v \in BOOLEAN, NEW stack \in Seq(Refresh),
         rows[i].task \in Task,
         stack = <<>> \/ (stack # <<>> /\ (hideDone => ~v)),
         Fits(stack, rows, tasks, table, hideDone),
         \A j \in 1..Len(rows) : j # i /\ rows[j].task \notin Task =>
           stack # <<>> /\ j \in stack[1].row..stack[1].n,
         UNCHANGED <<lastTask, selected, hideDone>>,
         OnChanged(i, v, stack)
  PROVE  TasksInv'
<1> DEFINE t == [rows[i].task EXCEPT !.done = v]
           new == UpdateTask(t)
           box == [task |-> t, checked |-> v]
           boxes == [rows EXCEPT ![i] = box]
<1>1. TasksTypeOK /\ TaskTable(table) /\ rows \in Seq(Box) /\ hideDone \in BOOLEAN
  BY DEF TasksInv, TasksTypeOK, Box
<1>2. WriteAndReload(new, boxes, stack)
  BY DEF OnChanged
<1>3. t \in Task /\ t.done = v
  BY DEF Task
<1> HIDE DEF t
<1>4. box \in Box /\ box.task = t
  BY <1>3 DEF Box
<1> HIDE DEF box
<1>5. /\ boxes \in Seq(Box) /\ Len(boxes) = Len(rows)
      /\ \A j \in 1..Len(rows) : boxes[j] = IF j = i THEN box ELSE rows[j]
  BY <1>1, <1>4, ExceptSeq
<1> HIDE DEF boxes
<1>6. TaskTable(new) /\ \A u \in new : \E s \in table : s.id = u.id
  <2>1. FALSE => ~t.done
    OBVIOUS
  <2>2. QED
    BY <1>1, <1>3, <2>1, TaskUpdated
<1>7. Fits(stack, boxes, tasks, table, hideDone) /\ Fits(stack, boxes, tasks, new, hideDone)
  <2>1. Fits(stack, boxes, tasks, table, hideDone)
    BY <1>5 DEF Fits
  <2>2. ASSUME stack # <<>>
        PROVE  Cardinality(Visible(table, hideDone)) <= Cardinality(Visible(new, hideDone))
    BY <1>1, <1>3, <2>2, TaskUpdated
  <2>3. ASSUME stack # <<>> PROVE Len(tasks) <= Cardinality(Visible(new, hideDone))
    <3>1. Len(tasks) <= Cardinality(Visible(table, hideDone))
      BY <2>3 DEF Fits
    <3>2. Len(tasks) \in Nat
      BY <1>1, LenProperties DEF TasksTypeOK
    <3>3. /\ Cardinality(Visible(table, hideDone)) \in Nat
          /\ Cardinality(Visible(new, hideDone)) \in Nat
      BY <1>1, <1>6, TasksFinite
    <3> HIDE DEF new
    <3>4. QED
      BY <2>2, <2>3, <3>1, <3>2, <3>3
  <2> HIDE DEF new
  <2>4. QED
    BY <2>1, <2>3 DEF Fits
<1>8. Shown(stack, boxes)
  BY <1>3, <1>4, <1>5 DEF Shown
<1> HIDE DEF new
<1>9. /\ table' \in {table, new}
      /\ tasks' \in Seq(Task) /\ rows' \in Seq(Box) /\ pool' \subseteq Box
      /\ frames' \in Seq(Refresh) /\ taskFaults' \in 0..MaxTaskFaults
      /\ Fits(frames', rows', tasks', table', hideDone') /\ Shown(frames', rows')
  BY <1>1, <1>2, <1>5, <1>6, <1>7, <1>8, WritesReload
<1>10. TaskTable(table') /\ \A u \in table' : u.id <= lastTask'
  BY <1>1, <1>6, <1>9 DEF TasksInv
<1>11. TasksTypeOK'
  BY <1>1, <1>9, <1>10 DEF TasksTypeOK, TaskTable, Box, Refresh
<1>12. QED
  BY <1>9, <1>10, <1>11 DEF TasksInv

\* The innermost refresh, before and after its next row.
LEMMA TopFrame ==
  ASSUME TasksInv, ~Idle
  PROVE  /\ frames \in Seq(Refresh) /\ 1 \in 1..Len(frames) /\ Top = frames[1] /\ Top \in Refresh
         /\ Top.row \in Nat /\ Top.n \in Nat /\ Top.row > 0 /\ Top.n <= Len(tasks)
         /\ Len(rows) = Len(tasks) /\ Len(rows) \in Nat
         /\ tasks \in Seq(Task) /\ rows \in Seq(Box)
<1>1. frames \in Seq(Refresh) /\ tasks \in Seq(Task) /\ rows \in Seq(Box) /\ frames # <<>>
  BY DEF TasksInv, TasksTypeOK, Box, Refresh, Idle
<1>2. Len(frames) \in Nat \ {0} /\ Len(rows) \in Nat
  BY <1>1, EmptySeq, LenProperties
<1>3. 1 \in 1..Len(frames)
  BY <1>2
<1>4. Top = frames[1] /\ Top \in Refresh
  BY <1>1, <1>3, ElementOfSeq DEF Top
<1>5. Top.row > 0 /\ Top.n <= Len(tasks) /\ Len(rows) = Len(tasks)
  BY <1>1, <1>3, <1>4 DEF TasksInv, Fits
<1>6. QED
  BY <1>1, <1>2, <1>3, <1>4, <1>5 DEF Refresh

\* A row has been updated, and is shown.
LEMMA NextRowKeeps ==
  ASSUME TasksInv, ~Idle, NextRow,
         UNCHANGED <<table, lastTask, tasks, pool, selected, hideDone, taskFaults>>,
         rows' \in Seq(Box), Len(rows') = Len(rows),
         \A j \in 1..Len(rows) :
           /\ j = Top.row => rows'[j].task \in Task
           /\ j # Top.row => rows'[j] = rows[j]
  PROVE  TasksInv'
<1> DEFINE f == [row |-> Top.row + 1, n |-> Top.n, task |-> NoTask]
<1>1. /\ frames \in Seq(Refresh) /\ 1 \in 1..Len(frames) /\ Top = frames[1] /\ Top \in Refresh
      /\ Top.row \in Nat /\ Top.n \in Nat /\ Top.row > 0 /\ Top.n <= Len(tasks)
      /\ Len(rows) = Len(tasks) /\ Len(rows) \in Nat
  BY TopFrame
<1>2. frames' = [frames EXCEPT ![1] = f]
  BY DEF NextRow
<1>3. f \in Refresh /\ f.row = Top.row + 1 /\ f.n = Top.n
  BY <1>1 DEF Refresh
<1> HIDE DEF f
<1>4. /\ frames' \in Seq(Refresh) /\ Len(frames') = Len(frames)
      /\ \A k \in 1..Len(frames) : frames'[k] = IF k = 1 THEN f ELSE frames[k]
  BY <1>1, <1>2, <1>3, ExceptSeq
<1>5. frames # <<>> /\ frames' # <<>>
  <2>1. Len(frames) # 0
    BY <1>1, LenProperties
  <2>2. QED
    BY <2>1, <1>4, EmptySeq
<1>6. Fits(frames', rows', tasks', table', hideDone')
  <2>1. \A k \in 1..Len(frames) : frames'[k].row > 0 /\ frames'[k].n <= Len(tasks)
    BY <1>1, <1>3, <1>4, <1>5 DEF TasksInv, Fits
  <2>2. QED
    BY <1>4, <1>5, <2>1 DEF TasksInv, Fits
<1>7. Shown(frames', rows')
  <2>1. ASSUME NEW j \in 1..Len(rows'), rows'[j].task \notin Task
        PROVE  j \in frames'[1].row..frames'[1].n
    <3>1. j # Top.row /\ rows'[j] = rows[j] /\ j \in 1..Len(rows)
      BY <2>1
    <3>2. j \in Top.row..Top.n
      BY <1>1, <2>1, <3>1 DEF TasksInv, Shown
    <3>3. frames'[1] = f
      BY <1>1, <1>4
    <3>4. QED
      BY <1>1, <1>3, <3>1, <3>2, <3>3
  <2>2. QED
    BY <1>5, <2>1 DEF Shown
<1>8. TasksTypeOK'
  BY <1>4 DEF TasksInv, TasksTypeOK, Box, Refresh
<1>9. QED
  BY <1>6, <1>7, <1>8 DEF TasksInv, TaskTable

LEMMA RefreshStepKeeps == ASSUME TasksInv, RefreshStep PROVE TasksInv'
<1>1. CASE UpdateRow
  <2> DEFINE t == tasks[Top.row]
             box == [task |-> t, checked |-> t.done]
  <2>1. /\ ~Idle /\ Top.row <= Top.n /\ NextRow
        /\ rows' = [rows EXCEPT ![Top.row] = box]
        /\ UNCHANGED <<table, lastTask, tasks, pool, selected, hideDone, taskFaults>>
    BY <1>1 DEF UpdateRow, Updating
  <2>2. /\ Top.row \in 1..Len(tasks) /\ Len(rows) = Len(tasks)
        /\ tasks \in Seq(Task) /\ rows \in Seq(Box)
    BY <2>1, TopFrame
  <2>3. t \in Task
    BY <2>2, ElementOfSeq
  <2>4. box \in Box /\ box.task \in Task
    BY <2>3 DEF Task, Box
  <2> HIDE DEF box
  <2>5. /\ rows' \in Seq(Box) /\ Len(rows') = Len(rows)
        /\ \A j \in 1..Len(rows) : rows'[j] = IF j = Top.row THEN box ELSE rows[j]
    BY <2>1, <2>2, <2>4, ExceptSeq
  <2>6. QED
    BY <2>1, <2>4, <2>5, NextRowKeeps
<1>2. CASE UpdateCallsBack
  <2> DEFINE t == tasks[Top.row]
             f == [Top EXCEPT !.task = t]
             stack == [frames EXCEPT ![1] = f]
  <2>1. /\ ~Idle /\ Top.row <= Top.n /\ rows[Top.row].task # NoTask
        /\ UNCHANGED <<lastTask, selected, hideDone>>
        /\ OnChanged(Top.row, t.done, [frames EXCEPT ![1].task = t])
    BY <1>2 DEF UpdateCallsBack, Updating
  <2>2. /\ frames \in Seq(Refresh) /\ 1 \in 1..Len(frames) /\ Top = frames[1] /\ Top \in Refresh
        /\ Top.row \in 1..Len(tasks) /\ Len(rows) = Len(tasks)
        /\ tasks \in Seq(Task) /\ rows \in Seq(Box)
    BY <2>1, TopFrame
  <2>3. t \in Task /\ t.done \in BOOLEAN
    <3>1. t \in Task
      BY <2>2, ElementOfSeq
    <3>2. QED
      BY <3>1, TaskBounds
  <2>4. rows[Top.row].task \in Task
    <3>1. rows[Top.row] \in Box
      BY <2>2, ElementOfSeq
    <3>2. QED
      BY <2>1, <3>1 DEF Box
  <2>5. hideDone => ~t.done
    BY <2>1, <2>2 DEF TasksInv, Fits, Idle
  <2>6. OnChanged(Top.row, t.done, stack)
    BY <2>1, <2>2
  <2>7. f \in Refresh /\ f.row = Top.row /\ f.n = Top.n
    BY <2>2, <2>3 DEF Refresh
  <2> HIDE DEF f, t
  <2>8. /\ stack \in Seq(Refresh) /\ Len(stack) = Len(frames)
        /\ \A k \in 1..Len(frames) : stack[k] = IF k = 1 THEN f ELSE frames[k]
    BY <2>2, <2>7, ExceptSeq
  <2> HIDE DEF stack
  <2>9. frames # <<>> /\ stack # <<>> /\ stack[1].row = Top.row /\ stack[1].n = Top.n
    <3>1. Len(frames) # 0
      BY <2>2, LenProperties
    <3>2. QED
      BY <2>1, <2>2, <2>7, <2>8, <3>1, EmptySeq DEF Idle
  <2>10. Fits(stack, rows, tasks, table, hideDone)
    <3>1. \A k \in 1..Len(stack) : stack[k].row = frames[k].row /\ stack[k].n = frames[k].n
      BY <2>2, <2>7, <2>8
    <3>2. QED
      BY <2>8, <2>9, <3>1 DEF TasksInv, Fits
  <2>11. \A j \in 1..Len(rows) : j # Top.row /\ rows[j].task \notin Task =>
           stack # <<>> /\ j \in stack[1].row..stack[1].n
    BY <2>2, <2>9 DEF TasksInv, Shown
  <2>12. QED
    BY <2>1, <2>2, <2>3, <2>4, <2>5, <2>6, <2>8, <2>9, <2>10, <2>11, CallbackKeeps
<1>3. CASE UpdateResumes
  <2>1. /\ ~Idle /\ Top.task # NoTask /\ NextRow
        /\ rows' = [rows EXCEPT ![Top.row].task = Top.task]
        /\ UNCHANGED <<table, lastTask, tasks, pool, selected, hideDone, taskFaults>>
    BY <1>3 DEF UpdateResumes
  <2>2. rows \in Seq(Box) /\ Top.task \in Task
    <3>1. Top \in Refresh /\ rows \in Seq(Box)
      BY <2>1, TopFrame
    <3>2. QED
      BY <2>1, <3>1 DEF Refresh
  <2>3. rows \in [1..Len(rows) -> Box] /\ Len(rows) \in Nat
    BY <2>2, LenProperties
  <2>4. /\ rows' \in [1..Len(rows) -> Box]
        /\ \A j \in 1..Len(rows) :
             rows'[j] = IF j = Top.row THEN [rows[j] EXCEPT !.task = Top.task] ELSE rows[j]
    BY <2>1, <2>2, <2>3 DEF Box
  <2>5. rows' \in Seq(Box) /\ Len(rows') = Len(rows)
    BY <2>3, <2>4
  <2>6. \A j \in 1..Len(rows) : j = Top.row => rows'[j].task \in Task
    BY <2>2, <2>3, <2>4 DEF Box
  <2>7. QED
    BY <2>1, <2>4, <2>5, <2>6, NextRowKeeps
<1>4. CASE RefreshReturns
  <2>1. /\ ~Idle /\ Top.row > Top.n /\ frames' = Tail(frames)
        /\ UNCHANGED <<table, lastTask, tasks, rows, pool, selected, hideDone, taskFaults>>
    BY <1>4 DEF RefreshReturns
  <2>2. /\ frames \in Seq(Refresh) /\ frames # <<>> /\ Top = frames[1]
        /\ Top.row \in Nat /\ Top.n \in Nat
    BY <2>1, TopFrame DEF Idle
  <2>3. /\ frames' \in Seq(Refresh) /\ Len(frames') = Len(frames) - 1
        /\ \A k \in 1..Len(frames') : frames'[k] = frames[k + 1]
    BY <2>1, <2>2, HeadTailProperties
  <2>4. Fits(frames', rows', tasks', table', hideDone')
    <3>1. Len(frames) \in Nat /\ \A k \in 1..Len(frames') : k + 1 \in 1..Len(frames)
      BY <2>2, <2>3, LenProperties
    <3>2. \A k \in 1..Len(frames') : frames'[k].row > 0 /\ frames'[k].n <= Len(tasks)
      BY <2>2, <2>3, <3>1 DEF TasksInv, Fits
    <3>3. QED
      BY <2>1, <2>2, <3>2 DEF TasksInv, Fits
  <2>5. \A j \in 1..Len(rows) : rows[j].task \in Task
    <3>1. Top.row..Top.n = {}
      BY <2>1, <2>2
    <3>2. QED
      BY <2>2, <3>1 DEF TasksInv, Shown
  <2>6. TasksTypeOK'
    BY <2>1, <2>3 DEF TasksInv, TasksTypeOK, Refresh
  <2>7. QED
    BY <2>1, <2>4, <2>5, <2>6 DEF TasksInv, TaskTable, Shown
<1>5. QED
  BY <1>1, <1>2, <1>3, <1>4 DEF RefreshStep

\* A step of the tab.
LEMMA TasksPreserved == TasksInv /\ [TasksNext]_taskVars => TasksInv'
<1> SUFFICES ASSUME TasksInv, [TasksNext]_taskVars PROVE TasksInv'
  OBVIOUS
<1>1. /\ TasksTypeOK /\ TaskTable(table) /\ \A t \in table : t.id \in Nat /\ t.id <= lastTask
      /\ lastTask \in 0..MaxTasks /\ selected \in -1..MaxTasks /\ hideDone \in BOOLEAN
      /\ MaxTasks \in Nat
  BY TaskBounds DEF TasksInv, TasksTypeOK, TaskTable
<1>2. CASE RefreshStep
  BY <1>2, RefreshStepKeeps
<1>3. ASSUME NEW i \in 1..MaxTasks, Toggle(i) PROVE TasksInv'
  <2>1. /\ Idle /\ i \in DOMAIN rows /\ UNCHANGED <<lastTask, selected, hideDone>>
        /\ OnChanged(i, ~rows[i].checked, <<>>)
    BY <1>3 DEF Toggle
  <2>2. rows \in Seq(Box) /\ i \in 1..Len(rows)
    BY <1>1, <2>1, LenProperties DEF TasksTypeOK, Box
  <2>3. \A j \in 1..Len(rows) : rows[j].task \in Task
    BY <2>1 DEF TasksInv, Shown, Idle
  <2>4. (~rows[i].checked) \in BOOLEAN
    BY <2>2 DEF Box
  <2>5. Fits(<<>>, rows, tasks, table, hideDone)
    BY DEF Fits
  <2>6. <<>> \in Seq(Refresh)
    BY EmptySeq
  <2>7. QED
    BY <2>1, <2>2, <2>3, <2>4, <2>5, <2>6, CallbackKeeps
<1>4. ASSUME NEW i \in 1..MaxTasks, SelectTask(i) PROVE TasksInv'
  <2>1. /\ Idle /\ i \in DOMAIN tasks /\ selected' = tasks[i].id
        /\ UNCHANGED <<table, lastTask, tasks, rows, pool, frames, hideDone, taskFaults>>
    BY <1>4 DEF SelectTask
  <2>2. tasks[i] \in Task
    BY <1>1, <2>1, LenProperties, ElementOfSeq DEF TasksTypeOK
  <2>3. selected' \in -1..MaxTasks
    BY <1>1, <2>1, <2>2 DEF Task
  <2>4. QED
    BY <2>1, <2>3 DEF TasksInv, TasksTypeOK, TaskTable
<1>5. CASE HideCompleted
  <2>1. /\ Idle /\ hideDone' = ~hideDone /\ UNCHANGED <<lastTask, selected>>
        /\ WriteAndReload(table, rows, <<>>)
    BY <1>5 DEF HideCompleted
  <2>2. hideDone' \in BOOLEAN
    BY <2>1
  <2>3. QED
    BY <1>1, <2>1, <2>2, HandlerReloads
<1>6. CASE ClearForm
  <2>1. /\ selected' = -1
        /\ UNCHANGED <<table, lastTask, tasks, rows, pool, frames, hideDone, taskFaults>>
    BY <1>6 DEF ClearForm
  <2>2. selected' \in -1..MaxTasks
    BY <1>1, <2>1
  <2>3. QED
    BY <2>1, <2>2 DEF TasksInv, TasksTypeOK, TaskTable
<1>7. CASE DeleteTask
  <2> DEFINE new == {t \in table : t.id # selected}
  <2>1. /\ Idle /\ selected' = -1 /\ UNCHANGED <<lastTask, hideDone>>
        /\ WriteAndReload(new, rows, <<>>)
    BY <1>7 DEF DeleteTask
  <2>2. TaskTable(new) /\ \A t \in new : t.id <= lastTask
    BY <1>1 DEF TaskTable
  <2>3. selected' \in -1..MaxTasks
    BY <1>1, <2>1
  <2> HIDE DEF new
  <2>4. QED
    BY <1>1, <2>1, <2>2, <2>3, HandlerReloads
<1>8. ASSUME NEW d \in Dues, AddTask(d) PROVE TasksInv'
  <2> DEFINE t == [id |-> lastTask + 1, due |-> d, done |-> FALSE]
             new == table \cup {t}
  <2>1. /\ Idle /\ lastTask < MaxTasks /\ UNCHANGED hideDone
        /\ WriteAndReload(new, rows, <<>>)
        /\ lastTask' = IF table' = table THEN lastTask ELSE lastTask + 1
        /\ selected' = IF table' = table THEN 0 ELSE lastTask + 1
    BY <1>8 DEF AddTask
  <2>2. t \in Task /\ t.id = lastTask + 1
    BY <1>1, <2>1 DEF Task
  <2> HIDE DEF t
  <2>3. TaskTable(new) /\ \A u \in new : u.id <= lastTask + 1
    <3>1. \A u \in table : u.id # t.id
      BY <1>1, <2>2
    <3>2. \A u \in new : u.id <= lastTask + 1
      BY <1>1, <2>2
    <3>3. QED
      BY <1>1, <2>2, <3>1, <3>2 DEF TaskTable
  <2> HIDE DEF new
  <2>4. table' \in {table, new} => \A u \in table' : u.id <= lastTask'
    BY <1>1, <2>1, <2>3
  <2>5. lastTask' \in 0..MaxTasks /\ selected' \in -1..MaxTasks
    BY <1>1, <2>1
  <2>6. QED
    BY <1>1, <2>1, <2>3, <2>4, <2>5, HandlerReloads
<1>9. ASSUME NEW d \in Dues, SaveTask(d) PROVE TasksInv'
  <2> DEFINE done == \E i \in DOMAIN tasks : tasks[i].id = selected /\ tasks[i].done
             t == [id |-> selected, due |-> d, done |-> done]
             new == UpdateTask(t)
  <2>1. /\ Idle /\ selected > 0 /\ UNCHANGED <<lastTask, selected, hideDone>>
        /\ WriteAndReload(new, rows, <<>>)
    BY <1>9 DEF SaveTask
  <2>2. t \in Task
    <3>1. selected \in 1..MaxTasks
      BY <1>1, <2>1
    <3>2. done \in BOOLEAN
      OBVIOUS
    <3> HIDE DEF done
    <3>3. QED
      BY <3>1, <3>2 DEF Task
  <2> HIDE DEF t
  <2>3. TaskTable(new) /\ \A u \in new : \E s \in table : s.id = u.id
    <3>1. FALSE => ~t.done
      OBVIOUS
    <3>2. QED
      BY <1>1, <2>2, <3>1, TaskUpdated
  <2> HIDE DEF new
  <2>4. \A u \in new : u.id <= lastTask
    BY <1>1, <2>3
  <2>5. QED
    BY <1>1, <2>1, <2>3, <2>4, HandlerReloads
<1>10. CASE UNCHANGED taskVars
  BY <1>10 DEF taskVars, TasksInv, TasksTypeOK, TaskTable
<1>11. QED
  BY <1>2, <1>3, <1>4, <1>5, <1>6, <1>7, <1>8, <1>9, <1>10 DEF TasksNext

LEMMA TasksMeans == TasksInv => TasksTypeOK /\ RowsAreInTheList
<1> SUFFICES ASSUME TasksInv PROVE TasksTypeOK /\ RowsAreInTheList
  OBVIOUS
<1>1. ASSUME Updating PROVE Top.row \in DOMAIN tasks \cap DOMAIN rows
  <2>1. ~Idle /\ Top.row <= Top.n
    BY <1>1 DEF Updating
  <2>2. /\ Top.row \in Nat /\ Top.n \in Nat /\ Top.row > 0 /\ Top.n <= Len(tasks)
        /\ Len(rows) = Len(tasks) /\ Len(rows) \in Nat
        /\ tasks \in Seq(Task) /\ rows \in Seq(Box)
    BY <2>1, TopFrame
  <2>3. DOMAIN tasks = 1..Len(tasks) /\ DOMAIN rows = 1..Len(rows)
    BY <2>2, LenProperties
  <2>4. QED
    BY <2>1, <2>2, <2>3
<1>2. QED
  BY <1>1 DEF TasksInv, RowsAreInTheList

------------------------------------------------------------------------------
(***************************************************************************)
(* The desktop.  A step is a step of one tab or of the wizard, and leaves  *)
(* the others alone: each keeps its own invariant.                         *)
(***************************************************************************)
DesktopInv ==
  /\ TasksInv /\ ViewInv /\ NotesInv /\ CalInv /\ BookInv /\ CommitInv
  /\ WizardInv /\ WizardRange

LEMMA StepsOfTabs ==
  ASSUME [Next]_desktopVars
  PROVE  /\ [TasksNext]_taskVars /\ [ViewNext]_viewVars
         /\ [NotesNext]_noteVars /\ [CalendarNext]_calendarVars
         /\ [ContactsNext]_contactVars /\ [CommitmentsNext]_commitVars
         /\ [WizardHandlers \/ WizardGoes]_wizardVars
<1>1. CASE TasksStep
  BY <1>1, Zenon DEF TasksStep
<1>2. CASE ViewStep
  BY <1>2, Zenon DEF ViewStep
<1>3. CASE NotesStep
  BY <1>3, Zenon DEF NotesStep
<1>4. CASE CalendarStep
  BY <1>4, Zenon DEF CalendarStep
<1>5. CASE ContactsStep
  BY <1>5, Zenon DEF ContactsStep
<1>6. CASE CommitmentsStep
  BY <1>6, Zenon DEF CommitmentsStep
<1>7. CASE WizardStep
  BY <1>7, Zenon DEF WizardStep
<1>8. CASE UNCHANGED desktopVars
  BY <1>8, Zenon DEF desktopVars
<1>9. QED
  BY <1>1, <1>2, <1>3, <1>4, <1>5, <1>6, <1>7, <1>8 DEF Next

LEMMA DesktopHolds == Spec => []DesktopInv
<1>1. Init => DesktopInv
  BY TasksInitial, ViewInitial, NotesInitial, CalendarInitial, ContactsInitial,
     CommitmentsInitial, WizardInitial, WizardRangeInitial
  DEF Init, DesktopInv
<1>2. DesktopInv /\ [Next]_desktopVars => DesktopInv'
  <2> SUFFICES ASSUME DesktopInv, [Next]_desktopVars PROVE DesktopInv'
    OBVIOUS
  <2>0. TasksInv'
    BY StepsOfTabs, TasksPreserved DEF DesktopInv
  <2>1. ViewInv' /\ NotesInv'
    BY StepsOfTabs, ViewPreserved, NotesPreserved DEF DesktopInv
  <2>2. CalInv' /\ BookInv'
    BY StepsOfTabs, CalendarPreserved, ContactsPreserved DEF DesktopInv
  <2>3. CommitInv' /\ WizardInv'
    BY StepsOfTabs, CommitmentsPreserved, WizardPreserved DEF DesktopInv
  <2>4. WizardRange'
    BY StepsOfTabs, WizardRangePreserved DEF DesktopInv, WizardInv
  <2>5. QED
    BY <2>0, <2>1, <2>2, <2>3, <2>4 DEF DesktopInv
<1>3. QED
  BY <1>1, <1>2, PTL DEF Spec

\* Type correctness: also of what the wizard does after a Close, when buttons and
\* migrations write the step over each other; it stays at most one outside of those
\* there are, and one further for each migration.
THEOREM DesktopTypeCorrect == Spec => []TypeOK
<1>1. DesktopInv => TypeOK
  <2> SUFFICES ASSUME DesktopInv PROVE TypeOK
    OBVIOUS
  <2>1. TasksTypeOK /\ ViewTypeOK /\ NotesTypeOK
    BY DEF DesktopInv, TasksInv, ViewInv, NotesInv
  <2>2. CalendarTypeOK /\ ContactsTypeOK /\ CommitmentsTypeOK
    BY DEF DesktopInv, CalInv, BookInv, CommitInv
  <2>3. WizardTypeOK
    BY WizardTyped DEF DesktopInv, WizardInv
  <2>4. QED
    BY <2>1, <2>2, <2>3 DEF TypeOK
<1>2. QED
  BY <1>1, DesktopHolds, PTL

\* Where the to-do list's update function asks for a row, of the list and of the boxes,
\* there is one, however its refreshes nest: a refresh inside another never loads a
\* shorter list.
THEOREM RefreshesFindTheirRows == Spec => []RowsAreInTheList
<1>1. DesktopInv => RowsAreInTheList
  BY TasksMeans DEF DesktopInv
<1>2. QED
  BY <1>1, DesktopHolds, PTL

\* The viewer deletes the message it displays although the list has been filtered,
\* deleted from and reloaded under its pointer, and the note editor saves a new note
\* once, whatever fails in between.
THEOREM ViewerAndEditorAct == Spec => []ActsOnDisplayed
<1>1. DesktopInv => ActsOnDisplayed
  BY NotesMeans DEF DesktopInv, ViewInv, ActsOnDisplayed
<1>2. QED
  BY <1>1, DesktopHolds, PTL

\* The agenda, the panel of the contacts and the rows of the commitments are what is
\* stored, whatever order the handlers run in and whichever of their statements fail,
\* except where a query that failed has left the old rows on the screen.
THEOREM ScreenShowsTables == Spec => []ScreenIsStored
<1>1. DesktopInv => ScreenIsStored
  BY DEF DesktopInv, CalInv, BookInv, CommitInv, ScreenIsStored
<1>2. QED
  BY <1>1, DesktopHolds, PTL

\* The file Export iCal writes is read back as the agenda it was written from, event by
\* event, for agendas of any length: the reader, left closed by each event, takes the
\* lines of the next for one event.
THEOREM ExportIsReadBack == Spec => []ExportReadsBack
<1>1. DesktopInv => ExportReadsBack
  <2> SUFFICES ASSUME DesktopInv PROVE ExportReadsBack
    OBVIOUS
  <2>1. agenda \in Seq(Event)
    BY DEF DesktopInv, CalInv, CalendarTypeOK
  <2>2. QED
    BY <2>1, ExportReads DEF ExportReadsBack
<1>2. QED
  BY <1>1, DesktopHolds, PTL

\* The migration wizard starts at most one migration, shows the dialog of the step it
\* is at, and shows the log of its migration when that has ended.
THEOREM WizardIsHonest == Spec => []WizardShowsMigration
<1>1. DesktopInv => WizardShowsMigration
  BY WizardMeans DEF DesktopInv
<1>2. QED
  BY <1>1, DesktopHolds, PTL

==============================================================================
