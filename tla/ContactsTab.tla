------------------------------ MODULE ContactsTab ------------------------------
(***************************************************************************)
(* The address book of the desktop client, internal/gui/contacts.go, over  *)
(* pkg/storage/contacts.go, on the UI goroutine.  The details panel shows  *)
(* a copy of the contact that was selected last; Reload clears it, but not *)
(* the list's own selection, and a tap on the row the list has selected    *)
(* already calls nothing (the list widget is external).                    *)
(***************************************************************************)
EXTENDS Integers, SequencesExt, Slices

CONSTANTS
  Emails,          \* their addresses; a contact's name is left out but for its place
  Places,          \* in the alphabet: numbers
  NoContact,
  MaxContacts,     \* bound on the contacts ever added
  MaxContactFaults \* bound on the statements that fail

ASSUME ContactsAssumption ==
  /\ Places \subseteq Nat
  /\ MaxContacts \in Nat /\ MaxContactFaults \in Nat
  /\ NoContact \notin [id : Nat, place : Nat, email : Emails]

VARIABLES
  contacts,     \* the contacts table
  lastContact,  \* its AUTOINCREMENT counter
  book,         \* t.contacts
  highlighted,  \* the row the list has selected, or 0
  chosen,       \* t.selectedID
  details,      \* the contact in the details panel
  composeTo,    \* the composer's recipient: the last contact written to
  contactFaults \* history: failed statements

contactVars ==
  <<contacts, lastContact, book, highlighted, chosen, details, composeTo, contactFaults>>

ContactsInit ==
  /\ contacts = {} /\ lastContact = 0 /\ book = <<>>
  /\ highlighted = 0 /\ chosen = 0 /\ details = NoContact /\ composeTo = NoContact
  /\ contactFaults = 0

ContactFails == contactFaults < MaxContactFaults /\ contactFaults' = contactFaults + 1

\* ORDER BY name.
ByName(c, d) == c.place < d.place \/ (c.place = d.place /\ c.id < d.id)

ListContacts(tab) == InOrder(tab, {p \in tab \X tab : ByName(p[1], p[2])})

\* Reload: of the table as the handler leaves it.
ReloadsBook ==
  \/ /\ book' = ListContacts(contacts')
     /\ chosen' = 0 /\ details' = NoContact
     /\ UNCHANGED contactFaults
  \/ ContactFails /\ UNCHANGED <<book, chosen, details>>

\* OnSelected.
SelectContact(i) ==
  /\ i \in DOMAIN book /\ i # highlighted
  /\ highlighted' = i
  /\ chosen' = book[i].id /\ details' = book[i]
  /\ UNCHANGED <<contacts, lastContact, book, composeTo, contactFaults>>

RefreshBook ==
  /\ UNCHANGED <<contacts, lastContact, highlighted, composeTo>>
  /\ ReloadsBook

\* The email column is UNIQUE: a second contact with an address is refused, with a
\* dialog, as is one without a name or an address.
AddContact(place, email) ==
  /\ lastContact < MaxContacts
  /\ \A c \in contacts : c.email # email
  /\ lastContact' = lastContact + 1
  /\ contacts' = contacts \cup {[id |-> lastContact', place |-> place, email |-> email]}
  /\ ReloadsBook
  /\ UNCHANGED <<highlighted, composeTo>>

\* The delete button, confirmed: the dialog is modal.
DeleteContact ==
  /\ chosen > 0
  /\ contacts' = {c \in contacts : c.id # chosen}
  /\ ReloadsBook
  /\ UNCHANGED <<lastContact, highlighted, composeTo>>

\* A statement of AddContact or DeleteContact fails: a dialog, and nothing else.
ContactError ==
  /\ ContactFails
  /\ UNCHANGED <<contacts, lastContact, book, highlighted, chosen, details, composeTo>>

\* "Compose Message".
ComposeTo ==
  /\ details # NoContact
  /\ composeTo' = details
  /\ UNCHANGED <<contacts, lastContact, book, highlighted, chosen, details, contactFaults>>

ContactsNext ==
  \/ \E i \in 1..MaxContacts : SelectContact(i)
  \/ \E p \in Places, e \in Emails : AddContact(p, e)
  \/ RefreshBook \/ DeleteContact \/ ContactError \/ ComposeTo

------------------------------------------------------------------------------
(***************************************************************************)
(* Properties                                                              *)
(***************************************************************************)
Contact == [id : 1..MaxContacts, place : Places, email : Emails]

ContactsTypeOK ==
  /\ contacts \subseteq Contact /\ lastContact \in 0..MaxContacts
  /\ book \in Seq(Contact)
  /\ highlighted \in 0..MaxContacts /\ chosen \in 0..MaxContacts
  /\ {details, composeTo} \subseteq Contact \cup {NoContact}
  /\ contactFaults \in 0..MaxContactFaults

\* The delete button removes the contact on the panel, whatever has failed; and as
\* long as nothing has, what Compose takes an address from is still in the table: a
\* panel is empty when the rows behind its contact have moved.
PanelIsStored ==
  /\ chosen = IF details = NoContact THEN 0 ELSE details.id
  /\ contactFaults = 0 => details \in contacts \cup {NoContact}

==============================================================================
