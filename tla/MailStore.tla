------------------------------ MODULE MailStore -------------------------------
(***************************************************************************)
(* The stored mail, pkg/storage/db.go: the accounts, messages and          *)
(* attachments tables of one SQLite file, which several processes use at   *)
(* once.  SaveMessage is one transaction of several statements; SQLite     *)
(* (external) has one writer at a time and shows what is committed.        *)
(* GetMessage is two queries and no transaction.  Nothing deletes mail.    *)
(***************************************************************************)
EXTENDS Integers, Sequences, FiniteSets

CONSTANTS
  Jobs,          \* the processes that write mail
  Readers,       \* the processes that read it
  Account,       \* the account the mail is stored for
  Attachments,
  None,
  MaxStoreFaults \* bound on failures: statements, reads, processes that die

ASSUME StoreAssumption == None \notin Jobs /\ MaxStoreFaults \in Nat

VARIABLES
  accounts,  \* the rows of accounts
  mail,      \* the rows of messages, by ID, with what SaveMessage was given
  stored,    \* for each message its rows of attachments
  writer,    \* the process that holds SQLite's write lock
  call,      \* for each job its call of SaveMessage
  got,       \* for each reader what GetMessage has read so far
  storeFaults \* history: failures so far

storeVars == <<accounts, mail, stored, writer, call, got, storeFaults>>

NoCall == [at |-> "idle", msg |-> None, done |-> {}]
NotRead == [id |-> 0, done |-> FALSE, atts |-> {}, missed |-> {}]

StoreInit ==
  /\ accounts \in SUBSET {Account}
  /\ mail = <<>> /\ stored = <<>>
  /\ writer = None
  /\ call = [j \in Jobs |-> NoCall]
  /\ got = [r \in Readers |-> NotRead]
  /\ storeFaults = 0

Fault == storeFaults < MaxStoreFaults /\ storeFaults' = storeFaults + 1

------------------------------------------------------------------------------
(***************************************************************************)
(* SaveMessage.  What a transaction has inserted is in `call' until it     *)
(* commits.                                                                *)
(***************************************************************************)
SaveMessage(j, m) == call' = [call EXCEPT ![j] = [at |-> "begun", msg |-> m, done |-> {}]]

InsertMessage(j) ==
  /\ call[j].at = "begun" /\ writer = None
  /\ writer' = j
  /\ call' = [call EXCEPT ![j].at = "open"]
  /\ UNCHANGED <<accounts, mail, stored, got, storeFaults>>

InsertAttachment(j, a) ==
  /\ call[j].at = "open" /\ a \in call[j].msg.atts \ call[j].done
  /\ call' = [call EXCEPT ![j].done = @ \cup {a}]
  /\ UNCHANGED <<accounts, mail, stored, writer, got, storeFaults>>

CommitAnyway(j) ==
  /\ call[j].at = "open"
  /\ mail' = Append(mail, call[j].msg)
  /\ stored' = Append(stored, call[j].done)
  /\ writer' = None
  /\ call' = [call EXCEPT ![j].at = "saved"]
  /\ UNCHANGED <<accounts, got, storeFaults>>

Commit(j) ==
  /\ call[j].at = "open" /\ call[j].done = call[j].msg.atts
  /\ mail' = Append(mail, call[j].msg)
  /\ stored' = Append(stored, call[j].done)
  /\ writer' = None
  /\ call' = [call EXCEPT ![j].at = "saved"]
  /\ UNCHANGED <<accounts, got, storeFaults>>

Release(j) == writer' = IF writer = j THEN None ELSE writer

\* Any statement, the one that waits for the write lock too, may fail; the
\* deferred Rollback undoes the others.
SaveFails(j) ==
  /\ call[j].at \in {"begun", "open"}
  /\ Fault
  /\ Release(j)
  /\ call' = [call EXCEPT ![j].at = "failed"]
  /\ UNCHANGED <<accounts, mail, stored, got>>

SaveStep(j) ==
  \/ InsertMessage(j) \/ Commit(j) \/ SaveFails(j)
  \/ \E a \in Attachments : InsertAttachment(j, a)

------------------------------------------------------------------------------
(***************************************************************************)
(* GetMessage: the row, then the attachments.  A row of them that does not *)
(* scan is passed over, and nobody asks attRows.Err(): where the iteration *)
(* breaks off, it ends like a complete one.  (`missed' is a history.)      *)
(***************************************************************************)
ReadRow(r, i) ==
  /\ got[r].id = 0 /\ i \in DOMAIN mail
  /\ got' = [got EXCEPT ![r].id = i]
  /\ UNCHANGED <<accounts, mail, stored, writer, call, storeFaults>>

ReadAttachments(r) ==
  /\ got[r].id # 0 /\ ~got[r].done
  /\ \E missed \in SUBSET stored[got[r].id] :
       /\ IF missed = {} THEN UNCHANGED storeFaults ELSE Fault
       /\ got' = [got EXCEPT ![r] = [id |-> @.id, done |-> TRUE,
                                   atts |-> stored[@.id] \ missed, missed |-> missed]]
  /\ UNCHANGED <<accounts, mail, stored, writer, call>>

\* The query itself fails: no message and an error.
QueryFails(r) ==
  /\ got[r].id # 0 /\ ~got[r].done
  /\ Fault
  /\ got' = [got EXCEPT ![r] = NotRead]
  /\ UNCHANGED <<accounts, mail, stored, writer, call>>

GetReturns(r) ==
  /\ got[r].done
  /\ got' = [got EXCEPT ![r] = NotRead]
  /\ UNCHANGED <<accounts, mail, stored, writer, call, storeFaults>>

ReadStep(r) ==
  \/ \E i \in DOMAIN mail : ReadRow(r, i)
  \/ ReadAttachments(r) \/ QueryFails(r) \/ GetReturns(r)

------------------------------------------------------------------------------
(***************************************************************************)
(* Properties                                                              *)
(***************************************************************************)

StoreTypeOK ==
  /\ accounts \subseteq {Account}
  /\ mail # <<>> => Account \in accounts
  /\ DOMAIN stored = DOMAIN mail
  /\ \A i \in DOMAIN stored : stored[i] \subseteq Attachments
  /\ writer \in Jobs \cup {None}
  /\ \A j \in Jobs :
       /\ call[j].at \in {"idle", "begun", "open", "saved", "failed"}
       /\ call[j].at = "open" <=> writer = j
  /\ \A r \in Readers : got[r].id \in {0} \cup DOMAIN mail
  /\ storeFaults \in 0..MaxStoreFaults

\* SaveMessage stores a message with all of its attachments or not at all,
\* whichever statement fails and whenever a process dies; and GetMessage, between
\* its two queries too, returns a message with all of them but those whose rows it
\* could not read.  (It does not tell its caller when there are such rows.)
WholeMessages ==
  /\ \A i \in DOMAIN mail : stored[i] = mail[i].atts
  /\ \A r \in Readers :
       got[r].done => got[r].atts = mail[got[r].id].atts \ got[r].missed

==============================================================================
