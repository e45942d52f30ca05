------------------------------- MODULE Importer -------------------------------
(***************************************************************************)
(* `aftermail legacy', cmd/legacy.go, and the importers it runs,           *)
(* pkg/importer: mbox files, Maildirs and databases of other               *)
(* installations.  A job is one run of the command.  Its input is numbered:*)
(* lines of an mbox file, rows of a database, files of a Maildir; a stored *)
(* message has as its key the numbers it was made of.                      *)
(*                                                                         *)
(* An mbox file is the sequence of what ReadString returns: "From" lines,  *)
(* a message's first line ("head"), other text; the last one comes with    *)
(* EOF and is "" when the file ends in a newline.  The other mail client   *)
(* that owns a Maildir moves files from new to cur meanwhile.              *)
(*                                                                         *)
(* A scan walks a list of paths and imports one mailbox after the other,   *)
(* those the user says yes to.                                             *)
(***************************************************************************)
EXTENDS MailStore, SequencesExt

CONSTANTS
  Mboxes,    \* mbox files
  Databases, \* databases: sequences of [remote, atts, bad], bad if Scan fails
  Files,     \* the files of the Maildir, numbers
  Walks      \* what a scan comes across: sequences of paths
             \*   [shape, dirs, ext, lines, rows]

\* What ReadString returns until EOF: "" only as the last one.
IsRead(f) == f \in Seq(STRING) \ {<<>>} /\ \A n \in 1..(Len(f) - 1) : f[n] # ""

AreRows(d) == d \in Seq(ToSet(d)) /\ \A n \in DOMAIN d : d[n].atts \subseteq Attachments

ASSUME ImporterAssumption ==
  /\ \A f \in Mboxes : IsRead(f)
  /\ \A d \in Databases : AreRows(d)
  /\ \A walk \in Walks : walk \in Seq(ToSet(walk)) /\ \A n \in DOMAIN walk :
       /\ walk[n].lines # <<>> => IsRead(walk[n].lines) /\ walk[n].shape = "file"
       /\ AreRows(walk[n].rows)
  /\ IsFiniteSet(Files) /\ Files \subseteq Nat

VARIABLES
  maildir, \* the directory each file is in
  job      \* for each job the run of the command

importVars == <<storeVars, maildir, job>>

NotStarted ==
  [at |-> "idle", kind |-> "", src |-> <<>>, rest |-> <<>>, buf |-> <<>>,
   dir |-> "", oks |-> 0, errs |-> 0, paths |-> <<>>, box |-> 0]

Init ==
  /\ StoreInit
  /\ maildir \in [Files -> {"cur", "new"}]
  /\ job = [j \in Jobs |-> NotStarted]

Set(j, at, rest) == job' = [job EXCEPT ![j] = [@ EXCEPT !.at = at, !.rest = rest]]

Numbers(src) == [n \in 1..Len(src) |-> n]

\* A directory with the three of a Maildir, a file with one of two extensions, a
\* file that begins with an envelope line.
DetectMailboxType(p) ==
  CASE p.shape = "dir" -> IF {"cur", "new", "tmp"} \subseteq p.dirs THEN "maildir" ELSE "directory"
    [] p.shape = "file" /\ p.ext \in {".db", ".sqlite"} -> "database"
    [] p.shape = "file" /\ p.ext = "" /\ p.lines # <<>> /\ p.lines[1] = "From" -> "mbox"
    [] OTHER -> "unknown"

Content(p) == IF DetectMailboxType(p) = "database" THEN p.rows ELSE p.lines

Starts(j, kind, src) ==
  job' = [job EXCEPT ![j] = [@ EXCEPT !.at = "account", !.kind = kind, !.src = src,
                                      !.rest = Numbers(src)]]

\* With --type and --migrate; with --migrate only; with --auto-scan or --scan-path.
Start(j) ==
  /\ job[j].at = "idle"
  /\ \/ \E f \in Mboxes : Starts(j, "mbox", f)
     \/ \E d \in Databases : Starts(j, "database", d)
     \/ Starts(j, "maildir", <<>>)
     \/ \E walk \in Walks :
          \/ \E n \in DOMAIN walk : Starts(j, DetectMailboxType(walk[n]), Content(walk[n]))
          \/ job' = [job EXCEPT ![j] = [@ EXCEPT !.at = "account", !.kind = "scan",
                                                 !.paths = walk]]
  /\ UNCHANGED <<storeVars, maildir>>

------------------------------------------------------------------------------
(***************************************************************************)
(* ensureAccount: two statements, of which the first looks and the second  *)
(* inserts.                                                                *)
(***************************************************************************)
AfterAccount(j) == IF job[j].kind = "scan" THEN "done" ELSE "run"

AccountAssumed(j) ==
  /\ job[j].at = "account"
  /\ Set(j, AfterAccount(j), job[j].rest)
  /\ UNCHANGED <<storeVars, maildir>>

AccountExists(j) ==
  /\ job[j].at = "account"
  /\ Set(j, IF Account \in accounts THEN AfterAccount(j) ELSE "create", job[j].rest)
  /\ UNCHANGED <<storeVars, maildir>>

CreateLegacyAccount(j) ==
  /\ job[j].at = "create" /\ writer = None /\ Account \notin accounts
  /\ accounts' = accounts \cup {Account}
  /\ Set(j, AfterAccount(j), job[j].rest)
  /\ UNCHANGED <<mail, stored, writer, call, got, storeFaults, maildir>>

\* A statement fails, or another run has inserted the same ID: the command ends.
EnsureFails(j) ==
  /\ \/ job[j].at \in {"account", "create"} /\ Fault
     \/ /\ job[j].at = "create" /\ writer = None /\ Account \in accounts
        /\ UNCHANGED storeFaults
  /\ job' = [job EXCEPT ![j] = [@ EXCEPT !.at = "failed", !.rest = <<>>, !.paths = <<>>]]
  /\ UNCHANGED <<accounts, mail, stored, writer, call, got, maildir>>

------------------------------------------------------------------------------
(***************************************************************************)
(* The type of the mailbox decides.                                        *)
(***************************************************************************)
Unsupported(j) ==
  /\ job[j].at = "run" /\ job[j].kind \in {"unknown", "directory"}
  /\ Set(j, "failed", <<>>)
  /\ UNCHANGED <<storeVars, maildir>>

\* The scan goes on to the next path, whether the last import has succeeded or not.
Examining(j) == job[j].at \in {"done", "failed"} /\ job[j].paths # <<>>

\* It is no mailbox, or the user does not answer "y" or "yes".
PassOver(j) ==
  /\ Examining(j)
  /\ job' = [job EXCEPT ![j].paths = Tail(@)]
  /\ UNCHANGED <<storeVars, maildir>>

ImportNext(j) ==
  /\ Examining(j)
  /\ LET p == Head(job[j].paths)
         kind == DetectMailboxType(p)
     IN  /\ kind \notin {"unknown", "directory"}
         /\ job' = [job EXCEPT ![j] = [NotStarted EXCEPT !.at = "run", !.kind = kind, !.src = Content(p),
                      !.rest = Numbers(Content(p)), !.paths = Tail(job[j].paths), !.box = job[j].box + 1]]
  /\ UNCHANGED <<storeVars, maildir>>

------------------------------------------------------------------------------
(***************************************************************************)
(* One entry of the input.                                                 *)
(***************************************************************************)
Running(j, kind) == job[j].at = "run" /\ job[j].kind = kind

Onward(j, rest) == IF rest = <<>> /\ job[j].kind # "maildir" THEN "done" ELSE "run"

\* The entry is given to SaveMessage.
Inject(j, key, atts, rest) ==
  /\ SaveMessage(j, [from |-> j, box |-> job[j].box, key |-> key, atts |-> atts])
  /\ job' = [job EXCEPT ![j] = [@ EXCEPT !.at = "saving", !.rest = rest, !.buf = <<>>]]
  /\ UNCHANGED <<accounts, mail, stored, writer, got, storeFaults>>

\* The entry cannot be read or parsed: counted, and on to the next one.
Skip(j, rest) ==
  job' = [job EXCEPT ![j] = [@ EXCEPT !.at = Onward(j, rest), !.rest = rest, !.buf = <<>>,
                                      !.errs = job[j].errs + 1]]

\* SaveMessage has returned.
Saved(j) ==
  /\ job[j].at = "saving" /\ call[j].at \in {"saved", "failed"}
  /\ LET ok == IF call[j].at = "saved" THEN 1 ELSE 0 IN
     job' = [job EXCEPT ![j] = [@ EXCEPT !.at = Onward(j, job[j].rest), !.oks = job[j].oks + ok,
                                         !.errs = job[j].errs + (1 - ok)]]
  /\ call' = [call EXCEPT ![j] = NoCall]
  /\ UNCHANGED <<accounts, mail, stored, writer, got, storeFaults, maildir>>

\* The mbox file or the rows cannot be read further: the command ends.
InputFails(j) ==
  /\ Running(j, "mbox") \/ Running(j, "database")
  /\ Fault
  /\ Set(j, "failed", <<>>)
  /\ UNCHANGED <<accounts, mail, stored, writer, call, got, maildir>>

------------------------------------------------------------------------------
(***************************************************************************)
(* ParseMbox: one line.                                                    *)
(***************************************************************************)
Line(j) == job[j].src[Head(job[j].rest)]
AtEOF(j) == Len(job[j].rest) = 1
Rest(j) == Tail(job[j].rest)

\* injectMessage: ReadMessage wants headers first.
InjectMessage(j, buf) ==
  IF job[j].src[Head(buf)] = "head"
  THEN Inject(j, buf, {}, Rest(j))
  ELSE Skip(j, Rest(j)) /\ UNCHANGED storeVars

SkipEnvelope(j) ==
  /\ Running(j, "mbox") /\ Line(j) = "From" /\ job[j].buf = <<>>
  /\ Set(j, Onward(j, Rest(j)), Rest(j))
  /\ UNCHANGED <<storeVars, maildir>>

FlushAtEnvelope(j) ==
  /\ Running(j, "mbox") /\ Line(j) = "From" /\ job[j].buf # <<>>
  /\ InjectMessage(j, job[j].buf)
  /\ UNCHANGED maildir

AddLine(j) ==
  /\ Running(j, "mbox") /\ Line(j) # "From" /\ ~AtEOF(j)
  /\ job' = [job EXCEPT ![j] = [@ EXCEPT !.rest = Rest(j),
                                         !.buf = Append(job[j].buf, Head(job[j].rest))]]
  /\ UNCHANGED <<storeVars, maildir>>

FlushIsForgotten(j) ==
  /\ Running(j, "mbox") /\ Line(j) # "From" /\ AtEOF(j)
  /\ Set(j, "done", <<>>)
  /\ UNCHANGED <<storeVars, maildir>>

FlushAtEOF(j) ==
  /\ Running(j, "mbox") /\ Line(j) # "From" /\ AtEOF(j)
  /\ LET buf == IF Line(j) = "" THEN job[j].buf ELSE Append(job[j].buf, Head(job[j].rest)) IN
     IF buf = <<>>
     THEN Set(j, "done", <<>>) /\ UNCHANGED storeVars
     ELSE InjectMessage(j, buf)
  /\ UNCHANGED maildir

------------------------------------------------------------------------------
(***************************************************************************)
(* ImportAfterMailDB: one row.  The attachments are those of a row with    *)
(* the same remote ID; those that cannot be read are left out.             *)
(***************************************************************************)
Row(j) == job[j].src[Head(job[j].rest)]

AttachmentsFound(j) ==
  {job[j].src[n].atts : n \in {n \in DOMAIN job[j].src : job[j].src[n].remote = Row(j).remote}}

ImportRow(j) ==
  /\ Running(j, "database") /\ job[j].rest # <<>> /\ ~Row(j).bad
  /\ \E all \in AttachmentsFound(j) : \E atts \in SUBSET all :
       Inject(j, <<Head(job[j].rest)>>, atts, Rest(j))
  /\ UNCHANGED maildir

ScanFails(j) ==
  /\ Running(j, "database") /\ job[j].rest # <<>> /\ Row(j).bad
  /\ Skip(j, Rest(j))
  /\ UNCHANGED <<storeVars, maildir>>

NoRows(j) ==
  /\ Running(j, "database") /\ job[j].rest = <<>>
  /\ Set(j, "done", <<>>)
  /\ UNCHANGED <<storeVars, maildir>>

------------------------------------------------------------------------------
(***************************************************************************)
(* ParseMaildir: cur is listed and read, then new.                         *)
(***************************************************************************)
NewFirst(dir) == CASE dir = "" -> "new" [] dir = "new" -> "cur" [] dir = "cur" -> "end"

NextDir(dir) == CASE dir = "" -> "cur" [] dir = "cur" -> "new" [] dir = "new" -> "end"

ListDir(j) ==
  /\ Running(j, "maildir") /\ job[j].rest = <<>>
  /\ LET dir == NextDir(job[j].dir)
         found == {f \in Files : maildir[f] = dir}
     IN  job' = [job EXCEPT ![j] = [@ EXCEPT !.at = IF dir = "end" THEN "done" ELSE "run",
                                             !.dir = dir, !.rest = SetToSeq(found)]]
  /\ UNCHANGED <<storeVars, maildir>>

\* A directory that cannot be listed is left out.
ListFails(j) ==
  /\ Running(j, "maildir") /\ job[j].rest = <<>>
  /\ NextDir(job[j].dir) # "end" /\ Fault
  /\ job' = [job EXCEPT ![j].dir = NextDir(@)]
  /\ UNCHANGED <<accounts, mail, stored, writer, call, got, maildir>>

ImportFile(j) ==
  /\ Running(j, "maildir") /\ job[j].rest # <<>>
  /\ maildir[Head(job[j].rest)] = job[j].dir
  /\ Inject(j, <<Head(job[j].rest)>>, {}, Rest(j))
  /\ UNCHANGED maildir

\* The file has moved since it was listed, or cannot be read or parsed.
FileFails(j) ==
  /\ Running(j, "maildir") /\ job[j].rest # <<>>
  /\ \/ maildir[Head(job[j].rest)] # job[j].dir /\ UNCHANGED storeFaults
     \/ Fault
  /\ Skip(j, Rest(j))
  /\ UNCHANGED <<accounts, mail, stored, writer, call, got, maildir>>

MoveToCur(f) ==
  /\ maildir[f] = "new"
  /\ maildir' = [maildir EXCEPT ![f] = "cur"]
  /\ UNCHANGED <<storeVars, job>>

------------------------------------------------------------------------------
\* The process dies; SQLite rolls its transaction back.  (A scan that dies while it
\* waits for an answer is one that is answered with no from then on.)
Kill(j) ==
  /\ job[j].at \in {"account", "create", "run", "saving"}
  /\ Fault
  /\ Release(j)
  /\ call' = [call EXCEPT ![j] = NoCall]
  /\ job' = [job EXCEPT ![j] = [@ EXCEPT !.at = "dead", !.rest = <<>>, !.paths = <<>>]]
  /\ UNCHANGED <<accounts, mail, stored, got, maildir>>

JobStep(j) ==
  \/ Start(j) \/ AccountExists(j) \/ CreateLegacyAccount(j) \/ EnsureFails(j)
  \/ Unsupported(j) \/ PassOver(j) \/ ImportNext(j)
  \/ Saved(j) \/ InputFails(j) \/ Kill(j)
  \/ SkipEnvelope(j) \/ FlushAtEnvelope(j) \/ AddLine(j) \/ FlushAtEOF(j)
  \/ ImportRow(j) \/ ScanFails(j) \/ NoRows(j)
  \/ ListDir(j) \/ ListFails(j) \/ ImportFile(j) \/ FileFails(j)

Next ==
  \/ \E j \in Jobs : JobStep(j)
  \/ \E j \in Jobs : SaveStep(j) /\ UNCHANGED <<maildir, job>>
  \/ \E r \in Readers : ReadStep(r) /\ UNCHANGED <<maildir, job>>
  \/ \E f \in Files : MoveToCur(f)

Spec == Init /\ [][Next]_importVars

------------------------------------------------------------------------------
(***************************************************************************)
(* Properties                                                              *)
(***************************************************************************)

TypeOK ==
  /\ StoreTypeOK
  /\ maildir \in [Files -> {"cur", "new"}]
  /\ \A j \in Jobs :
       /\ job[j].at \in {"idle", "account", "create", "run", "saving", "done", "failed", "dead"}
       /\ job[j].kind \in {"", "scan", "mbox", "database", "maildir", "unknown", "directory"}
       /\ job[j].dir \in {"", "cur", "new", "end"}
       /\ {job[j].rest, job[j].buf} \subseteq Seq(Nat)
       /\ {job[j].oks, job[j].errs} \subseteq Nat

\* From the mailbox that is imported now.
StoredBy(j) == {i \in DOMAIN mail : mail[i].from = j /\ mail[i].box = job[j].box}

\* What an mbox file consists of: the longest runs of lines without "From".
IsText(f, n) == f[n] \notin {"From", ""}
Pieces(f) ==
  {p \in (1..Len(f)) \X (1..Len(f)) :
     /\ p[1] <= p[2] /\ \A n \in p[1]..p[2] : IsText(f, n)
     /\ p[1] > 1 => ~IsText(f, p[1] - 1)
     /\ p[2] < Len(f) => ~IsText(f, p[2] + 1)}

EntriesOnce ==
  \A j \in Jobs : \A i \in StoredBy(j) :
    /\ \A k \in StoredBy(j) \ {i} : ToSet(mail[i].key) \cap ToSet(mail[k].key) = {}
    /\ job[j].kind = "mbox" =>
         \E p \in Pieces(job[j].src) : mail[i].key = [n \in 1..(p[2] - p[1] + 1) |-> p[1] + n - 1]

CountsAddUp ==
  \A j \in Jobs :
    /\ job[j].at = "done" => job[j].oks = Cardinality(StoredBy(j))
    /\ job[j].at = "done" /\ job[j].kind = "mbox" =>
         job[j].oks + job[j].errs = Cardinality(Pieces(job[j].src))
    /\ job[j].at = "done" /\ job[j].kind = "database" =>
         job[j].oks + job[j].errs = Len(job[j].src)

\* A run of the command stores no entry of a mailbox twice, however the other mail
\* client moves files meanwhile and whatever mailbox of a scan has failed before, and
\* a message from an mbox file is one whole piece of it.  "Successfully processed %d
\* messages (%d errors)": the first number is that of the messages stored, and every
\* piece and every row is in one of the two.
ImportIsExact == EntriesOnce /\ CountsAddUp

==============================================================================
