------------------------------ MODULE Marketplace -----------------------------
(***************************************************************************)
(* The script registry, pkg/marketplace, and the commands of               *)
(* cmd/mailscript/marketplace_cmd.go.  Every command opens the registry    *)
(* anew, so what is installed is what can be read from its directory: one  *)
(* JSON file for each script, named after its ID, and next to it a .star   *)
(* file for the other programs to run.                                     *)
(***************************************************************************)
EXTENDS Integers, FiniteSets

CONSTANTS
  Builtins,     \* the IDs of the starter scripts
  Foreign,      \* IDs that packages of other people carry
  Slot,         \* scriptPath: the file of an ID; "a/b" and "a__b" have the same
  Codes,        \* Starlark sources
  NoCode,       \* the empty source
  MaxDiskFaults \* bound on the writes and removals that fail

ASSUME MarketAssumption == IsFiniteSet(Builtins) /\ MaxDiskFaults \in Nat

VARIABLES
  files,        \* the JSON files
  stars,        \* the .star files
  told,         \* history: what the user has been told last of each file's script
  diskFaults    \* the failures so far

marketVars == <<files, stars, told, diskFaults>>

ScriptIds == Builtins \cup Foreign

Slots == {Slot[id] : id \in ScriptIds}

\* An entry names its script and carries the code and a hash, here the code it
\* was computed from.
Entry(id, code, hash) == [id |-> id, code |-> code, hash |-> hash]

Gone == [gone |-> TRUE]

Torn == [torn |-> TRUE]

\* Nobody has been told how the last command ended.
Unsure == [unsure |-> TRUE]

Entries == [id : ScriptIds, code : Codes, hash : Codes]

MarketInit ==
  /\ files = [s \in Slots |-> Gone] /\ stars = [s \in Slots |-> NoCode]
  /\ told = [s \in Slots |-> Gone] /\ diskFaults = 0

\* The files that NewRegistry can read.  It takes what they say for granted.
Opened == {s \in Slots : files[s] \notin {Gone, Torn}}

Lookup(id) == {files[s] : s \in {o \in Opened : files[o].id = id}}

\* Installed and Search: what list, browse and search print.
InstalledScripts == {files[s] : s \in Opened}

\* The code an ID needs, and the hash: computed when the package has none, and
\* compared when it has one.
MayInstallAny(p) == p.id \in ScriptIds /\ p.code # NoCode

MayInstall(p) == p.id \in ScriptIds /\ p.code # NoCode /\ p.hash \in {NoCode, p.code}

\* What Install writes; a package without a hash gets one.
Sealed(p) == Entry(p.id, p.code, IF p.hash = NoCode THEN p.code ELSE p.hash)

\* Install and saveScript, of a package that passes the checks; the user is told.
Install(p) ==
  /\ MayInstall(p)
  /\ files' = [files EXCEPT ![Slot[p.id]] = Sealed(p)]
  /\ told' = [told EXCEPT ![Slot[p.id]] = Sealed(p)]

\* The write fails, or the process dies in it, when the file has been truncated.
InstallTorn(p) ==
  /\ MayInstall(p) /\ diskFaults < MaxDiskFaults
  /\ files' = [files EXCEPT ![Slot[p.id]] = Torn]
  /\ told' = [told EXCEPT ![Slot[p.id]] = Unsure]
  /\ diskFaults' = diskFaults + 1

\* install: a starter script, and its .star file if it can be written.
InstallBuiltin(id, code) ==
  LET p == Entry(id, code, code) IN
  \/ /\ Install(p)
     /\ \/ stars' = [stars EXCEPT ![Slot[id]] = code]
        \/ UNCHANGED stars
     /\ UNCHANGED diskFaults
  \/ InstallTorn(p) /\ UNCHANGED stars

\* builtins: all of them; a script that cannot be written (those of Failing) is
\* a warning.
InstallAll(code, Failing) ==
  LET Written(s) == {id \in Builtins \ Failing : Slot[id] = s}
      Broken(s) == {id \in Failing : Slot[id] = s}
      After(f, bad) ==
        [s \in Slots |-> IF Broken(s) # {} THEN bad
                         ELSE IF Written(s) # {}
                         THEN Entry(CHOOSE id \in Written(s) : TRUE, code, code)
                         ELSE f[s]]
  IN /\ diskFaults + Cardinality(Failing) <= MaxDiskFaults
     /\ diskFaults' = diskFaults + Cardinality(Failing)
     /\ files' = After(files, Torn) /\ told' = After(told, Unsure)
     /\ stars' = [s \in Slots |-> IF Written(s) # {} THEN code ELSE stars[s]]

\* import: a package somebody has exported, or written by hand.  No .star file.
Import(p) ==
  /\ \/ Install(p) /\ UNCHANGED diskFaults
     \/ InstallTorn(p)
  /\ UNCHANGED stars

\* Publish and ExportJSON: the hash is computed again.
Exported(id, code) == Entry(id, code, code)

Packages ==
  {Exported(id, c) : id \in Foreign, c \in Codes}
    \cup [id : ScriptIds, code : Codes \cup {NoCode}, hash : Codes \cup {NoCode}]

RemoveAckedAnyway(id) ==
  /\ Lookup(id) # {}
  /\ \/ files' = [files EXCEPT ![Slot[id]] = Gone] /\ UNCHANGED diskFaults
     \/ /\ diskFaults < MaxDiskFaults /\ diskFaults' = diskFaults + 1
        /\ UNCHANGED files
  /\ told' = [told EXCEPT ![Slot[id]] = Gone]
  /\ UNCHANGED stars

\* remove: a script the registry has read.  Its .star file stays.
Uninstall(id) ==
  /\ Lookup(id) # {}
  /\ \/ /\ files' = [files EXCEPT ![Slot[id]] = Gone]
        /\ told' = [told EXCEPT ![Slot[id]] = Gone]
        /\ UNCHANGED diskFaults
     \/ /\ diskFaults < MaxDiskFaults /\ diskFaults' = diskFaults + 1
        /\ UNCHANGED <<files, told>>
  /\ UNCHANGED stars

MarketNext ==
  \/ \E id \in Builtins, c \in Codes : InstallBuiltin(id, c)
  \/ \E c \in Codes, F \in SUBSET Builtins : InstallAll(c, F)
  \/ \E p \in Packages : Import(p)
  \/ \E id \in ScriptIds : Uninstall(id)

------------------------------------------------------------------------------
(***************************************************************************)
(* Properties                                                              *)
(***************************************************************************)
MarketTypeOK ==
  /\ files \in [Slots -> Entries \cup {Gone, Torn}]
  /\ stars \in [Slots -> Codes \cup {NoCode}]
  /\ told \in [Slots -> Entries \cup {Gone, Unsure}]
  /\ diskFaults \in 0..MaxDiskFaults

\* The next command sees what the user was told by the last: an installed script
\* is there with the code that was installed, a removed one is not, and a write
\* that broke off leaves a script that is not listed rather than half of one.
\* Every listed script is intact.  (Two IDs with one file name share a file.)
RegistryHonest ==
  /\ \A s \in Slots : told[s] # Unsure => files[s] = told[s]
  /\ \A e \in InstalledScripts : e.hash = e.code

==============================================================================
