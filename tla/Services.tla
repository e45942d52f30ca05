------------------------------- MODULE Services -------------------------------
(***************************************************************************)
(* The parts of the program that work behind its windows: the importers,   *)
(* the MCP server and the ledgers.  The server's tools are calls of the    *)
(* modules GroupKey, StakeMail and DeadMan; the parts share no state.      *)
(***************************************************************************)
EXTENDS Importer, ToolServer, Reputation, SealLedger

serviceVars == <<importVars, groupVars, stakeVars, serverVars, repVars, sealVars>>

ServicesInit ==
  Init /\ GroupInit /\ StakeInit /\ ServerInit /\ RepInit /\ SealInit

ImportSide == Next /\ UNCHANGED <<groupVars, stakeVars, serverVars, repVars, sealVars>>

GroupSide == GroupNext /\ UNCHANGED <<importVars, stakeVars, serverVars, repVars, sealVars>>

StakeSide == StakeNext /\ UNCHANGED <<importVars, groupVars, serverVars, repVars, sealVars>>

ServerSide == ServerNext /\ UNCHANGED <<importVars, groupVars, stakeVars, repVars, sealVars>>

RepSide == RepNext /\ UNCHANGED <<importVars, groupVars, stakeVars, serverVars, sealVars>>

SealSide == SealNext /\ UNCHANGED <<importVars, groupVars, stakeVars, serverVars, repVars>>

ServicesNext == ImportSide \/ GroupSide \/ StakeSide \/ ServerSide \/ RepSide \/ SealSide

ServicesSpec == ServicesInit /\ [][ServicesNext]_serviceVars

ServicesTypeOK ==
  /\ TypeOK /\ GroupTypeOK /\ StakeTypeOK /\ ServerTypeOK /\ RepTypeOK /\ SealTypeOK

------------------------------------------------------------------------------
(***************************************************************************)
(* For TLC.  The parts share no state, so a behaviour uses one of them.    *)
(*                                                                         *)
(* What a job makes of its input does not depend on other jobs, except for *)
(* failures, so one job at a time goes through every mbox file of up to    *)
(* four lines, the larger database and a scan, and two at once run on the  *)
(* small inputs and on the Maildir.                                        *)
(***************************************************************************)
CONSTANTS a1, a2

MCMboxes ==
  {f \in UNION {[1..n -> {"From", "head", "text", ""}] : n \in 1..4} :
     \A n \in 1..(Len(f) - 1) : f[n] # ""}

DbRow(remote, atts, bad) == [remote |-> remote, atts |-> atts, bad |-> bad]

MCDatabases ==
  {<<>>,
   <<DbRow("x", {a1}, FALSE), DbRow("y", {a2}, FALSE)>>,
   <<DbRow("x", {}, TRUE), DbRow("", {a1, a2}, FALSE), DbRow("", {}, FALSE)>>}

SmallMboxes == {<<"From", "head", "From", "head">>, <<"head", "">>}

Path(shape, dirs, ext, lines, rows) ==
  [shape |-> shape, dirs |-> dirs, ext |-> ext, lines |-> lines, rows |-> rows]

Dir(dirs) == Path("dir", dirs, "", <<>>, <<>>)

Text(lines) == Path("file", {}, "", lines, <<>>)

\* A Maildir among other directories, between a mailbox that may fail and one that
\* is read to its end.
MCWalks ==
  {<<Dir({"cur"}), Path("file", {}, ".db", <<>>, <<DbRow("x", {a1}, FALSE)>>), Text(<<"head">>),
     Dir({"cur", "new", "tmp"}), Text(<<"From", "head", "">>)>>}

Large(j) ==
  \/ job[j].kind = "scan" \/ job[j].box > 0
  \/ job[j].kind \in {"unknown", "directory"}
  \/ job[j].kind = "mbox" /\ job[j].src \notin SmallMboxes
  \/ job[j].kind = "database" /\ Len(job[j].src) > 2

Small == \A j \in Jobs : Large(j) => \A k \in Jobs \ {j} : job[k].at = "idle"

Symmetry == Permutations(Jobs)

\* A thread of three with a threshold of two, and calls to decrypt it: with enough
\* shares, with one twice, with too few and no threshold, with one cut off, with none.
Thread == MakeThread(Bits(87), <<Bits(202)>>, 3, 2)

ShareOf(i) == CHOOSE s \in Thread.shares : s.index = i

Decryption(threshold, shares) ==
  [tool |-> "decrypt_group_thread", thread |-> Thread, threshold |-> threshold, shares |-> shares]

Calls ==
  {BadParams, Plain("no_such_tool", TRUE)}
  \cup {Plain(t, TRUE) : t \in {"list_inbox", "list_accounts", "get_stats", "daemon_status",
                                "get_reputation", "list_marketplace"}}
  \cup {Plain(t, g) : t \in {"get_message", "search_messages", "run_mailscript",
                             "list_commitments", "analyze_sender"}, g \in BOOLEAN}
  \cup {[tool |-> "create_group_thread", given |-> TRUE, recipients |-> n, threshold |-> 1] :
          n \in {0, 256}}
  \cup {Decryption(2, <<ShareOf(3), ShareOf(1)>>), Decryption(2, <<ShareOf(1), ShareOf(1)>>),
        Decryption(0, <<ShareOf(1)>>), Decryption(2, <<>>),
        Decryption(2, <<ShareOf(1), [index |-> 2, value |-> <<>>]>>)}
  \cup {[tool |-> "stake_message", given |-> TRUE, amount |-> n] : n \in {1, 2}}
  \cup {[tool |-> t, given |-> TRUE, id |-> id] :
          t \in {"arm_deadman", "checkin_deadman"}, id \in SwitchIds}

MCLines ==
  {Blank, Garbage, TooLong, Request(1, "ping"), Request(2, "no/such")}
    \cup {Call(3, c) : c \in Calls}

\* One line of a kind that changes nothing for later lines, among garbage and calls
\* about switches; the client is one line ahead.
Mixed == {Garbage} \cup {Call(3, c) : c \in {k \in Calls : k.tool \in {"arm_deadman", "checkin_deadman"}}}

Conversation ==
  /\ Len(stdin) <= 1
  /\ Cardinality({n \in DOMAIN read : read[n] \notin Mixed})
       + Cardinality({n \in DOMAIN stdin : stdin[n] \notin Mixed}) <= 1

MCKeyBytes == {Bits(0), Bits(87), Bits(255)}

MCCoefficients == {Bits(0), Bits(202)}

MCGroups == {<<2, 2>>, <<3, 2>>, <<3, 3>>, <<1, 1>>, <<2, 3>>}

\* Two threads with different keys only when each has two shares and none is empty.
Threads ==
  Len(threads) = 2 =>
    /\ \A t \in 1..2 : Cardinality(threads[t].shares) = 2 /\ threads[t].key # Bits(0)
    /\ \A k \in DOMAIN hand : hand[k] # EmptyShare

NoImport == Init /\ accounts = {} /\ \A f \in Files : maildir[f] = "cur"

NoStakes == StakeInit /\ ~escrow

OneSide ==
  \/ GroupInit /\ NoStakes /\ ServerInit /\ RepInit /\ SealInit /\ ImportSide /\ Small'
  \/ /\ NoImport
     /\ \/ NoStakes /\ ServerInit /\ RepInit /\ SealInit /\ GroupSide /\ Threads'
        \/ GroupInit /\ ServerInit /\ RepInit /\ SealInit /\ StakeSide
        \/ GroupInit /\ NoStakes /\ RepInit /\ SealInit /\ ServerSide /\ Conversation'
        \/ GroupInit /\ NoStakes /\ ServerInit /\ SealInit /\ RepSide
        \/ GroupInit /\ NoStakes /\ ServerInit /\ RepInit /\ SealSide

MCSpec == ServicesInit /\ [][OneSide]_serviceVars

==============================================================================
