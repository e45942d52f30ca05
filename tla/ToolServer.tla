------------------------------ MODULE ToolServer ------------------------------
(***************************************************************************)
(* The MCP server of `aftermaild --mcp', pkg/mcp/server.go: JSON-RPC over  *)
(* stdin and stdout, one request a line, handled one after the other.      *)
(* Around the loop: the client, who writes lines and closes the stream, a  *)
(* signal that cancels the context, and the monitor of the dead man's      *)
(* switches, whose manager is made by the first call that needs it.        *)
(*                                                                         *)
(* Of an answer the model keeps its ID and whether it is a result, a       *)
(* tool's failure (a result with isError) or a protocol error.  Many tools *)
(* only read: what they return is for their own modules to say.            *)
(***************************************************************************)
EXTENDS GroupKey, StakeMail, Slices

CONSTANTS
  Lines,       \* what the client may write: see Blank, Garbage, TooLong, Request
  SwitchIds,   \* the IDs of dead man's switches
  MaxLines,    \* bound on the lines
  MaxTrouble   \* bound on the failures of the disk and of the database

VARIABLES
  stdin,     \* the lines written and not read yet
  written,   \* how many lines the client has written
  closed,    \* the client has closed the stream
  cancelled, \* the context is cancelled
  loop,      \* where Run is: "check", "scan", "dispatch", "ended", "crashed"
  line,      \* the line in hand
  read,      \* history: the lines read, in their order
  late,      \* history: how many of them after the context was cancelled
  sent,      \* the answers written to stdout
  manager,   \* dmManager has been made
  switches,  \* its switches: "none", "armed" or "fired"
  trouble    \* the failures so far

serverVars ==
  <<stdin, written, closed, cancelled, loop, line, read, late, sent, manager, switches, trouble>>

------------------------------------------------------------------------------
(***************************************************************************)
(* Lines.  The arguments of a call are "given" when those it needs are     *)
(* there and of their type.                                                *)
(***************************************************************************)
Blank == [form |-> "blank"]

Garbage == [form |-> "garbage"]

\* Longer than the scanner's buffer.
TooLong == [form |-> "long"]

Request(id, method) == [form |-> "request", id |-> id, method |-> method]

Call(id, args) == [form |-> "request", id |-> id, method |-> "tools/call", args |-> args]

ASSUME ToolServerAssumption ==
  /\ MaxLines \in Nat /\ MaxTrouble \in Nat
  /\ \A l \in Lines : l \in {Blank, Garbage, TooLong} \/ l.form = "request"

\* The tools in the order of buildToolDefs.
Tools ==
  {"daemon_status", "list_inbox", "get_message", "search_messages", "list_accounts",
   "get_stats", "run_mailscript", "list_commitments", "analyze_sender",
   "list_marketplace", "create_group_thread", "decrypt_group_thread", "stake_message",
   "arm_deadman", "checkin_deadman", "get_reputation"}

BadParams == [tool |-> "unreadable"]

Plain(tool, given) == [tool |-> tool, given |-> given]

ServerInit ==
  /\ stdin = <<>> /\ written = 0 /\ closed = FALSE /\ cancelled = FALSE
  /\ loop = "check" /\ line = Blank /\ read = <<>> /\ late = 0 /\ sent = <<>>
  /\ manager = FALSE /\ switches = [id \in SwitchIds |-> "none"] /\ trouble = 0

Answer(id, kind) == [id |-> id, kind |-> kind]

\* The answer to a line that is not JSON has no ID.
NoId == 0

Trouble == trouble < MaxTrouble /\ trouble' = trouble + 1

NoTrouble == UNCHANGED trouble

SwitchesStay == UNCHANGED <<manager, switches>>

------------------------------------------------------------------------------
(***************************************************************************)
(* callTool.  Every tool: how it ends, "result", "failure" or "panic", and *)
(* what it does to the switches.                                           *)
(***************************************************************************)

Ends(kind, how) == kind = how /\ NoTrouble /\ SwitchesStay

\* The statement that asks the database may fail.
Queried(kind) ==
  \/ Ends(kind, "result")
  \/ kind = "failure" /\ Trouble /\ SwitchesStay

\* Listing the messages reads a stub, which does not fail.
ListInbox(args, kind) == args.tool = "list_inbox" /\ Ends(kind, "result")

GetMessage(args, kind) ==
  args.tool = "get_message" /\ IF args.given THEN Queried(kind) ELSE Ends(kind, "failure")

SearchMessages(args, kind) ==
  args.tool = "search_messages" /\ Ends(kind, IF args.given THEN "result" ELSE "failure")

ListAccounts(args, kind) == args.tool = "list_accounts" /\ Queried(kind)

\* The errors of the queries are dropped.
GetStats(args, kind) == args.tool = "get_stats" /\ Ends(kind, "result")

DaemonStatus(args, kind) == args.tool = "daemon_status" /\ Ends(kind, "result")

\* A script that fails is a result too.
RunMailScript(args, kind) ==
  args.tool = "run_mailscript" /\ Ends(kind, IF args.given THEN "result" ELSE "failure")

\* The model asked is a stub that answers what Extract can read.
ListCommitments(args, kind) ==
  args.tool = "list_commitments" /\ Ends(kind, IF args.given THEN "result" ELSE "failure")

AnalyzeSender(args, kind) ==
  args.tool = "analyze_sender" /\ Ends(kind, IF args.given THEN "result" ELSE "failure")

\* A profile without receipts, whoever is asked for.
GetReputation(args, kind) == args.tool = "get_reputation" /\ Ends(kind, "result")

\* The directory of the registry cannot be made: there is no registry to ask.
ListMarketplace(args, kind) ==
  /\ args.tool = "list_marketplace"
  /\ \/ Ends(kind, "result")
     \/ kind = "panic" /\ Trouble /\ SwitchesStay

\* The numbers asked for, put right.  The shares are not part of the answer.
CreateGroupThread(args, kind) ==
  /\ args.tool = "create_group_thread"
  /\ LET n == IF args.recipients < 2 THEN 2 ELSE args.recipients
         m == IF args.threshold < 2 \/ args.threshold > n THEN n ELSE args.threshold
     IN  Ends(kind, IF ~args.given \/ SplitRefuses(n, m) THEN "failure" ELSE "result")

DecryptGroupThread(args, kind) ==
  /\ args.tool = "decrypt_group_thread"
  /\ LET result == DecryptResult(args.thread, args.threshold, args.shares) IN
     Ends(kind, CASE args.shares = <<>> \/ result.is = "error" -> "failure"
                  [] args.shares # <<>> /\ result.is = "panic" -> "panic"
                  [] args.shares # <<>> /\ result.is = "body" -> "result")

\* A client of its own for each call, without a contract: nothing remembers the stake.
StakeMessage(args, kind) ==
  /\ args.tool = "stake_message"
  /\ Ends(kind, IF args.given /\ ~StakeRefuses(args.amount) THEN "result" ELSE "failure")

\* getDeadmanManager, which is tried again by the next call when it fails.
Manager(ready) ==
  \/ ready /\ manager' = TRUE /\ NoTrouble
  \/ ~ready /\ ~manager /\ Trouble /\ UNCHANGED manager

\* Arm: the switch is replaced and armed, then saved; when it cannot be saved the
\* caller is told of an error, and the switch stays armed.
ArmDeadman(args, kind) ==
  /\ args.tool = "arm_deadman"
  /\ \/ ~args.given /\ Ends(kind, "failure")
     \/ args.given /\ kind = "failure" /\ Manager(FALSE) /\ UNCHANGED switches
     \/ /\ args.given
        /\ switches' = [switches EXCEPT ![args.id] = "armed"]
        /\ \/ kind = "result" /\ Manager(TRUE)
           \/ kind = "failure" /\ manager' = TRUE /\ Trouble

CheckinDeadman(args, kind) ==
  /\ args.tool = "checkin_deadman"
  /\ UNCHANGED switches
  /\ \/ ~args.given /\ kind = "failure" /\ NoTrouble /\ UNCHANGED manager
     \/ args.given /\ kind = "failure" /\ Manager(FALSE)
     \/ /\ args.given /\ Manager(TRUE)
        /\ kind = IF switches[args.id] = "armed" THEN "result" ELSE "failure"
     \/ args.given /\ switches[args.id] = "armed" /\ kind = "failure" /\ manager' = TRUE /\ Trouble

UnknownTool(args, kind) == args.tool \notin Tools /\ Ends(kind, "failure")

CallTool(args, kind) ==
  \/ ListInbox(args, kind) \/ GetMessage(args, kind) \/ SearchMessages(args, kind)
  \/ ListAccounts(args, kind) \/ GetStats(args, kind) \/ DaemonStatus(args, kind)
  \/ RunMailScript(args, kind) \/ ListCommitments(args, kind) \/ AnalyzeSender(args, kind)
  \/ GetReputation(args, kind) \/ ListMarketplace(args, kind)
  \/ CreateGroupThread(args, kind) \/ DecryptGroupThread(args, kind) \/ StakeMessage(args, kind)
  \/ ArmDeadman(args, kind) \/ CheckinDeadman(args, kind) \/ UnknownTool(args, kind)

------------------------------------------------------------------------------
(***************************************************************************)
(* Run and dispatch.                                                       *)
(***************************************************************************)
Send(a) == sent' = Append(sent, a)

\* What the loop leaves alone while it handles a line.
HandsOff == UNCHANGED <<stdin, written, closed, cancelled, line, read, late>>

CheckContext ==
  /\ loop = "check"
  /\ loop' = IF cancelled THEN "ended" ELSE "scan"
  /\ HandsOff /\ UNCHANGED <<sent, manager, switches, trouble>>

GarbageIsSkipped(l) == UNCHANGED sent

ReplyToGarbage(l) ==
  IF l.form = "garbage" THEN Send(Answer(NoId, "error")) ELSE UNCHANGED sent

\* A blank line is skipped and garbage is answered; a line that is too long for the
\* scanner ends the loop with an error.
Scan ==
  /\ loop = "scan" /\ stdin # <<>>
  /\ line' = Head(stdin) /\ stdin' = Tail(stdin)
  /\ read' = Append(read, Head(stdin))
  /\ late' = IF cancelled THEN late + 1 ELSE late
  /\ loop' = CASE line'.form \in {"blank", "garbage"} -> "check"
               [] line'.form = "long" -> "ended"
               [] line'.form = "request" -> "dispatch"
  /\ ReplyToGarbage(Head(stdin))
  /\ UNCHANGED <<written, closed, cancelled, manager, switches, trouble>>

ScanEOF ==
  /\ loop = "scan" /\ stdin = <<>> /\ closed
  /\ loop' = "ended"
  /\ HandsOff /\ UNCHANGED <<sent, manager, switches, trouble>>

\* dispatch: every method, and the answer.
Dispatch(kind) ==
  /\ loop = "dispatch"
  /\ IF line.method = "tools/call" /\ line.args # BadParams
     THEN CallTool(line.args, kind)
     ELSE /\ kind = IF line.method \in {"initialize", "tools/list", "ping"} THEN "result" ELSE "error"
          /\ NoTrouble /\ SwitchesStay
  /\ loop' = IF kind = "panic" THEN "crashed" ELSE "check"
  /\ IF kind = "panic" THEN UNCHANGED sent ELSE Send(Answer(line.id, kind))
  /\ HandsOff

\* The client.
WriteLine(l) ==
  /\ ~closed /\ written < MaxLines
  /\ stdin' = Append(stdin, l) /\ written' = written + 1
  /\ UNCHANGED <<closed, cancelled, loop, line, read, late, sent, manager, switches, trouble>>

CloseInput ==
  /\ ~closed /\ closed' = TRUE
  /\ UNCHANGED <<stdin, written, cancelled, loop, line, read, late, sent, manager, switches, trouble>>

\* SIGTERM or an interrupt.  Run, waiting in Scan, does not notice.
Signal ==
  /\ ~cancelled /\ cancelled' = TRUE
  /\ UNCHANGED <<stdin, written, closed, loop, line, read, late, sent, manager, switches, trouble>>

\* The monitor finds a switch overdue.
MonitorFires(id) ==
  /\ manager /\ loop \notin {"ended", "crashed"} /\ switches[id] = "armed"
  /\ switches' = [switches EXCEPT ![id] = "fired"]
  /\ UNCHANGED <<stdin, written, closed, cancelled, loop, line, read, late, sent, manager, trouble>>

ServerNext ==
  \/ CheckContext \/ Scan \/ ScanEOF
  \/ \E kind \in {"result", "failure", "error", "panic"} : Dispatch(kind)
  \/ \E l \in Lines : WriteLine(l)
  \/ CloseInput
  \/ Signal
  \/ \E id \in SwitchIds : MonitorFires(id)

------------------------------------------------------------------------------
(***************************************************************************)
(* Properties                                                              *)
(***************************************************************************)
ServerTypeOK ==
  /\ stdin \in Seq(Lines) /\ read \in Seq(Lines)
  /\ written \in 0..MaxLines /\ {closed, cancelled, manager} \subseteq BOOLEAN
  /\ loop \in {"check", "scan", "dispatch", "ended", "crashed"}
  /\ \A n \in DOMAIN sent : sent[n].kind \in {"result", "failure", "error"}
  /\ switches \in [SwitchIds -> {"none", "armed", "fired"}]
  /\ \A id \in SwitchIds : switches[id] # "none" => manager
  /\ trouble \in 0..MaxTrouble

\* The lines that are to be answered, without the one in hand.
Owed ==
  LET asked == Only(read, {l \in Lines : l.form \in {"garbage", "request"}}) IN
  IF loop \in {"dispatch", "crashed"} THEN SubSeq(asked, 1, Len(asked) - 1) ELSE asked

\* The line is no request that the server knows.
Unfit(l) ==
  \/ l.form = "garbage"
  \/ l.method = "tools/call" /\ l.args = BadParams
  \/ l.method \notin {"tools/call", "initialize", "tools/list", "ping"}

\* Every line that is not blank is answered once, in the order of the lines and with
\* its ID, and a tool that fails is a result of the call and no protocol error:
\* neither bad lines nor failing tools come between the server and its client.  It
\* stops for the end of the stream, a line too long or the signal, and of the lines
\* that come after the signal it takes one at most.
OneAnswerEach ==
  /\ Len(sent) = Len(Owed)
  /\ \A n \in DOMAIN sent :
       /\ sent[n].id = IF Owed[n].form = "garbage" THEN NoId ELSE Owed[n].id
       /\ sent[n].kind = "error" <=> Unfit(Owed[n])
  /\ loop = "ended" => cancelled \/ line = TooLong \/ (closed /\ stdin = <<>>)
  /\ late <= 1

==============================================================================
