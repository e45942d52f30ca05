---------------------------- MODULE ScriptPrograms ----------------------------
(***************************************************************************)
(* The programs of cmd/mailscript: the gateway with its two entrances, the *)
(* tools that run scripts over stored messages, and the registry.  They    *)
(* run one engine and share no state: each is a process of its own.        *)
(*                                                                         *)
(* The gateway's second entrance, grpc_server.go, is a service that        *)
(* filters one message per call, with the script and the statistics of the *)
(* SMTP gateway (SMTPProxy).  startGRPCServer does not register it yet;    *)
(* its handler is modelled as if it had, next to the SMTP sessions it      *)
(* shares the statistics with.                                             *)
(***************************************************************************)
EXTENDS SMTPProxy, ScriptTools, Marketplace

CONSTANTS
  Scripts, \* the scripts a gateway may have been started with
  MaxCalls \* bound on the calls of a behaviour

ASSUME ServiceAssumption == Scripts \subseteq DOMAIN Source /\ MaxCalls \in Nat

VARIABLES
  rpc,     \* the last response, with the request it answers
  calls    \* the number of calls so far

rpcVars == <<rpc, calls>>

NoCall == [asked |-> FALSE]

ServiceInit == rpc = NoCall /\ calls = 0

\* Both entrances give the script no score and no RBL.
Visible(facts) == facts \ {"spammy", "listed"}

RefusalActions ==
  {<<"discard", "">>, <<"quarantine", "">>, <<"fileinto", "Spam">>, <<"bounce", "">>, <<"drop", "">>}

\* Every action is looked at, and one that refuses is not taken back.
Passes(actions) == \A i \in DOMAIN actions : actions[i] \notin RefusalActions

Respond(script, facts, forward, accepted, failed) ==
  /\ rpc' = [asked |-> TRUE, script |-> script, facts |-> facts, forward |-> forward,
             accepted |-> accepted, failed |-> failed]
  /\ calls' = calls + 1
  /\ UNCHANGED <<pc, held, acts, peer, astray, txn, offers, reply, taken>>

\* A script that fails: refused, and not counted.
RefuseFailed(script, facts, forward) ==
  /\ ExecuteEngine(script, NewContext(facts)).failed
  /\ Respond(script, facts, forward, FALSE, TRUE)
  /\ UNCHANGED stats

\* Otherwise the call is counted by its actions, and an accepted message that is
\* to be forwarded is refused after all when upstream cannot be reached.  (The
\* forwarding itself is a stub: it opens a connection and sends nothing.)
CountAndForward(script, facts, forward, reached) ==
  LET c == ExecuteEngine(script, NewContext(facts))
      ok == Passes(c.actions)
  IN /\ ~c.failed
     /\ stats' = IF ok THEN [stats EXCEPT !.processed = @ + 1, !.accepted = @ + 1]
                 ELSE [stats EXCEPT !.processed = @ + 1, !.rejected = @ + 1]
     /\ Respond(script, facts, forward, ok /\ (forward /\ Upstream => reached), FALSE)

ProcessMessage(script, facts, forward) ==
  /\ calls < MaxCalls
  /\ \/ RefuseFailed(script, facts, forward)
     \/ \E reached \in BOOLEAN : CountAndForward(script, facts, forward, reached)

ServiceNext ==
  \E s \in Scripts, F \in Mail, forward \in BOOLEAN :
    ProcessMessage(s, Visible(F), forward)

ServiceTypeOK ==
  /\ calls \in 0..MaxCalls
  /\ rpc # NoCall =>
       /\ rpc.script \in Scripts /\ rpc.facts \subseteq Visible(Facts)
       /\ {rpc.asked, rpc.forward, rpc.accepted, rpc.failed} \subseteq BOOLEAN

\* The service and the SMTP sessions, each with a loop of its own over the
\* actions, refuse the same messages: a client learns the same from both, but for
\* a message that could not be forwarded; and no script that fails is an
\* acceptance.
SameVerdict ==
  rpc # NoCall =>
    LET A == Outcome(ExecuteEngine(rpc.script, NewContext(rpc.facts)))
    IN /\ rpc.accepted => Disposition(A) # "refused"
       /\ Disposition(A) # "refused" /\ ~(rpc.forward /\ Upstream) => rpc.accepted

------------------------------------------------------------------------------
(***************************************************************************)
(* The programs side by side.                                              *)
(***************************************************************************)
gatewayVars == <<vars, rpcVars>>

programVars == <<gatewayVars, toolVars, batchVars, marketVars>>

ProgramsInit == Init /\ ServiceInit /\ ToolsInit /\ BatchInit /\ MarketInit

SessionStep == Next /\ UNCHANGED <<rpcVars, toolVars, batchVars, marketVars>>
ServiceStep == ServiceNext /\ UNCHANGED <<toolVars, batchVars, marketVars>>
ToolStep == ToolsNext /\ UNCHANGED <<gatewayVars, batchVars, marketVars>>
BatchStep == BatchNext /\ UNCHANGED <<gatewayVars, toolVars, marketVars>>
MarketStep == MarketNext /\ UNCHANGED <<gatewayVars, toolVars, batchVars>>

ProgramsNext == SessionStep \/ ServiceStep \/ ToolStep \/ BatchStep \/ MarketStep

ProgramsSpec == ProgramsInit /\ [][ProgramsNext]_programVars

\* The types of every program.
TypesOK ==
  TypeOK /\ ServiceTypeOK /\ ToolsTypeOK /\ BatchTypeOK /\ MarketTypeOK

\* What is decided about a message is what the engine makes of the script and of
\* the facts the program gives it: the service refuses what an SMTP session that is
\* given the same refuses, and a tool's run shows what a first run does.  (The
\* gateway gives a script no score and no RBL and the tools do: a script that asks
\* for them may decide otherwise there, see Visible.)
EngineDecides == SameVerdict /\ RunsAreIndependent

------------------------------------------------------------------------------
(***************************************************************************)
(* For TLC.                                                                *)
(*                                                                         *)
(* The gateway runs a script that accepts, marks and drops, or fails,      *)
(* depending on the message.  A behaviour has either one session with      *)
(* every address and MaxData messages, or several sessions, or a session   *)
(* and calls of the service, with one address and one message each:        *)
(* sessions share the statistics only, so what an envelope does over       *)
(* several messages needs one session.                                     *)
(*                                                                         *)
(* The programs share no state, so one behaviour uses one of them.         *)
(***************************************************************************)
CONSTANTS ann, bob

MCAddresses == {ann, bob}

\* A script with a function, which drops what it has marked and fails half way
\* through other messages.
MarkAndDrop ==
  [root |-> [F \in SUBSET Facts |-> <<<<"add_header", "X-Seen">>>>],
   evaluate |-> [F \in SUBSET Facts |->
      IF "bulk" \in F THEN <<<<"drop", "">>, <<"accept", "">>>>
      ELSE IF "keyword" \in F THEN <<<<"log_entry", "k">>, <<"error", "">>>> ELSE <<>>]]

SpamFolder ==
  Script([F \in SUBSET Facts |->
            IF "bulk" \in F THEN <<<<"fileinto", "Spam">>>> ELSE <<<<"get_header", "From">>>>])

MCSource ==
  [mark |-> MarkAndDrop, spam |-> SpamFolder, invoice |-> InvoicePhishing,
   newsletters |-> AutoFileNewsletters, vip |-> VIPPriority, domains |-> BlockKnownSpamDomains,
   receipts |-> ReceiptArchiver]

MCScripts == DOMAIN MCSource

MCMail ==
  {{}, {"bulk"}, {"keyword"}, {"sender", "listed"}, {"keyword", "spammy"}, {"receipt"}}

\* What the gateway's script makes of its messages; TLC would run the engine
\* again for every use of it.
MCVerdicts == {{"add_header"}, {"add_header", "drop", "accept"}, {"error"}}

OutcomesOf(script) == {Outcome(ExecuteEngine(script, NewContext(F))) : F \in MCMail}

MCMboxes ==
  {f \in UNION {[1..n -> {"From", "bulk", "junk", ""}] : n \in 1..5} :
     \A n \in 1..(Len(f) - 1) : f[n] # ""}

MCMaildirs ==
  LET dirs == {<<>>, <<<<"bulk">>>>, <<"unreadable", <<"keyword">>>>,
               <<<<"junk">>, <<"x", "keyword">>, <<"bulk">>>>}
  IN dirs \X dirs

MCSlot == [id \in {"a/b", "c/d", "a__b"} |-> IF id = "c/d" THEN "c__d" ELSE "a__b"]

Open == {s \in Sessions : pc[s] # "new"}

DeepOrWide ==
  Cardinality(Open) + calls > 1 =>
    \A s \in Sessions :
      /\ offers[s] <= 1
      /\ held[s].from # bob /\ bob \notin held[s].rcpts

\* The calls next to a session: one for each outcome of one script.
Beside == {"mark"} \X {{}, {"bulk"}} \X {TRUE}

\* Every call when there is no session, and these next to one.
Calls ==
  /\ UNCHANGED <<toolVars, batchVars, marketVars>>
  /\ \/ Open = {} /\ ServiceNext
     \/ Cardinality(Open) = 1 /\ \E k \in Beside : ProcessMessage(k[1], k[2], k[3])

CallsJoin ==
  calls > 0 /\ Open # {} =>
    Cardinality(Open) = 1 /\ <<rpc.script, rpc.facts, rpc.forward>> \in Beside

NoGateway == Init /\ ServiceInit

OneProgram ==
  \/ /\ ToolsInit /\ BatchInit /\ MarketInit
     /\ SessionStep \/ Calls
  \/ NoGateway /\ BatchInit /\ MarketInit /\ ToolStep
  \/ NoGateway /\ ToolsInit /\ MarketInit /\ BatchStep
  \/ NoGateway /\ ToolsInit /\ BatchInit /\ MarketStep

\* One run of `process` in a behaviour: it leaves nothing for the next one.
MCNext == batch = NoBatch /\ OneProgram /\ (DeepOrWide /\ CallsJoin)'

MCInit == ProgramsInit /\ MCVerdicts = OutcomesOf("mark")

MCSpec ==
  /\ MCInit
  /\ [][MCNext]_programVars
  /\ \A s \in Sessions : WF_vars(Message(s))

==============================================================================
