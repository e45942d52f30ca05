------------------------------ MODULE MailScript ------------------------------
(***************************************************************************)
(* The MailScript engine, pkg/rules/engine.go: a Starlark interpreter with *)
(* builtins that look at a message or leave an action in its context.      *)
(*                                                                         *)
(* No builtin reads what another one left, so what a script does depends   *)
(* on the message alone: a script is, for each set of facts that hold of a *)
(* message, the calls it makes, at top level and in evaluate() when it     *)
(* defines one.  A call is <<builtin, argument>>; <<"error", "">> is any   *)
(* failure of the interpreter: a name it does not know, arguments that do  *)
(* not unpack, fail().  The interpreter itself is external.                *)
(***************************************************************************)
EXTENDS Integers, Slices, SequencesExt

CONSTANTS
  Source, \* the text of each script, by the script's name
  Mail    \* the messages at hand: for each the facts that hold of it

\* What the queries can tell a script about a message: a keyword is in it, its
\* score is over 3, it is a newsletter, its sender is in the script's list, its
\* sender is in an RBL, it is a receipt.
Facts == {"keyword", "spammy", "bulk", "sender", "listed", "receipt"}

\* The builtins that append an action.
FilingCalls == {"discard", "accept", "fileinto"}

ReplyCalls == {"auto_reply"}

MarkingCalls == {"add_header", "divert_to", "screen_to"}

SkippingCalls ==
  {"skip_malware_check", "skip_spam_check", "skip_whitelist_check", "force_second_pass"}

PolicyCalls == {"set_dlp", "skip_dlp", "quarantine", "add_to_next_digest"}

RefusingCalls == {"drop", "bounce", "reply_with_smtp_error", "reply_with_smtp_dsn"}

LogCalls == {"log_entry"}

RuleCalls == {"set_content_filter_rules"}

\* Checks that leave a note of what they were asked.
CheckCalls == {"rbl_check"}

MXCheckCalls == {"mx_in_rbl"}

DomainCalls == {"domain_resolution"}

\* The actions that do not have the name of their builtin.
Renamed ==
  [add_to_next_digest |-> "add_to_digest", reply_with_smtp_error |-> "smtp_error",
   reply_with_smtp_dsn |-> "smtp_dsn", log_entry |-> "log",
   set_content_filter_rules |-> "set_filter_rules", mx_in_rbl |-> "mx_rbl_check",
   domain_resolution |-> "domain_resolve"]

\* The name of the action that a builtin appends.
Emits ==
  [f \in FilingCalls \cup ReplyCalls \cup MarkingCalls \cup SkippingCalls \cup PolicyCalls
           \cup RefusingCalls \cup LogCalls \cup RuleCalls \cup CheckCalls \cup MXCheckCalls
           \cup DomainCalls
     |-> IF f \in DOMAIN Renamed THEN Renamed[f] ELSE f]

\* The builtins that only answer.
ContentQueries ==
  {"get_header", "regex_match", "get_recipient_did", "search_body", "getmimetype",
   "getspamscore", "getvirusstatus"}

MessageQueries ==
  {"body_size", "header_size", "num_envelope", "get_content_filter", "get_content_filter_name",
   "get_content_filter_rules"}

NetworkQueries ==
  {"get_instance", "get_instance_name", "dns_check", "dns_resolution", "valid_mx",
   "get_mx_records", "is_mx_ipv4", "is_mx_ipv6"}

SenderQueries ==
  {"check_received_header", "get_received_headers", "get_sender_ip", "get_sender_domain",
   "get_rbl_status"}

Queries == ContentQueries \cup MessageQueries \cup NetworkQueries \cup SenderQueries

NoFunction == <<"no evaluate">>

\* The builtins without a parameter that leave an action.
Bare == {"discard", "accept", "quarantine", "bounce", "drop", "add_to_next_digest"}

\* What a script calls: builtins, as they are declared, or it fails.
ASSUME SourceAssumption ==
  /\ Mail \subseteq SUBSET Facts
  /\ \A s \in DOMAIN Source : \A F \in SUBSET Facts :
       \A calls \in {Source[s].root[F]}
                      \cup (IF Source[s].evaluate = NoFunction THEN {} ELSE {Source[s].evaluate[F]}) :
         /\ calls \in Seq((DOMAIN Emits \cup Queries \cup {"error"}) \X STRING)
         /\ \A i \in DOMAIN calls : calls[i][1] \in Bare => calls[i][2] = ""

\* MessageContext: what holds of the message, and what scripts have left in it.
NewContext(facts) == [facts |-> facts, actions |-> <<>>, added |-> {}, logs |-> <<>>]

\* The calls before the first failure.
Ran(calls) ==
  LET failures == {i \in DOMAIN calls : calls[i][1] = "error"} IN
  IF failures = {} THEN calls ELSE SubSeq(calls, 1, Min(failures) - 1)

Fails(calls) == \E i \in DOMAIN calls : calls[i][1] = "error"

\* Those of the calls that leave an action, and those that leave a log entry.
Emitting(calls) == Only(calls, {k \in ToSet(calls) : k[1] \in DOMAIN Emits})

Logging(calls) == Only(calls, {k \in ToSet(calls) : k[1] = "log_entry"})

\* Runs calls on the context c, up to the first failure.
Interpret(c, calls) ==
  LET acts == Emitting(Ran(calls))
      logs == Logging(Ran(calls))
  IN [c EXCEPT
        !.actions = @ \o [i \in DOMAIN acts |-> <<Emits[acts[i][1]], acts[i][2]>>],
        !.added = @ \cup {k[2] : k \in {a \in ToSet(Ran(calls)) : a[1] = "add_header"}},
        !.logs = @ \o [i \in DOMAIN logs |-> logs[i][2]],
        !.failed = Fails(calls)]

\* The context when the interpreter starts.
Started(ctx) ==
  [facts |-> ctx.facts, actions |-> ctx.actions, added |-> ctx.added, logs |-> ctx.logs,
   failed |-> FALSE]

\* The script runs at top level, then in evaluate().  A script without
\* evaluate() that has left nothing accepts; one with it is left as it is.  A
\* failure ends the run and leaves what was done before it.
ExecuteEngine(script, ctx) ==
  LET text == Source[script]
      top == Interpret(Started(ctx), text.root[ctx.facts])
  IN IF top.failed THEN top
     ELSE IF text.evaluate # NoFunction
     THEN Interpret(top, text.evaluate[ctx.facts])
     ELSE IF top.actions = <<>> THEN [top EXCEPT !.actions = <<<<"accept", "">>>>]
     ELSE top

\* The actions in the form in which the gateway looks at them: a folder whose
\* name begins with Spam is one folder here.
Outcome(c) ==
  IF c.failed THEN {"error"}
  ELSE {IF a = <<"fileinto", "Spam">> THEN "fileinto:Spam" ELSE a[1] : a \in ToSet(c.actions)}

------------------------------------------------------------------------------
(***************************************************************************)
(* The starter scripts of pkg/marketplace.  None of them returns early:    *)
(* Starlark has no return at top level.                                    *)
(***************************************************************************)
Script(calls) == [root |-> calls, evaluate |-> NoFunction]

InvoicePhishing ==
  Script([F \in SUBSET Facts |->
    IF {"keyword", "spammy"} \subseteq F
    THEN <<<<"add_header", "X-MailScript-Rule">>, <<"log_entry", "phishing">>, <<"quarantine", "">>>>
    ELSE <<<<"accept", "">>>>])

AutoFileNewsletters ==
  Script([F \in SUBSET Facts |->
    IF "bulk" \in F
    THEN <<<<"add_header", "X-MailScript-Rule">>, <<"fileinto", "Newsletters">>>>
    ELSE <<<<"accept", "">>>>])

VIPPriority ==
  Script([F \in SUBSET Facts |->
    IF "sender" \in F
    THEN <<<<"add_header", "X-Priority">>, <<"add_header", "X-MailScript-VIP">>,
           <<"fileinto", "Priority">>>>
    ELSE <<<<"accept", "">>>>])

\* It discards, goes on, and accepts at the end.
BlockKnownSpamDomains ==
  Script([F \in SUBSET Facts |->
    (IF "sender" \in F THEN <<<<"log_entry", "domain">>, <<"discard", "">>>> ELSE <<>>)
      \o <<<<"rbl_check", "ip">>>>
      \o (IF "listed" \in F THEN <<<<"log_entry", "rbl">>, <<"discard", "">>>> ELSE <<>>)
      \o <<<<"accept", "">>>>])

ReceiptArchiver ==
  Script([F \in SUBSET Facts |->
    IF "receipt" \in F
    THEN <<<<"add_header", "X-MailScript-Rule">>, <<"fileinto", "Receipts">>>>
    ELSE <<<<"accept", "">>>>])

==============================================================================
