------------------------------ MODULE SMTPProxy ------------------------------
(***************************************************************************)
(* The filtering SMTP gateway, cmd/mailscript/proxy.go: one goroutine per  *)
(* client connection reads commands, collects an envelope, runs the        *)
(* MailScript over the message and, if no action of the script blocks it,  *)
(* forwards it to the upstream server over a connection of its own.  The   *)
(* sessions share the statistics and nothing else.                         *)
(*                                                                         *)
(* The upstream server is external: it may refuse a sender, a recipient or *)
(* a message, and may close the connection at any point, also when it has  *)
(* taken the message and the answer is still to come.                      *)
(***************************************************************************)
EXTENDS Integers, FiniteSets

CONSTANTS
  Sessions,  \* client connections
  Addresses, \* envelope addresses
  NoOne,     \* the empty sender
  Verdicts,  \* the sets of actions a script may leave in ctx.Actions
  Upstream,  \* TRUE: --upstream is set
  MaxData    \* bound on the DATA commands of a session

ASSUME ProxyAssumption ==
  /\ IsFiniteSet(Sessions)
  /\ NoOne \notin Addresses
  /\ Upstream \in BOOLEAN
  /\ MaxData \in Nat

VARIABLES
  pc,     \* where the session's goroutine is
  held,   \* the session's fields from and recipients
  acts,   \* ctx.Actions of the message in hand
  peer,   \* the recipients upstream has taken in the session's exchange with it
  astray, \* the line to be read after the message may not be the answer to it
  stats,  \* ProxyStats
  txn,    \* history: what the client has named since its last message was answered
  offers, \* history: DATA commands that passed the envelope check
  reply,  \* history: the answer to the last one; "none" while it is under way
  taken   \* history: the messages upstream has taken

vars == <<pc, held, acts, peer, astray, stats, txn, offers, reply, taken>>

Envelope == [from : Addresses \cup {NoOne}, rcpts : SUBSET Addresses]

NoEnvelope == [from |-> NoOne, rcpts |-> {}]

\* The actions processWithMailScript takes as a refusal.  A script that fails
\* leaves "error".
Blocking == {"discard", "quarantine", "fileinto:Spam", "bounce", "drop", "error"}

Init ==
  /\ pc = [s \in Sessions |-> "new"]
  /\ held = [s \in Sessions |-> NoEnvelope]
  /\ acts = [s \in Sessions |-> {}]
  /\ peer = [s \in Sessions |-> {}]
  /\ astray = [s \in Sessions |-> FALSE]
  /\ stats = [total |-> 0, active |-> 0, processed |-> 0, accepted |-> 0, rejected |-> 0]
  /\ txn = [s \in Sessions |-> NoEnvelope]
  /\ offers = [s \in Sessions |-> 0]
  /\ reply = [s \in Sessions |-> "none"]
  /\ taken = {}

At(s, at) == pc[s] = at

Goto(s, at) == pc' = [pc EXCEPT ![s] = at]

------------------------------------------------------------------------------
(***************************************************************************)
(* Connections and commands.                                               *)
(***************************************************************************)
AcceptUncounted(s) ==
  /\ At(s, "new")
  /\ Goto(s, "command")
  /\ stats' = [stats EXCEPT !.total = @ + 1]
  /\ UNCHANGED <<held, acts, peer, astray, txn, offers, reply, taken>>

Accept(s) ==
  /\ At(s, "new")
  /\ Goto(s, "command")
  /\ stats' = [stats EXCEPT !.total = @ + 1, !.active = @ + 1]
  /\ UNCHANGED <<held, acts, peer, astray, txn, offers, reply, taken>>

\* QUIT, or the client has closed the connection.
CloseUncounted(s) ==
  /\ At(s, "command") \/ At(s, "data")
  /\ Goto(s, "closed")
  /\ UNCHANGED <<held, acts, peer, astray, stats, txn, offers, reply, taken>>

Close(s) ==
  /\ At(s, "command") \/ At(s, "data")
  /\ Goto(s, "closed")
  /\ stats' = [stats EXCEPT !.active = @ - 1]
  /\ UNCHANGED <<held, acts, peer, astray, txn, offers, reply, taken>>

\* MAIL and RCPT come in any order and any number; a later MAIL replaces the
\* sender, MAIL FROM:<> by none, and leaves the recipients alone.  (A line in which
\* ">" stands before "<" ends the process, which is not modelled.)
HandleMAIL(s, a) ==
  /\ At(s, "command")
  /\ held' = [held EXCEPT ![s].from = a]
  /\ txn' = [txn EXCEPT ![s].from = a]
  /\ UNCHANGED <<pc, acts, peer, astray, stats, offers, reply, taken>>

HandleRCPTLast(s, a) ==
  /\ At(s, "command")
  /\ held' = [held EXCEPT ![s].rcpts = {a}]
  /\ txn' = [txn EXCEPT ![s].rcpts = @ \cup {a}]
  /\ UNCHANGED <<pc, acts, peer, astray, stats, offers, reply, taken>>

HandleRCPT(s, a) ==
  /\ At(s, "command")
  /\ held' = [held EXCEPT ![s].rcpts = @ \cup {a}]
  /\ txn' = [txn EXCEPT ![s].rcpts = @ \cup {a}]
  /\ UNCHANGED <<pc, acts, peer, astray, stats, offers, reply, taken>>

HandleRSET(s) ==
  /\ At(s, "command")
  /\ held' = [held EXCEPT ![s] = NoEnvelope]
  /\ txn' = [txn EXCEPT ![s] = NoEnvelope]
  /\ UNCHANGED <<pc, acts, peer, astray, stats, offers, reply, taken>>

\* DATA: without a sender or a recipient the answer is 503 and nothing changes.
HandleDATA(s) ==
  /\ At(s, "command") /\ offers[s] < MaxData
  /\ held[s].from # NoOne /\ held[s].rcpts # {}
  /\ Goto(s, "data")
  /\ offers' = [offers EXCEPT ![s] = @ + 1]
  /\ astray' = [astray EXCEPT ![s] = FALSE]
  /\ reply' = [reply EXCEPT ![s] = "none"]
  /\ UNCHANGED <<held, acts, peer, stats, txn, taken>>

------------------------------------------------------------------------------
(***************************************************************************)
(* The message.                                                            *)
(***************************************************************************)

DispositionErrorPasses(A) ==
  IF A \cap (Blocking \ {"error"}) # {} THEN "refused"
  ELSE IF Upstream THEN "dial" ELSE "delivered"

\* Accepted messages go upstream or are answered at once; refused ones get 550.
Disposition(A) ==
  IF A \cap Blocking # {} THEN "refused" ELSE IF Upstream THEN "dial" ELSE "delivered"

\* The script runs over the message, and the statistics are brought up to date.
Filter(s, A) ==
  /\ At(s, "data")
  /\ Goto(s, Disposition(A)) /\ acts' = [acts EXCEPT ![s] = A]
  /\ stats' = IF Disposition(A) = "refused"
              THEN [stats EXCEPT !.processed = @ + 1, !.rejected = @ + 1]
              ELSE [stats EXCEPT !.processed = @ + 1, !.accepted = @ + 1]
  /\ UNCHANGED <<held, peer, astray, txn, offers, reply, taken>>

\* The answer that ends a DATA command: the handler returns, and for the client
\* the transaction is over.
Answer(s, r) ==
  /\ Goto(s, "command")
  /\ acts' = [acts EXCEPT ![s] = {}]
  /\ reply' = [reply EXCEPT ![s] = r]
  /\ txn' = [txn EXCEPT ![s] = NoEnvelope]
  /\ peer' = [peer EXCEPT ![s] = {}]
  /\ UNCHANGED <<astray, stats, offers, taken>>

\* "Reset for next message".
Reset(s) == held' = [held EXCEPT ![s] = NoEnvelope]

Answer250(s) == At(s, "delivered") /\ Reset(s) /\ Answer(s, "250")

Answer550(s) == At(s, "refused") /\ Reset(s) /\ Answer(s, "550")

Answer450Unsaid(s) ==
  /\ At(s, "failed")
  /\ Goto(s, "command")
  /\ acts' = [acts EXCEPT ![s] = {}]
  /\ UNCHANGED <<held, peer, astray, stats, txn, offers, reply, taken>>

\* A forwarding error: the handler returns before the reset.
Answer450(s) == At(s, "failed") /\ UNCHANGED held /\ Answer(s, "450")

------------------------------------------------------------------------------
(***************************************************************************)
(* forwardToUpstream.  One line is read for the greeting and one for each  *)
(* answer to MAIL, RCPT and DATA, and none of them is looked at: whatever  *)
(* upstream makes of the envelope, the proxy goes on to the message.  Only *)
(* a connection that breaks ends the exchange.                             *)
(*                                                                         *)
(* The line read after the message is the answer to it as long as each of  *)
(* these is one line and DATA is not refused.  After one of several lines  *)
(* every answer is read as that to a later command.  After a refused DATA  *)
(* upstream reads the message as commands, and the line is the answer to   *)
(* the first of them.  (What these commands do upstream is left out.)      *)
(***************************************************************************)
Break(s) ==
  /\ At(s, "dial") \/ At(s, "body")
  /\ Goto(s, "failed")
  /\ UNCHANGED <<held, acts, peer, astray, stats, txn, offers, reply, taken>>

\* Greeting, EHLO, MAIL, one RCPT for each recipient and DATA.  Upstream accepts
\* the recipients R, none when it refuses the sender; an answer of it has several
\* lines or none has, and it answers DATA with 354 or refuses.
Converse(s, R) ==
  /\ At(s, "dial") /\ R \subseteq held[s].rcpts
  /\ Goto(s, "body")
  /\ \E several, open \in BOOLEAN :
       /\ peer' = [peer EXCEPT ![s] = IF open THEN R ELSE {}]
       /\ astray' = [astray EXCEPT ![s] = several \/ ~open]
  /\ UNCHANGED <<held, acts, stats, txn, offers, reply, taken>>

\* What upstream takes: the envelope it was given, and for the properties the
\* transaction of the client and the actions of the script.
Record(s) ==
  [session |-> s, n |-> offers[s], given |-> held[s], meant |-> txn[s], acts |-> acts[s]]

UpstreamTakes(s) ==
  /\ At(s, "body") /\ peer[s] # {}
  /\ taken' = taken \cup {Record(s)}
  /\ UNCHANGED <<held, acts, peer, astray, stats, txn, offers, reply>>

\* Upstream takes the message, and its answer, or an earlier 250, is read,
AnswersTaken(s) == UpstreamTakes(s) /\ Goto(s, "delivered")

\* or takes it, and its answer is lost or another line is read in its place,
AnswerLost(s) == UpstreamTakes(s) /\ Goto(s, "failed")

UpstreamRefuses(s) ==
  /\ At(s, "body")
  /\ UNCHANGED <<held, acts, peer, astray, stats, txn, offers, reply, taken>>

AnswersRefusedUnchecked(s) == UpstreamRefuses(s) /\ Goto(s, "delivered")

\* or refuses it, as it does when it has taken no recipient,
AnswersRefused(s) == UpstreamRefuses(s) /\ Goto(s, "failed")

\* or refuses it, and a 250 is read that answers something else.
RefusalUnread(s) == UpstreamRefuses(s) /\ astray[s] /\ Goto(s, "delivered")

Forward(s) ==
  \/ Break(s)
  \/ \E R \in SUBSET Addresses : Converse(s, R)
  \/ AnswersTaken(s) \/ AnswerLost(s) \/ AnswersRefused(s) \/ RefusalUnread(s)

Command(s) ==
  \/ Close(s) \/ HandleRSET(s) \/ HandleDATA(s)
  \/ \E a \in Addresses \cup {NoOne} : HandleMAIL(s, a)
  \/ \E a \in Addresses : HandleRCPT(s, a)

Message(s) ==
  \/ \E A \in Verdicts : Filter(s, A)
  \/ Answer250(s) \/ Answer450(s) \/ Answer550(s)
  \/ Forward(s)

Next == \E s \in Sessions : Accept(s) \/ Command(s) \/ Message(s)

Spec == Init /\ [][Next]_vars

\* A client that has begun a message ends it or goes away, the script ends, and
\* upstream answers or closes the connection (nothing in the code bounds the
\* silence of either).
FairSpec == Spec /\ \A s \in Sessions : WF_vars(Message(s))

------------------------------------------------------------------------------
(***************************************************************************)
(* Properties                                                              *)
(***************************************************************************)

Places ==
  {"new", "command", "data", "refused", "dial", "body", "delivered", "failed", "closed"}

\* What upstream has taken.
Transfers ==
  [session : Sessions, n : Nat, given : Envelope, meant : Envelope, acts : Verdicts]

\* The types; the number of open connections is never negative.
TypeOK ==
  /\ pc \in [Sessions -> Places]
  /\ held \in [Sessions -> Envelope]
  /\ acts \in [Sessions -> Verdicts \cup {{}}]
  /\ peer \in [Sessions -> SUBSET Addresses]
  /\ astray \in [Sessions -> BOOLEAN]
  /\ stats \in [total : Nat, active : Nat, processed : Nat, accepted : Nat, rejected : Nat]
  /\ txn \in [Sessions -> Envelope]
  /\ offers \in [Sessions -> Nat]
  /\ reply \in [Sessions -> {"none", "250", "450", "550"}]
  /\ taken \subseteq Transfers

\* Upstream, when there is one, has the message of the session's last DATA.
Forwarded(s) == Upstream => \E t \in taken : t.session = s /\ t.n = offers[s]

\* 250 at the end of DATA means that upstream has the message, for one recipient at
\* least (the proxy keeps no copy, and the client forgets its own), whatever
\* upstream refused or broke off before, in exchanges in which the line read last
\* is the answer to the message: upstream gave one line for each answer and did not
\* refuse DATA.  Of others it is false, although the log says "Message forwarded
\* successfully to upstream" (proxy.go:553).
AckMeansTaken ==
  \A s \in Sessions : reply[s] = "250" /\ ~astray[s] => Forwarded(s)

\* A message with a blocking action, or over which the script failed, never
\* reaches upstream, whatever other actions and other sessions there are.
BlockedNeverForwarded == \A t \in taken : t.acts \cap Blocking = {}

\* Nobody the client has named for a message is missing from the envelope that
\* goes upstream, and the sender is the one it named, whatever failed before.
EnvelopeCovers ==
  \A t \in taken :
    t.meant.rcpts \subseteq t.given.rcpts /\ t.meant.from \in {NoOne, t.given.from}

\* What upstream has taken, it was to take, and for all for whom it was meant.
TakenIsRight == BlockedNeverForwarded /\ EnvelopeCovers

\* The open connections.
Live == {s \in Sessions : pc[s] \notin {"new", "closed"}}

\* The statistics of concurrent sessions add up, and no message upstream has is
\* missing from the accepted ones.
StatsAddUp ==
  /\ stats.active = Cardinality(Live)
  /\ stats.processed = stats.accepted + stats.rejected
  /\ Cardinality(taken) <= stats.accepted

\* Every message is answered or its client has gone.
DataIsAnswered ==
  \A s \in Sessions : (pc[s] = "data") ~> (reply[s] # "none" \/ pc[s] = "closed")

\* "Reset for next message": the message of a client that names a sender
\* and recipients for it goes to these recipients and to nobody else.
EnvelopeIsTransaction ==
  \A t \in taken :
    t.meant.from # NoOne /\ t.meant.rcpts # {} => t.given = t.meant

==============================================================================
