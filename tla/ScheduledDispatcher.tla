-------------------------- MODULE ScheduledDispatcher --------------------------
(***************************************************************************)
(* The dispatcher of deferred mail, pkg/send/scheduler.go: a queue under a *)
(* mutex, a loop that takes the due messages out of it every minute and    *)
(* starts one goroutine for each, and Stop, which closes the quit channel, *)
(* cancels the context and waits for the goroutines (not for the loop).    *)
(***************************************************************************)
EXTENDS Clock, SequencesExt, Slices

CONSTANTS
  Mails,    \* the messages callers queue, each at most once
  MailIds,  \* the IDs callers give them; IDs may repeat
  NoId,     \* the empty ID
  SendTimes \* values of SendAt

ASSUME DispatcherAssumption == SendTimes \subseteq Nat

VARIABLES
  queue,  \* sd.queue: records [mail, id, at]
  flight, \* what the goroutine of each message is doing
  quit,   \* sd.quit is closed
  cancel, \* sd.ctx is cancelled
  loop,   \* the loop: "select" or "returned"
  stop,   \* where the call of Stop is
  entrusted, \* history: the messages QueueMessage has taken
  revoked \* history: the messages whose CancelMessage returned true

mailVars == <<queue, flight, quit, cancel, loop, stop, entrusted, revoked>>

MailInit ==
  /\ queue = <<>>
  /\ flight = [n \in Mails |-> "none"]
  /\ quit = FALSE
  /\ cancel = FALSE
  /\ loop = "select"
  /\ stop = "running"
  /\ entrusted = {}
  /\ revoked = {}

\* The messages in the queue.
Queued == {queue[i].mail : i \in DOMAIN queue}

\* sd.wg counts the goroutines that have not returned.
InFlight == {n \in Mails : flight[n] \in {"spawned", "sending"}}

\* A message without an ID gets one of its own, from the clock's nanoseconds.
QueueMessage(n, i, t) ==
  /\ n \notin entrusted
  /\ queue' = Append(queue, [mail |-> n, id |-> IF i = NoId THEN n ELSE i, at |-> t])
  /\ entrusted' = entrusted \cup {n}
  /\ UNCHANGED <<flight, quit, cancel, loop, stop, revoked>>

\* CancelMessage removes the first message with the ID.
CancelMessage(i) ==
  \E k \in DOMAIN queue :
    /\ queue[k].id = i
    /\ \A j \in 1..(k - 1) : queue[j].id # i
    /\ queue' = RemoveAt(queue, k)
    /\ revoked' = revoked \cup {queue[k].mail}
    /\ UNCHANGED <<flight, quit, cancel, loop, stop, entrusted>>

Pending(msg) == now < msg.at

DueStrictly == {n \in Mails : \E i \in DOMAIN queue : queue[i].mail = n /\ now > queue[i].at}

Due == {n \in Mails : \E i \in DOMAIN queue : queue[i].mail = n /\ ~Pending(queue[i])}

\* One tick of the loop.  The select may take the ticker's case after quit is
\* closed as well.
ProcessQueue ==
  /\ loop = "select"
  /\ flight' = [n \in Mails |-> IF n \in Due THEN "spawned" ELSE flight[n]]
  /\ queue' = Only(queue, {m \in ToSet(queue) : Pending(m)})
  /\ UNCHANGED <<quit, cancel, loop, stop, entrusted, revoked>>

LoopReturns ==
  /\ loop = "select" /\ quit
  /\ loop' = "returned"
  /\ UNCHANGED <<queue, flight, quit, cancel, stop, entrusted, revoked>>

\* A message's goroutine gives up when the context is cancelled.
CheckSkipped(n) ==
  /\ flight[n] = "spawned"
  /\ flight' = [flight EXCEPT ![n] = "sending"]
  /\ UNCHANGED <<queue, quit, cancel, loop, stop, entrusted, revoked>>

CheckContext(n) ==
  /\ flight[n] = "spawned"
  /\ flight' = [flight EXCEPT ![n] = IF cancel THEN "dropped" ELSE "sending"]
  /\ UNCHANGED <<queue, quit, cancel, loop, stop, entrusted, revoked>>

Transmit(n) ==
  /\ flight[n] = "sending"
  /\ flight' = [flight EXCEPT ![n] = "sent"]
  /\ UNCHANGED <<queue, quit, cancel, loop, stop, entrusted, revoked>>

StopCloses ==
  /\ stop = "running"
  /\ quit' = TRUE
  /\ stop' = "closed"
  /\ UNCHANGED <<queue, flight, cancel, loop, entrusted, revoked>>

StopCancels ==
  /\ stop = "closed"
  /\ cancel' = TRUE
  /\ stop' = "waiting"
  /\ UNCHANGED <<queue, flight, quit, loop, entrusted, revoked>>

StopReturns ==
  /\ stop = "waiting" /\ InFlight = {}
  /\ stop' = "returned"
  /\ UNCHANGED <<queue, flight, quit, cancel, loop, entrusted, revoked>>

Goroutine(n) == CheckContext(n) \/ Transmit(n)

MailNext ==
  \/ \E n \in Mails, i \in MailIds \cup {NoId}, t \in SendTimes : QueueMessage(n, i, t)
  \/ \E i \in MailIds \cup Mails : CancelMessage(i)
  \/ ProcessQueue \/ LoopReturns
  \/ \E n \in Mails : Goroutine(n)
  \/ StopCloses \/ StopCancels \/ StopReturns

------------------------------------------------------------------------------
(***************************************************************************)
(* Properties                                                              *)
(***************************************************************************)

MailTypeOK ==
  /\ queue \in Seq([mail : Mails, id : MailIds \cup Mails, at : Nat])
  /\ flight \in [Mails -> {"none", "spawned", "sending", "sent", "dropped"}]
  /\ quit \in BOOLEAN /\ cancel \in BOOLEAN
  /\ loop \in {"select", "returned"}
  /\ stop \in {"running", "closed", "waiting", "returned"}
  /\ entrusted \subseteq Mails /\ revoked \subseteq Mails

\* A message that QueueMessage has taken is in one place, and it always is in one:
\* in the queue, once, or with a goroutine, or taken back by its owner.  With repeated
\* IDs a CancelMessage that returns true has taken back exactly one message, which is
\* never transmitted.  No goroutine gives a message up unless Stop was called.
NeverTwice ==
  /\ IsInjective([i \in DOMAIN queue |-> queue[i].mail])
  /\ \A n \in Mails : flight[n] # "none" => n \notin Queued \cup revoked
  /\ Queued \cap revoked = {}
  /\ entrusted = Queued \cup {n \in Mails : flight[n] # "none"} \cup revoked
  /\ \A n \in Mails : flight[n] = "dropped" => cancel

\* Once Stop has returned nothing is transmitted any more, although the loop
\* may still be running and may still start goroutines.
NothingAfterStop == stop = "returned" => \A n \in Mails : flight[n] # "sending"

==============================================================================
