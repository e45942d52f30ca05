-------------------------------- MODULE Outbox --------------------------------
(***************************************************************************)
(* The desktop client's outgoing mail that is not sent at once: the undo-  *)
(* send manager, the dispatcher of deferred mail and the hold queue, in    *)
(* one process with one clock, the composer tab                            *)
(* (internal/gui/composer.go) that drives the first two, and the advice on *)
(* when to send.  Nothing of it is on disk: when the process ends, every   *)
(* variable here is gone with it.                                          *)
(***************************************************************************)
EXTENDS UndoSend, ScheduledDispatcher, HoldQueue, SendOptimizer

CONSTANT ComposerDelay \* the hour that replaces a delay which is not positive

ASSUME OutboxAssumption == ComposerDelay \in Nat

VARIABLE up \* the process is running

vars == <<now, sendVars, mailVars, holdVars, adviceVars, up>>

Init ==
  /\ ClockInit /\ SendInit /\ MailInit /\ HoldInit /\ AdviceInit
  /\ up = TRUE

\* The Send button, with a recipient and an account: ScheduleSend is given a nil
\* message and reads its ID.  The panic ends the process.
ClickSend ==
  /\ up
  /\ up' = FALSE
  /\ UNCHANGED <<now, sendVars, mailVars, holdVars, adviceVars>>

\* The Schedule button: a message without an ID; a delay that is not positive
\* is replaced by an hour.
ClickSchedule(n, mins) ==
  /\ up
  /\ QueueMessage(n, NoId, now + IF mins <= 0 THEN ComposerDelay ELSE mins)
  /\ UNCHANGED <<now, sendVars, holdVars, adviceVars, up>>

SendStep == up /\ SendNext /\ UNCHANGED <<now, mailVars, holdVars, adviceVars, up>>
MailStep == up /\ MailNext /\ UNCHANGED <<now, sendVars, holdVars, adviceVars, up>>
HoldStep == up /\ HoldNext /\ UNCHANGED <<now, sendVars, mailVars, adviceVars, up>>
AdviceStep == up /\ AdviceNext /\ UNCHANGED <<now, sendVars, mailVars, holdVars, up>>
TimePasses == Advance /\ UNCHANGED <<sendVars, mailVars, holdVars, adviceVars, up>>

Next ==
  \/ ClickSend
  \/ \E n \in Mails, mins \in SendTimes : ClickSchedule(n, mins)
  \/ SendStep \/ MailStep \/ HoldStep \/ AdviceStep
  \/ TimePasses

Spec == Init /\ [][Next]_vars

\* The tickers tick, goroutines that can run do, callbacks return, time passes.
\* Nobody has to click, cancel or stop anything.
Fairness ==
  /\ WF_now(Advance)
  /\ \A o \in Sends : WF_sendVars(up /\ Countdown(o))
  /\ WF_mailVars(up /\ ProcessQueue)
  /\ \A n \in Mails : WF_mailVars(up /\ Goroutine(n))
  /\ WF_holdVars(up /\ Dispatch)
  /\ \A l \in Letters : WF_holdVars(up /\ SendHeld(l))

FairSpec == Spec /\ Fairness

------------------------------------------------------------------------------
(***************************************************************************)
(* Properties                                                              *)
(***************************************************************************)

TypeOK ==
  /\ now \in Nat /\ SendTypeOK /\ MailTypeOK /\ HoldTypeOK /\ AdviceTypeOK
  /\ up \in BOOLEAN

\* What a service has taken it still has, or has dealt with, in one place: no message
\* and no letter is lost or doubled on its way through the queues and goroutines.
InOnePlace == NeverTwice /\ HeldOnce

\* Whatever moment the program proposes is one to send at.
TimesAreSound == WindowIsAhead /\ FreeIsFree /\ SuggestionIsNext

\* "If not cancelled, email sends automatically": a scheduled send is attempted
\* when its delay is over (within the bound of the clock), unless its owner
\* cancels it, even if the cancellation is late and only relabels it.
UncancelledIsSent ==
  \A o \in Sends :
    (status[o] = "pending" /\ due[o] <= MaxTime)
      ~> (status[o] \in {"sent", "failed"} \/ ctxDone[o] \/ ~up)

\* A deferred message that is due is transmitted, unless its owner takes it back
\* or the dispatcher is stopped.
DueIsTransmitted ==
  \A n \in Mails : (n \in Due) ~> (flight[n] = "sent" \/ n \in revoked \/ quit \/ ~up)

\* No letter waits past MaxWait, however low its recipient scores.
MaxWaitIsMax ==
  \A l \in Letters :
    (\E i \in DOMAIN held : held[i].letter = l /\ now > held[i].until)
      ~> (post[l] \in {"sent", "failed"} \/ holdQuit \/ ~up)

\* What the user has handed over goes out by itself.
EverythingLeaves == UncancelledIsSent /\ DueIsTransmitted /\ MaxWaitIsMax

------------------------------------------------------------------------------
(***************************************************************************)
(* For TLC.  The four services share the clock and the process, and no     *)
(* other state, so one behaviour uses one of them: an interleaving of two  *)
(* adds nothing to what each of them does.                                 *)
(***************************************************************************)

\* At most one of them has left its initial state; the calendar needs no
\* exchange, two letters wait for one recipient only while no open is known, and
\* nobody probes once the loop has returned.
OneService ==
  \/ SendInit /\ MailInit /\ HoldInit /\ (card.about = "calendar" => exchanged = <<>>)
  \/ /\ SendInit /\ MailInit /\ AdviceInit
     /\ \/ \A r \in Recipients : patterns[r] = NoOpens
        \/ Cardinality({l \in Letters : post[l] # "new"}) <= 1
     /\ holdLoop = "returned" => probing = {}
  \/ SendInit /\ HoldInit /\ AdviceInit
  \/ MailInit /\ HoldInit /\ AdviceInit

\* Times from Sunday, 0:00: a message on Monday at 9 with a reply within the hour, one
\* at the same hour that is answered too late, one on Tuesday at 15 with a reply, one on
\* Monday at 15 that is answered ten hours later, and one without a date.
MCExchanges ==
  {[sent |-> 33 * 60, replied |-> 33 * 60 + 40],
   [sent |-> 39 * 60, replied |-> 49 * 60],
   [sent |-> 57 * 60, replied |-> 57 * 60 + 5000],
   [sent |-> 63 * 60, replied |-> 63 * 60 + 90],
   [sent |-> 0, replied |-> 100]}

\* Monday at 8:40 and at 9, and Tuesday evening.
MCMoments == {32 * 60 + 40, 33 * 60, 67 * 60}

\* Slots that overlap and touch, in every order, and two that start together.
MCBusyLists ==
  {<<[start |-> 32 * 60, end |-> 34 * 60], [start |-> 32 * 60, end |-> 33 * 60]>>} \cup
  SetToSeqs({[start |-> 31 * 60, end |-> 33 * 60], [start |-> 33 * 60, end |-> 34 * 60],
             [start |-> 32 * 60, end |-> 32 * 60 + 30]})

\* No connection, or a busy mailbox.
MCAnswers == {Unreachable, 10}

MCSpec == Init /\ [][Next /\ OneService']_vars /\ Fairness

==============================================================================
