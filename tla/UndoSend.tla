------------------------------- MODULE UndoSend -------------------------------
(***************************************************************************)
(* The undo-send manager, pkg/send/undo.go: every ScheduleSend starts a    *)
(* goroutine that waits for the delay or for a cancellation, whichever     *)
(* comes first, and then calls the onSend callback.                        *)
(*                                                                         *)
(* The clock counts seconds.  A send's ID is the second it was scheduled   *)
(* in and the message's ID, so it repeats when one message is scheduled    *)
(* twice in one second.  pendingSends maps an ID to the latest send that   *)
(* has it; here it is the set of those sends.                              *)
(***************************************************************************)
EXTENDS Clock

CONSTANTS
  Sends,     \* *PendingSend heap objects
  Messages,  \* accounts.Message IDs
  Nil,
  Clients,   \* goroutines that call CancelSend
  Delays,    \* delay arguments; 0 asks for the default
  DefaultDelay

ASSUME UndoSendAssumption ==
  /\ Nil \notin Sends
  /\ Delays \subseteq Nat
  /\ DefaultDelay \in Nat \ {0}

VARIABLES
  pendingSends, \* the sends in the map
  id,           \* p.ID
  status,       \* p.Status
  due,          \* p.ScheduledTime; also when the timer of its goroutine expires
  gor,          \* what the send's goroutine is doing
  ctxDone,      \* p.CancelFunc was called
  cl,           \* what each caller of CancelSend is doing
  sent,         \* history: successful onSend calls
  undone        \* history: the sends whose CancelSend returned nil

sendVars == <<pendingSends, id, status, due, gor, ctxDone, cl, sent, undone>>

Quiet == [pc |-> "idle", obj |-> Nil]

SendInit ==
  /\ pendingSends = {}
  /\ id = [o \in Sends |-> <<>>]
  /\ status = [o \in Sends |-> "new"]
  /\ due = [o \in Sends |-> 0]
  /\ gor = [o \in Sends |-> "new"]
  /\ ctxDone = [o \in Sends |-> FALSE]
  /\ cl = [c \in Clients |-> Quiet]
  /\ sent = [o \in Sends |-> 0]
  /\ undone = {}

\* The sends the map holds under an ID: none or one.
Lookup(i) == {o \in pendingSends : id[o] = i}

ScheduleSend(m, d, o) ==
  LET i == <<now, m>> IN
  /\ status[o] = "new"
  /\ id' = [id EXCEPT ![o] = i]
  /\ status' = [status EXCEPT ![o] = "pending"]
  /\ due' = [due EXCEPT ![o] = now + IF d = 0 THEN DefaultDelay ELSE d]
  /\ pendingSends' = (pendingSends \ Lookup(i)) \cup {o}
  /\ gor' = [gor EXCEPT ![o] = "started"]
  /\ UNCHANGED <<ctxDone, cl, sent, undone>>

------------------------------------------------------------------------------
(***************************************************************************)
(* CancelSend: the map is read under the mutex, the status after it.       *)
(***************************************************************************)
CancelLookup(c, o) ==
  /\ cl[c].pc = "idle" /\ o \in pendingSends
  /\ cl' = [cl EXCEPT ![c] = [pc |-> "check", obj |-> o]]
  /\ UNCHANGED <<pendingSends, id, status, due, gor, ctxDone, sent, undone>>

CancelCheck(c) ==
  /\ cl[c].pc = "check"
  /\ cl' = [cl EXCEPT ![c] = IF status[@.obj] = "pending"
                             THEN [@ EXCEPT !.pc = "cancel"] ELSE Quiet]
  /\ UNCHANGED <<pendingSends, id, status, due, gor, ctxDone, sent, undone>>

\* Closing the context wakes a goroutine that is blocked in its select.
CancelFunc(c) ==
  /\ cl[c].pc = "cancel"
  /\ ctxDone' = [ctxDone EXCEPT ![cl[c].obj] = TRUE]
  /\ gor' = [gor EXCEPT ![cl[c].obj] = IF @ = "blocked" THEN "gone" ELSE @]
  /\ cl' = [cl EXCEPT ![c].pc = "mark"]
  /\ UNCHANGED <<pendingSends, id, status, due, sent, undone>>

CancelMark(c) ==
  /\ cl[c].pc = "mark"
  /\ status' = [status EXCEPT ![cl[c].obj] = "cancelled"]
  /\ undone' = undone \cup {cl[c].obj}
  /\ cl' = [cl EXCEPT ![c] = Quiet]
  /\ UNCHANGED <<pendingSends, id, due, gor, ctxDone, sent>>

------------------------------------------------------------------------------
(***************************************************************************)
(* countdown, the goroutine of one send.                                   *)
(***************************************************************************)

\* It reaches the select.  With both channels ready either case is taken.
Select(o) ==
  /\ gor[o] = "started"
  /\ \/ ctxDone[o] /\ gor' = [gor EXCEPT ![o] = "gone"]
     \/ now >= due[o] /\ gor' = [gor EXCEPT ![o] = "expired"]
     \/ ~ctxDone[o] /\ now < due[o] /\ gor' = [gor EXCEPT ![o] = "blocked"]
  /\ UNCHANGED <<pendingSends, id, status, due, ctxDone, cl, sent, undone>>

TimerExpiresEarly(o) ==
  /\ gor[o] = "blocked" /\ now + 1 >= due[o]
  /\ gor' = [gor EXCEPT ![o] = "expired"]
  /\ UNCHANGED <<pendingSends, id, status, due, ctxDone, cl, sent, undone>>

\* The timer wakes a goroutine that is blocked in its select.
TimerExpires(o) ==
  /\ gor[o] = "blocked" /\ now >= due[o]
  /\ gor' = [gor EXCEPT ![o] = "expired"]
  /\ UNCHANGED <<pendingSends, id, status, due, ctxDone, cl, sent, undone>>

MarkSending(o) ==
  /\ gor[o] = "expired"
  /\ status' = [status EXCEPT ![o] = "sending"]
  /\ gor' = [gor EXCEPT ![o] = "sending"]
  /\ UNCHANGED <<pendingSends, id, due, ctxDone, cl, sent, undone>>

\* onSend succeeds or fails.
SendMessage(o) ==
  /\ gor[o] = "sending"
  /\ \/ sent' = [sent EXCEPT ![o] = @ + 1] /\ gor' = [gor EXCEPT ![o] = "sent"]
     \/ UNCHANGED sent /\ gor' = [gor EXCEPT ![o] = "failed"]
  /\ UNCHANGED <<pendingSends, id, status, due, ctxDone, cl, undone>>

MarkSentSwapped(o) ==
  /\ gor[o] \in {"sent", "failed"}
  /\ gor' = [gor EXCEPT ![o] = "over"]
  /\ status' = [status EXCEPT ![o] = gor'[o]]
  /\ UNCHANGED <<pendingSends, id, due, ctxDone, cl, sent, undone>>

MarkSent(o) ==
  /\ gor[o] \in {"sent", "failed"}
  /\ status' = [status EXCEPT ![o] = gor[o]]
  /\ gor' = [gor EXCEPT ![o] = "over"]
  /\ UNCHANGED <<pendingSends, id, due, ctxDone, cl, sent, undone>>

\* Five minutes later the entry under this ID is deleted, whosever it is.
AfterFunc(o) ==
  /\ gor[o] = "over"
  /\ pendingSends' = pendingSends \ Lookup(id[o])
  /\ gor' = [gor EXCEPT ![o] = "gone"]
  /\ UNCHANGED <<id, status, due, ctxDone, cl, sent, undone>>

\* CleanupOld, with the cutoff it computes from its argument.
CleanupOld(cutoff) ==
  /\ pendingSends' = {o \in pendingSends : status[o] = "pending" \/ due[o] >= cutoff}
  /\ UNCHANGED <<id, status, due, gor, ctxDone, cl, sent, undone>>

Countdown(o) ==
  Select(o) \/ TimerExpires(o) \/ MarkSending(o) \/ SendMessage(o) \/ MarkSent(o)

SendNext ==
  \/ \E m \in Messages, d \in Delays, o \in Sends : ScheduleSend(m, d, o)
  \/ \E c \in Clients :
       \/ \E o \in Sends : CancelLookup(c, o)
       \/ CancelCheck(c) \/ CancelFunc(c) \/ CancelMark(c)
  \/ \E o \in Sends : Countdown(o) \/ AfterFunc(o)
  \/ \E cutoff \in 0..now : CleanupOld(cutoff)

------------------------------------------------------------------------------
(***************************************************************************)
(* Properties                                                              *)
(***************************************************************************)

SendTypeOK ==
  /\ pendingSends \subseteq Sends
  /\ id \in [Sends -> {<<>>} \cup (Nat \X Messages)]
  /\ status \in [Sends -> {"new", "pending", "cancelled", "sending", "sent", "failed"}]
  /\ due \in [Sends -> Nat]
  /\ gor \in [Sends -> {"new", "started", "blocked", "expired", "sending", "sent",
                        "failed", "over", "gone"}]
  /\ ctxDone \in [Sends -> BOOLEAN]
  /\ cl \in [Clients -> [pc : {"idle", "check", "cancel", "mark"}, obj : Sends \cup {Nil}]]
  /\ sent \in [Sends -> Nat]
  /\ undone \subseteq Sends

\* Another send of the same message in the same second, which has the same ID.
HasTwin(o) == \E p \in Sends \ {o} : status[p] # "new" /\ id[p] = id[o]

\* A send that is still to come can be undone: the map has it under the ID its
\* caller was given, whatever cleanups ran.  Only a twin can take that entry, when it
\* is scheduled, or delete it, five minutes after it went out.
PendingCanBeUndone ==
  \A o \in Sends : status[o] = "pending" => o \in pendingSends \/ HasTwin(o)

\* CancelSend refuses a send only when it is out of the user's hands: its delay
\* has run out, or an earlier CancelSend got through.
OnlyLateUndoRefused ==
  \A o \in Sends : status[o] \notin {"new", "pending"} => now >= due[o] \/ ctxDone[o]

\* A send can be undone exactly as long as it is to come.
UndoIsOpen == PendingCanBeUndone /\ OnlyLateUndoRefused

\* "CancelSend cancels a pending send": a nil result means it is not sent.
UndoneNeverSent == \A o \in undone : sent[o] = 0

==============================================================================
