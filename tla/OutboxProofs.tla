----------------------------- MODULE OutboxProofs -----------------------------
(***************************************************************************)
(* Theorems about Outbox, for any number of messages, callers and slots    *)
(* and for a clock without a bound.                                        *)
(***************************************************************************)
EXTENDS Outbox, FiniteSetTheorems, SequenceTheorems, TLAPS

USE DEF vars, sendVars, mailVars, holdVars, adviceVars

------------------------------------------------------------------------------
(***************************************************************************)
(* The undo-send manager.                                                  *)
(***************************************************************************)

\* A send's goroutine exists from the moment the send does, and it has left the
\* countdown behind when the status says so.
GoroutineAgrees ==
  \A o \in Sends :
    /\ status[o] = "new" <=> gor[o] = "new"
    /\ gor[o] \in {"sending", "sent", "failed", "over"} => status[o] \notin {"new", "pending"}
    /\ gor[o] = "expired" => now >= due[o]

\* Callers have hold of sends that exist, and cancel the context before they
\* relabel one.
CallersAgree ==
  \A c \in Clients :
    cl[c].pc # "idle" =>
      /\ cl[c].obj \in Sends /\ status[cl[c].obj] # "new"
      /\ cl[c].pc = "mark" => ctxDone[cl[c].obj]

\* The map holds sends that exist.
MapAgrees == \A o \in pendingSends : status[o] # "new"

SendInv ==
  /\ now \in Nat /\ SendTypeOK /\ GoroutineAgrees /\ CallersAgree /\ MapAgrees
  /\ OnlyLateUndoRefused
  /\ PendingCanBeUndone

LEMMA SendInitial == ClockInit /\ SendInit => SendInv
BY UndoSendAssumption
   DEF ClockInit, SendInit, SendInv, SendTypeOK, GoroutineAgrees, CallersAgree, MapAgrees,
       OnlyLateUndoRefused, HasTwin, PendingCanBeUndone, Quiet

LEMMA SendStable == SendInv /\ UNCHANGED sendVars /\ now' \in Nat /\ now' >= now => SendInv'
BY DEF SendInv, SendTypeOK, GoroutineAgrees, CallersAgree, MapAgrees, OnlyLateUndoRefused,
       HasTwin, PendingCanBeUndone

\* Every operation of the manager keeps its invariant.
LEMMA SendPreserved == SendInv /\ SendNext /\ now' = now => SendInv'
<1>0. SUFFICES ASSUME SendInv, SendNext, now' = now PROVE SendInv'
  OBVIOUS
<1> USE UndoSendAssumption
    DEF SendInv, SendTypeOK, GoroutineAgrees, CallersAgree, MapAgrees, OnlyLateUndoRefused,
        HasTwin, PendingCanBeUndone, Quiet, Lookup
<1>1. ASSUME NEW m \in Messages, NEW d \in Delays, NEW o \in Sends, ScheduleSend(m, d, o)
      PROVE  SendInv'
  <2>1. SendTypeOK'
    BY <1>0, <1>1 DEF ScheduleSend
  <2>2. GoroutineAgrees'
    BY <1>0, <1>1 DEF ScheduleSend
  <2>3. CallersAgree' /\ MapAgrees'
    BY <1>0, <1>1 DEF ScheduleSend
  <2>4. OnlyLateUndoRefused'
    BY <1>0, <1>1 DEF ScheduleSend
  <2>5. PendingCanBeUndone'
    <3>1. /\ status' = [status EXCEPT ![o] = "pending"] /\ id' = [id EXCEPT ![o] = <<now, m>>]
          /\ pendingSends' = (pendingSends \ {p \in pendingSends : id[p] = <<now, m>>}) \cup {o}
          /\ status[o] = "new"
      BY <1>1 DEF ScheduleSend
    <3>2. ASSUME NEW p \in Sends, status'[p] = "pending", p \notin pendingSends'
          PROVE  HasTwin(p)'
      <4>1. p # o /\ status[p] = "pending"
        BY <1>0, <3>1, <3>2
      <4>2. CASE p \in pendingSends
        <5>1. id[p] = <<now, m>> /\ id'[p] = id'[o] /\ status'[o] # "new"
          BY <1>0, <3>1, <3>2, <4>1, <4>2
        <5>2. QED
          BY <4>1, <5>1
      <4>3. CASE p \notin pendingSends
        <5>1. PICK r \in Sends \ {p} : status[r] # "new" /\ id[r] = id[p]
          BY <1>0, <4>1, <4>3
        <5>2. r # o /\ status'[r] = status[r] /\ id'[r] = id[r] /\ id'[p] = id[p]
          BY <1>0, <3>1, <4>1, <5>1
        <5>3. QED
          BY <5>1, <5>2
      <4>4. QED
        BY <4>2, <4>3
    <3>3. QED
      BY <3>2
  <2>6. QED
    BY <1>0, <2>1, <2>2, <2>3, <2>4, <2>5, <1>1 DEF ScheduleSend
<1>2. ASSUME NEW c \in Clients, NEW o \in Sends, CancelLookup(c, o) PROVE SendInv'
  <2>1. SendTypeOK'
    BY <1>0, <1>2 DEF CancelLookup
  <2>2. GoroutineAgrees'
    BY <1>0, <1>2 DEF CancelLookup
  <2>3. CallersAgree' /\ MapAgrees'
    <3>1. /\ cl'[c] = [pc |-> "check", obj |-> o]
          /\ \A b \in Clients \ {c} : cl'[b] = cl[b]
          /\ status' = status /\ ctxDone' = ctxDone
      BY <1>0, <1>2 DEF CancelLookup
    <3>2. status[o] # "new"
      BY <1>0, <1>2 DEF CancelLookup
    <3>3. MapAgrees'
      BY <1>0, <1>2 DEF CancelLookup
    <3>4. CallersAgree'
      <4>1. SUFFICES ASSUME NEW b \in Clients, cl'[b].pc # "idle"
                     PROVE  /\ cl'[b].obj \in Sends /\ status[cl'[b].obj] # "new"
                            /\ cl'[b].pc = "mark" => ctxDone[cl'[b].obj]
        BY <3>1
      <4>2. CASE b = c
        BY <3>1, <3>2, <4>2
      <4>3. CASE b # c
        BY <1>0, <3>1, <4>1, <4>3
      <4>4. QED
        BY <4>2, <4>3
    <3>5. QED
      BY <3>3, <3>4
  <2>4. OnlyLateUndoRefused'
    BY <1>0, <1>2 DEF CancelLookup
  <2>5. PendingCanBeUndone'
    BY <1>0, <1>2 DEF CancelLookup
  <2>6. QED
    BY <1>0, <2>1, <2>2, <2>3, <2>4, <2>5, <1>2 DEF CancelLookup
<1>3. ASSUME NEW c \in Clients, CancelCheck(c) PROVE SendInv'
  <2>1. SendTypeOK'
    <3>1. cl' \in [Clients -> [pc : {"idle", "check", "cancel", "mark"}, obj : Sends \cup {Nil}]]
      <4>1. cl'[c] \in {Quiet, [cl[c] EXCEPT !.pc = "cancel"]} /\ cl' = [cl EXCEPT ![c] = cl'[c]]
        BY <1>0, <1>3 DEF CancelCheck
      <4>2. cl \in [Clients -> [pc : {"idle", "check", "cancel", "mark"}, obj : Sends \cup {Nil}]]
        BY <1>0
      <4>3. QED
        BY <4>1, <4>2
    <3>2. QED
      BY <1>0, <1>3, <3>1 DEF CancelCheck
  <2>2. GoroutineAgrees'
    BY <1>0, <1>3 DEF CancelCheck
  <2>3. CallersAgree' /\ MapAgrees'
    BY <1>0, <1>3 DEF CancelCheck
  <2>4. OnlyLateUndoRefused'
    BY <1>0, <1>3 DEF CancelCheck
  <2>5. PendingCanBeUndone'
    BY <1>0, <1>3 DEF CancelCheck
  <2>6. QED
    BY <1>0, <2>1, <2>2, <2>3, <2>4, <2>5, <1>3 DEF CancelCheck
<1>4. ASSUME NEW c \in Clients, CancelFunc(c) PROVE SendInv'
  <2>1. SendTypeOK'
    <3>1. PICK o \in Sends : o = cl[c].obj
      BY <1>0, <1>4 DEF CancelFunc
    <3>2. gor' = [gor EXCEPT ![o] = gor'[o]] /\ gor'[o] \in {gor[o], "gone"}
      BY <1>0, <1>4, <3>1 DEF CancelFunc
    <3> DEFINE G == {"new", "started", "blocked", "expired", "sending", "sent", "failed",
                     "over", "gone"}
    <3>3. cl' \in [Clients -> [pc : {"idle", "check", "cancel", "mark"}, obj : Sends \cup {Nil}]]
      <4>1. cl' = [cl EXCEPT ![c] = [cl[c] EXCEPT !.pc = "mark"]]
        BY <1>0, <1>4 DEF CancelFunc
      <4>2. cl \in [Clients -> [pc : {"idle", "check", "cancel", "mark"}, obj : Sends \cup {Nil}]]
        BY <1>0
      <4>3. QED
        BY <4>1, <4>2
    <3>4. ctxDone' \in [Sends -> BOOLEAN]
      BY <1>0, <1>4, <3>1 DEF CancelFunc
    <3>5. gor' \in [Sends -> G]
      <4>1. gor \in [Sends -> G] /\ gor'[o] \in G
        BY <1>0, <3>2
      <4> HIDE DEF G
      <4>2. QED
        BY <3>2, <4>1
    <3>6. QED
      BY <1>0, <1>4, <3>3, <3>4, <3>5 DEF CancelFunc
  <2>2. GoroutineAgrees'
    BY <1>0, <1>4 DEF CancelFunc
  <2>3. CallersAgree' /\ MapAgrees'
    BY <1>0, <1>4 DEF CancelFunc
  <2>4. OnlyLateUndoRefused'
    BY <1>0, <1>4 DEF CancelFunc
  <2>5. PendingCanBeUndone'
    BY <1>0, <1>4 DEF CancelFunc
  <2>6. QED
    BY <1>0, <2>1, <2>2, <2>3, <2>4, <2>5, <1>4 DEF CancelFunc
<1>5. ASSUME NEW c \in Clients, CancelMark(c) PROVE SendInv'
  BY <1>0, <1>5 DEF CancelMark
<1>6. ASSUME NEW o \in Sends, Select(o) PROVE SendInv'
  <2>1. SendTypeOK'
    <3>1. gor'[o] \in {"gone", "expired", "blocked"} /\ gor' = [gor EXCEPT ![o] = gor'[o]]
      BY <1>0, <1>6 DEF Select
    <3>2. QED
      <4> DEFINE G == {"new", "started", "blocked", "expired", "sending", "sent", "failed",
                       "over", "gone"}
      <4>1. gor \in [Sends -> G] /\ gor'[o] \in G
        BY <1>0, <3>1
      <4>2. gor' \in [Sends -> G]
        <5> HIDE DEF G
        <5>1. QED
          BY <3>1, <4>1
      <4>3. QED
        BY <1>0, <1>6, <4>2 DEF Select
  <2>2. GoroutineAgrees'
    BY <1>0, <1>6 DEF Select
  <2>3. CallersAgree' /\ MapAgrees'
    BY <1>0, <1>6 DEF Select
  <2>4. OnlyLateUndoRefused'
    BY <1>0, <1>6 DEF Select
  <2>5. PendingCanBeUndone'
    BY <1>0, <1>6 DEF Select
  <2>6. QED
    BY <1>0, <2>1, <2>2, <2>3, <2>4, <2>5, <1>6 DEF Select
<1>7. ASSUME NEW o \in Sends, TimerExpires(o) PROVE SendInv'
  BY <1>0, <1>7 DEF TimerExpires
<1>8. ASSUME NEW o \in Sends, MarkSending(o) PROVE SendInv'
  BY <1>0, <1>8 DEF MarkSending
<1>9. ASSUME NEW o \in Sends, SendMessage(o) PROVE SendInv'
  <2>1. SendTypeOK'
    <3>1. gor'[o] \in {"sent", "failed"} /\ gor' = [gor EXCEPT ![o] = gor'[o]]
      BY <1>0, <1>9 DEF SendMessage
    <3>2. sent' \in [Sends -> Nat]
      <4>1. sent' \in {sent, [sent EXCEPT ![o] = sent[o] + 1]}
        BY <1>0, <1>9 DEF SendMessage
      <4>2. sent \in [Sends -> Nat]
        BY <1>0
      <4>3. QED
        BY <4>1, <4>2
    <3>3. QED
      <4> DEFINE G == {"new", "started", "blocked", "expired", "sending", "sent", "failed",
                       "over", "gone"}
      <4>1. gor \in [Sends -> G] /\ gor'[o] \in G
        BY <1>0, <3>1
      <4>2. gor' \in [Sends -> G]
        <5> HIDE DEF G
        <5>1. QED
          BY <3>1, <4>1
      <4>3. QED
        BY <1>0, <1>9, <3>2, <4>2 DEF SendMessage
  <2>2. GoroutineAgrees'
    BY <1>0, <1>9 DEF SendMessage
  <2>3. CallersAgree' /\ MapAgrees'
    BY <1>0, <1>9 DEF SendMessage
  <2>4. OnlyLateUndoRefused'
    BY <1>0, <1>9 DEF SendMessage
  <2>5. PendingCanBeUndone'
    BY <1>0, <1>9 DEF SendMessage
  <2>6. QED
    BY <1>0, <2>1, <2>2, <2>3, <2>4, <2>5, <1>9 DEF SendMessage
<1>10. ASSUME NEW o \in Sends, MarkSent(o) PROVE SendInv'
  BY <1>0, <1>10 DEF MarkSent
<1>11. ASSUME NEW o \in Sends, AfterFunc(o) PROVE SendInv'
  BY <1>0, <1>11 DEF AfterFunc
<1>12. ASSUME NEW cutoff \in 0..now, CleanupOld(cutoff) PROVE SendInv'
  BY <1>0, <1>12 DEF CleanupOld
<1>13. QED
  BY <1>0, <1>1, <1>2, <1>3, <1>4, <1>5, <1>6, <1>7, <1>8, <1>9, <1>10, <1>11, <1>12
     DEF SendNext, Countdown

------------------------------------------------------------------------------
(***************************************************************************)
(* The dispatcher of deferred mail.                                        *)
(***************************************************************************)

\* Taking one element out closes the gap.
LEMMA RemoveAtProperties ==
  ASSUME NEW S, NEW s \in Seq(S), NEW k \in 1..Len(s)
  PROVE  /\ RemoveAt(s, k) \in Seq(S)
         /\ Len(RemoveAt(s, k)) = Len(s) - 1
         /\ \A i \in 1..(Len(s) - 1) : RemoveAt(s, k)[i] = s[IF i < k THEN i ELSE i + 1]
<1> DEFINE a == SubSeq(s, 1, k - 1)
           b == SubSeq(s, k + 1, Len(s))
<1>1. Len(s) \in Nat
  BY LenProperties
<1>2. a \in Seq(S) /\ Len(a) = k - 1 /\ \A i \in 1..(k - 1) : a[i] = s[i]
  BY <1>1, SubSeqProperties
<1>3. b \in Seq(S) /\ Len(b) = Len(s) - k /\ \A i \in 1..(Len(s) - k) : b[i] = s[k + i]
  BY <1>1, SubSeqProperties
<1>4. RemoveAt(s, k) = a \o b
  BY DEF RemoveAt
<1> HIDE DEF a, b
<1>5. a \o b \in Seq(S) /\ Len(a \o b) = Len(s) - 1
  <2>1. a \o b \in Seq(S) /\ Len(a \o b) = Len(a) + Len(b)
    BY <1>2, <1>3, ConcatProperties
  <2>2. QED
    BY <2>1, <1>1, <1>2, <1>3
<1>6. ASSUME NEW i \in 1..(Len(s) - 1) PROVE (a \o b)[i] = s[IF i < k THEN i ELSE i + 1]
  <2>1. CASE i < k
    BY <1>1, <1>2, <1>3, <2>1, ConcatProperties
  <2>2. CASE ~ (i < k)
    <3>1. i \in Len(a) + 1 .. Len(a) + Len(b) /\ i - Len(a) \in 1..(Len(s) - k)
      BY <1>1, <1>2, <1>3, <2>2
    <3>2. (a \o b)[i] = b[i - Len(a)]
      BY <1>1, <1>2, <1>3, <2>2, ConcatProperties
    <3>3. k + (i - Len(a)) = i + 1
      BY <1>1, <1>2
    <3>4. QED
      BY <1>3, <2>2, <3>1, <3>2, <3>3
  <2>3. QED
    BY <2>1, <2>2
<1>7. QED
  BY <1>4, <1>5, <1>6

Records == [mail : Mails, id : MailIds \cup Mails, at : Nat]

\* The mails of the queue are different, and with no goroutine and no owner yet.
MailInv ==
  /\ now \in Nat /\ MailTypeOK /\ NeverTwice
  /\ stop \in {"waiting", "returned"} => cancel
  /\ NothingAfterStop

\* NeverTwice of a queue q, of what the goroutines do, of what was taken and of what
\* was revoked.
Apart(q, fl, ent, rev) ==
  /\ IsInjective([i \in DOMAIN q |-> q[i].mail])
  /\ \A n \in Mails : fl[n] # "none" => n \notin {q[i].mail : i \in DOMAIN q} \cup rev
  /\ {q[i].mail : i \in DOMAIN q} \cap rev = {}
  /\ ent = {q[i].mail : i \in DOMAIN q} \cup {n \in Mails : fl[n] # "none"} \cup rev

DroppedByStop == \A n \in Mails : flight[n] = "dropped" => cancel

LEMMA NeverTwiceIs ==
  /\ NeverTwice <=> Apart(queue, flight, entrusted, revoked) /\ DroppedByStop
  /\ NeverTwice' <=> Apart(queue', flight', entrusted', revoked') /\ DroppedByStop'
BY DEF NeverTwice, Queued, Apart, DroppedByStop

\* The same without the functions.
Placed(q, fl, ent, rev) ==
  /\ \A i, j \in 1..Len(q) : q[i].mail = q[j].mail => i = j
  /\ \A i \in 1..Len(q) : fl[q[i].mail] = "none" /\ q[i].mail \notin rev
  /\ \A n \in rev \cap Mails : fl[n] = "none"
  /\ \A n \in Mails : n \in ent <=> \/ \E i \in 1..Len(q) : q[i].mail = n
                                  \/ fl[n] # "none"
                                  \/ n \in rev

LEMMA NeverTwiceMeans ==
  ASSUME NEW q \in Seq(Records), NEW fl, NEW ent \in SUBSET Mails, NEW rev \in SUBSET Mails
  PROVE  Apart(q, fl, ent, rev) <=> Placed(q, fl, ent, rev)
<1> DEFINE mails == {q[i].mail : i \in DOMAIN q}
<1>1. DOMAIN q = 1..Len(q) /\ \A i \in 1..Len(q) : q[i] \in Records
  BY LenProperties, ElementOfSeq
<1>2. mails = {q[i].mail : i \in 1..Len(q)} /\ mails \subseteq Mails
  BY <1>1 DEF Records
<1>3. IsInjective([i \in DOMAIN q |-> q[i].mail])
        <=> \A i, j \in 1..Len(q) : q[i].mail = q[j].mail => i = j
  BY <1>1 DEF IsInjective
<1>4. ent = mails \cup {n \in Mails : fl[n] # "none"} \cup rev
        <=> \A n \in Mails : n \in ent <=> \/ \E i \in 1..Len(q) : q[i].mail = n
                                        \/ fl[n] # "none"
                                        \/ n \in rev
  <2>1. \A n : n \in mails <=> \E i \in 1..Len(q) : q[i].mail = n
    BY <1>2
  <2> HIDE DEF mails
  <2>2. QED
    BY <1>2, <2>1
<1>5. QED
  BY <1>2, <1>3, <1>4 DEF Apart, Placed

LEMMA MailInitial == ClockInit /\ MailInit => MailInv
<1> SUFFICES ASSUME ClockInit, MailInit PROVE MailInv
  OBVIOUS
<1>1. queue = <<>> /\ queue \in Seq(Records) /\ Len(queue) = 0
  BY EmptySeq DEF MailInit
<1>2. NeverTwice
  <2>1. 1..Len(queue) = {} /\ revoked = {} /\ entrusted = {} /\ \A n \in Mails : flight[n] = "none"
    BY <1>1 DEF MailInit
  <2>2. Apart(queue, flight, entrusted, revoked)
    <3>1. entrusted \in SUBSET Mails /\ revoked \in SUBSET Mails
      BY <2>1
    <3>2. Placed(queue, flight, entrusted, revoked)
      BY <1>1, <2>1 DEF Placed
    <3>3. QED
      BY <1>1, <3>1, <3>2, NeverTwiceMeans
  <2>3. QED
    BY <2>1, <2>2, NeverTwiceIs DEF DroppedByStop
<1>3. QED
  BY <1>1, <1>2 DEF ClockInit, MailInit, MailInv, MailTypeOK, NothingAfterStop, Records

LEMMA MailStable == MailInv /\ UNCHANGED mailVars /\ now' \in Nat => MailInv'
BY DEF MailInv, MailTypeOK, NeverTwice, Queued, NothingAfterStop

\* A message that is queued is new, and its record well-formed.
LEMMA QueueMessageKeeps ==
  ASSUME MailInv, now' = now,
         NEW n \in Mails, NEW i \in MailIds \cup {NoId}, NEW t \in Nat, QueueMessage(n, i, t)
  PROVE  MailInv'
<1> DEFINE e == [mail |-> n, id |-> IF i = NoId THEN n ELSE i, at |-> t]
           N == Len(queue)
<1>1. queue \in Seq(Records) /\ N \in Nat /\ e \in Records
  BY LenProperties DEF MailInv, MailTypeOK, Records
<1>2. queue' = Append(queue, e)
  BY DEF QueueMessage
<1>3. e.mail = n
  OBVIOUS
<1> HIDE DEF e
<1>4. /\ queue' \in Seq(Records) /\ Len(queue') = N + 1
      /\ \A j \in 1..N : queue'[j] = queue[j]
      /\ queue'[N + 1] = e
  BY <1>1, <1>2, AppendProperties
<1>6. /\ \A j, k \in 1..N : queue[j].mail = queue[k].mail => j = k
      /\ \A j \in 1..N : flight[queue[j].mail] = "none" /\ queue[j].mail \notin revoked
      /\ \A m \in revoked \cap Mails : flight[m] = "none"
      /\ \A m \in Mails : m \in entrusted <=> \/ \E j \in 1..N : queue[j].mail = m
                                            \/ flight[m] # "none"
                                            \/ m \in revoked
  <2>1. Apart(queue, flight, entrusted, revoked) /\ DroppedByStop
    BY NeverTwiceIs DEF MailInv
  <2>2. Placed(queue, flight, entrusted, revoked)
    BY <1>1, <2>1, NeverTwiceMeans DEF MailInv, MailTypeOK
  <2>3. QED
    BY <2>1, <2>2 DEF Placed
<1>5. \A j \in 1..N : queue[j].mail # n
  BY <1>6 DEF QueueMessage
<1>7. /\ flight' = flight /\ revoked' = revoked /\ flight[n] = "none" /\ n \notin revoked
      /\ entrusted' = entrusted \cup {n}
      /\ entrusted' \in SUBSET Mails /\ revoked' \in SUBSET Mails
  BY <1>6 DEF QueueMessage, MailInv, MailTypeOK
<1>8. NeverTwice'
  <2>1. \A j, k \in 1..(N + 1) : queue'[j].mail = queue'[k].mail => j = k
    BY <1>1, <1>3, <1>4, <1>5, <1>6
  <2>2. \A j \in 1..(N + 1) : flight'[queue'[j].mail] = "none" /\ queue'[j].mail \notin revoked'
    BY <1>1, <1>3, <1>4, <1>6, <1>7
  <2>3. \A m \in revoked' \cap Mails : flight'[m] = "none"
    BY <1>6, <1>7
  <2>4. ASSUME NEW m \in Mails
        PROVE  m \in entrusted' <=> \/ \E j \in 1..(N + 1) : queue'[j].mail = m
                                   \/ flight'[m] # "none"
                                   \/ m \in revoked'
    <3>1. (\E j \in 1..(N + 1) : queue'[j].mail = m)
            <=> (\E j \in 1..N : queue[j].mail = m) \/ m = n
      BY <1>1, <1>3, <1>4
    <3>2. QED
      BY <3>1, <1>6, <1>7
  <2>5. Apart(queue', flight', entrusted', revoked')
    <3>1. Placed(queue', flight', entrusted', revoked')
      BY <2>1, <2>2, <2>3, <2>4, <1>4 DEF Placed
    <3>2. QED
      BY <3>1, <1>4, <1>7, NeverTwiceMeans
  <2>6. DroppedByStop'
    BY <1>7, NeverTwiceIs DEF MailInv, DroppedByStop, QueueMessage
  <2>7. QED
    BY <2>5, <2>6, NeverTwiceIs
<1>9. QED
  BY <1>4, <1>8 DEF MailInv, MailTypeOK, NothingAfterStop, QueueMessage, Records

\* CancelMessage takes one message back.
LEMMA CancelMessageKeeps ==
  ASSUME MailInv, now' = now, NEW i \in MailIds \cup Mails, CancelMessage(i)
  PROVE  MailInv'
<1> DEFINE N == Len(queue)
<1>1. queue \in Seq(Records) /\ N \in Nat /\ DOMAIN queue = 1..N
  BY LenProperties DEF MailInv, MailTypeOK, Records
<1>2. PICK k \in 1..N : /\ queue' = RemoveAt(queue, k)
                        /\ revoked' = revoked \cup {queue[k].mail}
                        /\ UNCHANGED <<flight, quit, cancel, loop, stop, entrusted>>
  BY <1>1 DEF CancelMessage
<1> DEFINE f == [j \in 1..(N - 1) |-> IF j < k THEN j ELSE j + 1]
<1>3. /\ queue' \in Seq(Records) /\ Len(queue') = N - 1
      /\ \A j \in 1..(N - 1) : queue'[j] = queue[f[j]]
  BY <1>1, <1>2, RemoveAtProperties
<1>4. /\ \A j \in 1..(N - 1) : f[j] \in 1..N /\ f[j] # k
      /\ \A j, l \in 1..(N - 1) : f[j] = f[l] => j = l
      /\ \A l \in 1..N \ {k} : \E j \in 1..(N - 1) : f[j] = l
  <2>1. ASSUME NEW l \in 1..N \ {k} PROVE \E j \in 1..(N - 1) : f[j] = l
    <3>1. CASE l < k
      <4>1. l \in 1..(N - 1) /\ f[l] = l
        BY <1>1, <3>1
      <4>2. QED
        BY <4>1
    <3>2. CASE l > k
      <4>1. l - 1 \in 1..(N - 1) /\ f[l - 1] = l
        BY <1>1, <3>2
      <4>2. QED
        BY <4>1
    <3>3. QED
      BY <1>1, <3>1, <3>2
  <2>2. QED
    BY <1>1, <2>1
<1> HIDE DEF f
<1>5. /\ \A j, l \in 1..N : queue[j].mail = queue[l].mail => j = l
      /\ \A j \in 1..N : flight[queue[j].mail] = "none" /\ queue[j].mail \notin revoked
      /\ \A m \in revoked \cap Mails : flight[m] = "none"
      /\ \A m \in Mails : m \in entrusted <=> \/ \E j \in 1..N : queue[j].mail = m
                                            \/ flight[m] # "none"
                                            \/ m \in revoked
      /\ DroppedByStop
  <2>1. Apart(queue, flight, entrusted, revoked) /\ DroppedByStop
    BY NeverTwiceIs DEF MailInv
  <2>2. Placed(queue, flight, entrusted, revoked)
    BY <1>1, <2>1, NeverTwiceMeans DEF MailInv, MailTypeOK
  <2>3. QED
    BY <2>1, <2>2 DEF Placed
<1>7. /\ queue[k].mail \in Mails
      /\ entrusted' \in SUBSET Mails /\ revoked' \in SUBSET Mails
  <2>1. queue[k] \in Records
    BY <1>1, ElementOfSeq
  <2>2. QED
    BY <2>1, <1>2 DEF Records, MailInv, MailTypeOK
<1>6. Apart(queue', flight', entrusted', revoked')
  <2>1. ASSUME NEW j \in 1..(N - 1), NEW l \in 1..(N - 1), queue'[j].mail = queue'[l].mail
        PROVE  j = l
    <3>1. queue[f[j]].mail = queue[f[l]].mail /\ f[j] \in 1..N /\ f[l] \in 1..N
      BY <2>1, <1>3, <1>4
    <3>2. QED
      BY <3>1, <1>4, <1>5
  <2>2. ASSUME NEW j \in 1..(N - 1)
        PROVE  flight'[queue'[j].mail] = "none" /\ queue'[j].mail \notin revoked'
    <3>1. queue'[j] = queue[f[j]] /\ f[j] \in 1..N /\ f[j] # k
      BY <1>3, <1>4
    <3>2. queue[f[j]].mail # queue[k].mail
      BY <3>1, <1>5
    <3>3. QED
      BY <3>1, <3>2, <1>2, <1>5
  <2>3. \A m \in revoked' \cap Mails : flight'[m] = "none"
    BY <1>2, <1>5
  <2>4. ASSUME NEW m \in Mails
        PROVE  m \in entrusted' <=> \/ \E j \in 1..(N - 1) : queue'[j].mail = m
                                   \/ flight'[m] # "none"
                                   \/ m \in revoked'
    <3>1. (\E j \in 1..N : queue[j].mail = m)
            <=> (\E j \in 1..(N - 1) : queue'[j].mail = m) \/ m = queue[k].mail
      <4>1. ASSUME NEW j \in 1..N
            PROVE  j = k \/ \E l \in 1..(N - 1) : queue'[l].mail = queue[j].mail
        BY <1>3, <1>4
      <4>2. ASSUME NEW j \in 1..(N - 1) PROVE \E l \in 1..N : queue[l].mail = queue'[j].mail
        BY <1>3, <1>4
      <4>3. k \in 1..N
        OBVIOUS
      <4>4. ASSUME \E j \in 1..N : queue[j].mail = m
            PROVE  (\E j \in 1..(N - 1) : queue'[j].mail = m) \/ m = queue[k].mail
        BY <4>1, <4>4
      <4>5. ASSUME (\E j \in 1..(N - 1) : queue'[j].mail = m) \/ m = queue[k].mail
            PROVE  \E j \in 1..N : queue[j].mail = m
        BY <4>2, <4>3, <4>5
      <4> HIDE DEF N
      <4>6. QED
        BY <4>4, <4>5
    <3>2. QED
      BY <3>1, <1>2, <1>5
  <2>5. QED
    <3>1. Placed(queue', flight', entrusted', revoked')
      BY <2>1, <2>2, <2>3, <2>4, <1>3 DEF Placed
    <3>2. QED
      BY <3>1, <1>3, <1>7, NeverTwiceMeans
<1>8. NeverTwice'
  BY <1>2, <1>5, <1>6, NeverTwiceIs DEF DroppedByStop
<1>9. QED
  BY <1>2, <1>3, <1>7, <1>8 DEF MailInv, MailTypeOK, NothingAfterStop, Records

\* A tick of the loop hands each message that is due to one goroutine.
LEMMA ProcessQueueKeeps ==
  ASSUME MailInv, now' = now, ProcessQueue
  PROVE  MailInv'
<1> DEFINE N == Len(queue)
           K == {m \in ToSet(queue) : Pending(m)}
<1>1. queue \in Seq(Records) /\ N \in Nat /\ DOMAIN queue = 1..N
  BY LenProperties DEF MailInv, MailTypeOK, Records
<1>2. /\ queue' = Only(queue, K)
      /\ flight' = [n \in Mails |-> IF n \in Due THEN "spawned" ELSE flight[n]]
      /\ UNCHANGED <<quit, cancel, loop, stop, entrusted, revoked>>
  BY DEF ProcessQueue
<1>3. \A j \in 1..N : queue[j] \in Records /\ (queue[j] \in K <=> Pending(queue[j]))
  BY <1>1, ElementOfSeq DEF ToSet
<1> HIDE DEF K
<1> DEFINE n == Len(queue')
           f == KeptFrom(queue, K)
<1> HIDE DEF N, n, f
<1>k. /\ Only(queue, K) \in Seq(Records) /\ Len(Only(queue, K)) \in Nat
      /\ f \in [1..Len(Only(queue, K)) -> 1..N]
      /\ \A j \in 1..Len(Only(queue, K)) : Only(queue, K)[j] = queue[f[j]] /\ queue[f[j]] \in K
      /\ \A j, l \in 1..Len(Only(queue, K)) : j < l => f[j] < f[l]
  BY <1>1, OnlyProperties DEF f, N
<1>4. /\ queue' \in Seq(Records) /\ n \in Nat /\ f \in [1..n -> 1..N]
      /\ \A j \in 1..n : queue'[j] = queue[f[j]] /\ queue[f[j]] \in K
      /\ \A j, l \in 1..n : j < l => f[j] < f[l]
  BY <1>2, <1>k DEF n
<1>l. \A j \in 1..N : queue[j] \in K => \E l \in 1..n : queue'[l] = queue[j]
  <2>1. SUFFICES ASSUME NEW j \in 1..N, queue[j] \in K PROVE \E l \in 1..n : queue'[l] = queue[j]
    OBVIOUS
  <2>2. \E l \in 1..Len(Only(queue, K)) : Only(queue, K)[l] = queue[j]
    BY <1>1, <2>1, OnlyComplete DEF N
  <2>3. QED
    BY <2>2, <1>2 DEF n
<1>5. queue' \in Seq(Records)
  BY <1>4
<1>6. /\ \A j, l \in 1..N : queue[j].mail = queue[l].mail => j = l
      /\ \A j \in 1..N : flight[queue[j].mail] = "none" /\ queue[j].mail \notin revoked
      /\ \A m \in revoked \cap Mails : flight[m] = "none"
      /\ \A m \in Mails : m \in entrusted <=> \/ \E j \in 1..N : queue[j].mail = m
                                            \/ flight[m] # "none"
                                            \/ m \in revoked
      /\ DroppedByStop
  <2>1. Apart(queue, flight, entrusted, revoked) /\ DroppedByStop
    BY NeverTwiceIs DEF MailInv
  <2>2. Placed(queue, flight, entrusted, revoked)
    BY <1>1, <2>1, NeverTwiceMeans DEF MailInv, MailTypeOK
  <2>3. QED
    BY <2>1, <2>2 DEF Placed, N
<1>7. Due = {m \in Mails : \E j \in 1..N : queue[j].mail = m /\ ~ Pending(queue[j])}
  BY <1>1 DEF Due
<1>8. Apart(queue', flight', entrusted', revoked')
  <2>1. \A j, l \in 1..n : queue'[j].mail = queue'[l].mail => j = l
    <3>1. SUFFICES ASSUME NEW j \in 1..n, NEW l \in 1..n, queue'[j].mail = queue'[l].mail
                   PROVE  j = l
      OBVIOUS
    <3>2. f[j] = f[l]
      BY <3>1, <1>4, <1>6
    <3>3. f[j] \in Int /\ f[l] \in Int
      BY <1>1, <1>4
    <3>4. QED
      BY <3>2, <3>3, <1>4
  <2>2. ASSUME NEW j \in 1..n
        PROVE  flight'[queue'[j].mail] = "none" /\ queue'[j].mail \notin revoked'
    <3>1. f[j] \in 1..N /\ queue'[j] = queue[f[j]] /\ Pending(queue[f[j]])
      BY <1>3, <1>4
    <3>2. queue'[j].mail \in Mails
      BY <3>1, <1>3 DEF Records
    <3>3. queue'[j].mail \notin Due
      BY <3>1, <1>6, <1>7
    <3>4. QED
      BY <3>1, <3>2, <3>3, <1>2, <1>6
  <2>3. \A m \in revoked' \cap Mails : flight'[m] = "none"
    BY <1>2, <1>6, <1>7
  <2>4. ASSUME NEW m \in Mails
        PROVE  m \in entrusted' <=> \/ \E j \in 1..n : queue'[j].mail = m
                                   \/ flight'[m] # "none"
                                   \/ m \in revoked'
    <3>1. ASSUME NEW j \in 1..N
          PROVE  \/ \E l \in 1..n : queue'[l].mail = queue[j].mail
                 \/ queue[j].mail \in Due /\ queue[j].mail \in Mails
      <4>1. CASE Pending(queue[j])
        BY <1>1, <1>3, <1>4, <1>l, <4>1 DEF N
      <4>2. CASE ~Pending(queue[j])
        BY <1>3, <1>7, <4>2 DEF Records
      <4>3. QED
        BY <4>1, <4>2
    <3>2. ASSUME NEW j \in 1..n PROVE \E l \in 1..N : queue[l].mail = queue'[j].mail
      BY <1>4
    <3>3. m \in Due => \E j \in 1..N : queue[j].mail = m
      BY <1>7
    <3>4. QED
      BY <3>1, <3>2, <3>3, <1>2, <1>6
  <2>5. QED
    <3>1. entrusted' \in SUBSET Mails /\ revoked' \in SUBSET Mails
      BY <1>2 DEF MailInv, MailTypeOK
    <3>2. Placed(queue', flight', entrusted', revoked')
      BY <2>1, <2>2, <2>3, <2>4 DEF Placed, n
    <3>3. QED
      BY <3>1, <3>2, <1>5, NeverTwiceMeans
<1>9. flight' \in [Mails -> {"none", "spawned", "sending", "sent", "dropped"}]
  BY <1>2 DEF MailInv, MailTypeOK
<1>10. \A m \in Mails : flight'[m] \in {"spawned", flight[m]}
  BY <1>2
<1>11. NeverTwice'
  <2>1. DroppedByStop'
    BY <1>2, <1>6, <1>10 DEF DroppedByStop
  <2>2. QED
    BY <1>8, <2>1, NeverTwiceIs
<1>12. QED
  BY <1>2, <1>5, <1>9, <1>10, <1>11 DEF MailInv, MailTypeOK, NothingAfterStop, Records

\* Every operation of the dispatcher keeps its invariant.
LEMMA MailPreserved == MailInv /\ MailNext /\ now' = now => MailInv'
<1> SUFFICES ASSUME MailInv, MailNext, now' = now PROVE MailInv'
  OBVIOUS
<1>1. ASSUME NEW n \in Mails, NEW i \in MailIds \cup {NoId}, NEW t \in SendTimes,
             QueueMessage(n, i, t)
      PROVE  MailInv'
  BY <1>1, DispatcherAssumption, QueueMessageKeeps
<1>2. ASSUME NEW i \in MailIds \cup Mails, CancelMessage(i) PROVE MailInv'
  BY <1>2, CancelMessageKeeps
<1>3. CASE ProcessQueue
  BY <1>3, ProcessQueueKeeps
<1>4. CASE LoopReturns
  BY <1>4 DEF LoopReturns, MailInv, MailTypeOK, NeverTwice, Queued, NothingAfterStop
<1>5. ASSUME NEW n \in Mails, CheckContext(n) PROVE MailInv'
  BY <1>5 DEF CheckContext, MailInv, MailTypeOK, NeverTwice, Queued, NothingAfterStop
<1>6. ASSUME NEW n \in Mails, Transmit(n) PROVE MailInv'
  BY <1>6 DEF Transmit, MailInv, MailTypeOK, NeverTwice, Queued, NothingAfterStop
<1>7. CASE StopCloses
  BY <1>7 DEF StopCloses, MailInv, MailTypeOK, NeverTwice, Queued, NothingAfterStop
<1>8. CASE StopCancels
  BY <1>8 DEF StopCancels, MailInv, MailTypeOK, NeverTwice, Queued, NothingAfterStop
<1>9. CASE StopReturns
  BY <1>9 DEF StopReturns, MailInv, MailTypeOK, NeverTwice, Queued, NothingAfterStop, InFlight
<1>10. QED
  BY <1>1, <1>2, <1>3, <1>4, <1>5, <1>6, <1>7, <1>8, <1>9 DEF MailNext, Goroutine

------------------------------------------------------------------------------
(***************************************************************************)
(* The hold queue.                                                         *)
(***************************************************************************)
Holdings == [letter : Letters, to : Recipients, min : 1..10, until : Nat]

\* The letters of the queue are different, and they are those that are held.
HeldInv ==
  /\ now \in Nat /\ held \in Seq(Holdings)
  /\ post \in [Letters -> {"new", "held", "sending", "sent", "failed"}]
  /\ HeldOnce

\* HeldOnce of a queue q and of what became of the letters.
Waiting(q, st) ==
  /\ IsInjective([i \in DOMAIN q |-> q[i].letter])
  /\ \A l \in Letters : st[l] = "held" <=> \E i \in DOMAIN q : q[i].letter = l

LEMMA HeldOnceIs == (HeldOnce <=> Waiting(held, post)) /\ (HeldOnce' <=> Waiting(held', post'))
BY DEF HeldOnce, Waiting

\* The same without the function.
LEMMA HeldOnceMeans ==
  ASSUME NEW q \in Seq(Holdings), NEW st
  PROVE  Waiting(q, st) <=>
             (/\ \A i, j \in 1..Len(q) : q[i].letter = q[j].letter => i = j
              /\ \A l \in Letters : st[l] = "held" <=> \E i \in 1..Len(q) : q[i].letter = l)
<1>1. DOMAIN q = 1..Len(q)
  BY LenProperties
<1>2. IsInjective([i \in DOMAIN q |-> q[i].letter])
        <=> \A i, j \in 1..Len(q) : q[i].letter = q[j].letter => i = j
  BY <1>1 DEF IsInjective
<1>3. QED
  BY <1>1, <1>2 DEF Waiting

LEMMA HeldInitial == ClockInit /\ HoldInit => HeldInv
<1> SUFFICES ASSUME ClockInit, HoldInit PROVE HeldInv
  OBVIOUS
<1>1. held = <<>> /\ held \in Seq(Holdings) /\ Len(held) = 0 /\ 1..Len(held) = {}
  BY EmptySeq DEF HoldInit
<1>2. post = [l \in Letters |-> "new"]
  BY DEF HoldInit
<1>3. Waiting(held, post)
  BY <1>1, <1>2, HeldOnceMeans
<1>4. QED
  BY <1>1, <1>2, <1>3, HeldOnceIs DEF ClockInit, HeldInv

LEMMA HeldStable == HeldInv /\ UNCHANGED <<held, post>> /\ now' \in Nat => HeldInv'
BY DEF HeldInv, HeldOnce

\* A letter that is held is new.
LEMMA HoldKeeps ==
  ASSUME HeldInv, now' = now, NEW l \in Letters, NEW r \in Recipients, NEW s \in Scores,
         NEW w \in MaxWaits, NEW q \in Nat, Hold(l, r, s, w, q)
  PROVE  HeldInv'
<1> DEFINE e == [letter |-> l, to |-> r, min |-> IF s = 0 THEN DefaultScore ELSE s,
                 until |-> q + IF w = 0 THEN DefaultWait ELSE w]
           N == Len(held)
<1>1. held \in Seq(Holdings) /\ N \in Nat
  BY LenProperties DEF HeldInv
<1>2. e \in Holdings /\ e.letter = l
  BY HoldQueueAssumption DEF Holdings, DefaultScore, DefaultWait
<1>3. held' = Append(held, e) /\ post[l] = "new" /\ post' = [post EXCEPT ![l] = "held"]
  BY DEF Hold
<1> HIDE DEF e
<1>4. /\ held' \in Seq(Holdings) /\ Len(held') = N + 1
      /\ \A j \in 1..N : held'[j] = held[j]
      /\ held'[N + 1] = e
  BY <1>1, <1>2, <1>3, AppendProperties
<1>5. /\ \A i, j \in 1..N : held[i].letter = held[j].letter => i = j
      /\ \A m \in Letters : post[m] = "held" <=> \E i \in 1..N : held[i].letter = m
  BY <1>1, HeldOnceIs, HeldOnceMeans DEF HeldInv
<1>6. \A j \in 1..N : held[j].letter # l
  BY <1>3, <1>5
<1>7. Waiting(held', post')
  <2>1. \A i, j \in 1..(N + 1) : held'[i].letter = held'[j].letter => i = j
    BY <1>1, <1>2, <1>4, <1>5, <1>6
  <2>2. ASSUME NEW m \in Letters
        PROVE  post'[m] = "held" <=> \E i \in 1..(N + 1) : held'[i].letter = m
    <3>1. CASE m = l
      <4>1. post'[m] = "held"
        BY <1>3, <3>1 DEF HeldInv
      <4>2. N + 1 \in 1..(N + 1) /\ held'[N + 1].letter = m
        BY <1>1, <1>2, <1>4, <3>1
      <4>3. QED
        BY <4>1, <4>2
    <3>2. CASE m # l
      <4>1. post'[m] = post[m]
        BY <1>3, <3>2 DEF HeldInv
      <4>2. (\E i \in 1..(N + 1) : held'[i].letter = m) <=> \E i \in 1..N : held[i].letter = m
        BY <1>1, <1>2, <1>4, <3>2, SMTT(30)
      <4>3. QED
        BY <4>1, <4>2, <1>5
    <3>3. QED
      BY <3>1, <3>2
  <2>3. QED
    BY <2>1, <2>2, <1>4, HeldOnceMeans
<1>8. QED
  BY <1>3, <1>4, <1>7, HeldOnceIs DEF HeldInv

\* A tick of the loop hands the ripe letters to goroutines and keeps the others.
LEMMA DispatchKeeps ==
  ASSUME HeldInv, now' = now, Dispatch
  PROVE  HeldInv'
<1> DEFINE N == Len(held)
           K == {m \in ToSet(held) : ~ Ripe(m)}
           n == Len(held')
           f == KeptFrom(held, K)
<1>1. held \in Seq(Holdings) /\ N \in Nat /\ DOMAIN held = 1..N
  BY LenProperties DEF HeldInv
<1>2. /\ held' = Only(held, K)
      /\ post' = [l \in Letters |-> IF \E i \in DOMAIN held : held[i].letter = l /\ Ripe(held[i])
                                    THEN "sending" ELSE post[l]]
  BY DEF Dispatch
<1>3. \A j \in 1..N : held[j] \in Holdings /\ (held[j] \in K <=> ~ Ripe(held[j]))
  BY <1>1, ElementOfSeq DEF ToSet
<1> HIDE DEF K, N, n, f
<1>4. /\ Only(held, K) \in Seq(Holdings) /\ Len(Only(held, K)) \in Nat
      /\ f \in [1..Len(Only(held, K)) -> 1..N]
      /\ \A j \in 1..Len(Only(held, K)) : Only(held, K)[j] = held[f[j]] /\ held[f[j]] \in K
      /\ \A i, j \in 1..Len(Only(held, K)) : i < j => f[i] < f[j]
      /\ \A k \in 1..N : held[k] \in K => \E j \in 1..Len(Only(held, K)) : f[j] = k
  <2>1. \A k \in 1..N : held[k] \in K => \E j \in 1..Len(Only(held, K)) : f[j] = k
    BY <1>1, OnlyComplete DEF f, N
  <2>2. QED
    BY <1>1, <2>1, OnlyProperties DEF f, N
<1>5. /\ held' \in Seq(Holdings) /\ n \in Nat /\ f \in [1..n -> 1..N]
      /\ \A j \in 1..n : held'[j] = held[f[j]] /\ held[f[j]] \in K
      /\ \A i, j \in 1..n : i < j => f[i] < f[j]
      /\ \A k \in 1..N : held[k] \in K => \E j \in 1..n : f[j] = k
  BY <1>2, <1>4 DEF n
<1>6. /\ \A i, j \in 1..N : held[i].letter = held[j].letter => i = j
      /\ \A m \in Letters : post[m] = "held" <=> \E i \in 1..N : held[i].letter = m
  BY <1>1, HeldOnceIs, HeldOnceMeans DEF HeldInv, N
<1>7. Waiting(held', post')
  <2>1. ASSUME NEW i \in 1..n, NEW j \in 1..n, held'[i].letter = held'[j].letter
        PROVE  i = j
    <3>0. held[f[i]].letter = held[f[j]].letter /\ f[i] \in 1..N /\ f[j] \in 1..N
      BY <2>1, <1>5
    <3>1. f[i] = f[j]
      BY <3>0, <1>6
    <3>2. f[i] \in Int /\ f[j] \in Int
      BY <1>5, <1>1
    <3>3. QED
      BY <3>1, <3>2, <1>5
  <2>2. ASSUME NEW m \in Letters
        PROVE  post'[m] = "held" <=> \E i \in 1..n : held'[i].letter = m
    <3>1. CASE \E i \in 1..N : held[i].letter = m /\ Ripe(held[i])
      <4>1. post'[m] = "sending"
        BY <1>1, <1>2, <3>1
      <4>2. ASSUME NEW i \in 1..n, held'[i].letter = m PROVE FALSE
        <5>1. f[i] \in 1..N /\ held[f[i]].letter = m /\ ~ Ripe(held[f[i]])
          BY <1>3, <1>5, <4>2
        <5>2. QED
          BY <5>1, <1>6, <3>1
      <4>3. QED
        BY <4>1, <4>2
    <3>2. CASE ~ \E i \in 1..N : held[i].letter = m /\ Ripe(held[i])
      <4>1. post'[m] = post[m]
        BY <1>1, <1>2, <3>2
      <4>2. (\E i \in 1..n : held'[i].letter = m) => \E i \in 1..N : held[i].letter = m
        BY <1>5, SMTT(30)
      <4>3. (\E i \in 1..N : held[i].letter = m) => \E i \in 1..n : held'[i].letter = m
        BY <1>3, <1>5, <3>2
      <4>4. QED
        BY <4>1, <4>2, <4>3, <1>6
    <3>3. QED
      BY <3>1, <3>2
  <2>3. QED
    BY <2>1, <2>2, <1>5, HeldOnceMeans DEF n
<1>8. post' \in [Letters -> {"new", "held", "sending", "sent", "failed"}]
  BY <1>2 DEF HeldInv
<1>9. QED
  BY <1>5, <1>7, <1>8, HeldOnceIs DEF HeldInv

\* Every operation of the hold queue keeps its invariant.
LEMMA HeldPreserved == HeldInv /\ HoldNext /\ now' = now => HeldInv'
<1> SUFFICES ASSUME HeldInv, HoldNext, now' = now PROVE HeldInv'
  OBVIOUS
<1>0. now \in Nat
  BY DEF HeldInv
<1>1. ASSUME NEW l \in Letters, NEW r \in Recipients, NEW s \in Scores, NEW w \in MaxWaits,
             Hold(l, r, s, w, now)
      PROVE  HeldInv'
  BY <1>0, <1>1, HoldKeeps
<1>2. CASE Dispatch
  BY <1>2, DispatchKeeps
<1>3. ASSUME NEW l \in Letters, SendHeld(l) PROVE HeldInv'
  BY <1>3 DEF SendHeld, HeldInv, HeldOnce
<1>4. CASE UNCHANGED <<held, post>>
  BY <1>0, <1>4, HeldStable
<1>5. QED
  BY <1>1, <1>2, <1>3, <1>4
     DEF HoldNext, TrackOpen, ProbeStarts, ProbeEnds, HoldStop, HoldLoopReturns

------------------------------------------------------------------------------
(***************************************************************************)
(* The tracker: the windows its reports recommend.                         *)
(***************************************************************************)

\* A set of naturals below a bound has a maximum; any has a minimum.
LEMMA MaxIs ==
  ASSUME NEW S \in SUBSET Nat, S # {}, NEW b \in Nat, \A x \in S : x <= b
  PROVE  Max(S) \in S /\ \A x \in S : Max(S) >= x
<1> DEFINE T == {b - x : x \in S}
<1>1. T \in SUBSET Nat /\ T # {}
  <2>1. \A x \in S : b - x \in Nat
    OBVIOUS
  <2>2. QED
    BY <2>1
<1>2. PICK m \in T : \A n \in T : m <= n
  <2> HIDE DEF T
  <2>1. QED
    BY <1>1, NatLeast
<1>3. PICK x \in S : m = b - x
  BY <1>2
<1>4. \A y \in S : x >= y
  BY <1>2, <1>3
<1>5. QED
  BY <1>4 DEF Max

LEMMA MinIs ==
  ASSUME NEW S \in SUBSET Nat, S # {}
  PROVE  Min(S) \in S /\ \A x \in S : Min(S) <= x
BY NatLeast DEF Min

Patterns ==
  {p \in [samples : Nat, scale : Nat \ {0}, hours : [0..23 -> Nat], days : [0..6 -> Nat]] :
     /\ \A h \in 0..23 : p.hours[h] <= p.scale
     /\ p.samples > 0 => \E h \in 0..23 : p.hours[h] > 0}

\* Hours and minutes of a day.
LEMMA DayArithmetic ==
  ASSUME NEW t \in Nat
  PROVE  /\ HourOf(t) \in 0..23 /\ WeekdayOf(t) \in 0..6
         /\ Midnight(t) \in Nat /\ Midnight(t) <= t /\ t < Midnight(t) + Day
         /\ \E n \in Nat : Midnight(t) = Day * n
BY DEF HourOf, WeekdayOf, Midnight, Day

\* The hour of an hour.
LEMMA OnTheHour ==
  ASSUME NEW n \in Nat, NEW h \in 0..23
  PROVE  /\ HourOf(Day * n + h * 60) = h
         /\ (Day * n + h * 60) % 60 = 0
BY DEF HourOf, Day

\* An open keeps the weights within their scale; the hour it happened in, and each hour
\* that has had one, weighs something.
LEMMA RecordOpenKeeps ==
  ASSUME NEW p \in Patterns, NEW t \in Nat
  PROVE  /\ RecordOpen(p, t) \in Patterns
         /\ \A h \in 0..23 : p.hours[h] > 0 => RecordOpen(p, t).hours[h] > 0
<1> DEFINE q == RecordOpen(p, t)
<1>1. HourOf(t) \in 0..23
  BY DayArithmetic
<1>2. /\ q.samples = p.samples + 1 /\ q.scale = 230 * p.scale
      /\ q.hours = [h \in 0..23 |-> IF h = HourOf(t) THEN 207 * p.hours[h] + 23 * p.scale
                                                   ELSE 229 * p.hours[h]]
      /\ q.days = [d \in 0..6 |-> IF d = WeekdayOf(t) THEN 207 * p.days[d] + 23 * p.scale
                                                    ELSE 230 * p.days[d]]
      /\ q = [samples |-> q.samples, scale |-> q.scale, hours |-> q.hours, days |-> q.days]
  BY DEF RecordOpen
<1>3. /\ p.samples \in Nat /\ p.scale \in Nat \ {0}
      /\ \A h \in 0..23 : p.hours[h] \in Nat /\ p.hours[h] <= p.scale
      /\ \A d \in 0..6 : p.days[d] \in Nat
  BY DEF Patterns
<1> HIDE DEF q
<1>4. \A h \in 0..23 : q.hours[h] \in Nat /\ q.hours[h] <= q.scale
  BY <1>2, <1>3
<1>5. \A d \in 0..6 : q.days[d] \in Nat
  BY <1>2, <1>3
<1>6. q.hours[HourOf(t)] > 0
  <2>1. q.hours[HourOf(t)] = 207 * p.hours[HourOf(t)] + 23 * p.scale
    BY <1>1, <1>2
  <2>2. QED
    BY <1>1, <1>3, <2>1
<1>7. q \in [samples : Nat, scale : Nat \ {0}, hours : [0..23 -> Nat], days : [0..6 -> Nat]]
  BY <1>2, <1>3, <1>4, <1>5, SMTT(30)
<1>8. q \in Patterns
  BY <1>1, <1>4, <1>6, <1>7 DEF Patterns
<1>9. \A h \in 0..23 : p.hours[h] > 0 => q.hours[h] > 0
  BY <1>2, <1>3
<1>10. QED
  BY <1>8, <1>9 DEF q

\* The window that a pattern with samples gives is ahead, on an hour that had an open.
LEMMA NextBestWindowIsAhead ==
  ASSUME NEW p \in Patterns, p.samples > 0, NEW t \in Nat
  PROVE  /\ NextBestWindow(p, t) \in Nat
         /\ NextBestWindow(p, t) > t /\ NextBestWindow(p, t) < t + 5 + Day
         /\ NextBestWindow(p, t) < t + 5 => NextBestWindow(p, t) % Day = 0
         /\ NextBestWindow(p, t) % 60 = 0
         /\ HourOf(NextBestWindow(p, t)) \in 0..23
         /\ p.hours[HourOf(NextBestWindow(p, t))] > 0
<1> DEFINE weights == {p.hours[h] : h \in 0..23}
           best == {h \in 0..23 : p.hours[h] = MaxHourWeight(p)}
           b == BestHour(p)
           w == NextBestWindow(p, t)
<1>1. weights \in SUBSET Nat /\ weights # {} /\ p.scale \in Nat /\ \A x \in weights : x <= p.scale
  <2>1. 0 \in 0..23
    OBVIOUS
  <2>2. QED
    BY <2>1 DEF Patterns
<1>2. MaxHourWeight(p) \in weights /\ \A x \in weights : MaxHourWeight(p) >= x
  <2>1. MaxHourWeight(p) = Max(weights)
    BY DEF MaxHourWeight
  <2> HIDE DEF weights
  <2>2. QED
    BY <2>1, <1>1, MaxIs
<1>3. MaxHourWeight(p) > 0
  <2>1. PICK h \in 0..23 : p.hours[h] > 0
    BY DEF Patterns
  <2>2. p.hours[h] \in weights
    OBVIOUS
  <2> HIDE DEF weights
  <2>3. MaxHourWeight(p) \in Nat /\ p.hours[h] \in Nat /\ MaxHourWeight(p) >= p.hours[h]
    BY <1>1, <1>2, <2>2
  <2>4. QED
    BY <2>1, <2>3
<1>4. b \in best
  <2>1. b = Min(best) /\ best \in SUBSET Nat /\ best # {}
    BY <1>2 DEF BestHour
  <2> HIDE DEF best, b
  <2>2. QED
    BY <2>1, MinIs
<1>5. b \in 0..23 /\ p.hours[b] > 0
  BY <1>3, <1>4
<1>6. PICK n \in Nat : Midnight(t) = Day * n /\ Midnight(t) <= t /\ t < Midnight(t) + Day
  BY DayArithmetic
<1>7. w = IF Day * n + b * 60 < t + 5 THEN Day * n + b * 60 + Day ELSE Day * n + b * 60
  BY <1>6 DEF NextBestWindow
<1> HIDE DEF b, w
<1>8. \E m \in Nat : w = Day * m + b * 60
  <2>1. w \in {Day * n + b * 60, Day * (n + 1) + b * 60}
    BY <1>5, <1>7 DEF Day
  <2>2. QED
    BY <2>1
<1>9. w > t /\ w < t + 5 + Day /\ (w < t + 5 => b = 0)
  BY <1>5, <1>6, <1>7 DEF Day
<1>10. PICK m \in Nat : w = Day * m + b * 60
  BY <1>8
<1>11. w \in Nat /\ HourOf(w) = b /\ w % 60 = 0
  BY <1>5, <1>10, OnTheHour DEF Day
<1>12. b = 0 => w % Day = 0
  BY <1>10 DEF Day
<1>13. QED
  BY <1>5, <1>9, <1>11, <1>12 DEF w

\* The patterns are patterns, probes are dated, and WindowIsAhead.
TrackerInv ==
  /\ now \in Nat /\ patterns \in [Recipients -> Patterns]
  /\ DOMAIN reports = Recipients
  /\ \A q \in probing : q.of \in Recipients /\ q.at \in Nat
  /\ \A r \in Recipients :
       reports[r] # NoReport =>
         reports[r].at \in Nat /\ reports[r].window \in Nat /\ HourOf(reports[r].window) \in 0..23
  /\ WindowIsAhead

LEMMA TrackerInitial == ClockInit /\ TrackerInit => TrackerInv
<1> SUFFICES ASSUME ClockInit, TrackerInit PROVE TrackerInv
  OBVIOUS
<1>1. NoOpens \in Patterns
  BY DEF NoOpens, Patterns
<1>2. QED
  BY <1>1 DEF ClockInit, TrackerInit, TrackerInv, WindowIsAhead

LEMMA TrackerStable ==
  TrackerInv /\ UNCHANGED <<patterns, reports, probing>> /\ now' \in Nat => TrackerInv'
BY DEF TrackerInv, WindowIsAhead

LEMMA TrackOpenKeeps ==
  ASSUME TrackerInv, now' = now, NEW r \in Recipients, NEW t \in Nat, TrackOpen(r, t)
  PROVE  TrackerInv'
<1> DEFINE q == RecordOpen(patterns[r], t)
<1>1. q \in Patterns /\ \A h \in 0..23 : patterns[r].hours[h] > 0 => q.hours[h] > 0
  BY RecordOpenKeeps DEF TrackerInv
<1>2. patterns' = [patterns EXCEPT ![r] = q] /\ UNCHANGED <<reports, probing>>
  BY DEF TrackOpen
<1> HIDE DEF q
<1>3. patterns' \in [Recipients -> Patterns]
  BY <1>1, <1>2 DEF TrackerInv
<1>4. \A s \in Recipients, h \in 0..23 : patterns[s].hours[h] > 0 => patterns'[s].hours[h] > 0
  BY <1>1, <1>2 DEF TrackerInv
<1>5. WindowIsAhead'
  BY <1>2, <1>4 DEF WindowIsAhead, TrackerInv
<1>6. QED
  BY <1>2, <1>3, <1>5 DEF TrackerInv

LEMMA ProbeEndsKeeps ==
  ASSUME TrackerInv, now' = now, NEW q \in probing, NEW answer, ProbeEnds(q, answer)
  PROVE  TrackerInv'
<1> DEFINE p == patterns[q.of]
           score == Aggregate(answer, p, q.at)
           w == IF p.samples = 0 THEN q.at + 60 ELSE NextBestWindow(p, q.at)
           rep == [score |-> score, state |-> ScoreToState(score), at |-> q.at, window |-> w]
<1>1. q.of \in Recipients /\ q.at \in Nat /\ p \in Patterns
  BY DEF TrackerInv
<1>2. /\ probing' = probing \ {q} /\ patterns' = patterns
      /\ reports' = [reports EXCEPT ![q.of] = rep]
  BY DEF ProbeEnds
<1>3. rep.at = q.at /\ rep.window = w
  OBVIOUS
<1> HIDE DEF rep
<1>4. /\ w \in Nat /\ HourOf(w) \in 0..23
      /\ w > q.at /\ w < q.at + 5 + Day
      /\ w < q.at + 5 => w % Day = 0
      /\ w # q.at + 60 => w % 60 = 0 /\ p.hours[HourOf(w)] > 0
  <2>1. CASE p.samples = 0
    BY <1>1, <2>1, DayArithmetic DEF Day
  <2>2. CASE p.samples # 0
    <3>1. p.samples > 0
      BY <1>1, <2>2 DEF Patterns
    <3>2. w = NextBestWindow(p, q.at)
      BY <2>2
    <3> HIDE DEF w, p
    <3>3. QED
      BY <1>1, <3>1, <3>2, NextBestWindowIsAhead
  <2>3. QED
    BY <2>1, <2>2
<1> HIDE DEF w, p
<1>5. /\ DOMAIN reports' = Recipients
      /\ \A r \in Recipients : reports'[r] = IF r = q.of THEN rep ELSE reports[r]
  BY <1>1, <1>2 DEF TrackerInv
<1>6. WindowIsAhead'
  <2> SUFFICES ASSUME NEW r \in Recipients, reports'[r] # NoReport
               PROVE  /\ reports'[r].window > reports'[r].at
                      /\ reports'[r].window < reports'[r].at + 5 + Day
                      /\ reports'[r].window < reports'[r].at + 5 => reports'[r].window % Day = 0
                      /\ reports'[r].window # reports'[r].at + 60 =>
                            /\ reports'[r].window % 60 = 0
                            /\ patterns'[r].hours[HourOf(reports'[r].window)] > 0
    BY DEF WindowIsAhead
  <2>1. CASE r = q.of
    BY <1>2, <1>3, <1>4, <1>5, <2>1 DEF p
  <2>2. CASE r # q.of
    BY <1>2, <1>5, <2>2 DEF TrackerInv, WindowIsAhead
  <2>3. QED
    BY <2>1, <2>2
<1>7. QED
  BY <1>1, <1>2, <1>3, <1>4, <1>5, <1>6 DEF TrackerInv

\* Every operation of the tracker and of the hold queue keeps the tracker's invariant.
LEMMA TrackerPreserved == TrackerInv /\ HoldNext /\ now' = now => TrackerInv'
<1> SUFFICES ASSUME TrackerInv, HoldNext, now' = now PROVE TrackerInv'
  OBVIOUS
<1>0. now \in Nat
  BY DEF TrackerInv
<1>1. ASSUME NEW r \in Recipients, NEW t \in OpenTimes, TrackOpen(r, t) PROVE TrackerInv'
  BY <1>1, TrackOpenKeeps, HoldQueueAssumption
<1>2. ASSUME NEW r \in Recipients, NEW m \in Minutes, ProbeStarts(r, 60 * now + m)
      PROVE  TrackerInv'
  <2>1. 60 * now + m \in Nat
    BY <1>0, HoldQueueAssumption
  <2>2. QED
    BY <1>2, <2>1 DEF ProbeStarts, TrackerInv, WindowIsAhead
<1>3. ASSUME NEW q \in probing, NEW answer \in Answers, ProbeEnds(q, answer) PROVE TrackerInv'
  BY <1>3, ProbeEndsKeeps
<1>4. CASE UNCHANGED <<patterns, reports, probing>>
  BY <1>0, <1>4, TrackerStable
<1>5. QED
  BY <1>1, <1>2, <1>3, <1>4
     DEF HoldNext, Hold, Dispatch, SendHeld, HoldStop, HoldLoopReturns

------------------------------------------------------------------------------
(***************************************************************************)
(* The advice: the calendar.                                               *)
(***************************************************************************)

\* f has the candidate after each of the first N slots.
IsPass(f, t, busy, order, N) ==
  f = [n \in 0..N |-> IF n = 0 THEN t ELSE AfterSlot(f[n - 1], busy[order[n]])]

LEMMA PassExists ==
  ASSUME NEW t, NEW busy, NEW order, NEW N \in Nat
  PROVE  \E f : IsPass(f, t, busy, order, N)
<1> DEFINE Pass(f, k) ==
             f = [n \in 0..k |-> IF n = 0 THEN t ELSE AfterSlot(f[n - 1], busy[order[n]])]
           bad == {k \in Nat : ~ \E f : Pass(f, k)}
<1>0. SUFFICES \E f : Pass(f, N)
  BY DEF IsPass
<1>1. SUFFICES ASSUME bad # {} PROVE FALSE
  BY <1>1
<1>2. PICK k \in bad : \A m \in bad : k <= m
  BY <1>1, NatLeast
<1>3. k # 0
  <2> DEFINE g == [n \in 0..0 |-> t]
  <2>1. Pass(g, 0)
    OBVIOUS
  <2>2. QED
    BY <2>1
<1>4. PICK f : Pass(f, k - 1)
  <2> HIDE DEF Pass
  <2>1. k - 1 \in Nat /\ k - 1 \notin bad
    BY <1>2, <1>3
  <2>2. QED
    BY <2>1
<1> DEFINE g == [n \in 0..k |-> IF n < k THEN f[n] ELSE AfterSlot(f[k - 1], busy[order[k]])]
<1>5. \A n \in 0..k : g[n] = IF n = 0 THEN t ELSE AfterSlot(g[n - 1], busy[order[n]])
  BY <1>2, <1>3, <1>4
<1>6. Pass(g, k)
  <2>1. g = [n \in 0..k |-> g[n]]
    OBVIOUS
  <2> HIDE DEF g
  <2>2. QED
    BY <1>5, <2>1
<1>7. QED
  BY <1>2, <1>6

Passes(f, t, busy, order, N) ==
  f[0] = t /\ \A n \in 1..N : f[n] = AfterSlot(f[n - 1], busy[order[n]])

LEMMA FindNextFreeIs ==
  ASSUME NEW t, NEW busy, NEW order, NEW N \in Nat, Len(busy) = N
  PROVE  \E f : Passes(f, t, busy, order, N) /\ FindNextFree(t, busy, order) = f[N]
<1> DEFINE f == CHOOSE f : IsPass(f, t, busy, order, N)
<1>1. IsPass(f, t, busy, order, N)
  BY PassExists
<1>2. FindNextFree(t, busy, order) = f[N]
  BY DEF FindNextFree, IsPass
<1> HIDE DEF f
<1>3. f = [n \in 0..N |-> IF n = 0 THEN t ELSE AfterSlot(f[n - 1], busy[order[n]])]
  BY <1>1 DEF IsPass
<1>4. Passes(f, t, busy, order, N)
  BY <1>3 DEF Passes
<1>5. QED
  BY <1>2, <1>4

\* A pass over sorted slots ends outside of all of them: had it passed one by, being
\* before its start, no later slot could have moved it into that one.
LEMMA NextFreeIsFree ==
  ASSUME NEW busy \in Seq([start : Nat, end : Nat]), NEW t \in Nat, NEW order \in Sortings(busy)
  PROVE  LET c == FindNextFree(t, busy, order) IN
         /\ c \in Nat /\ c >= t
         /\ \A i \in DOMAIN busy : ~Clashes(c, busy[i])
         /\ (\A i \in DOMAIN busy : ~Clashes(t, busy[i])) => c = t
<1> DEFINE N == Len(busy)
           s(n) == busy[order[n]]
<1>1. N \in Nat /\ DOMAIN busy = 1..N
  BY LenProperties
<1>2. /\ \A n \in 1..N : order[n] \in 1..N
      /\ \A i \in 1..N : \E n \in 1..N : order[n] = i
      /\ \A i, j \in 1..N : i < j => s(i).start <= s(j).start
  <2>1. order \in Bijection(1..N, 1..N) /\ \A i, j \in 1..N : i < j => s(i).start <= s(j).start
    BY <1>1 DEF Sortings
  <2>2. QED
    BY <2>1 DEF Bijection, Injection, Surjection
<1>3. \A n \in 1..N : s(n).start \in Nat /\ s(n).end \in Nat
  <2>1. \A i \in 1..N : busy[i] \in [start : Nat, end : Nat]
    BY ElementOfSeq
  <2>2. QED
    BY <1>2, <2>1
<1> HIDE DEF N
<1>4. PICK f : /\ f[0] = t
               /\ \A n \in 1..N : f[n] = AfterSlot(f[n - 1], s(n))
               /\ FindNextFree(t, busy, order) = f[N]
  <2>1. Len(busy) = N
    BY DEF N
  <2>2. PICK f : Passes(f, t, busy, order, N) /\ FindNextFree(t, busy, order) = f[N]
    BY <1>1, <2>1, FindNextFreeIs
  <2>3. QED
    BY <2>2 DEF Passes
<1> HIDE DEF s
<1>5. \A n \in 0..N : f[n] \in Nat
  <2> DEFINE bad == {n \in 0..N : f[n] \notin Nat}
  <2>1. SUFFICES ASSUME bad # {} PROVE FALSE
    BY <2>1
  <2>2. PICK n \in bad : \A m \in bad : n <= m
    <3>1. bad \in SUBSET Nat
      BY <1>1
    <3> HIDE DEF bad
    <3>2. QED
      BY <2>1, <3>1, NatLeast
  <2>3. n \in 1..N /\ n - 1 \in 0..N /\ n - 1 \notin bad
    BY <1>1, <1>4, <2>2
  <2>4. f[n - 1] \in Nat /\ s(n).end + 5 \in Nat
    BY <1>3, <2>3
  <2>5. f[n] = f[n - 1] \/ f[n] = s(n).end + 5
    BY <1>4, <2>3 DEF AfterSlot
  <2>6. QED
    BY <2>2, <2>4, <2>5
<1>6. \A n \in 1..N : f[n - 1] \in Nat /\ f[n] >= f[n - 1]
  <2> SUFFICES ASSUME NEW n \in 1..N PROVE f[n - 1] \in Nat /\ f[n] >= f[n - 1]
    OBVIOUS
  <2>1. n - 1 \in 0..N
    BY <1>1
  <2>2. QED
    BY <1>3, <1>4, <1>5, <2>1 DEF AfterSlot, Clashes
<1>7. \A n \in 0..N : \A m \in 0..n : f[m] <= f[n]
  <2> DEFINE bad == {n \in 0..N : \E m \in 0..n : ~(f[m] <= f[n])}
  <2>1. SUFFICES ASSUME bad # {} PROVE FALSE
    BY <2>1
  <2>2. PICK n \in bad : \A m \in bad : n <= m
    <3>1. bad \in SUBSET Nat
      BY <1>1
    <3> HIDE DEF bad
    <3>2. QED
      BY <2>1, <3>1, NatLeast
  <2>3. PICK m \in 0..n : ~(f[m] <= f[n])
    BY <2>2
  <2>4. m # n /\ n \in 1..N
    BY <1>1, <1>5, <2>2, <2>3
  <2>5. n - 1 \in 0..N /\ n - 1 \notin bad /\ m \in 0..(n - 1)
    BY <1>1, <2>2, <2>3, <2>4
  <2>6. f[m] <= f[n - 1]
    BY <2>5
  <2>7. f[m] \in Nat /\ f[n] \in Nat
    BY <1>1, <1>5, <2>4, <2>5
  <2>8. QED
    BY <1>6, <2>3, <2>4, <2>6, <2>7
<1>8. ASSUME NEW i \in 1..N, Clashes(f[N], s(i)) PROVE FALSE
  <2>1. i - 1 \in 0..N /\ i \in 0..N /\ N \in 0..N /\ i \in 0..N /\ i - 1 \in 0..N
    BY <1>1
  <2>2. f[N] < s(i).end /\ f[N] >= s(i).start /\ f[i] <= f[N] /\ f[i - 1] <= f[N]
        /\ f[N] \in Nat /\ f[i] \in Nat /\ f[i - 1] \in Nat
    BY <1>1, <1>5, <1>7, <1>8, <2>1 DEF Clashes
  <2>3. f[i - 1] < s(i).start /\ f[i] = f[i - 1]
    BY <1>3, <1>4, <2>2 DEF AfterSlot, Clashes
  <2>4. \A j \in i..N : f[j] = f[i - 1]
    <3> DEFINE bad == {j \in i..N : f[j] # f[i - 1]}
    <3>1. SUFFICES ASSUME bad # {} PROVE FALSE
      BY <3>1
    <3>2. PICK j \in bad : \A m \in bad : j <= m
      <4>1. bad \in SUBSET Nat
        BY <1>1
      <4> HIDE DEF bad
      <4>2. QED
        BY <3>1, <4>1, NatLeast
    <3>3. j \in 1..N /\ i < j /\ j - 1 \in i..N /\ j - 1 \notin bad
      BY <1>1, <2>3, <3>2
    <3>4. f[j - 1] = f[i - 1] /\ s(i).start <= s(j).start
      BY <1>2, <3>3
    <3>5. f[j - 1] < s(j).start
      BY <1>3, <2>2, <2>3, <3>3, <3>4
    <3>6. f[j] = f[j - 1]
      BY <1>3, <1>4, <2>2, <3>3, <3>4, <3>5 DEF AfterSlot, Clashes
    <3>7. QED
      BY <3>2, <3>4, <3>6
  <2>5. f[N] = f[i - 1]
    BY <1>1, <2>4
  <2>6. QED
    BY <1>3, <2>2, <2>3, <2>5
<1>9. ASSUME \A i \in 1..N : ~Clashes(t, busy[i]) PROVE f[N] = t
  <2>1. \A n \in 1..N : ~Clashes(t, s(n))
    BY <1>2, <1>9 DEF s
  <2> DEFINE bad == {n \in 0..N : f[n] # t}
  <2>2. ASSUME bad # {} PROVE FALSE
    <3>1. PICK n \in bad : \A m \in bad : n <= m
      <4>1. bad \in SUBSET Nat
        BY <1>1
      <4> HIDE DEF bad
      <4>2. QED
        BY <2>2, <4>1, NatLeast
    <3>2. n \in 1..N /\ n - 1 \in 0..N /\ n - 1 \notin bad
      BY <1>1, <1>4, <3>1
    <3>3. QED
      BY <1>4, <2>1, <3>1, <3>2 DEF AfterSlot
  <2>3. N \in 0..N
    BY <1>1
  <2>4. QED
    BY <2>2, <2>3
<1>10. f[N] \in Nat /\ f[N] >= t
  <2>1. N \in 0..N /\ 0 \in 0..N
    BY <1>1
  <2>2. QED
    BY <1>4, <1>5, <1>7, <2>1
<1>11. \A i \in 1..N : ~Clashes(f[N], busy[i])
  BY <1>2, <1>8 DEF s
<1>12. QED
  BY <1>1, <1>4, <1>9, <1>10, <1>11

------------------------------------------------------------------------------
(***************************************************************************)
(* The advice: the next occurrence of an hour of the week.                 *)
(***************************************************************************)

\* The hour, n days on; and whether it is what is looked for.
OnDay(from, hour, n) == Midnight(from) + hour * 60 + n * Day

Occurs(from, day, hour, n) ==
  WeekdayOf(OnDay(from, hour, n)) = day /\ OnDay(from, hour, n) >= from

\* n is the first day from k on.
FirstDay(from, day, hour, k, n) ==
  /\ n \in Nat /\ n >= k /\ Occurs(from, day, hour, n)
  /\ \A j \in Nat : j >= k /\ Occurs(from, day, hour, j) => n <= j

\* Within a week from now, and each week after that.
LEMMA WithinAWeek ==
  ASSUME NEW from \in Nat, NEW day \in 0..6, NEW hour \in 0..23
  PROVE  /\ \E m \in 0..7 : Occurs(from, day, hour, m)
         /\ \A k \in Nat : \E n : FirstDay(from, day, hour, k, n)
<1>1. PICK q \in Nat : Midnight(from) = Day * q /\ Midnight(from) <= from /\ from < Midnight(from) + Day
  BY DayArithmetic
<1>2. \A n \in Nat : /\ OnDay(from, hour, n) \in Nat
                     /\ WeekdayOf(OnDay(from, hour, n)) = (q + n) % 7
                     /\ n >= 1 => OnDay(from, hour, n) >= from
  <2> SUFFICES ASSUME NEW n \in Nat
               PROVE  /\ OnDay(from, hour, n) \in Nat
                      /\ WeekdayOf(OnDay(from, hour, n)) = (q + n) % 7
                      /\ n >= 1 => OnDay(from, hour, n) >= from
    OBVIOUS
  <2>1. OnDay(from, hour, n) = 1440 * (q + n) + hour * 60
    BY <1>1 DEF OnDay, Day
  <2>2. (1440 * (q + n) + hour * 60) \div 1440 = q + n
    OBVIOUS
  <2>3. WeekdayOf(OnDay(from, hour, n)) = (q + n) % 7
    BY <2>1, <2>2 DEF WeekdayOf, Day
  <2>4. from < 1440 * (q + 1)
    BY <1>1 DEF Day
  <2>5. QED
    BY <2>1, <2>3, <2>4
<1> DEFINE r == q % 7
           d == IF day >= r THEN day - r ELSE day - r + 7
<1>3. r \in 0..6 /\ d \in 0..6 /\ (q + d) % 7 = day /\ (q + (d + 7)) % 7 = day
  <2>1. r \in 0..6 /\ d \in 0..6 /\ r + d \in {day, day + 7}
    OBVIOUS
  <2>2. PICK k \in Nat : q = 7 * k + r
    <3>1. q \div 7 \in Nat /\ q = 7 * (q \div 7) + (q % 7)
      OBVIOUS
    <3>2. QED
      BY <3>1
  <2> HIDE DEF r, d
  <2>3. q + d \in {7 * k + day, 7 * (k + 1) + day}
    BY <2>1, <2>2
  <2>4. QED
    BY <2>1, <2>3
<1> HIDE DEF r, d
<1>4. Occurs(from, day, hour, d) \/ Occurs(from, day, hour, d + 7)
  BY <1>2, <1>3 DEF Occurs
<1>5. \E m \in 0..7 : Occurs(from, day, hour, m)
  <2>1. CASE d = 0
    BY <1>3, <1>4, <2>1
  <2>2. CASE d # 0
    <3>1. d \in Nat /\ d >= 1
      BY <1>3, <2>2
    <3>2. Occurs(from, day, hour, d)
      BY <1>2, <1>3, <3>1 DEF Occurs
    <3>3. QED
      BY <1>3, <3>2
  <2>3. QED
    BY <2>1, <2>2
<1>6. ASSUME NEW k \in Nat PROVE \E n : FirstDay(from, day, hour, k, n)
  <2> DEFINE S == {n \in Nat : n >= k /\ Occurs(from, day, hour, n)}
  <2>1. PICK m \in 0..7 : Occurs(from, day, hour, m)
    BY <1>5
  <2>2. (q + m) % 7 = day
    BY <1>2, <2>1 DEF Occurs
  <2>3. (q + (m + 7 * (k + 1))) % 7 = day
    <3>1. q + (m + 7 * (k + 1)) = (q + m) + 7 * (k + 1)
      OBVIOUS
    <3>2. ((q + m) + 7 * (k + 1)) % 7 = (q + m) % 7
      OBVIOUS
    <3>3. QED
      BY <2>2, <3>1, <3>2
  <2>4. m + 7 * (k + 1) \in S
    BY <1>2, <2>3 DEF Occurs
  <2>5. PICK n \in S : \A j \in S : n <= j
    <3>1. S \in SUBSET Nat
      OBVIOUS
    <3> HIDE DEF S
    <3>2. QED
      BY <2>4, <3>1, NatLeast
  <2>6. QED
    BY <2>5 DEF FirstDay
<1>7. QED
  BY <1>5, <1>6

\* f has what is found from each day on.
IsWalk(f, from, day, hour) ==
  f = [n \in Nat |-> IF WeekdayOf(OnDay(from, hour, n)) = day /\ OnDay(from, hour, n) >= from
                     THEN OnDay(from, hour, n) ELSE f[n + 1]]

LEMMA WalkExists ==
  ASSUME NEW from \in Nat, NEW day \in 0..6, NEW hour \in 0..23
  PROVE  \E f : IsWalk(f, from, day, hour)
<1> DEFINE fd(k) == CHOOSE n : FirstDay(from, day, hour, k, n)
           g == [k \in Nat |-> OnDay(from, hour, fd(k))]
<1>1. \A k \in Nat : FirstDay(from, day, hour, k, fd(k))
  BY WithinAWeek
<1> HIDE DEF fd
<1>2. ASSUME NEW k \in Nat, Occurs(from, day, hour, k) PROVE fd(k) = k
  <2>1. fd(k) \in Nat /\ fd(k) >= k /\ fd(k) <= k
    BY <1>1, <1>2 DEF FirstDay
  <2>2. QED
    BY <2>1
<1>3. ASSUME NEW k \in Nat, ~Occurs(from, day, hour, k) PROVE fd(k) = fd(k + 1)
  <2>1. FirstDay(from, day, hour, k, fd(k)) /\ FirstDay(from, day, hour, k + 1, fd(k + 1))
    BY <1>1
  <2>2. fd(k) \in Nat /\ fd(k + 1) \in Nat /\ fd(k) >= k + 1 /\ fd(k + 1) >= k
    BY <1>3, <2>1 DEF FirstDay
  <2>3. fd(k) <= fd(k + 1) /\ fd(k + 1) <= fd(k)
    BY <2>1, <2>2 DEF FirstDay
  <2>4. QED
    BY <2>2, <2>3
<1>4. \A k \in Nat : g[k] = IF Occurs(from, day, hour, k) THEN OnDay(from, hour, k) ELSE g[k + 1]
  BY <1>2, <1>3
<1>5. g = [k \in Nat |-> g[k]]
  OBVIOUS
<1> HIDE DEF g
<1>6. IsWalk(g, from, day, hour)
  BY <1>4, <1>5 DEF IsWalk, Occurs
<1>7. QED
  BY <1>6

\* What NextOccurrence finds is the first of the days of a week.
LEMMA NextOccurrenceIs ==
  ASSUME NEW from \in Nat, NEW day \in 0..6, NEW hour \in 0..23
  PROVE  \E m \in 0..7 : /\ NextOccurrence(from, day, hour) = OnDay(from, hour, m)
                         /\ Occurs(from, day, hour, m)
                         /\ \A j \in 0..7 : Occurs(from, day, hour, j) => m <= j
<1> DEFINE f == CHOOSE f : IsWalk(f, from, day, hour)
<1>1. IsWalk(f, from, day, hour)
  BY WalkExists
<1>2. NextOccurrence(from, day, hour) = f[0]
  BY DEF NextOccurrence, IsWalk, OnDay
<1> HIDE DEF f
<1>3. PICK m : FirstDay(from, day, hour, 0, m)
  BY WithinAWeek
<1>4. m \in 0..7
  <2>1. PICK n \in 0..7 : Occurs(from, day, hour, n)
    BY WithinAWeek
  <2>2. m \in Nat /\ m <= n
    BY <1>3, <2>1 DEF FirstDay
  <2>3. QED
    BY <2>1, <2>2
<1>5. \A n \in Nat : f[n] = IF Occurs(from, day, hour, n) THEN OnDay(from, hour, n) ELSE f[n + 1]
  BY <1>1 DEF IsWalk, Occurs
<1>6. \A n \in 0..m : f[n] = f[0]
  <2> DEFINE bad == {n \in 0..m : f[n] # f[0]}
  <2>1. SUFFICES ASSUME bad # {} PROVE FALSE
    BY <2>1
  <2>2. PICK n \in bad : \A j \in bad : n <= j
    <3>1. bad \in SUBSET Nat
      BY <1>4
    <3> HIDE DEF bad
    <3>2. QED
      BY <2>1, <3>1, NatLeast
  <2>3. n - 1 \in Nat /\ n - 1 < m /\ n - 1 \in 0..m /\ n - 1 \notin bad /\ (n - 1) + 1 = n
    BY <1>4, <2>2
  <2>4. ~Occurs(from, day, hour, n - 1)
    BY <1>3, <1>4, <2>3 DEF FirstDay
  <2>5. f[n - 1] = f[n] /\ f[n - 1] = f[0]
    BY <1>5, <2>3, <2>4
  <2>6. QED
    BY <2>2, <2>5
<1>7. f[0] = OnDay(from, hour, m) /\ Occurs(from, day, hour, m)
  <2>1. m \in Nat /\ m \in 0..m /\ Occurs(from, day, hour, m)
    BY <1>3 DEF FirstDay
  <2>2. f[m] = f[0]
    BY <1>6, <2>1
  <2>3. QED
    BY <1>5, <2>1, <2>2
<1>8. \A j \in 0..7 : Occurs(from, day, hour, j) => m <= j
  BY <1>3 DEF FirstDay
<1>9. QED
  BY <1>2, <1>4, <1>7, <1>8

------------------------------------------------------------------------------
(***************************************************************************)
(* The advice: the best hour and the best day.                             *)
(***************************************************************************)

\* Shares are compared as products of naturals.
LEMMA Products ==
  /\ \A x, y \in Nat : x * y \in Nat /\ 0 * x = 0
  /\ \A x, y, z \in Nat : x <= y => x * z <= y * z
  /\ \A x, y \in Nat, z \in Nat \ {0} : x * z <= y * z => x <= y
<1>1. \A x, y \in Nat : x * y \in Nat /\ 0 * x = 0
  OBVIOUS
<1>2. \A x, y, z \in Nat : x <= y => x * z <= y * z
  OBVIOUS
<1>3. ASSUME NEW x \in Nat, NEW y \in Nat, NEW z \in Nat \ {0}, x * z <= y * z, ~(x <= y) PROVE FALSE
  <2>1. y + 1 <= x /\ y + 1 \in Nat
    BY <1>3
  <2>2. (y + 1) * z <= x * z
    BY <1>2, <2>1
  <2>3. (y + 1) * z = y * z + z /\ y * z \in Nat /\ x * z \in Nat
    OBVIOUS
  <2>4. y * z + z <= y * z
    BY <1>3, <2>2, <2>3
  <2>5. QED
    BY <2>3, <2>4
<1>4. QED
  BY <1>1, <1>2, <1>3

LEMMA SharesCompare ==
  ASSUME NEW a \in Nat, NEW A \in Nat, NEW b \in Nat, NEW B \in Nat \ {0}, NEW c \in Nat, NEW C \in Nat,
         a * B <= b * A, b * C <= c * B
  PROVE  a * C <= c * A
<1>1. (a * B) * C <= (b * A) * C
  <2>1. a * B \in Nat /\ b * A \in Nat
    BY Products
  <2>2. QED
    BY <2>1, Products
<1>2. (b * C) * A <= (c * B) * A
  <2>1. b * C \in Nat /\ c * B \in Nat
    BY Products
  <2>2. QED
    BY <2>1, Products
<1>3. (a * B) * C = (a * C) * B /\ (b * A) * C = (b * C) * A /\ (c * B) * A = (c * A) * B
  OBVIOUS
<1>4. (a * C) * B <= (c * A) * B
  <2>1. (a * C) * B \in Nat /\ (b * C) * A \in Nat /\ (c * A) * B \in Nat
    BY Products
  <2>2. QED
    BY <1>1, <1>2, <1>3, <2>1
<1>5. a * C \in Nat /\ c * A \in Nat
  BY Products
<1>6. QED
  BY <1>4, <1>5, Products

\* Of the slots with a share one has the largest.
LEMMA LargestShare ==
  ASSUME NEW b \in Nat, NEW S \in SUBSET (0..b), S # {}, NEW r \in [S -> Nat], NEW t \in [S -> Nat \ {0}]
  PROVE  \E s \in S : \A o \in S : r[o] * t[s] <= r[s] * t[o]
<1> DEFINE Top2(s, k) == s \in S /\ s <= k /\ \A o \in S : o <= k => r[o] * t[s] <= r[s] * t[o]
           bad == {k \in 0..b : (\E s \in S : s <= k) /\ ~ \E s \in S : Top2(s, k)}
<1>1. ASSUME bad # {} PROVE FALSE
  <2>1. PICK k \in bad : \A m \in bad : k <= m
    <3>1. bad \in SUBSET Nat
      OBVIOUS
    <3> HIDE DEF bad
    <3>2. QED
      BY <1>1, <3>1, NatLeast
  <2>2. PICK s0 \in S : s0 <= k
    BY <2>1
  <2>3. \A s \in S : s \in Nat /\ r[s] \in Nat /\ t[s] \in Nat \ {0} /\ t[s] \in Nat
    OBVIOUS
  <2>4. k \in Nat /\ ~ \E s \in S : Top2(s, k)
    BY <2>1
  <2>5. CASE \A s \in S : s < k => FALSE
    <3>1. s0 = k /\ \A o \in S : o <= k => o = k
      BY <2>2, <2>3, <2>4, <2>5
    <3>2. r[k] * t[k] <= r[k] * t[k]
      <4>1. r[k] * t[k] \in Nat
        BY <2>3, <3>1, Products
      <4>2. QED
        BY <4>1
    <3>3. Top2(k, k)
      BY <2>4, <3>1, <3>2
    <3>4. QED
      BY <2>4, <3>1, <3>3
  <2>6. ASSUME NEW s1 \in S, s1 < k PROVE FALSE
    <3>0. k \in 0..b /\ s1 \in Nat
      BY <2>1, <2>3
    <3>1. k - 1 \in 0..b /\ k - 1 \notin bad /\ s1 <= k - 1
      <4>1. k - 1 \in 0..b /\ s1 <= k - 1 /\ ~(k <= k - 1)
        BY <2>6, <3>0
      <4> HIDE DEF bad
      <4>2. QED
        BY <2>1, <4>1
    <3>2. PICK s \in S : Top2(s, k - 1)
      BY <3>1
    <3>3. s <= k /\ \A o \in S : o <= k => o <= k - 1 \/ o = k
      BY <2>3, <2>4, <3>2
    <3>4. CASE k \notin S
      <4>1. Top2(s, k)
        BY <2>3, <2>4, <3>2, <3>3, <3>4
      <4>2. QED
        BY <2>4, <4>1
    <3>5. CASE k \in S /\ r[k] * t[s] <= r[s] * t[k]
      <4>1. Top2(s, k)
        BY <2>3, <2>4, <3>2, <3>3, <3>5
      <4>2. QED
        BY <2>4, <4>1
    <3>6. CASE k \in S /\ ~(r[k] * t[s] <= r[s] * t[k])
      <4>1. r[s] * t[k] <= r[k] * t[s]
        <5>1. r[s] * t[k] \in Nat /\ r[k] * t[s] \in Nat
          BY <2>3, <3>6, Products
        <5>2. QED
          BY <3>6, <5>1
      <4>2. ASSUME NEW o \in S, o <= k PROVE r[o] * t[k] <= r[k] * t[o]
        <5>1. CASE o = k
          <6>1. r[k] * t[k] \in Nat
            BY <2>3, <3>6, Products
          <6>2. QED
            BY <5>1, <6>1
        <5>2. CASE o # k
          <6>1. r[o] * t[s] <= r[s] * t[o]
            BY <3>2, <3>3, <4>2, <5>2
          <6>2. QED
            BY <2>3, <3>6, <4>1, <6>1, SharesCompare
        <5>3. QED
          BY <5>1, <5>2
      <4>3. Top2(k, k)
        BY <2>4, <3>6, <4>2
      <4>4. QED
        BY <2>4, <3>6, <4>3
    <3>7. QED
      BY <3>4, <3>5, <3>6
  <2>7. QED
    BY <2>5, <2>6
<1>2. b \notin bad /\ b \in 0..b /\ \E s \in S : s <= b
  <2>1. b \in 0..b /\ \E s \in S : s <= b
    <3>1. PICK s \in S : TRUE
      OBVIOUS
    <3>2. s \in 0..b
      OBVIOUS
    <3>3. s <= b /\ b \in 0..b
      BY <3>2
    <3>4. QED
      BY <3>3
  <2> HIDE DEF bad
  <2>2. QED
    BY <1>1, <2>1
<1>3. PICK s \in S : Top2(s, b)
  BY <1>2
<1>4. QED
  BY <1>3

\* The messages of a slot, and those of them that were replied to.
SentIn(records, slot, s) == CountIn(slot, Sent(records), s)

RepliesIn(records, slot, s) == CountIn(slot, Answered(records), s)

LEMMA BestSlotIs ==
  ASSUME NEW records, NEW N \in Nat, DOMAIN records = 1..N, NEW slot, DOMAIN slot = 1..N,
         NEW b \in Nat, \A i \in 1..N : slot[i] \in 0..b
  PROVE  LET best == BestSlot(records, slot) IN
         /\ best \in 0..b
         /\ IsBest(records, slot, Answered(records), best)
<1> DEFINE R(s) == RepliesIn(records, slot, s)
           T(s) == SentIn(records, slot, s)
           liked == {s \in Range(slot) : R(s) > 0}
           firsts == {s \in liked : \A other \in liked : R(other) * T(s) <= R(s) * T(other)}
           best == BestSlot(records, slot)
<1>1. best = IF liked = {} THEN 0 ELSE Min(firsts)
  BY DEF BestSlot, SentIn, RepliesIn
<1>2. \A s : R(s) \in Nat /\ T(s) \in Nat /\ R(s) <= T(s)
  <2> SUFFICES ASSUME NEW s PROVE R(s) \in Nat /\ T(s) \in Nat /\ R(s) <= T(s)
    OBVIOUS
  <2> DEFINE X == {i \in Sent(records) : slot[i] = s}
             Y == {i \in Answered(records) : slot[i] = s}
  <2>1. Y \subseteq X /\ X \subseteq 1..N
    BY DEF Replied, Sent, Answered
  <2>2. R(s) = Cardinality(Y) /\ T(s) = Cardinality(X)
    BY DEF RepliesIn, SentIn, CountIn
  <2> HIDE DEF X, Y
  <2>3. IsFiniteSet(X) /\ IsFiniteSet(Y) /\ Cardinality(Y) <= Cardinality(X)
    <3>1. IsFiniteSet(1..N)
      BY FS_Interval
    <3>2. QED
      BY <2>1, <3>1, FS_Subset
  <2>4. QED
    BY <2>2, <2>3, FS_CardinalityType
<1>3. ASSUME NEW s \in Nat, s \notin liked PROVE R(s) = 0
  <2>1. CASE s \in Range(slot)
    BY <1>2, <1>3, <2>1
  <2>2. CASE s \notin Range(slot)
    <3>1. {i \in Answered(records) : slot[i] = s} = {}
      BY <2>2 DEF Range, Answered
    <3>2. QED
      BY <3>1, FS_EmptySet DEF RepliesIn, CountIn
  <2>3. QED
    BY <2>1, <2>2
<1>4. liked \subseteq 0..b
  BY DEF Range
<1> HIDE DEF R, T
<1>5. CASE liked = {}
  <2>1. best = 0 /\ \A s \in Nat : R(s) = 0
    BY <1>1, <1>3, <1>5
  <2>2. ASSUME NEW s \in Nat PROVE R(s) * T(best) <= R(best) * T(s)
    <3>1. R(s) = 0 /\ R(best) = 0 /\ T(s) \in Nat /\ T(best) \in Nat
      BY <1>2, <2>1
    <3>2. R(s) * T(best) = 0 /\ R(best) * T(s) = 0
      BY <3>1, Products
    <3>3. QED
      BY <3>2
  <2>3. QED
    BY <2>1, <2>2 DEF R, T, IsBest, SentIn, RepliesIn
<1>6. CASE liked # {}
  <2> DEFINE r == [s \in liked |-> R(s)]
             t == [s \in liked |-> T(s)]
  <2>1. r \in [liked -> Nat] /\ t \in [liked -> Nat \ {0}]
    <3>1. \A s \in liked : R(s) > 0
      BY DEF R
    <3> HIDE DEF liked
    <3>2. \A s \in liked : T(s) \in Nat \ {0}
      BY <1>2, <3>1
    <3>3. QED
      BY <1>2, <3>2
  <2>2. PICK s \in liked : \A o \in liked : r[o] * t[s] <= r[s] * t[o]
    <3> HIDE DEF liked, r, t
    <3>1. QED
      BY <1>4, <1>6, <2>1, LargestShare
  <2> HIDE DEF liked
  <2>3. firsts # {} /\ firsts \in SUBSET Nat
    <3>1. \A o \in liked : R(o) * T(s) <= R(s) * T(o)
      BY <2>2
    <3>2. s \in firsts
      BY <2>2, <3>1
    <3>3. firsts \subseteq liked /\ liked \subseteq Nat
      BY <1>4
    <3>4. QED
      BY <3>2, <3>3
  <2>4. best \in firsts
    <3> HIDE DEF firsts
    <3>1. QED
      BY <1>1, <1>6, <2>3, MinIs
  <2>5. best \in 0..b /\ best \in liked /\ \A o \in liked : R(o) * T(best) <= R(best) * T(o)
    BY <1>4, <2>4
  <2> HIDE DEF best
  <2>6. ASSUME NEW o \in Nat, o \notin liked PROVE R(o) * T(best) <= R(best) * T(o)
    <3>1. R(o) = 0 /\ T(best) \in Nat /\ R(best) \in Nat /\ T(o) \in Nat
      BY <1>2, <1>3, <2>6
    <3>2. R(o) * T(best) = 0 /\ R(best) * T(o) \in Nat
      BY <3>1, Products
    <3>3. QED
      BY <3>2
  <2>7. QED
    BY <2>5, <2>6 DEF R, T, best, IsBest, SentIn, RepliesIn
<1>7. QED
  BY <1>5, <1>6
------------------------------------------------------------------------------
(***************************************************************************)
(* The advice.                                                             *)
(***************************************************************************)
AdviceInv == AdviceTypeOK /\ FreeIsFree /\ SuggestionIsNext

\* What is learnt from a slice of records: an hour and a day, those with the largest
\* share of replies.
LEMMA ProfileIs ==
  ASSUME NEW records \in Seq(Exchanges)
  PROVE  LET p == BuildProfile(records) IN
         /\ p.bestHour \in 0..23 /\ p.bestDay \in 0..6
         /\ p.samples >= MinSamples =>
              /\ IsBest(records, Hours(records), Answered(records), p.bestHour)
              /\ IsBest(records, Days(records), Answered(records), p.bestDay)
<1> DEFINE N == Len(records)
           hours == Hours(records)
           days == Days(records)
           p == BuildProfile(records)
<1>1. N \in Nat /\ DOMAIN records = 1..N
  BY LenProperties
<1>2. \A i \in 1..N : records[i].sent \in Nat
  <2>1. \A i \in 1..N : records[i] \in Exchanges
    BY <1>1, ElementOfSeq
  <2>2. QED
    BY <2>1, OptimizerAssumption
<1>3. \A i \in 1..N : hours[i] \in 0..23 /\ days[i] \in 0..6
  <2> SUFFICES ASSUME NEW i \in 1..N PROVE hours[i] \in 0..23 /\ days[i] \in 0..6
    OBVIOUS
  <2>1. hours[i] = HourOf(records[i].sent) /\ days[i] = WeekdayOf(records[i].sent)
    BY <1>1 DEF Hours, Days
  <2>2. \A t \in Nat : HourOf(t) \in 0..23 /\ WeekdayOf(t) \in 0..6
    BY DEF HourOf, WeekdayOf, Day
  <2>3. QED
    BY <1>2, <2>1, <2>2
<1>4. CASE N < MinSamples
  <2>1. p = EmptyProfile
    BY <1>4 DEF BuildProfile
  <2>2. QED
    BY <2>1 DEF EmptyProfile, MinSamples
<1>5. CASE ~(N < MinSamples)
  <2>1. p.bestHour = BestSlot(records, hours) /\ p.bestDay = BestSlot(records, days)
    BY <1>5 DEF BuildProfile
  <2>2. DOMAIN hours = 1..N /\ DOMAIN days = 1..N
    BY <1>1 DEF Hours, Days
  <2> HIDE DEF N, hours, days, p
  <2>3. p.bestHour \in 0..23 /\ IsBest(records, hours, Answered(records), p.bestHour)
    BY <1>1, <1>3, <2>1, <2>2, BestSlotIs
  <2>4. p.bestDay \in 0..6 /\ IsBest(records, days, Answered(records), p.bestDay)
    BY <1>1, <1>3, <2>1, <2>2, BestSlotIs
  <2>5. QED
    BY <2>3, <2>4 DEF hours, days, p
<1>6. QED
  BY <1>4, <1>5

\* The first moment of a week at the hour and on the day is the occurrence found.
LEMMA FirstOfTheWeek ==
  ASSUME NEW from \in Nat, NEW day \in 0..6, NEW hour \in 0..23
  PROVE  /\ NextOccurrence(from, day, hour) \in Nat
         /\ NextOccurrence(from, day, hour) =
              Min({t \in {Midnight(from) + n * Day + hour * 60 : n \in 0..7} :
                     t >= from /\ WeekdayOf(t) = day})
<1> DEFINE T == {t \in {Midnight(from) + n * Day + hour * 60 : n \in 0..7} :
                   t >= from /\ WeekdayOf(t) = day}
           c == NextOccurrence(from, day, hour)
<1>1. PICK m \in 0..7 : /\ c = OnDay(from, hour, m)
                        /\ Occurs(from, day, hour, m)
                        /\ \A j \in 0..7 : Occurs(from, day, hour, j) => m <= j
  BY NextOccurrenceIs
<1> HIDE DEF c
<1>2. Midnight(from) \in Nat
  <2>1. PICK q \in Nat : Midnight(from) = Day * q
    BY DayArithmetic
  <2>2. QED
    BY <2>1 DEF Day
<1>3. \A n \in 0..7 : /\ OnDay(from, hour, n) = Midnight(from) + n * Day + hour * 60
                      /\ OnDay(from, hour, n) \in Nat
  BY <1>2 DEF OnDay, Day
<1>4. \A n, j \in 0..7 : n <= j => OnDay(from, hour, n) <= OnDay(from, hour, j)
  BY <1>2 DEF OnDay, Day
<1>5. c \in T
  BY <1>1, <1>3 DEF Occurs
<1>6. \A t \in T : t \in Nat /\ c <= t
  <2> SUFFICES ASSUME NEW t \in T PROVE t \in Nat /\ c <= t
    OBVIOUS
  <2>1. PICK j \in 0..7 : t = Midnight(from) + j * Day + hour * 60
    OBVIOUS
  <2>2. t = OnDay(from, hour, j)
    BY <1>3, <2>1
  <2>3. Occurs(from, day, hour, j)
    BY <2>2 DEF Occurs
  <2>4. QED
    BY <1>1, <1>3, <1>4, <2>2, <2>3
<1> HIDE DEF T
<1>7. Min(T) \in T /\ \A t \in T : Min(T) <= t
  <2>1. T # {} /\ T \in SUBSET Nat
    BY <1>5, <1>6
  <2>2. QED
    BY <2>1, MinIs
<1>8. c = Min(T) /\ c \in Nat
  <2>1. c <= Min(T) /\ Min(T) <= c /\ c \in Nat /\ Min(T) \in Nat
    BY <1>5, <1>6, <1>7
  <2>2. QED
    BY <2>1
<1>9. QED
  BY <1>8 DEF T, c

LEMMA AnalyzeAnswers ==
  ASSUME AdviceInv, NEW t \in Nat, Analyze(t)
  PROVE  AdviceInv'
<1> DEFINE p == BuildProfile(exchanged)
<1>1. /\ card' = [about |-> "contact", asked |-> t, of |-> exchanged, at |-> SuggestSendTime(p, t)]
      /\ exchanged' = exchanged
  BY DEF Analyze
<1>2. card'.about = "contact" /\ card'.asked = t /\ card'.of = exchanged
      /\ card'.at = SuggestSendTime(p, t)
  BY <1>1
<1>3. exchanged \in Seq(Exchanges) /\ Len(exchanged) <= MaxExchanges
  BY DEF AdviceInv, AdviceTypeOK
<1>4. /\ p.bestHour \in 0..23 /\ p.bestDay \in 0..6
      /\ p.samples >= MinSamples =>
           /\ IsBest(exchanged, Hours(exchanged), Answered(exchanged), p.bestHour)
           /\ IsBest(exchanged, Days(exchanged), Answered(exchanged), p.bestDay)
  BY <1>3, ProfileIs
<1> DEFINE target == NextOccurrence(t, p.bestDay, p.bestHour)
           first == Min({u \in {Midnight(t) + n * Day + p.bestHour * 60 : n \in 0..7} :
                           u >= t /\ WeekdayOf(u) = p.bestDay})
<1>6. target \in Nat /\ target = first
  <2> HIDE DEF p
  <2>1. QED
    BY <1>4, FirstOfTheWeek
<1>7. card'.at = t \/ (card'.at = target /\ ~(p.samples < MinSamples))
  BY <1>2 DEF SuggestSendTime
<1> HIDE DEF target, first
<1>8. card'.at \in Nat
  BY <1>6, <1>7
<1>9. SuggestionIsNext'
  <2>1. ASSUME card'.at # t
        PROVE  /\ card'.at = first
               /\ IsBest(exchanged, Hours(exchanged), Answered(exchanged), p.bestHour)
               /\ IsBest(exchanged, Days(exchanged), Answered(exchanged), p.bestDay)
    <3>1. card'.at = first
      BY <1>6, <1>7, <2>1
    <3>2. p.samples >= MinSamples
      <4>1. p.samples \in Nat
        <5>1. p.samples \in {0, Len(exchanged)}
          BY DEF BuildProfile, EmptyProfile
        <5>2. QED
          BY <1>3, <5>1, LenProperties
      <4>2. QED
        BY <1>7, <2>1, <4>1 DEF MinSamples
    <3>3. QED
      BY <1>4, <3>1, <3>2
  <2>2. QED
    BY <1>2, <2>1 DEF SuggestionIsNext, first
<1>10. FreeIsFree'
  BY <1>2 DEF FreeIsFree
<1>11. AdviceTypeOK'
  BY <1>1, <1>3, <1>8 DEF AdviceTypeOK
<1>12. QED
  BY <1>9, <1>10, <1>11 DEF AdviceInv

LEMMA AskCalendarAnswers ==
  ASSUME AdviceInv, NEW t \in Nat, NEW busy \in BusyLists, AskCalendar(t, busy)
  PROVE  AdviceInv'
<1>1. PICK order \in Sortings(busy) :
        card' = [about |-> "calendar", asked |-> t, of |-> busy, at |-> FindNextFree(t, busy, order)]
  BY DEF AskCalendar
<1> DEFINE c == FindNextFree(t, busy, order)
<1>2. card'.about = "calendar" /\ card'.asked = t /\ card'.of = busy /\ card'.at = c
  BY <1>1
<1>3. /\ c \in Nat /\ c >= t
      /\ \A i \in DOMAIN busy : ~Clashes(c, busy[i])
      /\ (\A i \in DOMAIN busy : ~Clashes(t, busy[i])) => c = t
  <2>1. busy \in Seq([start : Nat, end : Nat])
    BY OptimizerAssumption
  <2>2. QED
    BY <2>1, NextFreeIsFree
<1> HIDE DEF c
<1>4. FreeIsFree'
  BY <1>2, <1>3 DEF FreeIsFree
<1>5. SuggestionIsNext'
  BY <1>2 DEF SuggestionIsNext
<1>6. AdviceTypeOK'
  BY <1>2, <1>3 DEF AskCalendar, AdviceInv, AdviceTypeOK
<1>7. QED
  BY <1>4, <1>5, <1>6 DEF AdviceInv

LEMMA AdviceInitial == AdviceInit => AdviceInv
<1> SUFFICES ASSUME AdviceInit PROVE AdviceInv
  OBVIOUS
<1>1. exchanged = <<>> /\ card = NoCard /\ card.about = "nothing"
  BY DEF AdviceInit, NoCard
<1>2. exchanged \in Seq(Exchanges) /\ Len(exchanged) = 0
  BY <1>1
<1>3. QED
  BY <1>1, <1>2, OptimizerAssumption DEF AdviceInv, AdviceTypeOK, FreeIsFree, SuggestionIsNext

LEMMA AdviceSame ==
  ASSUME AdviceInv, UNCHANGED card, exchanged' \in Seq(Exchanges), Len(exchanged') <= MaxExchanges
  PROVE  AdviceInv'
<1>1. AdviceTypeOK'
  BY DEF AdviceInv, AdviceTypeOK
<1>2. FreeIsFree'
  BY DEF AdviceInv, FreeIsFree
<1>3. SuggestionIsNext'
  BY DEF AdviceInv, SuggestionIsNext
<1>4. QED
  BY <1>1, <1>2, <1>3 DEF AdviceInv

LEMMA AdvicePreserved ==
  ASSUME AdviceInv, AdviceNext \/ UNCHANGED adviceVars
  PROVE  AdviceInv'
<1>1. CASE UNCHANGED adviceVars
  BY <1>1, AdviceSame DEF adviceVars, AdviceInv, AdviceTypeOK
<1>2. ASSUME NEW x \in Exchanges, Exchange(x) PROVE AdviceInv'
  <2>1. exchanged \in Seq(Exchanges) /\ Len(exchanged) < MaxExchanges
    BY <1>2 DEF Exchange, AdviceInv, AdviceTypeOK
  <2>2. Append(exchanged, x) \in Seq(Exchanges) /\ Len(Append(exchanged, x)) = Len(exchanged) + 1
        /\ Len(exchanged) \in Nat
    BY <2>1, AppendProperties, LenProperties
  <2>3. exchanged' \in Seq(Exchanges) /\ Len(exchanged') <= MaxExchanges
    BY <1>2, <2>1, <2>2, OptimizerAssumption DEF Exchange
  <2>4. QED
    BY <1>2, <2>3, AdviceSame DEF Exchange
<1>3. ASSUME NEW t \in Moments, Analyze(t) PROVE AdviceInv'
  <2>1. t \in Nat
    BY OptimizerAssumption
  <2>2. QED
    BY <1>3, <2>1, AnalyzeAnswers
<1>4. ASSUME NEW t \in Moments, NEW busy \in BusyLists, AskCalendar(t, busy) PROVE AdviceInv'
  <2>1. t \in Nat
    BY OptimizerAssumption
  <2>2. QED
    BY <1>4, <2>1, AskCalendarAnswers
<1>5. QED
  BY <1>1, <1>2, <1>3, <1>4 DEF AdviceNext

------------------------------------------------------------------------------
(***************************************************************************)
(* The tracker: the scores of its reports.                                 *)
(***************************************************************************)

\* A share of at most ten tenths.
LEMMA TenthsOf ==
  ASSUME NEW x \in Nat, NEW d \in Nat \ {0}, x <= 10 * d
  PROVE  x \div d \in 0..10
<1> DEFINE q == x \div d
           r == x % d
<1>1. q \in Int /\ r \in 0..(d - 1) /\ x = d * q + r
  OBVIOUS
<1> HIDE DEF q, r
<1>2. ASSUME q >= 11 PROVE FALSE
  <2>1. d * 11 <= d * q
    BY <1>1, <1>2
  <2>2. QED
    BY <1>1, <2>1
<1>3. ASSUME q <= -1 PROVE FALSE
  <2>1. d * q <= d * (-1)
    BY <1>1, <1>3
  <2>2. QED
    BY <1>1, <2>1
<1>4. QED
  BY <1>1, <1>2, <1>3 DEF q

\* One to three signals, each of at most ten tenths.
Signals == {s \in Seq(0..10) : Len(s) \in 1..3}

IsSum(f, s) == f = [n \in 0..Len(s) |-> IF n = 0 THEN 0 ELSE f[n - 1] + s[n]]

LEMMA SumIs ==
  ASSUME NEW s \in Signals
  PROVE  /\ \E f : IsSum(f, s)
         /\ \A f : IsSum(f, s) => f[Len(s)] \in 0..(10 * Len(s))
<1> DEFINE N == Len(s)
<1>1. N \in 1..3 /\ \A n \in 1..N : s[n] \in 0..10
  BY ElementOfSeq DEF Signals
<1> HIDE DEF N
<1>2. \E f : f = [n \in 0..N |-> IF n = 0 THEN 0 ELSE f[n - 1] + s[n]]
  <2> DEFINE f == [n \in 0..N |-> IF n = 0 THEN 0
                                  ELSE IF n = 1 THEN s[1]
                                  ELSE IF n = 2 THEN s[1] + s[2] ELSE s[1] + s[2] + s[3]]
  <2>1. ASSUME NEW n \in 0..N PROVE f[n] = IF n = 0 THEN 0 ELSE f[n - 1] + s[n]
    <3>1. CASE n = 0
      BY <3>1
    <3>2. CASE n = 1
      <4>1. f[1] = s[1] /\ f[0] = 0 /\ s[1] \in 0..10
        BY <1>1, <2>1, <3>2
      <4>2. QED
        BY <3>2, <4>1
    <3>3. CASE n = 2
      <4>1. f[2] = s[1] + s[2] /\ f[1] = s[1]
        BY <1>1, <2>1, <3>3
      <4>2. QED
        BY <3>3, <4>1
    <3>4. CASE n = 3
      <4>1. f[3] = s[1] + s[2] + s[3] /\ f[2] = s[1] + s[2]
        BY <1>1, <2>1, <3>4
      <4>2. QED
        BY <3>4, <4>1
    <3>5. QED
      BY <1>1, <3>1, <3>2, <3>3, <3>4
  <2>2. f = [n \in 0..N |-> f[n]]
    OBVIOUS
  <2> HIDE DEF f
  <2>3. f = [n \in 0..N |-> IF n = 0 THEN 0 ELSE f[n - 1] + s[n]]
    BY <2>1, <2>2
  <2>4. QED
    BY <2>3
<1>3. ASSUME NEW f, f = [n \in 0..N |-> IF n = 0 THEN 0 ELSE f[n - 1] + s[n]]
      PROVE  f[N] \in 0..(10 * N)
  <2>1. \A n \in 0..N : f[n] = IF n = 0 THEN 0 ELSE f[n - 1] + s[n]
    BY <1>3
  <2>2. f[0] = 0 /\ f[1] = f[0] + s[1] /\ s[1] \in 0..10
    BY <1>1, <2>1
  <2>3. f[1] \in 0..10
    BY <2>2
  <2>4. N >= 2 => f[2] = f[1] + s[2] /\ s[2] \in 0..10
    BY <1>1, <2>1
  <2>5. N >= 2 => f[2] \in 0..20
    BY <2>3, <2>4
  <2>6. N = 3 => f[3] = f[2] + s[3] /\ s[3] \in 0..10
    BY <1>1, <2>1
  <2>7. N = 3 => f[3] \in 0..30
    BY <2>5, <2>6
  <2>8. QED
    BY <1>1, <2>3, <2>5, <2>7
<1>4. QED
  BY <1>2, <1>3 DEF IsSum, N

LEMMA ServerSignalsAre ==
  ASSUME NEW answer \in Answers
  PROVE  ServerSignals(answer) \in Signals
<1>1. answer \in {Unreachable, LoginRefused, NoInbox} \cup Nat
  BY HoldQueueAssumption
<1>2. answer \in Nat => Min({answer, 10}) \in 0..10
  <2> SUFFICES ASSUME answer \in Nat PROVE Min({answer, 10}) \in 0..10
    OBVIOUS
  <2> DEFINE S == {answer, 10}
  <2>1. S \in SUBSET Nat /\ S # {} /\ 10 \in S
    OBVIOUS
  <2> HIDE DEF S
  <2>2. Min(S) \in S /\ Min(S) <= 10
    BY <2>1, MinIs
  <2>3. QED
    BY <2>1, <2>2 DEF S
<1>3. /\ <<0>> \in Signals /\ <<5>> \in Signals /\ <<5, 7>> \in Signals
      /\ \A m \in 0..10 : <<5, 7, m>> \in Signals
  BY DEF Signals
<1>4. QED
  BY <1>1, <1>2, <1>3 DEF ServerSignals, Unreachable, LoginRefused, NoInbox

\* The score of a report is a number of tenths.
LEMMA AggregateIs ==
  ASSUME NEW answer \in Answers, NEW p \in Patterns, NEW t \in Nat
  PROVE  Aggregate(answer, p, t) \in 0..10
<1> DEFINE signals == ServerSignals(answer)
           L == Len(signals)
           f == CHOOSE f : IsSum(f, signals)
           total == f[L]
           norm == MaxHourWeight(p)
           weight == p.hours[HourOf(t)]
<1>1. Aggregate(answer, p, t) =
        IF p.samples = 0 THEN total \div L
        ELSE (total * norm + 10 * weight) \div ((L + 1) * norm)
  BY DEF Aggregate, IsSum
<1>2. signals \in Signals
  BY ServerSignalsAre
<1>3. L \in 1..3 /\ total \in 0..(10 * L)
  <2>1. IsSum(f, signals)
    BY <1>2, SumIs
  <2> HIDE DEF f
  <2>2. f[Len(signals)] \in 0..(10 * Len(signals))
    BY <1>2, <2>1, SumIs
  <2>3. QED
    BY <1>2, <2>2 DEF Signals
<1> HIDE DEF signals, L, f, total
<1>4. p.samples \in Nat
  BY DEF Patterns
<1>5. p.samples > 0 => norm \in Nat \ {0} /\ weight \in 0..norm
  <2> SUFFICES ASSUME p.samples > 0 PROVE norm \in Nat \ {0} /\ weight \in 0..norm
    OBVIOUS
  <2> DEFINE weights == {p.hours[h] : h \in 0..23}
  <2>1. weights \in SUBSET Nat /\ weights # {} /\ p.scale \in Nat /\ \A x \in weights : x <= p.scale
    <3>1. 0 \in 0..23
      OBVIOUS
    <3>2. QED
      BY <3>1 DEF Patterns
  <2>2. norm = Max(weights)
    BY DEF MaxHourWeight
  <2>3. PICK h \in 0..23 : p.hours[h] > 0
    BY DEF Patterns
  <2>4. p.hours[h] \in weights /\ weight \in weights
    BY DayArithmetic
  <2> HIDE DEF weights, norm, weight
  <2>5. norm \in weights /\ \A x \in weights : norm >= x
    BY <2>1, <2>2, MaxIs
  <2>6. norm \in Nat /\ p.hours[h] \in Nat /\ weight \in Nat /\ norm >= p.hours[h] /\ norm >= weight
    BY <2>1, <2>4, <2>5
  <2>7. QED
    BY <2>3, <2>6
<1> HIDE DEF norm, weight
<1>6. CASE p.samples = 0
  <2>1. total \in Nat /\ L \in Nat \ {0} /\ total <= 10 * L
    BY <1>3
  <2>2. total \div L \in 0..10
    BY <2>1, TenthsOf
  <2>3. QED
    BY <1>1, <1>6, <2>2
<1>7. CASE p.samples # 0
  <2>1. norm \in Nat \ {0} /\ weight \in 0..norm
    BY <1>4, <1>5, <1>7
  <2> DEFINE x == total * norm + 10 * weight
             d == (L + 1) * norm
  <2>2. x \in Nat /\ d \in Nat \ {0} /\ x <= 10 * d
    <3>1. total * norm \in Nat /\ total * norm <= (10 * L) * norm
      <4>1. total \in Nat /\ 10 * L \in Nat /\ norm \in Nat /\ total <= 10 * L
        BY <1>3, <2>1
      <4>2. QED
        BY <4>1, Products
    <3>2. (10 * L) * norm + 10 * norm = 10 * ((L + 1) * norm) /\ (L + 1) * norm \in Nat
      BY <1>3, <2>1
    <3>3. (L + 1) * norm >= norm
      BY <1>3, <2>1
    <3>4. 10 * weight \in Nat /\ 10 * weight <= 10 * norm /\ (10 * L) * norm \in Nat
      BY <1>3, <2>1
    <3> DEFINE A == total * norm
               B == (10 * L) * norm
    <3>5. A \in Nat /\ B \in Nat /\ A <= B /\ B + 10 * norm = 10 * d /\ d \in Nat /\ d >= norm
      BY <3>1, <3>2, <3>3, <3>4
    <3>6. x = A + 10 * weight
      OBVIOUS
    <3> HIDE DEF A, B, x, d
    <3>7. QED
      BY <2>1, <3>4, <3>5, <3>6
  <2> HIDE DEF x, d
  <2>3. x \div d \in 0..10
    BY <2>2, TenthsOf
  <2>4. QED
    BY <1>1, <1>7, <2>3 DEF x, d
<1>8. QED
  BY <1>6, <1>7

\* What the other invariants do not say of the hold queue's types.
ReportsInv ==
  /\ \A r \in Recipients :
       /\ reports[r].score \in -1..10 /\ reports[r].window \in Nat /\ reports[r].at \in Nat
       /\ reports[r].state \in {"none", "active", "online", "away", "unknown"}
       /\ patterns[r].samples \in 0..MaxOpens
  /\ holdQuit \in BOOLEAN
  /\ holdLoop \in {"select", "returned"}

LEMMA ReportsInitial == HoldInit => ReportsInv
<1> SUFFICES ASSUME HoldInit PROVE ReportsInv
  OBVIOUS
<1>1. NoOpens.samples = 0 /\ 0 \in 0..MaxOpens
  BY HoldQueueAssumption DEF NoOpens
<1>2. \A r \in Recipients : reports[r] = NoReport /\ patterns[r] = NoOpens
  BY DEF HoldInit, TrackerInit
<1>3. NoReport.score = -1 /\ NoReport.state = "none" /\ NoReport.window = 0 /\ NoReport.at = 0
  BY DEF NoReport
<1>4. NoReport.score \in -1..10 /\ NoReport.state \in {"none", "active", "online", "away", "unknown"}
  BY <1>3
<1>5. holdQuit \in BOOLEAN /\ holdLoop \in {"select", "returned"}
  BY DEF HoldInit
<1> HIDE DEF HoldInit
<1>6. ASSUME NEW r \in Recipients
      PROVE  /\ reports[r].score \in -1..10 /\ reports[r].window \in Nat /\ reports[r].at \in Nat
             /\ reports[r].state \in {"none", "active", "online", "away", "unknown"}
             /\ patterns[r].samples \in 0..MaxOpens
  <2>1. reports[r] = NoReport /\ patterns[r] = NoOpens
    BY <1>2
  <2>2. QED
    BY <1>1, <1>3, <1>4, <2>1
<1>7. QED
  BY <1>5, <1>6 DEF ReportsInv

LEMMA ReportsPreserved ==
  ASSUME TrackerInv, ReportsInv, HoldNext \/ UNCHANGED holdVars
  PROVE  ReportsInv'
<1>1. CASE UNCHANGED <<reports, patterns, holdQuit, holdLoop>>
  BY <1>1 DEF ReportsInv
<1>2. CASE HoldStop \/ HoldLoopReturns
  BY <1>2 DEF HoldStop, HoldLoopReturns, ReportsInv
<1>3. ASSUME NEW r \in Recipients, NEW t \in OpenTimes, TrackOpen(r, t) PROVE ReportsInv'
  <2>1. /\ \A s \in Recipients : patterns'[s] = IF s = r THEN RecordOpen(patterns[r], t) ELSE patterns[s]
        /\ patterns[r].samples < MaxOpens
        /\ UNCHANGED <<reports, holdQuit, holdLoop>>
    BY <1>3 DEF TrackOpen, TrackerInv
  <2>2. RecordOpen(patterns[r], t).samples = patterns[r].samples + 1
    BY DEF RecordOpen
  <2>3. \A s \in Recipients : patterns'[s].samples \in 0..MaxOpens
    BY <2>1, <2>2, HoldQueueAssumption DEF ReportsInv
  <2>4. QED
    BY <2>1, <2>3 DEF ReportsInv
<1>4. ASSUME NEW q \in probing, NEW answer \in Answers, ProbeEnds(q, answer) PROVE ReportsInv'
  <2> DEFINE p == patterns[q.of]
             score == Aggregate(answer, p, q.at)
             w == IF p.samples = 0 THEN q.at + 60 ELSE NextBestWindow(p, q.at)
             rep == [score |-> score, state |-> ScoreToState(score), at |-> q.at, window |-> w]
  <2>1. q.of \in Recipients /\ q.at \in Nat /\ p \in Patterns
    BY DEF TrackerInv
  <2>2. /\ \A r \in Recipients : reports'[r] = IF r = q.of THEN rep ELSE reports[r]
        /\ UNCHANGED <<patterns, holdQuit, holdLoop>>
    BY <1>4, <2>1 DEF ProbeEnds, TrackerInv
  <2>3. rep.score = score /\ rep.state = ScoreToState(score) /\ rep.at = q.at /\ rep.window = w
    OBVIOUS
  <2> HIDE DEF rep
  <2>4. score \in 0..10
    <3> HIDE DEF p
    <3>1. QED
      BY <2>1, AggregateIs
  <2> HIDE DEF score
  <2>5. ScoreToState(score) \in {"active", "online", "away", "unknown"}
    BY DEF ScoreToState
  <2>6. w \in Nat
    <3>1. CASE p.samples = 0
      BY <2>1, <3>1
    <3>2. CASE p.samples # 0
      <4>1. p.samples > 0
        BY <2>1, <3>2 DEF Patterns
      <4>2. w = NextBestWindow(p, q.at)
        BY <3>2
      <4> HIDE DEF w, p
      <4>3. QED
        BY <2>1, <4>1, <4>2, NextBestWindowIsAhead
    <3>3. QED
      BY <3>1, <3>2
  <2> HIDE DEF w
  <2>7. ASSUME NEW r \in Recipients
        PROVE  /\ reports'[r].score \in -1..10 /\ reports'[r].window \in Nat /\ reports'[r].at \in Nat
               /\ reports'[r].state \in {"none", "active", "online", "away", "unknown"}
    <3>1. CASE r = q.of
      <4>1. reports'[r] = rep
        BY <2>2, <3>1
      <4>2. QED
        BY <2>1, <2>3, <2>4, <2>5, <2>6, <4>1
    <3>2. CASE r # q.of
      BY <2>2, <3>2 DEF ReportsInv
    <3>3. QED
      BY <3>1, <3>2
  <2>8. QED
    BY <2>2, <2>7 DEF ReportsInv
<1>5. QED
  BY <1>1, <1>2, <1>3, <1>4 DEF HoldNext, ProbeStarts, Hold, Dispatch, SendHeld

\* The types of the hold queue.
LEMMA HoldTypes == HeldInv /\ TrackerInv /\ ReportsInv => HoldTypeOK
<1> SUFFICES ASSUME HeldInv, TrackerInv, ReportsInv PROVE HoldTypeOK
  OBVIOUS
<1>1. \A r \in Recipients, h \in 0..23 : patterns[r].hours[h] \in 0..patterns[r].scale
  BY DEF TrackerInv, Patterns
<1>2. held \in Seq([letter : Letters, to : Recipients, min : 1..10, until : Nat])
  BY DEF HeldInv, Holdings
<1>3. QED
  BY <1>1, <1>2 DEF HeldInv, TrackerInv, ReportsInv, HoldTypeOK

------------------------------------------------------------------------------
(***************************************************************************)
(* The outbox.                                                             *)
(***************************************************************************)
OutboxInv == SendInv /\ MailInv /\ HeldInv /\ TrackerInv /\ ReportsInv /\ AdviceInv /\ up \in BOOLEAN

LEMMA OutboxInitial == Init => OutboxInv
BY SendInitial, MailInitial, HeldInitial, TrackerInitial, ReportsInitial, AdviceInitial
   DEF Init, HoldInit, OutboxInv

\* Each service keeps its own invariant, and every other step leaves it alone.
LEMMA OutboxPreserved == OutboxInv /\ [Next]_vars => OutboxInv'
<1> SUFFICES ASSUME OutboxInv, [Next]_vars PROVE OutboxInv'
  OBVIOUS
<1>0. now \in Nat
  BY DEF OutboxInv, SendInv
<1>1. now' \in Nat /\ now' >= now
  BY <1>0 DEF Next, ClickSend, ClickSchedule, SendStep, MailStep, HoldStep, AdviceStep, TimePasses,
              Advance
<1>2. SendInv'
  <2>1. CASE SendStep
    BY <2>1, SendPreserved DEF SendStep, OutboxInv
  <2>2. CASE UNCHANGED sendVars
    BY <1>1, <2>2, SendStable DEF OutboxInv
  <2>3. QED
    BY <2>1, <2>2 DEF Next, ClickSend, ClickSchedule, MailStep, HoldStep, AdviceStep, TimePasses
<1>3. MailInv'
  <2>1. CASE MailStep
    BY <2>1, MailPreserved DEF MailStep, OutboxInv
  <2>2. ASSUME NEW n \in Mails, NEW mins \in SendTimes, ClickSchedule(n, mins) PROVE MailInv'
    <3> DEFINE t == now + IF mins <= 0 THEN ComposerDelay ELSE mins
    <3>1. t \in Nat
      BY <1>0, DispatcherAssumption, OutboxAssumption
    <3>2. QueueMessage(n, NoId, t) /\ now' = now
      BY <2>2 DEF ClickSchedule
    <3> HIDE DEF t
    <3>3. QED
      BY <3>1, <3>2, QueueMessageKeeps DEF OutboxInv
  <2>3. CASE UNCHANGED mailVars
    BY <1>1, <2>3, MailStable DEF OutboxInv
  <2>4. QED
    BY <2>1, <2>2, <2>3 DEF Next, ClickSend, SendStep, HoldStep, AdviceStep, TimePasses
<1>4. HeldInv' /\ TrackerInv' /\ ReportsInv'
  <2>1. CASE HoldStep
    BY <2>1, HeldPreserved, TrackerPreserved, ReportsPreserved DEF HoldStep, OutboxInv
  <2>2. CASE UNCHANGED holdVars
    BY <1>1, <2>2, HeldStable, TrackerStable, ReportsPreserved DEF OutboxInv
  <2>3. QED
    BY <2>1, <2>2 DEF Next, ClickSend, ClickSchedule, SendStep, MailStep, AdviceStep, TimePasses
<1>5. AdviceInv'
  BY AdvicePreserved DEF OutboxInv, vars, Next, ClickSend, ClickSchedule, SendStep, MailStep, HoldStep,
                         AdviceStep, TimePasses
<1>6. up' \in BOOLEAN
  BY DEF OutboxInv, Next, ClickSend, ClickSchedule, SendStep, MailStep, HoldStep, AdviceStep, TimePasses
<1>7. QED
  BY <1>2, <1>3, <1>4, <1>5, <1>6 DEF OutboxInv

LEMMA OutboxInvariant == Spec => []OutboxInv
BY OutboxInitial, OutboxPreserved, PTL DEF Spec

\* Every variable keeps its type; in particular a score is one of ten tenths, although it
\* is a quotient of sums of weights, and the weights of a pattern stay within its scale.
THEOREM OutboxTypeCorrect == Spec => []TypeOK
<1>1. OutboxInv => TypeOK
  BY HoldTypes DEF OutboxInv, SendInv, MailInv, AdviceInv, TypeOK
<1>2. QED
  BY <1>1, OutboxInvariant, PTL

\* A send can be undone exactly as long as it is to come, unless the same message was
\* scheduled twice in one second: the twin takes over or deletes the map's entry.
THEOREM SendsStayUndoable == Spec => []UndoIsOpen
<1>1. OutboxInv => UndoIsOpen
  BY DEF OutboxInv, SendInv, UndoIsOpen
<1>2. QED
  BY <1>1, OutboxInvariant, PTL

\* Whatever the IDs, the ticks and the cancellations, every deferred message that was taken
\* is in the queue, or with a goroutine, or revoked, and in one of them only, and every held
\* letter is in the hold queue once until it is handed out.
THEOREM EachInOnePlace == Spec => []InOnePlace
<1>1. OutboxInv => InOnePlace
  BY DEF OutboxInv, MailInv, HeldInv, InOnePlace
<1>2. QED
  BY <1>1, OutboxInvariant, PTL

\* Stop has returned: no goroutine transmits, although the loop may still run.
THEOREM StopIsFinal == Spec => []NothingAfterStop
<1>1. OutboxInv => NothingAfterStop
  BY DEF OutboxInv, MailInv
<1>2. QED
  BY <1>1, OutboxInvariant, PTL

\* Whatever moment the program proposes is one to send at: the window of a report is ahead
\* of it, at an hour its recipient has opened mail in; the moment the calendar check finds
\* is in no busy slot, whatever the slots and their order; and a suggested time is the next
\* occurrence of the hour and the day with the largest shares of replies.
THEOREM MomentsAreSound == Spec => []TimesAreSound
<1>1. OutboxInv => TimesAreSound
  BY DEF OutboxInv, TrackerInv, AdviceInv, TimesAreSound
<1>2. QED
  BY <1>1, OutboxInvariant, PTL

==============================================================================
