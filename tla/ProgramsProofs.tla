---------------------------- MODULE ProgramsProofs ----------------------------
(***************************************************************************)
(* What the programs of cmd/mailscript promise, for any scripts, messages  *)
(* and sessions.                                                           *)
(***************************************************************************)
EXTENDS ScriptPrograms, FiniteSetTheorems, SequenceTheorems, TLAPS

------------------------------------------------------------------------------
(***************************************************************************)
(* What the sessions of the SMTP gateway promise, for any number of        *)
(* sessions, addresses, scripts and messages: invariants of SMTPProxy.     *)
(***************************************************************************)
Counters == [total : Nat, active : Int, processed : Nat, accepted : Nat, rejected : Nat]

\* TypeOK, but for the sign of the number of open connections.
Typed ==
  /\ pc \in [Sessions -> Places]
  /\ held \in [Sessions -> Envelope]
  /\ acts \in [Sessions -> Verdicts \cup {{}}]
  /\ peer \in [Sessions -> SUBSET Addresses]
  /\ astray \in [Sessions -> BOOLEAN]
  /\ stats \in Counters
  /\ txn \in [Sessions -> Envelope]
  /\ offers \in [Sessions -> Nat]
  /\ reply \in [Sessions -> {"none", "250", "450", "550"}]
  /\ taken \subseteq Transfers

\* On the way upstream, a session holds the actions of a script, and none of
\* them blocks.
OnlyUnblockedGoesOn ==
  \A s \in Sessions :
    pc[s] \in {"dial", "body", "delivered"} =>
      acts[s] \in Verdicts /\ acts[s] \cap Blocking = {}

\* Behind a delivery stands a message that upstream has taken, unless the line that
\* tells of it answers something else.
DeliveredIsTaken ==
  \A s \in Sessions : pc[s] = "delivered" /\ ~astray[s] => Forwarded(s)

\* The session holds at least the envelope the client has named.
SessionCovers ==
  \A s \in Sessions :
    txn[s].rcpts \subseteq held[s].rcpts /\ txn[s].from \in {NoOne, held[s].from}

\* While a message is in hand, its DATA command is not answered.
InHandUnanswered ==
  \A s \in Sessions :
    pc[s] \in {"data", "refused", "dial", "body", "delivered", "failed"} => reply[s] = "none"

Flow ==
  /\ Typed
  /\ InHandUnanswered
  /\ OnlyUnblockedGoesOn
  /\ DeliveredIsTaken
  /\ SessionCovers
  /\ AckMeansTaken
  /\ BlockedNeverForwarded
  /\ EnvelopeCovers

\* The gateway starts without connections, so nothing has gone anywhere.
LEMMA InitFlow == Init => Flow
<1> SUFFICES ASSUME Init PROVE Flow
  OBVIOUS
<1>1. Typed
  BY DEF Init, Typed, Counters, Places, Envelope, NoEnvelope
<1>2. InHandUnanswered /\ OnlyUnblockedGoesOn /\ DeliveredIsTaken /\ SessionCovers /\ AckMeansTaken
  BY DEF Forwarded, Init, InHandUnanswered, OnlyUnblockedGoesOn, DeliveredIsTaken, SessionCovers, AckMeansTaken, NoEnvelope
<1>3. BlockedNeverForwarded /\ EnvelopeCovers
  BY DEF Init, BlockedNeverForwarded, EnvelopeCovers
<1> QED
  BY <1>1, <1>2, <1>3 DEF Flow

\* The counters move by one at a time.
LEMMA CounterUpdates ==
  ASSUME Typed
  PROVE  /\ [stats EXCEPT !.total = @ + 1, !.active = @ + 1] \in Counters
         /\ [stats EXCEPT !.active = @ - 1] \in Counters
         /\ [stats EXCEPT !.processed = @ + 1, !.rejected = @ + 1] \in Counters
         /\ [stats EXCEPT !.processed = @ + 1, !.accepted = @ + 1] \in Counters
<1>1. stats \in Counters
  BY DEF Typed
<1>2. \A c \in Counters : /\ c.total \in Nat /\ c.active \in Int /\ c.processed \in Nat
                          /\ c.accepted \in Nat /\ c.rejected \in Nat
  BY DEF Counters
<1>3. stats.total + 1 \in Nat /\ stats.active + 1 \in Int /\ stats.active - 1 \in Int
      /\ stats.processed + 1 \in Nat /\ stats.accepted + 1 \in Nat /\ stats.rejected + 1 \in Nat
  BY <1>1, <1>2
<1>4. /\ [stats EXCEPT !.total = @ + 1, !.active = @ + 1] \in Counters
      /\ [stats EXCEPT !.active = @ - 1] \in Counters
  BY <1>1, <1>3, Zenon DEF Counters
<1>5. /\ [stats EXCEPT !.processed = @ + 1, !.rejected = @ + 1] \in Counters
      /\ [stats EXCEPT !.processed = @ + 1, !.accepted = @ + 1] \in Counters
  BY <1>1, <1>3, Zenon DEF Counters
<1> QED
  BY <1>4, <1>5

\* MAIL, RCPT and RSET leave an envelope an envelope.
LEMMA EnvelopeUpdates ==
  /\ NoEnvelope \in Envelope
  /\ \A e \in Envelope, a \in Addresses \cup {NoOne} : [e EXCEPT !.from = a] \in Envelope
  /\ \A e \in Envelope, a \in Addresses : [e EXCEPT !.rcpts = @ \cup {a}] \in Envelope
BY DEF NoEnvelope, Envelope

\* Connections and commands touch no message that is under way.
LEMMA CommandFlow ==
  ASSUME Flow, NEW s \in Sessions, Accept(s) \/ Command(s)
  PROVE  Flow'
<1> USE DEF Flow, Forwarded
<1>1. CASE Accept(s) \/ Close(s)
  <2>1. Typed'
    <3>1. stats' \in Counters
      BY <1>1, CounterUpdates DEF Accept, Close
    <3>2. QED
      BY <1>1, <3>1 DEF Accept, Close, Goto, Typed, Places
  <2>2. InHandUnanswered' /\ OnlyUnblockedGoesOn' /\ DeliveredIsTaken' /\ AckMeansTaken'
    BY <1>1 DEF Accept, Close, Goto, Typed, InHandUnanswered, OnlyUnblockedGoesOn, DeliveredIsTaken, AckMeansTaken
  <2>3. SessionCovers' /\ BlockedNeverForwarded' /\ EnvelopeCovers'
    BY <1>1 DEF Accept, Close, SessionCovers, BlockedNeverForwarded, EnvelopeCovers
  <2>4. QED
    BY <2>1, <2>2, <2>3
<1>2. CASE \/ \E a \in Addresses \cup {NoOne} : HandleMAIL(s, a)
           \/ \E a \in Addresses : HandleRCPT(s, a)
           \/ HandleRSET(s)
  <2>1. Typed'
    <3>1. CASE HandleRSET(s)
      BY <3>1, EnvelopeUpdates DEF HandleRSET, Typed
    <3>2. CASE \E a \in Addresses \cup {NoOne} : HandleMAIL(s, a)
      <4>1. PICK a \in Addresses \cup {NoOne} : HandleMAIL(s, a)
        BY <3>2
      <4>2. [held[s] EXCEPT !.from = a] \in Envelope /\ [txn[s] EXCEPT !.from = a] \in Envelope
        BY EnvelopeUpdates DEF Typed
      <4>3. held' \in [Sessions -> Envelope] /\ txn' \in [Sessions -> Envelope]
        BY <4>1, <4>2, Zenon DEF HandleMAIL, Typed
      <4>4. QED
        BY <4>1, <4>3 DEF HandleMAIL, Typed
    <3>3. CASE \E a \in Addresses : HandleRCPT(s, a)
      <4>1. PICK a \in Addresses : HandleRCPT(s, a)
        BY <3>3
      <4>2. [held[s] EXCEPT !.rcpts = @ \cup {a}] \in Envelope /\ [txn[s] EXCEPT !.rcpts = @ \cup {a}] \in Envelope
        BY EnvelopeUpdates DEF Typed
      <4>3. held' \in [Sessions -> Envelope] /\ txn' \in [Sessions -> Envelope]
        BY <4>1, <4>2, Zenon DEF HandleRCPT, Typed
      <4>4. QED
        BY <4>1, <4>3 DEF HandleRCPT, Typed
    <3>4. QED
      BY <1>2, <3>1, <3>2, <3>3
  <2>2. InHandUnanswered' /\ OnlyUnblockedGoesOn' /\ DeliveredIsTaken' /\ AckMeansTaken'
    BY <1>2 DEF HandleMAIL, HandleRCPT, HandleRSET, InHandUnanswered, OnlyUnblockedGoesOn,
       DeliveredIsTaken, AckMeansTaken
  <2>3. SessionCovers'
    <3>1. CASE HandleRSET(s)
      BY <3>1 DEF HandleRSET, NoEnvelope, Typed, SessionCovers
    <3>2. CASE \E a \in Addresses \cup {NoOne} : HandleMAIL(s, a)
      BY <3>2 DEF HandleMAIL, Typed, Envelope, SessionCovers
    <3>3. CASE \E a \in Addresses : HandleRCPT(s, a)
      BY <3>3 DEF HandleRCPT, Typed, Envelope, SessionCovers
    <3>4. QED
      BY <1>2, <3>1, <3>2, <3>3
  <2>4. BlockedNeverForwarded' /\ EnvelopeCovers'
    BY <1>2 DEF HandleMAIL, HandleRCPT, HandleRSET, BlockedNeverForwarded, EnvelopeCovers
  <2>5. QED
    BY <2>1, <2>2, <2>3, <2>4
<1>3. CASE HandleDATA(s)
  <2>1. Typed'
    BY <1>3 DEF HandleDATA, Goto, Typed, Places
  <2>2. InHandUnanswered' /\ OnlyUnblockedGoesOn' /\ DeliveredIsTaken' /\ AckMeansTaken'
    BY <1>3 DEF HandleDATA, Goto, Typed, InHandUnanswered, OnlyUnblockedGoesOn, DeliveredIsTaken, AckMeansTaken
  <2>3. SessionCovers' /\ BlockedNeverForwarded' /\ EnvelopeCovers'
    BY <1>3 DEF HandleDATA, SessionCovers, BlockedNeverForwarded, EnvelopeCovers
  <2>4. QED
    BY <2>1, <2>2, <2>3
<1> QED
  BY <1>1, <1>2, <1>3 DEF Command

\* Where a message goes, by the actions of its script.
LEMMA Dispositions ==
  ASSUME NEW A
  PROVE  /\ Disposition(A) \in {"refused", "dial", "delivered"}
         /\ Disposition(A) # "refused" => A \cap Blocking = {}
         /\ Upstream => Disposition(A) # "delivered"
BY DEF Disposition

\* The script's verdict starts a delivery only for what it does not block.
LEMMA FilterFlow ==
  ASSUME Flow, NEW s \in Sessions, NEW A \in Verdicts, Filter(s, A)
  PROVE  Flow'
<1> USE DEF Flow, Forwarded
<1>1. Disposition(A) \in Places
  BY Dispositions DEF Places
<1>2. stats' \in Counters
  BY CounterUpdates DEF Filter
<1>3. Typed'
  BY <1>1, <1>2 DEF Filter, Goto, Typed
<1>4. InHandUnanswered' /\ OnlyUnblockedGoesOn'
  BY Dispositions DEF Filter, At, Goto, Typed, InHandUnanswered, OnlyUnblockedGoesOn
<1>5. DeliveredIsTaken'
  BY Dispositions DEF Filter, Goto, Typed, DeliveredIsTaken
<1>6. SessionCovers' /\ AckMeansTaken' /\ BlockedNeverForwarded' /\ EnvelopeCovers'
  BY DEF Filter, SessionCovers, AckMeansTaken, BlockedNeverForwarded, EnvelopeCovers
<1> QED
  BY <1>3, <1>4, <1>5, <1>6

\* An answer closes the client's transaction, so that the session covers it
\* whether or not it is reset; 250 follows a delivery only.
LEMMA AnswerFlow ==
  ASSUME Flow, NEW s \in Sessions, Answer250(s) \/ Answer450(s) \/ Answer550(s)
  PROVE  Flow'
<1> USE DEF Flow, Forwarded
<1>1. PICK r \in {"250", "450", "550"} :
        /\ Answer(s, r)
        /\ Reset(s) \/ UNCHANGED held
        /\ r = "250" => pc[s] = "delivered"
  BY DEF Answer250, Answer450, Answer550, At
<1>2. Typed'
  <2>1. held' \in [Sessions -> Envelope] /\ txn' \in [Sessions -> Envelope]
    BY <1>1, EnvelopeUpdates DEF Answer, Reset, Typed
  <2>2. QED
    BY <1>1, <2>1 DEF Answer, Goto, Typed, Places
<1>3. InHandUnanswered' /\ OnlyUnblockedGoesOn' /\ DeliveredIsTaken'
  BY <1>1 DEF Answer, Goto, Typed, InHandUnanswered, OnlyUnblockedGoesOn, DeliveredIsTaken
<1>4. SessionCovers'
  BY <1>1 DEF Answer, Reset, Typed, Envelope, NoEnvelope, SessionCovers
<1>5. AckMeansTaken'
  BY <1>1 DEF Answer, Typed, AckMeansTaken, DeliveredIsTaken
<1>6. BlockedNeverForwarded' /\ EnvelopeCovers'
  BY <1>1 DEF Answer, BlockedNeverForwarded, EnvelopeCovers
<1> QED
  BY <1>2, <1>3, <1>4, <1>5, <1>6

\* A message upstream takes is one no action blocks, under an envelope that
\* covers the client's.
LEMMA RecordFlow ==
  ASSUME Flow, NEW s \in Sessions, At(s, "body")
  PROVE  /\ Record(s) \in Transfers
         /\ Record(s).session = s /\ Record(s).n = offers[s]
         /\ Record(s).acts \cap Blocking = {}
         /\ Record(s).meant.rcpts \subseteq Record(s).given.rcpts
         /\ Record(s).meant.from \in {NoOne, Record(s).given.from}
<1> USE DEF Flow
<1>1. acts[s] \in Verdicts /\ acts[s] \cap Blocking = {}
  BY DEF At, InHandUnanswered, OnlyUnblockedGoesOn
<1>2. held[s] \in Envelope /\ txn[s] \in Envelope /\ offers[s] \in Nat
  BY DEF Typed
<1>3. txn[s].rcpts \subseteq held[s].rcpts /\ txn[s].from \in {NoOne, held[s].from}
  BY DEF SessionCovers
<1> QED
  BY <1>1, <1>2, <1>3 DEF Record, Transfers

\* However the conversation with upstream goes, what it leaves agrees with it.
LEMMA ForwardFlow ==
  ASSUME Flow, NEW s \in Sessions, Forward(s)
  PROVE  Flow'
<1> USE DEF Flow, Forwarded
<1>1. CASE Break(s) \/ AnswersRefused(s) \/ RefusalUnread(s)
  <2>1. PICK at \in {"failed", "delivered"} :
          /\ Goto(s, at) /\ pc[s] \in {"dial", "body"}
          /\ at = "delivered" => pc[s] = "body" /\ astray[s]
          /\ UNCHANGED <<held, acts, peer, astray, stats, txn, offers, reply, taken>>
    BY <1>1 DEF Break, AnswersRefused, RefusalUnread, UpstreamRefuses, At
  <2>2. Typed'
    BY <2>1 DEF Goto, Typed, Places
  <2>3. InHandUnanswered' /\ OnlyUnblockedGoesOn' /\ DeliveredIsTaken'
    BY <2>1 DEF Goto, Typed, InHandUnanswered, OnlyUnblockedGoesOn, DeliveredIsTaken
  <2>4. SessionCovers' /\ AckMeansTaken' /\ BlockedNeverForwarded' /\ EnvelopeCovers'
    BY <2>1 DEF SessionCovers, AckMeansTaken, BlockedNeverForwarded, EnvelopeCovers
  <2>5. QED
    BY <2>2, <2>3, <2>4
<1>2. CASE \E R \in SUBSET Addresses : Converse(s, R)
  <2>1. Typed'
    BY <1>2 DEF Converse, Goto, Typed, Places
  <2>2. InHandUnanswered' /\ OnlyUnblockedGoesOn' /\ DeliveredIsTaken'
    BY <1>2 DEF Converse, At, Goto, Typed, InHandUnanswered, OnlyUnblockedGoesOn, DeliveredIsTaken
  <2>3. AckMeansTaken'
    BY <1>2 DEF Converse, At, Typed, AckMeansTaken, InHandUnanswered
  <2>4. SessionCovers' /\ BlockedNeverForwarded' /\ EnvelopeCovers'
    BY <1>2 DEF Converse, SessionCovers, BlockedNeverForwarded, EnvelopeCovers
  <2>5. QED
    BY <2>1, <2>2, <2>3, <2>4
<1>3. CASE AnswersTaken(s) \/ AnswerLost(s)
  <2>1. PICK at \in {"delivered", "failed"} : Goto(s, at) /\ UpstreamTakes(s)
    BY <1>3 DEF AnswersTaken, AnswerLost
  <2>2. At(s, "body") /\ taken' = taken \cup {Record(s)}
        /\ UNCHANGED <<held, acts, peer, astray, stats, txn, offers, reply>>
    BY <2>1 DEF UpstreamTakes
  <2>3. Typed'
    <3>1. taken' \subseteq Transfers
      BY <2>2, RecordFlow DEF Typed
    <3>2. pc' \in [Sessions -> Places]
      BY <2>1 DEF Goto, Typed, Places
    <3>3. QED
      BY <2>2, <3>1, <3>2 DEF Typed
  <2>4. InHandUnanswered' /\ OnlyUnblockedGoesOn' /\ SessionCovers'
    BY <2>1, <2>2 DEF Goto, At, Typed, InHandUnanswered, OnlyUnblockedGoesOn, SessionCovers
  <2>5. Record(s) \in taken' /\ Record(s).session = s /\ Record(s).n = offers'[s]
    BY <2>2, RecordFlow
  <2>6. DeliveredIsTaken' /\ AckMeansTaken'
    BY <2>1, <2>2, <2>5 DEF Goto, Typed, DeliveredIsTaken, AckMeansTaken
  <2>7. BlockedNeverForwarded' /\ EnvelopeCovers'
    BY <2>2, RecordFlow DEF BlockedNeverForwarded, EnvelopeCovers
  <2>8. QED
    BY <2>3, <2>4, <2>6, <2>7
<1> QED
  BY <1>1, <1>2, <1>3 DEF Forward

\* Every step keeps the flow invariant.
LEMMA FlowStep == Flow /\ [Next]_vars => Flow'
<1> SUFFICES ASSUME Flow, [Next]_vars PROVE Flow'
  OBVIOUS
<1>1. CASE UNCHANGED vars
  BY <1>1 DEF vars, Flow, Forwarded, Typed, InHandUnanswered, OnlyUnblockedGoesOn, DeliveredIsTaken, SessionCovers,
     AckMeansTaken, BlockedNeverForwarded, EnvelopeCovers
<1>2. CASE Next
  BY <1>2, CommandFlow, FilterFlow, AnswerFlow, ForwardFlow DEF Next, Message
<1> QED
  BY <1>1, <1>2

\* The flow invariant holds throughout.
LEMMA FlowHolds == Spec => []Flow
BY InitFlow, FlowStep, PTL DEF Spec

(***************************************************************************)
(* The statistics.  A session that is on its way upstream has been counted *)
(* as accepted, and upstream takes at most one message from it.            *)
(***************************************************************************)
Exchanging == {s \in Sessions : pc[s] \in {"dial", "body"}}

Counted ==
  /\ stats.active = Cardinality(Live)
  /\ stats.processed = stats.accepted + stats.rejected
  /\ IsFiniteSet(taken)
  /\ Cardinality(taken) + Cardinality(Exchanging) <= stats.accepted

\* Adding a member adds one at most.
LEMMA OneMore ==
  ASSUME NEW S, IsFiniteSet(S), NEW x
  PROVE  /\ IsFiniteSet(S \cup {x}) /\ Cardinality(S \cup {x}) \in Nat
         /\ Cardinality(S \cup {x}) <= Cardinality(S) + 1
<1>1. Cardinality(S) \in Nat /\ IsFiniteSet(S \cup {x})
  BY FS_CardinalityType, FS_AddElement
<1>2. Cardinality(S \cup {x}) = IF x \in S THEN Cardinality(S) ELSE Cardinality(S) + 1
  BY FS_AddElement
<1> QED
  BY <1>1, <1>2

\* Cardinalities of sets of sessions are numbers, and change by one at most.
LEMMA SessionSets ==
  ASSUME NEW S, S \subseteq Sessions, NEW s
  PROVE  /\ IsFiniteSet(S) /\ Cardinality(S) \in Nat
         /\ s \notin S => Cardinality(S \cup {s}) = Cardinality(S) + 1
         /\ Cardinality(S \cup {s}) \in Nat /\ Cardinality(S \cup {s}) <= Cardinality(S) + 1
         /\ s \in S => Cardinality(S \ {s}) = Cardinality(S) - 1
<1>1. IsFiniteSet(S)
  BY ProxyAssumption, FS_Subset
<1>2. Cardinality(S) \in Nat
  BY <1>1, FS_CardinalityType
<1>3. /\ s \in S => S \cup {s} = S
      /\ s \notin S => Cardinality(S \cup {s}) = Cardinality(S) + 1
  BY <1>1, FS_AddElement
<1>4. s \in S => Cardinality(S \ {s}) = Cardinality(S) - 1
  BY <1>1, FS_RemoveElement
<1>5. Cardinality(S \cup {s}) \in Nat /\ Cardinality(S \cup {s}) <= Cardinality(S) + 1
  BY <1>1, OneMore
<1> QED
  BY <1>1, <1>2, <1>3, <1>4, <1>5

\* All counters start at zero, and so do the sets they count.
LEMMA InitCounted == Init => Counted
<1> SUFFICES ASSUME Init PROVE Counted
  OBVIOUS
<1>1. Live = {} /\ Exchanging = {} /\ taken = {}
  BY DEF Init, Live, Exchanging
<1>2. IsFiniteSet({}) /\ Cardinality({}) = 0
  BY FS_EmptySet
<1> QED
  BY <1>1, <1>2 DEF Init, Counted

\* A step that keeps the statistics and upstream's messages and adds no session
\* to the open ones or to those on their way upstream.
LEMMA UncountedStep ==
  ASSUME Typed, Counted, stats' = stats, taken' = taken, Live' = Live,
         Exchanging' \subseteq Exchanging
  PROVE  Counted'
<1>1. Exchanging \subseteq Sessions /\ Exchanging' \subseteq Sessions
  BY DEF Exchanging
<1>2. Cardinality(Exchanging) \in Nat /\ Cardinality(Exchanging') \in Nat
      /\ Cardinality(Exchanging') <= Cardinality(Exchanging)
  BY <1>1, SessionSets, FS_Subset
<1>3. Cardinality(taken) \in Nat
  BY FS_CardinalityType DEF Counted
<1>4. stats.accepted \in Nat
  BY DEF Typed, Counters
<1> QED
  BY <1>2, <1>3, <1>4 DEF Counted

\* Every step moves a counter by as much as the set it counts.
LEMMA CountedStep ==
  ASSUME Typed, Counted, NEW s \in Sessions, Accept(s) \/ Command(s) \/ Message(s)
  PROVE  Counted'
<1> USE DEF At, Goto
<1>0. /\ Live \subseteq Sessions /\ Exchanging \subseteq Sessions
      /\ Cardinality(Live) \in Nat /\ Cardinality(Exchanging) \in Nat /\ Cardinality(taken) \in Nat
      /\ stats \in Counters /\ stats.active \in Int /\ stats.processed \in Nat
      /\ stats.accepted \in Nat /\ stats.rejected \in Nat
  <2>1. Live \subseteq Sessions /\ Exchanging \subseteq Sessions
    BY DEF Live, Exchanging
  <2>2. Cardinality(taken) \in Nat
    BY FS_CardinalityType DEF Counted
  <2>3. QED
    BY <2>1, <2>2, SessionSets DEF Typed, Counters
<1>1. CASE Accept(s)
  <2>1. s \notin Live /\ Live' = Live \cup {s} /\ Exchanging' = Exchanging
    BY <1>1 DEF Accept, Typed, Live, Exchanging
  <2>2. stats'.active = stats.active + 1 /\ taken' = taken /\ stats'.accepted = stats.accepted
        /\ stats'.processed = stats.processed /\ stats'.rejected = stats.rejected
    BY <1>1, <1>0 DEF Accept, Counters
  <2>3. QED
    BY <1>0, <2>1, <2>2, SessionSets DEF Counted
<1>2. CASE Close(s)
  <2>1. s \in Live /\ Live' = Live \ {s} /\ Exchanging' = Exchanging
    BY <1>2 DEF Close, Typed, Live, Exchanging
  <2>2. stats'.active = stats.active - 1 /\ taken' = taken /\ stats'.accepted = stats.accepted
        /\ stats'.processed = stats.processed /\ stats'.rejected = stats.rejected
    BY <1>2, <1>0 DEF Close, Counters
  <2>3. QED
    BY <1>0, <2>1, <2>2, SessionSets DEF Counted
<1>3. CASE \/ HandleRSET(s) \/ HandleDATA(s)
           \/ \E a \in Addresses \cup {NoOne} : HandleMAIL(s, a)
           \/ \E a \in Addresses : HandleRCPT(s, a)
  <2>1. stats' = stats /\ taken' = taken /\ Live' = Live /\ Exchanging' = Exchanging
    BY <1>3 DEF HandleRSET, HandleDATA, HandleMAIL, HandleRCPT, Typed, Live, Exchanging
  <2>2. QED
    BY <2>1, UncountedStep
<1>4. CASE \E A \in Verdicts : Filter(s, A)
  <2>1. PICK A \in Verdicts : Filter(s, A)
    BY <1>4
  <2>2. Live' = Live /\ taken' = taken
    BY <2>1, Dispositions DEF Filter, Typed, Live
  <2>3. CASE Disposition(A) = "refused"
    <3>1. Exchanging' = Exchanging
      BY <2>1, <2>3 DEF Filter, Typed, Exchanging
    <3>2. stats' = [stats EXCEPT !.processed = @ + 1, !.rejected = @ + 1]
      BY <2>1, <2>3 DEF Filter
    <3>3. /\ stats'.active = stats.active /\ stats'.processed = stats.processed + 1
          /\ stats'.accepted = stats.accepted /\ stats'.rejected = stats.rejected + 1
      BY <3>2, <1>0 DEF Counters
    <3>4. QED
      BY <1>0, <2>2, <3>1, <3>3 DEF Counted
  <2>4. CASE Disposition(A) # "refused"
    <3>1. Exchanging' \in {Exchanging, Exchanging \cup {s}}
      BY <2>1, <2>4, Dispositions DEF Filter, Typed, Exchanging
    <3>2. stats' = [stats EXCEPT !.processed = @ + 1, !.accepted = @ + 1]
      BY <2>1, <2>4 DEF Filter
    <3>3. /\ stats'.active = stats.active /\ stats'.processed = stats.processed + 1
          /\ stats'.accepted = stats.accepted + 1 /\ stats'.rejected = stats.rejected
      BY <3>2, <1>0 DEF Counters
    <3>4. Cardinality(Exchanging') \in Nat /\ Cardinality(Exchanging') <= Cardinality(Exchanging) + 1
      <4>1. Cardinality(Exchanging) <= Cardinality(Exchanging) + 1
        BY <1>0
      <4>2. Cardinality(Exchanging \cup {s}) \in Nat
            /\ Cardinality(Exchanging \cup {s}) <= Cardinality(Exchanging) + 1
        BY <1>0, SessionSets
      <4>3. QED
        BY <1>0, <3>1, <4>1, <4>2
    <3>5. QED
      BY <1>0, <2>2, <3>3, <3>4 DEF Counted
  <2>5. QED
    BY <2>3, <2>4
<1>5. CASE Answer250(s) \/ Answer450(s) \/ Answer550(s)
  <2>1. stats' = stats /\ taken' = taken /\ Live' = Live /\ Exchanging' = Exchanging
    BY <1>5 DEF Answer250, Answer450, Answer550, Answer, Typed, Live, Exchanging
  <2>2. QED
    BY <2>1, UncountedStep
<1>6. CASE Break(s) \/ AnswersRefused(s) \/ RefusalUnread(s) \/ \E R \in SUBSET Addresses : Converse(s, R)
  <2>1. stats' = stats /\ taken' = taken /\ Live' = Live /\ Exchanging' \subseteq Exchanging
    BY <1>6 DEF Break, AnswersRefused, RefusalUnread, UpstreamRefuses, Converse, Typed, Live, Exchanging
  <2>2. QED
    BY <2>1, UncountedStep
<1>7. CASE AnswersTaken(s) \/ AnswerLost(s)
  <2>1. UpstreamTakes(s) /\ \E at \in {"delivered", "failed"} : pc' = [pc EXCEPT ![s] = at]
    BY <1>7 DEF AnswersTaken, AnswerLost
  <2>2. stats' = stats /\ Live' = Live /\ s \in Exchanging /\ Exchanging' = Exchanging \ {s}
    BY <2>1 DEF UpstreamTakes, Typed, Live, Exchanging
  <2>3. taken' = taken \cup {Record(s)}
    BY <2>1 DEF UpstreamTakes
  <2>4. IsFiniteSet(taken') /\ Cardinality(taken') \in Nat /\ Cardinality(taken') <= Cardinality(taken) + 1
    BY <2>3, OneMore DEF Counted
  <2>5. Cardinality(Exchanging') = Cardinality(Exchanging) - 1
    BY <1>0, <2>2, SessionSets
  <2>6. QED
    BY <1>0, <2>2, <2>4, <2>5 DEF Counted
<1> QED
  BY <1>1, <1>2, <1>3, <1>4, <1>5, <1>6, <1>7 DEF Command, Message, Forward

\* The counters agree with the sets throughout.
LEMMA CountedNext == Typed /\ Counted /\ [Next]_vars => Counted'
<1> SUFFICES ASSUME Typed, Counted, [Next]_vars PROVE Counted'
  OBVIOUS
<1>1. CASE Next
  BY <1>1, CountedStep DEF Next
<1>2. CASE UNCHANGED vars
  BY <1>2 DEF vars, Counted, Live, Exchanging
<1> QED
  BY <1>1, <1>2

LEMMA CountedHolds == Spec => []Counted
<1>1. Flow => Typed
  BY DEF Flow
<1> QED
  BY <1>1, CountedNext, InitCounted, FlowHolds, PTL DEF Spec

\* As many are open as are counted, so the count is no less than zero.
LEMMA TypesFollow == Typed /\ Counted => TypeOK
<1> SUFFICES ASSUME Typed, Counted PROVE TypeOK
  OBVIOUS
<1>1. Cardinality(Live) \in Nat
  BY SessionSets DEF Live
<1>2. stats.active \in Nat
  BY <1>1 DEF Counted
<1>3. stats \in [total : Nat, active : Nat, processed : Nat, accepted : Nat, rejected : Nat]
  BY <1>2 DEF Typed, Counters
<1> QED
  BY <1>3 DEF Typed, TypeOK

LEMMA CountsFollow == Typed /\ Counted => StatsAddUp
<1> SUFFICES ASSUME Typed, Counted PROVE StatsAddUp
  OBVIOUS
<1>1. Cardinality(Exchanging) \in Nat
  BY SessionSets DEF Exchanging
<1>2. Cardinality(taken) \in Nat /\ stats.accepted \in Nat
  BY FS_CardinalityType DEF Counted, Typed, Counters
<1> QED
  BY <1>1, <1>2 DEF Counted, StatsAddUp


\* Every variable keeps its type; in particular the number of open connections
\* never falls below zero, as many as open and close at once.
THEOREM TypeCorrect == Spec => []TypeOK
BY TypesFollow, FlowHolds, CountedHolds, PTL DEF Flow

\* What the gateway answers with 250, upstream has.
THEOREM Acknowledged == Spec => []AckMeansTaken
BY FlowHolds, PTL DEF Flow

\* What a script blocks, or fails over, never reaches upstream.
THEOREM Blocked == Spec => []BlockedNeverForwarded
BY FlowHolds, PTL DEF Flow

\* Whoever the client names for a message is in the envelope upstream is given.
THEOREM Covered == Spec => []EnvelopeCovers
BY FlowHolds, PTL DEF Flow

\* Whatever upstream has, a script has let pass, and it is for all for whom it was meant.
THEOREM TakenRightly == Spec => []TakenIsRight
<1>1. BlockedNeverForwarded /\ EnvelopeCovers => TakenIsRight
  BY DEF TakenIsRight
<1>2. QED
  BY <1>1, Blocked, Covered, PTL

\* The statistics that all sessions share add up.
THEOREM Counts == Spec => []StatsAddUp
BY CountsFollow, FlowHolds, CountedHolds, PTL DEF Flow

------------------------------------------------------------------------------
(***************************************************************************)
(* The engine.                                                             *)
(***************************************************************************)
IsContext(c) ==
  c = [facts |-> c.facts, actions |-> c.actions, added |-> c.added, logs |-> c.logs]

IsRun(c) ==
  /\ c = [facts |-> c.facts, actions |-> c.actions, added |-> c.added, logs |-> c.logs,
          failed |-> c.failed]
  /\ c.failed \in BOOLEAN

ActionsOf(made) ==
  LET left == Emitting(Ran(made)) IN
  [i \in DOMAIN left |-> <<Emits[left[i][1]], left[i][2]>>]

HeadersOf(made) == {k[2] : k \in {a \in ToSet(Ran(made)) : a[1] = "add_header"}}

LogsOf(made) ==
  LET logs == Logging(Ran(made)) IN [i \in DOMAIN logs |-> logs[i][2]]

\* What calls add to a context does not depend on what is in it.
LEMMA Interpreted ==
  ASSUME NEW c, IsRun(c), NEW made
  PROVE  /\ IsRun(Interpret(c, made))
         /\ Interpret(c, made).facts = c.facts
         /\ Interpret(c, made).actions = c.actions \o ActionsOf(made)
         /\ Interpret(c, made).added = c.added \cup HeadersOf(made)
         /\ Interpret(c, made).logs = c.logs \o LogsOf(made)
         /\ Interpret(c, made).failed = Fails(made)
<1> DEFINE r == Interpret(c, made)
           actions == c.actions \o ActionsOf(made)
           added == c.added \cup HeadersOf(made)
           logs == c.logs \o LogsOf(made)
           fails == Fails(made)
<1>1. fails \in BOOLEAN
  BY DEF Fails
<1>2. r = [c EXCEPT !.actions = actions, !.added = added, !.logs = logs, !.failed = fails]
  BY DEF Interpret, ActionsOf, HeadersOf, LogsOf
<1> HIDE DEF r, actions, added, logs, fails
<1>3. r = [facts |-> c.facts, actions |-> actions, added |-> added, logs |-> logs, failed |-> fails]
  BY <1>2 DEF IsRun
<1>4. QED
  BY <1>1, <1>3 DEF IsRun, r, actions, added, logs, fails

\* Alike: from the same message, actions and log entries.
AlikeOver(added, r, q) ==
  /\ IsRun(r) /\ IsRun(q) /\ r.failed = q.failed /\ r.actions = q.actions /\ r.logs = q.logs
  /\ r.added = added \cup q.added /\ r.facts = q.facts

LEMMA InterpretedAlike ==
  ASSUME NEW added, NEW r, NEW q, AlikeOver(added, r, q), NEW made
  PROVE  AlikeOver(added, Interpret(r, made), Interpret(q, made))
<1>1. IsRun(r) /\ IsRun(q)
  BY DEF AlikeOver
<1>2. /\ IsRun(Interpret(r, made)) /\ Interpret(r, made).facts = r.facts
      /\ Interpret(r, made).actions = r.actions \o ActionsOf(made)
      /\ Interpret(r, made).added = r.added \cup HeadersOf(made)
      /\ Interpret(r, made).logs = r.logs \o LogsOf(made) /\ Interpret(r, made).failed = Fails(made)
  BY <1>1, Interpreted
<1>3. /\ IsRun(Interpret(q, made)) /\ Interpret(q, made).facts = q.facts
      /\ Interpret(q, made).actions = q.actions \o ActionsOf(made)
      /\ Interpret(q, made).added = q.added \cup HeadersOf(made)
      /\ Interpret(q, made).logs = q.logs \o LogsOf(made) /\ Interpret(q, made).failed = Fails(made)
  BY <1>1, Interpreted
<1>4. QED
  BY <1>2, <1>3 DEF AlikeOver

WithAccept(r) == [r EXCEPT !.actions = <<<<"accept", "">>>>]

LEMMA Accepting ==
  ASSUME NEW x, IsRun(x)
  PROVE  /\ IsRun(WithAccept(x)) /\ WithAccept(x).actions = <<<<"accept", "">>>>
         /\ WithAccept(x).facts = x.facts /\ WithAccept(x).added = x.added
         /\ WithAccept(x).logs = x.logs /\ WithAccept(x).failed = x.failed
<1> DEFINE accept == <<<<"accept", "">>>>
           y == WithAccept(x)
<1>1. y = [x EXCEPT !.actions = accept]
  BY DEF WithAccept
<1> HIDE DEF accept, y
<1>2. y = [facts |-> x.facts, actions |-> accept, added |-> x.added, logs |-> x.logs,
           failed |-> x.failed]
  BY <1>1 DEF IsRun
<1>3. IsRun(y) /\ y.actions = accept /\ y.facts = x.facts /\ y.added = x.added
      /\ y.logs = x.logs /\ y.failed = x.failed
  BY <1>2, Zenon DEF IsRun
<1>4. QED
  BY <1>3 DEF y, accept

LEMMA AcceptedAlike ==
  ASSUME NEW added, NEW r, NEW q, AlikeOver(added, r, q)
  PROVE  AlikeOver(added, WithAccept(r), WithAccept(q))
<1> DEFINE accept == <<<<"accept", "">>>>
<1>1. \A x : IsRun(x) =>
         /\ IsRun(WithAccept(x)) /\ WithAccept(x).actions = accept
         /\ WithAccept(x).facts = x.facts /\ WithAccept(x).added = x.added
         /\ WithAccept(x).logs = x.logs /\ WithAccept(x).failed = x.failed
  BY Accepting
<1> HIDE DEF accept
<1>2. IsRun(r) /\ IsRun(q)
  BY DEF AlikeOver
<1>3. /\ IsRun(WithAccept(r)) /\ WithAccept(r).actions = accept
      /\ WithAccept(r).facts = r.facts /\ WithAccept(r).added = r.added
      /\ WithAccept(r).logs = r.logs /\ WithAccept(r).failed = r.failed
  BY <1>1, <1>2
<1>4. /\ IsRun(WithAccept(q)) /\ WithAccept(q).actions = accept
      /\ WithAccept(q).facts = q.facts /\ WithAccept(q).added = q.added
      /\ WithAccept(q).logs = q.logs /\ WithAccept(q).failed = q.failed
  BY <1>1, <1>2
<1>5. QED
  BY <1>3, <1>4, Zenon DEF AlikeOver

\* Two runs of a script that begin with the same message, actions and log entries end
\* with the same, however they differ in the headers added before.
LEMMA RunsAlike ==
  ASSUME NEW script, NEW c, NEW d, IsContext(c), IsContext(d), c.facts = d.facts,
         c.actions = d.actions, c.logs = d.logs, d.added = {}
  PROVE  AlikeOver(c.added, ExecuteEngine(script, c), ExecuteEngine(script, d))
<1> DEFINE root == Source[script].root[c.facts]
           function == Source[script].evaluate[c.facts]
           Top(x) == Interpret(Started(x), root)
           Result(x) == IF Top(x).failed THEN Top(x)
                        ELSE IF Source[script].evaluate # NoFunction THEN Interpret(Top(x), function)
                        ELSE IF Top(x).actions = <<>> THEN WithAccept(Top(x)) ELSE Top(x)
<1>1. ExecuteEngine(script, c) = Result(c) /\ ExecuteEngine(script, d) = Result(d)
  BY DEF ExecuteEngine, WithAccept
<1>2. AlikeOver(c.added, Started(c), Started(d))
  BY DEF Started, IsRun, AlikeOver
<1>3. AlikeOver(c.added, Top(c), Top(d))
  BY <1>2, InterpretedAlike
<1> HIDE DEF Top
<1>4. AlikeOver(c.added, Interpret(Top(c), function), Interpret(Top(d), function))
  BY <1>3, InterpretedAlike
<1>5. AlikeOver(c.added, WithAccept(Top(c)), WithAccept(Top(d)))
  BY <1>3, AcceptedAlike
<1> HIDE DEF root, function
<1>6. AlikeOver(c.added, Result(c), Result(d))
  <2>1. Top(c).failed = Top(d).failed /\ Top(c).actions = Top(d).actions
    BY <1>3 DEF AlikeOver
  <2>2. CASE Top(c).failed
    BY <1>3, <2>1, <2>2
  <2>3. CASE ~Top(c).failed /\ Source[script].evaluate # NoFunction
    BY <1>4, <2>1, <2>3
  <2>4. CASE ~Top(c).failed /\ Source[script].evaluate = NoFunction /\ Top(c).actions = <<>>
    BY <1>5, <2>1, <2>4
  <2>5. CASE ~Top(c).failed /\ Source[script].evaluate = NoFunction /\ Top(c).actions # <<>>
    BY <1>3, <2>1, <2>5
  <2>6. QED
    BY <2>2, <2>3, <2>4, <2>5
<1>7. QED
  BY <1>1, <1>6

\* The name of an action: its builtin's, where the gateway looks at it.
LEMMA Names ==
  ASSUME NEW f \in DOMAIN Emits
  PROVE  /\ Emits[f] \notin {"error", "fileinto:Spam"}
         /\ Emits[f] \in Blocking <=> f \in {"discard", "quarantine", "bounce", "drop"}
         /\ f \in {"discard", "quarantine", "bounce", "drop", "fileinto"} => Emits[f] = f
         /\ Emits[f] = "fileinto" => f = "fileinto"
  BY DEF Emits, FilingCalls, ReplyCalls, MarkingCalls, SkippingCalls, PolicyCalls, RefusingCalls,
         LogCalls, RuleCalls, CheckCalls, MXCheckCalls, DomainCalls, Renamed, Blocking

Made == (DOMAIN Emits \cup Queries \cup {"error"}) \X STRING

WellFormed(made) ==
  made \in Seq(Made) /\ \A i \in DOMAIN made : made[i][1] \in Bare => made[i][2] = ""

\* The actions that a script may leave.
Left ==
  {<<Emits[k[1]], k[2]>> : k \in {m \in Made : m[1] \in DOMAIN Emits /\ (m[1] \in Bare => m[2] = "")}}
    \cup {<<"accept", "">>}

LEMMA RanIsPart ==
  ASSUME NEW made, WellFormed(made)
  PROVE  WellFormed(Ran(made))
<1> DEFINE failures == {i \in DOMAIN made : made[i][1] = "error"}
<1>1. made \in Seq(Made) /\ DOMAIN made = 1..Len(made) /\ Len(made) \in Nat
  <2>1. made \in Seq(Made)
    BY DEF WellFormed
  <2>2. QED
    BY <2>1
<1>2. CASE failures = {}
  BY <1>2 DEF Ran
<1>3. CASE failures # {}
  <2>1. \E n \in failures : \A m \in failures : n <= m
    <3>1. failures \in SUBSET Nat
      BY <1>1
    <3> HIDE DEF failures
    <3>2. QED
      BY <1>3, <3>1, NatLeast
  <2>2. Min(failures) \in failures
    BY <2>1 DEF Min
  <2>3. Ran(made) = SubSeq(made, 1, Min(failures) - 1)
    BY <1>3 DEF Ran
  <2> DEFINE n == Min(failures) - 1
  <2>4. n \in 0..Len(made)
    BY <1>1, <2>2
  <2> HIDE DEF n, failures
  <2>5. Ran(made) = SubSeq(made, 1, n)
    BY <2>3 DEF n
  <2>6. Ran(made) \in Seq(Made) /\ DOMAIN Ran(made) = 1..n /\ \A i \in 1..n : Ran(made)[i] = made[i]
    BY <1>1, <2>4, <2>5
  <2>7. \A i \in 1..n : made[i][1] \in Bare => made[i][2] = ""
    <3>1. \A i \in 1..n : i \in DOMAIN made
      BY <1>1, <2>4
    <3>2. QED
      BY <3>1, Zenon DEF WellFormed
  <2>8. QED
    BY <2>6, <2>7, Zenon DEF WellFormed
<1>4. QED
  BY <1>2, <1>3

LEMMA ActionsLeft ==
  ASSUME NEW made, WellFormed(made)
  PROVE  ActionsOf(made) \in Seq(Left)
<1> DEFINE ran == Ran(made)
           K == {k \in ToSet(ran) : k[1] \in DOMAIN Emits}
           left == Only(ran, K)
<1>1. WellFormed(ran)
  BY RanIsPart
<1>2. left \in Seq(Made \cap K)
  BY <1>1, OnlyProperties DEF WellFormed
<1>3. \A k \in Made \cap K : <<Emits[k[1]], k[2]>> \in Left
  BY <1>1 DEF ToSet, WellFormed, Left
<1>4. ActionsOf(made) = [i \in DOMAIN left |-> <<Emits[left[i][1]], left[i][2]>>]
  BY DEF ActionsOf, Emitting
<1> HIDE DEF left, K
<1>5. DOMAIN left = 1..Len(left) /\ Len(left) \in Nat /\ \A i \in DOMAIN left : left[i] \in Made \cap K
  BY <1>2
<1>6. \A i \in 1..Len(left) : <<Emits[left[i][1]], left[i][2]>> \in Left
  BY <1>3, <1>5
<1>7. ActionsOf(made) \in [1..Len(left) -> Left]
  BY <1>4, <1>5, <1>6
<1>8. QED
  BY <1>5, <1>7, IsASeq

\* Both loops over the actions see the same refusals.
LEMMA RefusalsAgree ==
  ASSUME NEW a \in Left
  PROVE  a \in RefusalActions <=>
           (IF a = <<"fileinto", "Spam">> THEN "fileinto:Spam" ELSE a[1]) \in Blocking
<1>1. CASE a = <<"accept", "">>
  BY <1>1 DEF RefusalActions, Blocking
<1>2. ASSUME NEW k \in Made, k[1] \in DOMAIN Emits, k[1] \in Bare => k[2] = "", a = <<Emits[k[1]], k[2]>>
      PROVE  a \in RefusalActions <=>
               (IF a = <<"fileinto", "Spam">> THEN "fileinto:Spam" ELSE a[1]) \in Blocking
  <2> DEFINE name == Emits[k[1]]
  <2>1. /\ name \notin {"error", "fileinto:Spam"}
        /\ name \in Blocking <=> k[1] \in {"discard", "quarantine", "bounce", "drop"}
    BY <1>2, Names
  <2>2. name \in Blocking => k[2] = ""
    BY <1>2, <2>1 DEF Bare
  <2> HIDE DEF name
  <2>3. a[1] = name /\ a[2] = k[2] /\ a = <<name, k[2]>>
    BY <1>2 DEF name
  <2>4. name \in Blocking <=> name \in {"discard", "quarantine", "bounce", "drop"}
    BY <2>1 DEF Blocking
  <2>5. \A n, v : a = <<n, v>> <=> name = n /\ k[2] = v
    BY <2>3
  <2>6. /\ a = <<"discard", "">> <=> name = "discard" /\ k[2] = ""
        /\ a = <<"quarantine", "">> <=> name = "quarantine" /\ k[2] = ""
        /\ a = <<"bounce", "">> <=> name = "bounce" /\ k[2] = ""
        /\ a = <<"drop", "">> <=> name = "drop" /\ k[2] = ""
    BY <2>5
  <2>7. a \in RefusalActions <=> a = <<"fileinto", "Spam">> \/ (name \in {"discard", "quarantine", "bounce", "drop"} /\ k[2] = "")
    BY <2>6, Zenon DEF RefusalActions
  <2>8. CASE a = <<"fileinto", "Spam">>
    BY <2>7, <2>8 DEF Blocking
  <2>9. CASE a # <<"fileinto", "Spam">>
    BY <2>2, <2>3, <2>4, <2>7, <2>9, Zenon
  <2>10. QED
    BY <2>8, <2>9
<1>3. QED
  BY <1>1, <1>2 DEF Left

LEMMA EngineLeaves ==
  ASSUME NEW script \in DOMAIN Source, NEW F \in SUBSET Facts
  PROVE  ExecuteEngine(script, NewContext(F)).actions \in Seq(Left)
<1> DEFINE c == Started(NewContext(F))
           root == Source[script].root[F]
           function == Source[script].evaluate[F]
           top == Interpret(c, root)
<1>1. IsRun(c) /\ c.actions = <<>> /\ c.facts = F /\ NewContext(F).facts = F
  BY DEF Started, NewContext, IsRun
<1>2. WellFormed(root) /\ (Source[script].evaluate # NoFunction => WellFormed(function))
  <2> DEFINE All == {root} \cup (IF Source[script].evaluate = NoFunction THEN {} ELSE {function})
  <2>0. \A m \in All : m \in Seq(Made) /\ \A i \in DOMAIN m : m[i][1] \in Bare => m[i][2] = ""
    BY SourceAssumption, Zenon DEF Made
  <2>1. /\ root \in Seq(Made) /\ \A i \in DOMAIN root : root[i][1] \in Bare => root[i][2] = ""
    <3>1. root \in All
      OBVIOUS
    <3>2. QED
      BY <2>0, <3>1, Zenon
  <2>2. ASSUME Source[script].evaluate # NoFunction
        PROVE  function \in Seq(Made) /\ \A i \in DOMAIN function : function[i][1] \in Bare => function[i][2] = ""
    <3>1. function \in All
      BY <2>2
    <3>2. QED
      BY <2>0, <3>1, Zenon
  <2>3. QED
    BY <2>1, <2>2, Zenon DEF WellFormed
<1> HIDE DEF c, root, function
<1>3. IsRun(top) /\ top.actions = <<>> \o ActionsOf(root)
  BY <1>1, Interpreted, ZenonT(40)
<1>4. ActionsOf(root) \in Seq(Left)
  BY <1>2, ActionsLeft
<1>5. top.actions \in Seq(Left)
  BY <1>3, <1>4
<1> HIDE DEF top
<1>6. Source[script].evaluate # NoFunction => Interpret(top, function).actions \in Seq(Left)
  <2>1. Interpret(top, function).actions = top.actions \o ActionsOf(function)
    BY <1>3, Interpreted
  <2>2. QED
    BY <1>2, <1>5, <2>1, ActionsLeft
<1>7. [top EXCEPT !.actions = <<<<"accept", "">>>>].actions \in Seq(Left)
  <2> DEFINE accept == <<<<"accept", "">>>>
  <2>1. accept \in Seq(Left)
    BY DEF Left
  <2> HIDE DEF accept
  <2>2. [top EXCEPT !.actions = accept].actions = accept
    BY <1>3 DEF IsRun
  <2>3. QED
    BY <2>1, <2>2 DEF accept
<1>8. /\ ExecuteEngine(script, NewContext(F)) =
           IF top.failed THEN top
           ELSE IF Source[script].evaluate # NoFunction THEN Interpret(top, function)
           ELSE IF top.actions = <<>> THEN [top EXCEPT !.actions = <<<<"accept", "">>>>] ELSE top
  BY <1>1 DEF ExecuteEngine, top, c, root, function
<1>9. QED
  BY <1>5, <1>6, <1>7, <1>8

\* The service accepts what the sessions do not refuse.
LEMMA VerdictsAgree ==
  ASSUME NEW script \in DOMAIN Source, NEW F \in SUBSET Facts
  PROVE  LET r == ExecuteEngine(script, NewContext(F))
         IN  (~r.failed /\ Passes(r.actions)) <=> Disposition(Outcome(r)) # "refused"
<1> DEFINE r == ExecuteEngine(script, NewContext(F))
           Told(a) == IF a = <<"fileinto", "Spam">> THEN "fileinto:Spam" ELSE a[1]
<1>1. r.actions \in Seq(Left)
  BY EngineLeaves
<1> HIDE DEF r
<1>2. Disposition(Outcome(r)) # "refused" <=> Outcome(r) \cap Blocking = {}
  BY DEF Disposition
<1>3. CASE r.failed
  <2>1. Outcome(r) = {"error"}
    BY <1>3 DEF Outcome
  <2>2. "error" \in Outcome(r) \cap Blocking
    BY <2>1 DEF Blocking
  <2>3. Outcome(r) \cap Blocking # {}
    BY <2>2, Zenon
  <2>4. QED
    BY <1>2, <1>3, <2>3, Zenon DEF r
<1>4. CASE ~r.failed
  <2>1. Outcome(r) = {Told(r.actions[i]) : i \in DOMAIN r.actions}
    BY <1>4 DEF Outcome, ToSet
  <2>2. \A i \in DOMAIN r.actions : r.actions[i] \in RefusalActions <=> Told(r.actions[i]) \in Blocking
    <3>1. \A i \in DOMAIN r.actions : r.actions[i] \in Left
      BY <1>1
    <3>2. QED
      BY <3>1, RefusalsAgree, Zenon
  <2> HIDE DEF Told
  <2>3. Passes(r.actions) <=> Outcome(r) \cap Blocking = {}
    BY <2>1, <2>2 DEF Passes
  <2>4. QED
    BY <1>2, <1>4, <2>3, Zenon DEF r
<1>5. QED
  BY <1>3, <1>4 DEF r

------------------------------------------------------------------------------
(***************************************************************************)
(* The two entrances of the gateway.                                       *)
(***************************************************************************)
ServiceInv == ServiceTypeOK /\ SameVerdict

LEMMA ServiceInitially == ServiceInit => ServiceInv
BY ServiceAssumption DEF ServiceInit, ServiceInv, ServiceTypeOK, SameVerdict

LEMMA EngineRuns ==
  ASSUME NEW script, NEW c, IsContext(c)
  PROVE  IsRun(ExecuteEngine(script, c)) /\ ExecuteEngine(script, c).facts = c.facts
<1> DEFINE top == Interpret(Started(c), Source[script].root[c.facts])
           function == Source[script].evaluate[c.facts]
<1>1. IsRun(Started(c)) /\ Started(c).facts = c.facts
  BY DEF Started, IsRun
<1>2. IsRun(top) /\ top.facts = c.facts
  BY <1>1, Interpreted
<1>3. AlikeOver({}, top, top)
  BY <1>2 DEF AlikeOver
<1>4. IsRun(WithAccept(top)) /\ WithAccept(top).facts = top.facts
  BY <1>2, Accepting
<1>5. ExecuteEngine(script, c) =
        IF top.failed THEN top
        ELSE IF Source[script].evaluate # NoFunction THEN Interpret(top, function)
        ELSE IF top.actions = <<>> THEN WithAccept(top) ELSE top
  BY DEF ExecuteEngine, WithAccept
<1> HIDE DEF top, function
<1>6. IsRun(Interpret(top, function)) /\ Interpret(top, function).facts = top.facts
  BY <1>2, Interpreted
<1>7. QED
  BY <1>2, <1>4, <1>5, <1>6

\* The service answers with the verdict of the sessions.
LEMMA ServiceStays == ServiceInv /\ [ServiceNext]_rpcVars => ServiceInv'
<1> SUFFICES ASSUME ServiceInv, [ServiceNext]_rpcVars PROVE ServiceInv'
  OBVIOUS
<1>1. CASE UNCHANGED rpcVars
  BY <1>1 DEF rpcVars, ServiceInv, ServiceTypeOK, SameVerdict
<1>2. ASSUME NEW s \in Scripts, NEW F \in Mail, NEW forward \in BOOLEAN,
             ProcessMessage(s, Visible(F), forward)
      PROVE  ServiceInv'
  <2> DEFINE facts == Visible(F)
             r == ExecuteEngine(s, NewContext(facts))
  <2>1. s \in DOMAIN Source /\ facts \in SUBSET Facts /\ facts \subseteq Visible(Facts)
    BY ServiceAssumption, SourceAssumption DEF Visible
  <2>2. (~r.failed /\ Passes(r.actions)) <=> Disposition(Outcome(r)) # "refused"
    BY <2>1, VerdictsAgree
  <2>3. PICK accepted \in BOOLEAN, failed \in BOOLEAN :
          /\ Respond(s, facts, forward, accepted, failed) /\ calls < MaxCalls
          /\ accepted => ~r.failed /\ Passes(r.actions)
          /\ ~r.failed /\ Passes(r.actions) /\ ~(forward /\ Upstream) => accepted
    <3>1. CASE RefuseFailed(s, facts, forward)
      BY <1>2, <3>1 DEF RefuseFailed, ProcessMessage
    <3>2. ASSUME NEW reached \in BOOLEAN, CountAndForward(s, facts, forward, reached)
          PROVE  \E accepted \in BOOLEAN, failed \in BOOLEAN :
                   /\ Respond(s, facts, forward, accepted, failed) /\ calls < MaxCalls
                   /\ accepted => ~r.failed /\ Passes(r.actions)
                   /\ ~r.failed /\ Passes(r.actions) /\ ~(forward /\ Upstream) => accepted
      <4> DEFINE accepted == Passes(r.actions) /\ (forward /\ Upstream => reached)
      <4>1. Respond(s, facts, forward, accepted, FALSE) /\ ~r.failed
        BY <3>2 DEF CountAndForward
      <4>2. accepted \in BOOLEAN
        BY DEF Passes
      <4>3. QED
        BY <1>2, <4>1, <4>2, Zenon DEF ProcessMessage
    <3>3. QED
      BY <1>2, <3>1, <3>2 DEF ProcessMessage
  <2> HIDE DEF facts, r
  <2>4. /\ rpc' = [asked |-> TRUE, script |-> s, facts |-> facts, forward |-> forward,
                   accepted |-> accepted, failed |-> failed]
        /\ calls' = calls + 1
    BY <2>3 DEF Respond
  <2>5. /\ rpc'.script = s /\ rpc'.facts = facts /\ rpc'.forward = forward /\ rpc'.asked = TRUE
        /\ rpc'.accepted = accepted /\ rpc'.failed = failed
    BY <2>4
  <2>6. ServiceTypeOK'
    <3>1. calls' \in 0..MaxCalls
      BY <2>3, <2>4, ServiceAssumption DEF ServiceInv, ServiceTypeOK
    <3>2. QED
      BY <2>1, <2>5, <3>1 DEF ServiceTypeOK
  <2>7. SameVerdict'
    <3>1. SameVerdict' <=>
            (rpc' # NoCall =>
               /\ accepted => Disposition(Outcome(r)) # "refused"
               /\ Disposition(Outcome(r)) # "refused" /\ ~(forward /\ Upstream) => accepted)
      BY <2>5, Zenon DEF SameVerdict, r
    <3>2. QED
      BY <2>2, <2>3, <3>1, Zenon
  <2>8. QED
    BY <2>6, <2>7 DEF ServiceInv
<1>3. QED
  BY <1>1, <1>2 DEF ServiceNext

------------------------------------------------------------------------------
(***************************************************************************)
(* The tools.                                                              *)
(***************************************************************************)

\* A report of a run by the program p.
Honest(rep) ==
  LET fresh == ExecuteEngine(rep.script, NewContext(rep.facts))
  IN /\ rep.script \in Loadable
     /\ rep.failed = fresh.failed
     /\ ~fresh.failed =>
          /\ rep.left.actions = fresh.actions /\ rep.left.logs = fresh.logs
          /\ fresh.added \subseteq rep.left.added
          /\ rep.of # "repl" => rep.left.added = fresh.added

ToolsInv ==
  /\ tool \in {"shell", "repl", "debug"}
  /\ loaded \in Loadable \cup {NoScript}
  /\ tool = "debug" => loaded \in Loadable
  /\ IsContext(ctx) /\ ctx.facts \subseteq Facts
  /\ breaks \subseteq 1..ScriptLines
  /\ report # Nothing => Honest(report)

LEMMA ToolsInitially == ToolsInit => ToolsInv
BY DEF ToolsInit, ToolsInv, IsContext, NewContext

LEMMA NewContexts ==
  ASSUME NEW F
  PROVE  /\ IsContext(NewContext(F)) /\ NewContext(F).facts = F /\ NewContext(F).actions = <<>>
         /\ NewContext(F).logs = <<>> /\ NewContext(F).added = {}
BY DEF IsContext, NewContext

LEMMA KeptContexts ==
  ASSUME NEW r
  PROVE  /\ IsContext(Kept(r)) /\ Kept(r).facts = r.facts /\ Kept(r).actions = r.actions
         /\ Kept(r).logs = r.logs /\ Kept(r).added = r.added
BY DEF IsContext, Kept

\* What a run leaves that begins without actions and log entries.
LEMMA RunsAreFresh ==
  ASSUME NEW script \in Loadable, NEW c, IsContext(c), c.actions = <<>>, c.logs = <<>>,
         NEW rep, rep.script = script, rep.facts = c.facts,
         rep.failed = ExecuteEngine(script, c).failed,
         ~rep.failed => rep.left = Kept(ExecuteEngine(script, c)),
         rep.of # "repl" => c.added = {}
  PROVE  Honest(rep)
<1> DEFINE r == ExecuteEngine(script, c)
           q == ExecuteEngine(script, NewContext(c.facts))
<1>1. AlikeOver(c.added, r, q)
  BY NewContexts, RunsAlike
<1> HIDE DEF r, q
<1>2. r.failed = q.failed /\ r.actions = q.actions /\ r.logs = q.logs /\ r.added = c.added \cup q.added
  BY <1>1 DEF AlikeOver
<1>3. ~q.failed => /\ rep.left.actions = q.actions /\ rep.left.logs = q.logs
                   /\ rep.left.added = c.added \cup q.added
  BY <1>2, KeptContexts DEF r
<1>4. rep.failed = q.failed
  BY <1>2 DEF r
<1>5. ~q.failed => /\ q.added \subseteq rep.left.added
                   /\ rep.of # "repl" => rep.left.added = q.added
  BY <1>3
<1>6. QED
  BY <1>3, <1>4, <1>5, Zenon DEF Honest, q

\* A run that is shown keeps the invariant's report, and leaves a context.
LEMMA ShownRuns ==
  ASSUME NEW script \in Loadable, NEW c, IsContext(c), c.actions = <<>>, c.logs = <<>>,
         tool' # "repl" => c.added = {}, Show(script, ExecuteEngine(script, c))
  PROVE  Honest(report') /\ Kept(ExecuteEngine(script, c)).facts = c.facts
<1> DEFINE r == ExecuteEngine(script, c)
<1>1. r.facts = c.facts
  BY EngineRuns
<1> HIDE DEF r
<1>2. report' = [of |-> tool', script |-> script, facts |-> r.facts, failed |-> r.failed,
                 left |-> IF r.failed THEN NewContext(r.facts) ELSE Kept(r)]
  BY DEF Show, r
<1>3. /\ report'.of = tool' /\ report'.script = script /\ report'.facts = c.facts
      /\ report'.failed = r.failed /\ (~r.failed => report'.left = Kept(r))
  BY <1>1, <1>2
<1>4. Honest(report')
  <2>1. PICK rep : rep = report'
    OBVIOUS
  <2>2. rep.script = script /\ rep.facts = c.facts /\ rep.failed = ExecuteEngine(script, c).failed
        /\ (~rep.failed => rep.left = Kept(ExecuteEngine(script, c)))
        /\ (rep.of # "repl" => c.added = {})
    BY <1>3, <2>1 DEF r
  <2>3. Honest(rep)
    BY <2>2, RunsAreFresh
  <2>4. QED
    BY <2>1, <2>3
<1>5. Kept(r).facts = c.facts
  BY <1>1, KeptContexts
<1>6. QED
  BY <1>4, <1>5 DEF r

LEMMA RunsOnContexts ==
  ASSUME ToolsInv, NEW script \in Loadable, NEW c, IsContext(c), c.actions = <<>>, c.logs = <<>>,
         tool # "repl" => c.added = {}, c.facts \subseteq Facts, RunOn(script, c),
         UNCHANGED <<tool, loaded, breaks>>
  PROVE  ToolsInv'
<1>1. ctx' = Kept(ExecuteEngine(script, c)) /\ Show(script, ExecuteEngine(script, c))
  BY DEF RunOn
<1>2. Honest(report') /\ Kept(ExecuteEngine(script, c)).facts = c.facts
  BY <1>1, ShownRuns
<1>3. IsContext(ctx') /\ ctx'.facts \subseteq Facts
  BY <1>1, <1>2, KeptContexts
<1>4. IsContext(ctx)' /\ Honest(report)'
  BY <1>2, <1>3 DEF IsContext, Honest
<1>5. QED
  BY <1>3, <1>4 DEF ToolsInv

LEMMA ReportStays ==
  ASSUME report # Nothing => Honest(report), UNCHANGED report
  PROVE  report' # Nothing => Honest(report)'
<1>1. PICK rep : rep = report /\ rep = report'
  OBVIOUS
<1>2. Honest(rep) = Honest(report) /\ Honest(rep) = Honest(report)'
  BY <1>1 DEF Honest
<1>3. QED
  BY <1>2

\* Every command of the tools.
LEMMA ToolsStay == ToolsInv /\ [ToolsNext]_toolVars => ToolsInv'
<1> SUFFICES ASSUME ToolsInv, [ToolsNext]_toolVars PROVE ToolsInv'
  OBVIOUS
<1>1. Mail \subseteq SUBSET Facts
  BY SourceAssumption
<1>2. UNCHANGED report => (report' # Nothing => Honest(report)')
  BY ReportStays DEF ToolsInv
<1>3. UNCHANGED ctx => IsContext(ctx)' /\ ctx'.facts \subseteq Facts
  BY DEF ToolsInv, IsContext
<1>4. \A F \in SUBSET Facts : ctx' = NewContext(F) => IsContext(ctx)' /\ ctx'.facts \subseteq Facts
  BY DEF NewContext, IsContext
<1>5. CASE UNCHANGED toolVars
  BY <1>2, <1>3, <1>5 DEF toolVars, ToolsInv
<1>6. ASSUME NEW s \in Loadable, NEW F \in Mail, RunTest(s, F)
      PROVE  ToolsInv'
  <2>1. RunOn(s, NewContext(F)) /\ UNCHANGED <<tool, loaded, breaks>>
    BY <1>6 DEF RunTest
  <2>2. QED
    BY <1>1, <2>1, NewContexts, RunsOnContexts
<1>7. ASSUME NEW s \in Loadable, NEW F \in Mail, RunTrace(s, F)
      PROVE  ToolsInv'
  <2> DEFINE c == NewContext(F)
             r == ExecuteEngine(s, c)
  <2>1. IsContext(c) /\ c.facts = F /\ c.actions = <<>> /\ c.logs = <<>> /\ c.added = {}
    BY NewContexts
  <2>2. r.facts = F
    BY <2>1, EngineRuns
  <2>3. /\ ctx' = Kept(r) /\ UNCHANGED <<tool, loaded, breaks>>
        /\ report' = [of |-> "trace", script |-> s, facts |-> F, failed |-> r.failed, left |-> Kept(r)]
    BY <1>7 DEF RunTrace
  <2> HIDE DEF c, r
  <2>4. IsContext(ctx)' /\ ctx'.facts \subseteq Facts
    <3>1. IsContext(Kept(r)) /\ Kept(r).facts = F
      BY <2>2, KeptContexts
    <3>2. QED
      BY <1>1, <2>3, <3>1 DEF IsContext
  <2>5. PICK rep : rep = report'
    OBVIOUS
  <2>6. rep.script = s /\ rep.facts = c.facts /\ rep.failed = r.failed /\ rep.left = Kept(r)
    BY <2>1, <2>3, <2>5
  <2>7. Honest(rep)
    BY <2>1, <2>6, RunsAreFresh DEF r
  <2>8. Honest(report)'
    BY <2>5, <2>7 DEF Honest
  <2>9. QED
    BY <2>3, <2>4, <2>8 DEF ToolsInv
<1>8. ASSUME NEW s \in Loadable, NEW F \in Mail, StartDebug(s, F)
      PROVE  ToolsInv'
  BY <1>1, <1>4, <1>8 DEF StartDebug, ToolsInv
<1>9. ASSUME NEW s \in Loadable \cup {NoScript}, StartREPL(s) \/ LoadScript(s)
      PROVE  ToolsInv'
  <2>1. CASE StartREPL(s)
    BY <1>4, <2>1 DEF StartREPL, ToolsInv
  <2>2. CASE LoadScript(s)
    BY <1>2, <1>3, <2>2 DEF LoadScript, ToolsInv
  <2>3. QED
    BY <1>9, <2>1, <2>2
<1>10. ASSUME NEW F \in Mail, ChangeMessage(F)
       PROVE  ToolsInv'
  <2>1. ctx' = [facts |-> F, actions |-> ctx.actions, added |-> ctx.added, logs |-> ctx.logs]
    BY <1>10 DEF ChangeMessage, ToolsInv, IsContext
  <2>2. IsContext(ctx)' /\ ctx'.facts \subseteq Facts
    BY <1>1, <2>1 DEF IsContext
  <2>3. QED
    BY <1>2, <1>10, <2>2 DEF ChangeMessage, ToolsInv
<1>11. CASE RunREPL
  <2> DEFINE c == [ctx EXCEPT !.actions = <<>>, !.logs = <<>>]
  <2>1. c = [facts |-> ctx.facts, actions |-> <<>>, added |-> ctx.added, logs |-> <<>>]
    <3>1. ASSUME NEW x, IsContext(x), NEW e, NEW y, y = [x EXCEPT !.actions = e, !.logs = e]
          PROVE  y = [facts |-> x.facts, actions |-> e, added |-> x.added, logs |-> e]
      BY <3>1 DEF IsContext
    <3>2. IsContext(ctx)
      BY DEF ToolsInv
    <3>3. QED
      BY <3>1, <3>2, Zenon
  <2>2. RunOn(loaded, c) /\ UNCHANGED <<tool, loaded, breaks>> /\ tool = "repl" /\ loaded \in Loadable
    BY <1>11 DEF RunREPL, ToolsInv
  <2> HIDE DEF c
  <2>3. IsContext(c) /\ c.actions = <<>> /\ c.logs = <<>> /\ c.facts \subseteq Facts
    BY <2>1 DEF IsContext, ToolsInv
  <2>4. QED
    BY <2>2, <2>3, RunsOnContexts
<1>12. CASE DebugRun
  <2>1. /\ RunOn(loaded, NewContext(ctx.facts)) /\ UNCHANGED <<tool, loaded, breaks>>
        /\ loaded \in Loadable /\ ctx.facts \subseteq Facts
    BY <1>12 DEF DebugRun, ToolsInv
  <2>2. QED
    BY <2>1, NewContexts, RunsOnContexts
<1>13. ASSUME NEW s \in Loadable, Snippet(s)
       PROVE  ToolsInv'
  <2>1. Honest(report')
    <3>1. Show(s, ExecuteEngine(s, NewContext(ctx.facts)))
      BY <1>13 DEF Snippet
    <3>2. QED
      BY <3>1, NewContexts, ShownRuns
  <2>2. Honest(report)'
    BY <2>1 DEF Honest
  <2>3. QED
    BY <1>3, <1>13, <2>2 DEF Snippet, ToolsInv
<1>14. ASSUME NEW n \in 0..(ScriptLines + 1), ToggleBreakpoint(n)
       PROVE  ToolsInv'
  BY <1>2, <1>3, <1>14 DEF ToggleBreakpoint, ToolsInv
<1>15. CASE ResetContext
  BY <1>2, <1>4, <1>15 DEF ResetContext, ToolsInv
<1>16. CASE Exit
  BY <1>2, <1>3, <1>16 DEF Exit, ToolsInv
<1>17. QED
  BY <1>5, <1>6, <1>7, <1>8, <1>9, <1>10, <1>11, <1>12, <1>13, <1>14, <1>15, <1>16 DEF ToolsNext

LEMMA ToolsFollow == ToolsInv => ToolsTypeOK /\ RunsAreIndependent
BY DEF ToolsInv, ToolsTypeOK, RunsAreIndependent, Honest

------------------------------------------------------------------------------
(***************************************************************************)
(* Slices, joined and cut.                                                 *)
(***************************************************************************)
LEMMA Elements ==
  ASSUME NEW S, NEW s \in Seq(S)
  PROVE  /\ Len(s) \in Nat /\ DOMAIN s = 1..Len(s) /\ s \in [1..Len(s) -> S]
         /\ \A i \in 1..Len(s) : s[i] \in S
<1>1. Len(s) \in Nat /\ DOMAIN s = 1..Len(s) /\ \A i \in DOMAIN s : s[i] \in S
  OBVIOUS
<1>2. s \in [1..Len(s) -> S]
  OBVIOUS
<1>3. QED
  BY <1>1, <1>2, Zenon

LEMMA Joined ==
  ASSUME NEW S, NEW s \in Seq(S), NEW t \in Seq(S)
  PROVE  /\ s \o t \in Seq(S) /\ Len(s \o t) = Len(s) + Len(t)
         /\ \A i \in 1..Len(s) : (s \o t)[i] = s[i]
         /\ \A i \in 1..Len(t) : (s \o t)[Len(s) + i] = t[i]
  OBVIOUS

LEMMA Cut ==
  ASSUME NEW S, NEW s \in Seq(S), NEW m \in Nat \ {0}, NEW n \in Nat, n <= Len(s)
  PROVE  /\ SubSeq(s, m, n) \in Seq(S)
         /\ Len(SubSeq(s, m, n)) = IF m <= n THEN n - m + 1 ELSE 0
         /\ \A i \in 1..Len(SubSeq(s, m, n)) :
              SubSeq(s, m, n)[i] = s[m + i - 1] /\ m + i - 1 \in m..n /\ m + i - 1 \in 1..Len(s)
  OBVIOUS

------------------------------------------------------------------------------
(***************************************************************************)
(* process.  An mbox file, read line after line, and its messages, found   *)
(* in the whole of it.                                                     *)
(***************************************************************************)
Results(script) == {ProcessMsg(n, lines, script) : n \in Nat, lines \in Seq(STRING)}

Scans(script) == [buffer : Seq(STRING), num : Nat, out : Seq(Results(script)), done : BOOLEAN]

\* One result more, and an empty buffer.
Emitted(st, lines, script) ==
  [st EXCEPT !.num = st.num + 1, !.buffer = <<>>,
             !.out = Append(st.out, ProcessMsg(st.num + 1, lines, script))]

LEMMA ResultIs ==
  ASSUME NEW n, NEW lines, NEW script
  PROVE  ProcessMsg(n, lines, script).num = n /\ ProcessMsg(n, lines, script).lines = lines
BY DEF ProcessMsg

LEMMA EmittedIs ==
  ASSUME NEW script, NEW st \in Scans(script), NEW lines \in Seq(STRING)
  PROVE  LET e == Emitted(st, lines, script)
             result == ProcessMsg(st.num + 1, lines, script)
         IN  /\ e \in Scans(script) /\ e.done = st.done /\ e.buffer = <<>> /\ e.num = st.num + 1
             /\ e.out = Append(st.out, result) /\ Len(e.out) = Len(st.out) + 1
             /\ \A k \in 1..Len(st.out) : e.out[k] = st.out[k]
             /\ e.out[Len(st.out) + 1] = result
<1> DEFINE result == ProcessMsg(st.num + 1, lines, script)
<1>1. st.num \in Nat /\ st.out \in Seq(Results(script))
  BY DEF Scans
<1>2. result \in Results(script)
  <2>1. \A n \in Nat : \A ls \in Seq(STRING) : ProcessMsg(n, ls, script) \in Results(script)
    BY DEF Results
  <2>2. st.num + 1 \in Nat
    BY <1>1
  <2>3. QED
    BY <2>1, <2>2, Zenon
<1> HIDE DEF result
<1>3. /\ Append(st.out, result) \in Seq(Results(script)) /\ Len(Append(st.out, result)) = Len(st.out) + 1
      /\ \A k \in 1..Len(st.out) : Append(st.out, result)[k] = st.out[k]
      /\ Append(st.out, result)[Len(st.out) + 1] = result
  BY <1>1, <1>2, AppendProperties
<1>4. <<>> \in Seq(STRING)
  BY EmptySeq
<1> DEFINE out == Append(st.out, result)
           e == [st EXCEPT !.num = st.num + 1, !.buffer = <<>>, !.out = out]
<1>5. Emitted(st, lines, script) = e
  BY Zenon DEF Emitted, result
<1> HIDE DEF out
<1>6. out \in Seq(Results(script))
  BY <1>3 DEF out
<1>7. e \in Scans(script) /\ e.done = st.done /\ e.buffer = <<>> /\ e.num = st.num + 1 /\ e.out = out
  <2>1. PICK e1 : e1 = [st EXCEPT !.num = st.num + 1]
    OBVIOUS
  <2>2. PICK e2 : e2 = [e1 EXCEPT !.buffer = <<>>]
    OBVIOUS
  <2>3. e = [e2 EXCEPT !.out = out]
    BY <2>1, <2>2, Zenon
  <2>4. e1 \in Scans(script) /\ e1.done = st.done /\ e1.num = st.num + 1
    BY <1>1, <2>1 DEF Scans
  <2>5. e2 \in Scans(script) /\ e2.done = st.done /\ e2.num = st.num + 1 /\ e2.buffer = <<>>
    BY <1>4, <2>2, <2>4 DEF Scans
  <2>6. QED
    BY <1>6, <2>3, <2>5 DEF Scans
<1> HIDE DEF e
<1>8. QED
  BY <1>3, <1>5, <1>7 DEF out, result

\* The lines of the message in hand and the next one.
Longer(st, line) == IF line = NoLine THEN st.buffer ELSE Append(st.buffer, line)

\* What a line does.
LEMMA ScanLineIs ==
  ASSUME NEW script, NEW st \in Scans(script), NEW line \in STRING, NEW eof \in BOOLEAN, NEW max
  PROVE  LET next == ScanLine(st, line, eof, script, max) IN
         /\ st.done \/ (line = "From" /\ st.buffer = <<>>) => next = st
         /\ ~st.done /\ line = "From" /\ st.buffer # <<>> =>
              next = IF Unlimited(max, st.num + 1) THEN Emitted(st, st.buffer, script)
                     ELSE [st EXCEPT !.done = TRUE]
         /\ ~st.done /\ line # "From" =>
              next = IF eof /\ Longer(st, line) # <<>> THEN Emitted(st, Longer(st, line), script)
                     ELSE [st EXCEPT !.buffer = Longer(st, line)]
BY DEF ScanLine, Emitted, Longer

LEMMA ScanLineTyped ==
  ASSUME NEW script, NEW st \in Scans(script), NEW line \in STRING, NEW eof \in BOOLEAN, NEW max
  PROVE  ScanLine(st, line, eof, script, max) \in Scans(script)
<1>1. st.buffer \in Seq(STRING) /\ st.num \in Nat /\ st.done \in BOOLEAN
  BY DEF Scans
<1>2. Longer(st, line) \in Seq(STRING)
  BY <1>1, AppendProperties DEF Longer
<1> DEFINE next == ScanLine(st, line, eof, script, max)
           b == Longer(st, line)
<1>3. /\ Emitted(st, st.buffer, script) \in Scans(script)
      /\ Emitted(st, b, script) \in Scans(script)
  BY <1>1, <1>2, EmittedIs
<1>4. [st EXCEPT !.done = TRUE] \in Scans(script)
  BY DEF Scans
<1>5. [st EXCEPT !.buffer = b] \in Scans(script)
  <2> HIDE DEF b
  <2>1. b \in Seq(STRING)
    BY <1>2 DEF b
  <2>2. QED
    BY <2>1 DEF Scans
<1>6. \/ next = st
      \/ next = Emitted(st, st.buffer, script)
      \/ next = [st EXCEPT !.done = TRUE]
      \/ next = Emitted(st, b, script)
      \/ next = [st EXCEPT !.buffer = b]
  BY ScanLineIs
<1> HIDE DEF next, b
<1>7. next \in Scans(script)
  BY <1>3, <1>4, <1>5, <1>6, Zenon
<1>8. QED
  BY <1>7 DEF next

\* The states of the reading.
IsScan(f, file, script, max) ==
  f = [i \in 0..Len(file) |->
         IF i = 0 THEN ScanStart ELSE ScanLine(f[i - 1], file[i], i = Len(file), script, max)]

LEMMA ScanIs ==
  ASSUME NEW file \in Seq(STRING), NEW script, NEW max
  PROVE  \E f : /\ f \in [0..Len(file) -> Scans(script)] /\ f[0] = ScanStart
                /\ \A i \in 1..Len(file) :
                     f[i] = ScanLine(f[i - 1], file[i], i = Len(file), script, max)
                /\ ProcessMbox(file, script, max) = f[Len(file)].out
<1> DEFINE N == Len(file)
           V == Scans(script)
           onward(st, i) == ScanLine(st, file[i], i = N, script, max)
           g == [i \in 1..N |-> [st \in V |-> onward(st, i)]]
<1>0. N \in Nat /\ \A i \in 1..N : file[i] \in STRING
  BY LenProperties, ElementOfSeq
<1>1. ScanStart \in V
  <2>1. <<>> \in Seq(STRING) /\ <<>> \in Seq(Results(script))
    BY EmptySeq
  <2>2. QED
    BY <2>1 DEF ScanStart, Scans
<1>2. ASSUME NEW st \in V, NEW i \in 1..N PROVE onward(st, i) \in V
  <2>1. file[i] \in STRING /\ (i = N) \in BOOLEAN
    BY <1>0
  <2>2. QED
    BY <2>1, ScanLineTyped, Zenon
<1> HIDE DEF N, V, onward
<1>3. PICK f : f \in [0..N -> V] /\ f[0] = ScanStart /\ \A i \in 1..N : f[i] = onward(f[i - 1], i)
  <2>1. StepsOf(g, N, V) /\ \A i \in 1..N : \A st \in V : g[i][st] = onward(st, i)
    <3>1. g \in [1..N -> [V -> V]] /\ \A i \in 1..N : \A st \in V : g[i][st] = onward(st, i)
      BY <1>2
    <3> HIDE DEF g
    <3>2. QED
      BY <3>1, Zenon DEF StepsOf
  <2> HIDE DEF g
  <2>2. PICK f : RunsBy(f, N, V, ScanStart, g)
    BY <1>0, <1>1, <2>1, RecursionExists, Zenon
  <2>3. f \in [0..N -> V] /\ f[0] = ScanStart /\ \A i \in 1..N : f[i] = g[i][f[i - 1]]
    BY <2>2, Zenon DEF RunsBy
  <2>4. ASSUME NEW i \in 1..N PROVE f[i] = onward(f[i - 1], i)
    <3>1. i - 1 \in 0..N
      BY <1>0
    <3>2. f[i - 1] \in V
      BY <2>3, <3>1, Zenon
    <3>3. QED
      BY <2>1, <2>3, <3>2, Zenon
  <2>5. QED
    BY <2>3, <2>4, Zenon
<1>4. f = [i \in 0..N |-> IF i = 0 THEN ScanStart ELSE onward(f[i - 1], i)]
  <2>1. \A i \in 0..N : f[i] = IF i = 0 THEN ScanStart ELSE onward(f[i - 1], i)
    BY <1>0, <1>3
  <2>2. f = [i \in 0..N |-> f[i]]
    BY <1>3, Zenon
  <2>3. QED
    BY <2>1, <2>2
<1>5. IsScan(f, file, script, max)
  BY <1>4, Zenon DEF IsScan, onward, N
<1> DEFINE h == CHOOSE h : IsScan(h, file, script, max)
<1>6. IsScan(h, file, script, max)
  BY <1>5, Zenon
<1>7. ProcessMbox(file, script, max) = h[N].out
  BY Zenon DEF ProcessMbox, IsScan, N
<1> HIDE DEF h
<1>8. h = [i \in 0..N |-> IF i = 0 THEN ScanStart ELSE onward(h[i - 1], i)]
  BY <1>6, Zenon DEF IsScan, onward, N
<1>9. h[0] = ScanStart /\ \A i \in 1..N : h[i] = onward(h[i - 1], i)
  <2>1. \A i \in 0..N : h[i] = IF i = 0 THEN ScanStart ELSE onward(h[i - 1], i)
    BY <1>8, Zenon
  <2>2. 0 \in 0..N /\ \A i \in 1..N : i \in 0..N /\ i # 0
    BY <1>0
  <2>3. QED
    BY <2>1, <2>2, Zenon
<1>10. \A i \in 0..N : h[i] \in V
  <2>1. h[0] \in V /\ \A i \in 1..N : h[i - 1] \in V => h[i] \in V
    BY <1>1, <1>2, <1>9
  <2>2. QED
    BY <1>0, <2>1, StaysIn
<1>11. h \in [0..N -> V]
  <2>1. h = [i \in 0..N |-> h[i]]
    <3>1. DOMAIN h = 0..N
      BY <1>8, Zenon
    <3>2. QED
      BY <1>8, <3>1
  <2>2. QED
    BY <1>10, <2>1
<1>12. QED
  BY <1>7, <1>9, <1>11, Zenon DEF onward, N, V

------------------------------------------------------------------------------
(***************************************************************************)
(* The messages of an mbox file, counted from its beginning.               *)
(***************************************************************************)
\* How many messages begin in the first i lines, and where each begins.
Upto(file, i) == Cardinality({s \in Starts(file) : s <= i})

StartsAt(file) == InOrder(Starts(file), StartOrder(file))

\* ReadString returns NoLine at the end of the file only.
IsMbox(file) ==
  file \in Seq(STRING) \ {<<>>} /\ \A n \in 1..(Len(file) - 1) : file[n] # NoLine

LEMMA NoLineIsNotFrom == NoLine # "From"
BY Zenon DEF NoLine

LEMMA StartsOrdered ==
  ASSUME NEW file \in Seq(STRING)
  PROVE  /\ IsFiniteSet(Starts(file)) /\ Starts(file) \subseteq 1..Len(file) /\ Len(file) \in Nat
         /\ Orders(StartOrder(file), Starts(file))
<1>1. Len(file) \in Nat /\ DOMAIN file = 1..Len(file)
  BY Elements
<1>2. Starts(file) \subseteq 1..Len(file)
  BY <1>1 DEF Starts
<1>3. IsFiniteSet(Starts(file))
  <2>1. IsFiniteSet(1..Len(file))
    BY <1>1, FS_Interval
  <2>2. QED
    BY <1>2, <2>1, FS_Subset
<1>4. \A x \in Starts(file) : x \in Int
  BY <1>1, <1>2
<1>5. QED
  BY <1>1, <1>2, <1>3, <1>4 DEF Orders, StartOrder

\* One line further is one message further exactly at a start.
LEMMA UptoCounts ==
  ASSUME NEW file \in Seq(STRING)
  PROVE  /\ Upto(file, 0) = 0 /\ Upto(file, Len(file)) = Cardinality(Starts(file))
         /\ \A i \in 0..Len(file) : Upto(file, i) \in Nat
         /\ \A i \in 1..Len(file) :
              Upto(file, i) = IF i \in Starts(file) THEN Upto(file, i - 1) + 1 ELSE Upto(file, i - 1)
         /\ \A i, j \in 0..Len(file) : i <= j => Upto(file, i) <= Upto(file, j)
         /\ \A s \in Starts(file) : StartsAt(file)[Upto(file, s)] = s
<1> DEFINE S == Starts(file)
           N == Len(file)
           below(i) == {s \in S : s <= i}
<1>1. IsFiniteSet(S) /\ S \subseteq 1..N /\ N \in Nat /\ Orders(StartOrder(file), S)
  BY StartsOrdered
<1>2. \A i \in 0..N : IsFiniteSet(below(i)) /\ Cardinality(below(i)) \in Nat
  <2>1. \A i \in 0..N : below(i) \in SUBSET S
    OBVIOUS
  <2> HIDE DEF below, S
  <2>2. QED
    BY <1>1, <2>1, FS_Subset, FS_CardinalityType
<1>3. Upto(file, 0) = 0 /\ Upto(file, N) = Cardinality(S)
  <2>1. below(0) = {} /\ below(N) = S
    BY <1>1
  <2>2. QED
    BY <2>1, FS_EmptySet DEF Upto
<1>4. ASSUME NEW i \in 1..N
      PROVE  Upto(file, i) = IF i \in S THEN Upto(file, i - 1) + 1 ELSE Upto(file, i - 1)
  <2>1. below(i) = IF i \in S THEN below(i - 1) \cup {i} ELSE below(i - 1)
    BY <1>1
  <2>2. i \notin below(i - 1) /\ i - 1 \in 0..N
    BY <1>1
  <2>3. IsFiniteSet(below(i - 1))
    BY <1>2, <2>2
  <2> DEFINE b == below(i)
             a == below(i - 1)
  <2>4. Upto(file, i) = Cardinality(b) /\ Upto(file, i - 1) = Cardinality(a)
    BY DEF Upto
  <2> HIDE DEF a, b, S
  <2>5. CASE i \in S
    <3>1. b = a \cup {i} /\ i \notin a /\ IsFiniteSet(a)
      BY <2>1, <2>2, <2>3, <2>5 DEF a, b
    <3>2. Cardinality(b) = Cardinality(a) + 1
      BY <3>1, FS_AddElement
    <3>3. QED
      BY <2>4, <2>5, <3>2
  <2>6. CASE i \notin S
    BY <2>1, <2>4, <2>6 DEF a, b
  <2>7. QED
    BY <2>5, <2>6
<1>5. ASSUME NEW i \in 0..N, NEW j \in 0..N, i <= j
      PROVE  Upto(file, i) <= Upto(file, j)
  <2>1. below(i) \in SUBSET below(j)
    BY <1>1, <1>5
  <2>2. IsFiniteSet(below(j))
    BY <1>2
  <2> DEFINE a == below(i)
             b == below(j)
  <2>3. Upto(file, i) = Cardinality(a) /\ Upto(file, j) = Cardinality(b)
    BY DEF Upto
  <2>4. a \in SUBSET b /\ IsFiniteSet(b)
    BY <2>1, <2>2
  <2> HIDE DEF a, b
  <2>5. QED
    BY <2>3, <2>4, FS_Subset
<1>6. ASSUME NEW s \in S
      PROVE  StartsAt(file)[Upto(file, s)] = s
  <2> DEFINE before == {y \in S : <<y, s>> \in StartOrder(file)}
  <2>1. Rank(s, S, StartOrder(file)) = Cardinality(before)
    BY DEF Rank
  <2>2. before = below(s - 1) /\ s \in 1..N /\ s - 1 \in 0..N
    BY <1>1 DEF StartOrder
  <2>3. Upto(file, s - 1) = Cardinality(below(s - 1))
    BY DEF Upto
  <2>4. Upto(file, s) = Rank(s, S, StartOrder(file)) + 1
    BY <1>4, <2>1, <2>2, <2>3
  <2> HIDE DEF S
  <2>5. InOrder(S, StartOrder(file))[Rank(s, S, StartOrder(file)) + 1] = s
    BY <1>1, InOrderProperties
  <2>6. QED
    BY <2>4, <2>5 DEF StartsAt, S
<1>7. \A i \in 0..N : Upto(file, i) \in Nat
  BY <1>2 DEF Upto
<1>8. QED
  BY <1>3, <1>4, <1>5, <1>6, <1>7

\* A message goes up to the next From line.
LEMMA MessageEnds ==
  ASSUME NEW file \in Seq(STRING), NEW s \in 1..Len(file), NEW e \in s..(Len(file) + 1),
         \A j \in s..(e - 1) : file[j] \notin {"From", NoLine},
         e = Len(file) + 1 \/ file[e] \in {"From", NoLine}
  PROVE  MessageAt(file, s) = SubSeq(file, s, e - 1)
<1> DEFINE ends == {j \in s..Len(file) : file[j] \in {"From", NoLine}} \cup {Len(file) + 1}
<1>1. Len(file) \in Nat /\ s \in Nat /\ e \in Nat
  BY Elements
<1>2. e \in ends
  BY <1>1
<1>3. \A j \in ends : j \in Nat /\ e <= j
  <2>1. ASSUME NEW j \in ends PROVE j \in Nat /\ e <= j
    <3>1. CASE j = Len(file) + 1
      BY <1>1, <3>1
    <3>2. CASE j \in s..Len(file) /\ file[j] \in {"From", NoLine}
      <4>1. j \notin s..(e - 1)
        BY <3>2
      <4>2. QED
        BY <1>1, <3>2, <4>1
    <3>3. QED
      BY <3>1, <3>2
  <2>2. QED
    BY <2>1
<1> HIDE DEF ends
<1>4. Min(ends) = e
  <2>1. Min(ends) \in ends /\ \A j \in ends : Min(ends) <= j
    BY <1>2, <1>3 DEF Min
  <2>2. Min(ends) \in Nat /\ Min(ends) <= e /\ e <= Min(ends)
    BY <1>2, <1>3, <2>1
  <2>3. QED
    BY <1>1, <2>2
<1>5. MessageAt(file, s) = SubSeq(file, s, Min(ends) - 1)
  BY DEF MessageAt, ends
<1>6. QED
  BY <1>4, <1>5

------------------------------------------------------------------------------
(***************************************************************************)
(* The reading of an mbox file, when i lines are read: the results are the *)
(* file's first messages, and the buffer is the one that is being read.    *)
(***************************************************************************)
Told(st, file) ==
  /\ st.num = Len(st.out)
  /\ \A k \in 1..st.num :
       st.out[k].num = k /\ st.out[k].lines = MessageAt(file, StartsAt(file)[k])

\* The message in hand begins at s, and i is not past its end.
InHand(st, file, i, s) ==
  /\ s \in Starts(file) /\ s <= i /\ StartsAt(file)[st.num + 1] = s
  /\ \A j \in s..i : file[j] \notin {"From", NoLine}
  /\ st.buffer = SubSeq(file, s, i)

\* No message is in hand when the file ends.
EndsWithFrom(file) ==
  \E n \in DOMAIN file :
    file[n] = "From" /\ \A k \in DOMAIN file : k > n => file[k] = NoLine

Reading(st, file, i, max) ==
  /\ Told(st, file)
  /\ st.done => /\ max > 0 /\ st.num = max
                /\ \E j \in 1..i : file[j] = "From" /\ Upto(file, j) = max + 1
  /\ ~st.done =>
       /\ st.buffer = <<>> => Upto(file, i) = st.num /\ (i = 0 \/ i = Len(file) \/ file[i] = "From")
       /\ st.buffer # <<>> => /\ i < Len(file) /\ Upto(file, i) = st.num + 1
                              /\ \E s \in 1..Len(file) : InHand(st, file, i, s)
       /\ max > 0 => \/ st.num <= max
                     \/ i = Len(file) /\ st.num = max + 1 /\ ~EndsWithFrom(file)

LEMMA ReadingStarts ==
  ASSUME NEW file, IsMbox(file), NEW max \in Nat
  PROVE  Reading(ScanStart, file, 0, max)
<1>1. /\ ScanStart.buffer = <<>> /\ ScanStart.num = 0 /\ ScanStart.out = <<>>
      /\ ScanStart.done = FALSE
  BY DEF ScanStart
<1>2. Told(ScanStart, file)
  BY <1>1 DEF Told
<1>3. Upto(file, 0) = 0
  BY UptoCounts DEF IsMbox
<1>4. QED
  BY <1>1, <1>2, <1>3 DEF Reading

\* The next result is that of the next message, if these are its lines.
LEMMA ToldGrows ==
  ASSUME NEW script, NEW st \in Scans(script), NEW file, Told(st, file),
         NEW lines \in Seq(STRING), lines = MessageAt(file, StartsAt(file)[st.num + 1])
  PROVE  Told(Emitted(st, lines, script), file)
<1> DEFINE e == Emitted(st, lines, script)
           result == ProcessMsg(st.num + 1, lines, script)
<1>1. /\ e.num = st.num + 1 /\ Len(e.out) = Len(st.out) + 1
      /\ \A k \in 1..Len(st.out) : e.out[k] = st.out[k]
      /\ e.out[Len(st.out) + 1] = result
  BY EmittedIs, SMTT(30)
<1>2. result.num = st.num + 1 /\ result.lines = lines
  BY ResultIs
<1>3. st.num \in Nat /\ st.num = Len(st.out)
  BY DEF Scans, Told
<1> HIDE DEF e, result
<1>4. ASSUME NEW k \in 1..e.num
      PROVE  e.out[k].num = k /\ e.out[k].lines = MessageAt(file, StartsAt(file)[k])
  <2>1. CASE k \in 1..st.num
    BY <1>1, <1>3, <2>1 DEF Told
  <2>2. CASE k = st.num + 1
    BY <1>1, <1>2, <1>3, <2>2
  <2>3. QED
    BY <1>1, <1>3, <2>1, <2>2
<1>5. QED
  BY <1>1, <1>3, <1>4 DEF Told, e

\* The last line tells whether the file ends with a From line, if the line before
\* an empty end is none.
LEMMA EndIsSeen ==
  ASSUME NEW file, IsMbox(file), file[Len(file)] # "From",
         file[Len(file)] = NoLine => Len(file) > 1 /\ file[Len(file) - 1] # "From"
  PROVE  ~EndsWithFrom(file)
<1>1. Len(file) \in Nat /\ DOMAIN file = 1..Len(file) /\ Len(file) >= 1
  BY Elements DEF IsMbox
<1>2. ASSUME NEW n \in DOMAIN file, file[n] = "From", \A k \in DOMAIN file : k > n => file[k] = NoLine
      PROVE  FALSE
  <2>1. n \in 1..Len(file) /\ n # Len(file) /\ Len(file) \in DOMAIN file /\ Len(file) > n
    BY <1>1, <1>2
  <2>2. file[Len(file)] = NoLine
    BY <1>2, <2>1
  <2>3. n # Len(file) - 1 /\ Len(file) - 1 \in DOMAIN file /\ Len(file) - 1 > n
    BY <1>1, <1>2, <2>1, <2>2
  <2>4. file[Len(file) - 1] = NoLine
    BY <1>2, <2>3
  <2>5. QED
    BY <1>1, <2>3, <2>4 DEF IsMbox
<1>3. QED
  BY <1>2 DEF EndsWithFrom

\* A line that belongs to a message.
LEMMA InHandGrows ==
  ASSUME NEW script, NEW st \in Scans(script), NEW file, IsMbox(file), NEW i \in 1..Len(file),
         NEW max \in Nat, Reading(st, file, i - 1, max), ~st.done,
         file[i] # "From", Longer(st, file[i]) # <<>>
  PROVE  /\ Upto(file, i) = st.num + 1
         /\ \E s \in Starts(file) :
              /\ s <= i /\ StartsAt(file)[st.num + 1] = s
              /\ \A j \in s..(i - 1) : file[j] \notin {"From", NoLine}
              /\ IF file[i] = NoLine
                 THEN i = Len(file) /\ s <= i - 1 /\ Longer(st, file[i]) = SubSeq(file, s, i - 1)
                 ELSE Longer(st, file[i]) = SubSeq(file, s, i)
<1> DEFINE N == Len(file)
           longer == Longer(st, file[i])
<1>1. /\ file \in Seq(STRING) /\ N \in Nat /\ DOMAIN file = 1..N /\ i \in Nat
      /\ 1 <= i /\ i <= N /\ \A n \in 1..(N - 1) : file[n] # NoLine
  BY Elements DEF IsMbox
<1>2. st.buffer \in Seq(STRING) /\ st.num \in Nat /\ file[i] \in STRING
  BY <1>1 DEF Scans
<1>3. file[i] = NoLine => i = N
  <2>1. N \in Nat /\ i \in Nat /\ 1 <= i /\ i <= N /\ i # N => i \in 1..(N - 1)
    <3> HIDE DEF N
    <3>1. QED
      OBVIOUS
  <2>2. QED
    BY <1>1, <2>1
<1>4. CASE st.buffer = <<>>
  <2>1. file[i] # NoLine
    BY <1>4 DEF Longer
  <2>2. Upto(file, i - 1) = st.num /\ (i = 1 \/ file[i - 1] = "From")
    BY <1>1, <1>4 DEF Reading
  <2>3. i \in Starts(file)
    BY <1>1, <2>1, <2>2 DEF Starts
  <2>4. Upto(file, i) = st.num + 1 /\ StartsAt(file)[st.num + 1] = i
    <3>1. Upto(file, i) = Upto(file, i - 1) + 1 /\ StartsAt(file)[Upto(file, i)] = i
      BY <1>1, <2>3, UptoCounts
    <3>2. QED
      BY <2>2, <3>1
  <2>5. longer = SubSeq(file, i, i)
    <3>1. longer = Append(<<>>, file[i])
      BY <1>4, <2>1 DEF Longer
    <3>2. Append(<<>>, file[i]) = SubSeq(file, i, i)
      BY <1>1, <1>2
    <3>3. QED
      BY <3>1, <3>2
  <2>6. \A j \in i..(i - 1) : file[j] \notin {"From", NoLine}
    BY <1>1
  <2> HIDE DEF longer
  <2>7. i <= i
    BY <1>1
  <2>8. QED
    BY <2>1, <2>3, <2>4, <2>5, <2>6, <2>7 DEF longer
<1>5. CASE st.buffer # <<>>
  <2>1. Upto(file, i - 1) = st.num + 1
    BY <1>5 DEF Reading
  <2>2. PICK s \in 1..N : InHand(st, file, i - 1, s)
    BY <1>5 DEF Reading
  <2>3. /\ s \in Starts(file) /\ s <= i - 1 /\ StartsAt(file)[st.num + 1] = s
        /\ \A j \in s..(i - 1) : file[j] \notin {"From", NoLine}
        /\ st.buffer = SubSeq(file, s, i - 1)
    BY <2>2 DEF InHand
  <2>4. i - 1 \in s..(i - 1) /\ i # 1
    BY <1>1, <2>3
  <2>5. i \notin Starts(file)
    BY <1>1, <2>3, <2>4 DEF Starts
  <2>6. Upto(file, i) = st.num + 1
    BY <1>1, <2>1, <2>5, UptoCounts
  <2>7. CASE file[i] = NoLine
    <3>1. longer = SubSeq(file, s, i - 1)
      BY <2>3, <2>7 DEF Longer
    <3> HIDE DEF longer
    <3>2. s <= i
      BY <1>1, <2>3
    <3>3. QED
      BY <1>3, <2>3, <2>6, <2>7, <3>1, <3>2 DEF longer
  <2>8. CASE file[i] # NoLine
    <3>1. longer = Append(SubSeq(file, s, i - 1), file[i])
      BY <2>3, <2>8 DEF Longer
    <3>2. Append(SubSeq(file, s, i - 1), file[i]) = SubSeq(file, s, i)
      BY <1>1, <1>2, <2>3
    <3>3. longer = SubSeq(file, s, i)
      BY <3>1, <3>2
    <3> HIDE DEF longer
    <3>4. s <= i
      BY <1>1, <2>3
    <3>5. QED
      BY <2>3, <2>6, <2>8, <3>3, <3>4 DEF longer
  <2>9. QED
    BY <2>7, <2>8
<1>6. QED
  BY <1>4, <1>5

\* A line read keeps the results the file's first messages.
LEMMA ReadingStays ==
  ASSUME NEW script, NEW st \in Scans(script), NEW file, IsMbox(file), NEW i \in 1..Len(file),
         NEW max \in Nat, Reading(st, file, i - 1, max)
  PROVE  Reading(ScanLine(st, file[i], i = Len(file), script, max), file, i, max)
<1> DEFINE N == Len(file)
           line == file[i]
           eof == i = N
           next == ScanLine(st, line, eof, script, max)
           longer == Longer(st, line)
<1>1. /\ file \in Seq(STRING) /\ N \in Nat /\ DOMAIN file = 1..N /\ i \in Nat /\ i - 1 \in 0..N
      /\ i \in 0..N /\ i - 1 # N /\ 1 <= i /\ i <= N /\ i - 1 \in Nat
      /\ \A n \in 1..(N - 1) : file[n] # NoLine
  BY Elements DEF IsMbox
<1>2. /\ st.buffer \in Seq(STRING) /\ st.num \in Nat /\ st.done \in BOOLEAN
      /\ line \in STRING /\ eof \in BOOLEAN
  BY <1>1 DEF Scans
<1>3. /\ st.done \/ (line = "From" /\ st.buffer = <<>>) => next = st
      /\ ~st.done /\ line = "From" /\ st.buffer # <<>> =>
           next = IF Unlimited(max, st.num + 1) THEN Emitted(st, st.buffer, script)
                  ELSE [st EXCEPT !.done = TRUE]
      /\ ~st.done /\ line # "From" =>
           next = IF eof /\ longer # <<>> THEN Emitted(st, longer, script)
                  ELSE [st EXCEPT !.buffer = longer]
  <2>1. PICK b \in BOOLEAN : b = eof
    BY <1>2
  <2>2. PICK l \in STRING : l = line
    BY <1>2
  <2>3. LET n == ScanLine(st, l, b, script, max) IN
        /\ st.done \/ (l = "From" /\ st.buffer = <<>>) => n = st
        /\ ~st.done /\ l = "From" /\ st.buffer # <<>> =>
             n = IF Unlimited(max, st.num + 1) THEN Emitted(st, st.buffer, script)
                 ELSE [st EXCEPT !.done = TRUE]
        /\ ~st.done /\ l # "From" =>
             n = IF b /\ Longer(st, l) # <<>> THEN Emitted(st, Longer(st, l), script)
                 ELSE [st EXCEPT !.buffer = Longer(st, l)]
    BY ScanLineIs
  <2> HIDE DEF eof, line
  <2>4. QED
    BY <2>1, <2>2, <2>3, Zenon
<1>4. Told(st, file)
  BY DEF Reading
<1>5. ~st.done /\ max > 0 => st.num <= max
  BY <1>1 DEF Reading
<1>6. line = "From" => i \notin Starts(file) /\ Upto(file, i) = Upto(file, i - 1)
  <2>1. line = "From" => i \notin Starts(file)
    BY DEF Starts
  <2>2. QED
    BY <1>1, <2>1, UptoCounts
<1>7. CASE st.done
  <2>1. next = st
    BY <1>3, <1>7
  <2>2. max > 0 /\ st.num = max /\ \E j \in 1..i : file[j] = "From" /\ Upto(file, j) = max + 1
    BY <1>1, <1>7 DEF Reading
  <2>3. Reading(st, file, i, max)
    BY <1>4, <1>7, <2>2 DEF Reading
  <2>4. QED
    BY <2>1, <2>3
<1>8. CASE ~st.done /\ line = "From" /\ st.buffer = <<>>
  <2>1. next = st
    BY <1>3, <1>8
  <2>2. Upto(file, i) = st.num
    BY <1>6, <1>8 DEF Reading
  <2>3. Reading(st, file, i, max)
    BY <1>4, <1>5, <1>8, <2>2 DEF Reading
  <2>4. QED
    BY <2>1, <2>3
<1>9. CASE ~st.done /\ line = "From" /\ st.buffer # <<>>
  <2>1. Upto(file, i) = st.num + 1
    BY <1>6, <1>9 DEF Reading
  <2>2. PICK s \in 1..N : InHand(st, file, i - 1, s)
    BY <1>9 DEF Reading
  <2>3. st.buffer = MessageAt(file, StartsAt(file)[st.num + 1])
    <3>1. /\ StartsAt(file)[st.num + 1] = s /\ s <= i - 1 /\ st.buffer = SubSeq(file, s, i - 1)
          /\ \A j \in s..(i - 1) : file[j] \notin {"From", NoLine}
      BY <2>2 DEF InHand
    <3>2. i \in s..(N + 1) /\ file[i] \in {"From", NoLine}
      BY <1>1, <1>9, <3>1
    <3>3. MessageAt(file, s) = SubSeq(file, s, i - 1)
      BY <1>1, <3>1, <3>2, MessageEnds
    <3>4. QED
      BY <3>1, <3>3
  <2>4. CASE Unlimited(max, st.num + 1)
    <3> DEFINE e == Emitted(st, st.buffer, script)
    <3>1. Told(e, file)
      BY <1>2, <1>4, <2>3, ToldGrows
    <3>2. e.done = st.done /\ e.buffer = <<>> /\ e.num = st.num + 1
      BY <1>2, EmittedIs
    <3>3. next = e
      BY <1>3, <1>9, <2>4
    <3> HIDE DEF e
    <3>4. max > 0 => e.num <= max
      BY <2>4, <3>2 DEF Unlimited
    <3>5. Reading(e, file, i, max)
      BY <1>9, <2>1, <3>1, <3>2, <3>4 DEF Reading
    <3>6. QED
      BY <3>3, <3>5
  <2>5. CASE ~Unlimited(max, st.num + 1)
    <3> DEFINE e == [st EXCEPT !.done = TRUE]
    <3>1. e.done = TRUE /\ e.num = st.num /\ e.out = st.out
      BY DEF Scans
    <3>2. next = e
      BY <1>3, <1>9, <2>5
    <3> HIDE DEF e
    <3>3. max > 0 /\ st.num = max
      BY <1>2, <1>5, <1>9, <2>5 DEF Unlimited
    <3>4. Told(e, file)
      BY <1>4, <3>1 DEF Told
    <3>5. i \in 1..i /\ file[i] = "From" /\ Upto(file, i) = max + 1
      BY <1>1, <1>9, <2>1, <3>3
    <3>6. Reading(e, file, i, max)
      BY <3>1, <3>3, <3>4, <3>5 DEF Reading
    <3>7. QED
      BY <3>2, <3>6
  <2>6. QED
    BY <2>4, <2>5
<1>10. CASE ~st.done /\ line # "From" /\ longer = <<>>
  <2>1. st.buffer = <<>> /\ line = NoLine
    BY <1>2, <1>10 DEF Longer
  <2>2. i = N
    <3>1. N \in Nat /\ i \in Nat /\ 1 <= i /\ i <= N /\ i # N => i \in 1..(N - 1)
      <4> HIDE DEF N
      <4>1. QED
        OBVIOUS
    <3>2. QED
      BY <1>1, <2>1, <3>1
  <2>3. Upto(file, i) = st.num
    <3>1. i \notin Starts(file) /\ Upto(file, i - 1) = st.num
      BY <1>10, <2>1 DEF Reading, Starts
    <3>2. QED
      BY <1>1, <3>1, UptoCounts
  <2> DEFINE e == [st EXCEPT !.buffer = longer]
  <2>4. e.done = st.done /\ e.num = st.num /\ e.out = st.out /\ e.buffer = longer
    <3> HIDE DEF longer
    <3>1. QED
      BY DEF Scans
  <2>5. next = e
    BY <1>3, <1>10
  <2> HIDE DEF e, longer, next, line
  <2>6. Told(e, file)
    BY <1>4, <2>4 DEF Told
  <2>7. Reading(e, file, i, max)
    BY <1>5, <1>10, <2>2, <2>3, <2>4, <2>6 DEF Reading
  <2>8. QED
    BY <2>5, <2>7 DEF next, line
<1>11. CASE ~st.done /\ line # "From" /\ longer # <<>>
  <2>1. Upto(file, i) = st.num + 1
    BY <1>11, InHandGrows
  <2>2. PICK s \in Starts(file) :
          /\ s <= i /\ StartsAt(file)[st.num + 1] = s
          /\ \A j \in s..(i - 1) : file[j] \notin {"From", NoLine}
          /\ IF line = NoLine
             THEN i = N /\ s <= i - 1 /\ longer = SubSeq(file, s, i - 1)
             ELSE longer = SubSeq(file, s, i)
    BY <1>11, InHandGrows
  <2>3. s \in 1..N
    BY <1>1, StartsOrdered
  <2>4. longer \in Seq(STRING)
    BY <1>2, AppendProperties DEF Longer
  <2>5. CASE eof
    <3>1. longer = MessageAt(file, s)
      <4>1. CASE line = NoLine
        <5>1. i \in s..(N + 1) /\ file[i] \in {"From", NoLine}
          BY <1>1, <2>2, <2>3, <4>1
        <5>2. MessageAt(file, s) = SubSeq(file, s, i - 1)
          BY <1>1, <2>2, <2>3, <5>1, MessageEnds
        <5>3. QED
          BY <2>2, <4>1, <5>2
      <4>2. CASE line # NoLine
        <5> DEFINE m == i + 1
        <5>1. m \in s..(N + 1) /\ m = N + 1 /\ m - 1 = i
          <6>1. \A n \in Nat : \A a, b \in 1..n :
                  a = n => a + 1 \in b..(n + 1) /\ a + 1 = n + 1 /\ a + 1 - 1 = a
            OBVIOUS
          <6>2. N \in Nat /\ i \in 1..N /\ i = N
            BY <1>1, <2>5
          <6>3. PICK n \in Nat : n = N
            BY <6>2
          <6>4. i \in 1..n /\ s \in 1..n /\ i = n
            BY <2>3, <6>2, <6>3, Zenon
          <6>5. i + 1 \in s..(n + 1) /\ i + 1 = n + 1 /\ i + 1 - 1 = i
            BY <6>1, <6>4, Zenon
          <6> HIDE DEF N
          <6>6. QED
            BY <6>3, <6>5
        <5>2. \A j \in s..(m - 1) : file[j] \notin {"From", NoLine}
          <6>1. ASSUME NEW j \in s..i PROVE file[j] \notin {"From", NoLine}
            <7>1. j = i \/ j \in s..(i - 1)
              BY <1>1, <2>3
            <7>2. QED
              BY <1>11, <2>2, <4>2, <7>1
          <6>2. QED
            BY <5>1, <6>1
        <5> HIDE DEF m
        <5>3. MessageAt(file, s) = SubSeq(file, s, m - 1)
          BY <1>1, <2>3, <5>1, <5>2, MessageEnds
        <5>4. QED
          BY <2>2, <4>2, <5>1, <5>3
      <4>3. QED
        BY <4>1, <4>2
    <3>2. longer = MessageAt(file, StartsAt(file)[st.num + 1])
      BY <2>2, <3>1
    <3> DEFINE e == Emitted(st, longer, script)
    <3>3. next = e
      BY <1>3, <1>11, <2>5
    <3> HIDE DEF longer
    <3>4. Told(e, file)
      BY <1>4, <2>4, <3>2, ToldGrows
    <3>5. e.done = st.done /\ e.buffer = <<>> /\ e.num = st.num + 1
      BY <2>4, EmittedIs
    <3> HIDE DEF e, next
    <3>6. ~EndsWithFrom(file)
      <4>1. file[N] = NoLine => N > 1 /\ file[N - 1] # "From"
        <5>1. ASSUME file[N] = NoLine PROVE N > 1 /\ file[N - 1] # "From"
          <6>1. i = N /\ s <= i - 1 /\ s \in Int /\ 1 <= s
            BY <2>2, <2>3, <2>5, <5>1
          <6>2. i - 1 \in s..(i - 1) /\ i > 1
            <7>1. i \in Nat
              BY <1>1
            <7>2. QED
              BY <6>1, <7>1
          <6>3. N > 1 /\ file[i - 1] # "From"
            BY <2>2, <6>1, <6>2
          <6>4. QED
            BY <6>1, <6>3
        <5>2. QED
          BY <5>1
      <4>2. QED
        BY <1>11, <2>5, <4>1, EndIsSeen
    <3>7. max > 0 => e.num <= max + 1
      BY <1>2, <1>5, <1>11, <3>5
    <3>8. Reading(e, file, i, max)
      <4>1. max > 0 => e.num <= max \/ (i = N /\ e.num = max + 1 /\ ~EndsWithFrom(file))
        BY <1>2, <2>5, <3>5, <3>6, <3>7
      <4>2. QED
        BY <1>11, <2>1, <2>5, <3>4, <3>5, <4>1 DEF Reading
    <3>9. QED
      BY <3>3, <3>8 DEF next
  <2>6. CASE ~eof
    <3>1. line # NoLine /\ i < N
      <4>1. i # N /\ i <= N /\ N \in Nat /\ i \in Nat
        BY <1>1, <2>6
      <4>2. line # NoLine
        BY <2>2, <2>6
      <4> HIDE DEF N
      <4>3. QED
        BY <4>1, <4>2
    <3> DEFINE e == [st EXCEPT !.buffer = longer]
    <3>2. next = e
      BY <1>3, <1>11, <2>6
    <3>3. e.done = st.done /\ e.num = st.num /\ e.out = st.out /\ e.buffer = longer
      <4> HIDE DEF longer
      <4>1. QED
        BY DEF Scans
    <3>4. \A j \in s..i : file[j] \notin {"From", NoLine}
      <4>1. ASSUME NEW j \in s..i PROVE file[j] \notin {"From", NoLine}
        <5>1. j = i \/ j \in s..(i - 1)
          BY <1>1, <2>3
        <5>2. QED
          BY <1>11, <2>2, <3>1, <5>1
      <4>2. QED
        BY <4>1
    <3>5. longer = SubSeq(file, s, i)
      BY <2>2, <3>1
    <3> HIDE DEF e, next, longer
    <3>6. Told(e, file)
      BY <1>4, <3>3 DEF Told
    <3>7. InHand(e, file, i, s)
      BY <2>2, <3>3, <3>4, <3>5 DEF InHand
    <3>8. Reading(e, file, i, max)
      BY <1>5, <1>11, <2>1, <2>3, <3>1, <3>3, <3>6, <3>7 DEF Reading
    <3>9. QED
      BY <3>2, <3>8 DEF next
  <2>7. QED
    BY <2>5, <2>6
<1>12. QED
  BY <1>2, <1>7, <1>8, <1>9, <1>10, <1>11

\* After the last From line a message begins, unless nothing comes.
LEMMA MoreFollows ==
  ASSUME NEW file, IsMbox(file), ~EndsWithFrom(file), NEW j \in 1..Len(file), file[j] = "From"
  PROVE  \E s \in Starts(file) : j < s
<1> DEFINE N == Len(file)
           K == {k \in 1..N : file[k] = "From"}
           D == {d \in 0..N : N - d \in K}
<1>1. /\ N \in Nat /\ DOMAIN file = 1..N /\ j \in 1..N
      /\ \A n \in 1..(N - 1) : file[n] # NoLine
  BY Elements DEF IsMbox
<1> HIDE DEF N
<1>2. PICK m \in K : \A k \in K : k <= m
  <2>1. D \in SUBSET Nat /\ N - j \in D
    BY <1>1
  <2> HIDE DEF D
  <2>2. PICK d \in D : \A e \in D : d <= e
    BY <2>1, NatLeast
  <2>3. d \in 0..N /\ N - d \in K
    BY <2>2 DEF D
  <2>4. ASSUME NEW k \in K PROVE k <= N - d
    <3>1. k \in 1..N /\ N - k \in 0..N /\ N - (N - k) = k
      BY <1>1
    <3>2. N - k \in D
      BY <3>1 DEF D
    <3>3. d <= N - k
      BY <2>2, <3>2
    <3>4. QED
      BY <1>1, <2>3, <3>1, <3>3
  <2>5. QED
    BY <2>3, <2>4
<1>3. m \in 1..N /\ file[m] = "From" /\ j <= m
  BY <1>1, <1>2
<1>4. PICK k \in 1..N : k > m /\ file[k] # NoLine
  BY <1>1, <1>3 DEF EndsWithFrom
<1>5. m + 1 \in 1..N /\ m + 1 - 1 = m /\ j < m + 1
  BY <1>1, <1>3, <1>4
<1>6. file[m + 1] # "From"
  <2>1. ~(m + 1 <= m)
    BY <1>3
  <2>2. m + 1 \notin K
    BY <1>2, <2>1
  <2>3. QED
    BY <1>5, <2>2
<1>7. file[m + 1] # NoLine
  <2>1. CASE m + 1 = N
    <3>1. k = m + 1
      BY <1>1, <1>3, <1>4, <2>1
    <3>2. QED
      BY <1>4, <3>1
  <2>2. CASE m + 1 # N
    <3>1. m + 1 \in 1..(N - 1)
      BY <1>1, <1>5, <2>2
    <3>2. QED
      BY <1>1, <3>1
  <2>3. QED
    BY <2>1, <2>2
<1>8. m + 1 \in Starts(file)
  BY <1>1, <1>3, <1>5, <1>6, <1>7 DEF Starts
<1>9. QED
  BY <1>5, <1>8

\* What `process` makes of an mbox file.
LEMMA MboxIsRead ==
  ASSUME NEW file, IsMbox(file), NEW script, NEW max \in Nat
  PROVE  LET out == ProcessMbox(file, script, max)
             all == Cardinality(Starts(file))
             extra == IF ~EndsWithFrom(file) THEN 1 ELSE 0
         IN  /\ Len(out) = IF max > 0 /\ all > max + extra THEN max ELSE all
             /\ DOMAIN out = 1..Len(out) /\ Len(out) \in Nat /\ Len(out) <= all /\ all \in Nat
             /\ \A k \in 1..Len(out) :
                  out[k].num = k /\ out[k].lines = MessageAt(file, StartsAt(file)[k])
<1> DEFINE N == Len(file)
<1>1. file \in Seq(STRING) /\ N \in Nat
  BY Elements DEF IsMbox
<1>2. PICK f : /\ f \in [0..N -> Scans(script)] /\ f[0] = ScanStart
               /\ \A i \in 1..N : f[i] = ScanLine(f[i - 1], file[i], i = N, script, max)
               /\ ProcessMbox(file, script, max) = f[N].out
  BY <1>1, ScanIs, SMTT(30)
<1>3. \A i \in 0..N : Reading(f[i], file, i, max)
  <2> DEFINE good == [i \in 0..N |-> Reading(f[i], file, i, max)]
             V == {TRUE}
  <2>1. \A i \in 0..N : good[i] = Reading(f[i], file, i, max)
    BY Zenon
  <2>2. good[0] \in V
    <3>1. Reading(ScanStart, file, 0, max)
      BY ReadingStarts
    <3>2. 0 \in 0..N
      BY <1>1
    <3> HIDE DEF good
    <3>3. good[0] = Reading(f[0], file, 0, max)
      BY <2>1, <3>2, Zenon
    <3>4. Reading(f[0], file, 0, max)
      BY <1>2, <3>1, Zenon
    <3>5. QED
      BY <3>3, <3>4
  <2>3. ASSUME NEW i \in 1..N, good[i - 1] \in V PROVE good[i] \in V
    <3>1. i - 1 \in 0..N /\ i \in 0..N
      BY <1>1
    <3> HIDE DEF good
    <3>2. good[i - 1] = Reading(f[i - 1], file, i - 1, max) /\ good[i] = Reading(f[i], file, i, max)
      BY <2>1, <3>1, Zenon
    <3>3. f[i - 1] \in Scans(script)
      BY <1>2, <3>1, Zenon
    <3> DEFINE st == f[i - 1]
    <3>4. Reading(st, file, i - 1, max) /\ st \in Scans(script)
      BY <2>3, <3>2, <3>3, Zenon
    <3> HIDE DEF st
    <3>5. Reading(ScanLine(st, file[i], i = N, script, max), file, i, max)
      BY <3>4, ReadingStays
    <3>6. f[i] = ScanLine(st, file[i], i = N, script, max)
      BY <1>2, Zenon DEF st
    <3>7. Reading(f[i], file, i, max)
      BY <3>5, <3>6, Zenon
    <3>8. QED
      BY <3>2, <3>7
  <2> HIDE DEF good, V, N
  <2>4. \A i \in 0..N : good[i] \in V
    BY <1>1, <2>2, <2>3, StaysIn
  <2>5. QED
    BY <2>1, <2>4 DEF V
<1> DEFINE st == f[N]
           all == Cardinality(Starts(file))
           extra == IF ~EndsWithFrom(file) THEN 1 ELSE 0
<1>4. Reading(st, file, N, max) /\ st \in Scans(script)
  <2>1. N \in 0..N
    BY <1>1
  <2>2. QED
    BY <1>2, <1>3, <2>1, Zenon
<1>5. ProcessMbox(file, script, max) = st.out
  BY <1>2
<1> HIDE DEF st
<1>6. st.num \in Nat /\ st.num = Len(st.out) /\ DOMAIN st.out = 1..Len(st.out)
  BY <1>4, Elements DEF Scans, Reading, Told
<1>7. Upto(file, N) = all /\ all \in Nat
  <2>1. N \in 0..N
    BY <1>1
  <2>2. QED
    BY <1>1, <2>1, UptoCounts
<1> HIDE DEF all
<1>8. st.num <= all /\ st.num = IF max > 0 /\ all > max + extra THEN max ELSE all
  <2>1. CASE ~st.done
    <3>1. st.buffer = <<>>
      BY <1>1, <1>4, <2>1 DEF Reading
    <3>2. all = st.num
      BY <1>4, <1>7, <2>1, <3>1 DEF Reading
    <3>3. max > 0 => all <= max \/ (all = max + 1 /\ ~EndsWithFrom(file))
      BY <1>4, <2>1, <3>2 DEF Reading
    <3>4. QED
      BY <1>6, <1>7, <3>2, <3>3
  <2>2. CASE st.done
    <3>1. max > 0 /\ st.num = max
      BY <1>4, <2>2 DEF Reading
    <3>2. PICK j \in 1..N : file[j] = "From" /\ Upto(file, j) = max + 1
      BY <1>4, <2>2 DEF Reading
    <3>3. all >= max + 1
      <4>1. j \in 0..N /\ N \in 0..N /\ j <= N
        BY <1>1
      <4>2. Upto(file, j) <= Upto(file, N)
        BY <1>1, <4>1, UptoCounts
      <4>3. QED
        BY <1>7, <3>2, <4>2
    <3>4. CASE EndsWithFrom(file)
      BY <1>7, <3>1, <3>3, <3>4
    <3>5. CASE ~EndsWithFrom(file)
      <4>1. PICK s \in Starts(file) : j < s
        BY <3>2, <3>5, MoreFollows
      <4>2. s \in 1..N
        BY <1>1, StartsOrdered
      <4>3. /\ j \in 0..N /\ s \in 0..N /\ N \in 0..N /\ s - 1 \in 0..N /\ j <= s - 1 /\ s <= N
        BY <1>1, <4>1, <4>2
      <4>4. /\ Upto(file, s) = Upto(file, s - 1) + 1 /\ Upto(file, j) <= Upto(file, s - 1)
            /\ Upto(file, s) <= Upto(file, N) /\ Upto(file, s - 1) \in Nat
        BY <1>1, <4>2, <4>3, UptoCounts
      <4>5. all >= max + 2
        BY <1>7, <3>2, <4>4
      <4>6. QED
        BY <1>7, <3>1, <3>5, <4>5
    <3>6. QED
      BY <3>4, <3>5
  <2>3. QED
    BY <2>1, <2>2
<1>9. \A k \in 1..Len(st.out) :
        st.out[k].num = k /\ st.out[k].lines = MessageAt(file, StartsAt(file)[k])
  BY <1>4, <1>6 DEF Reading, Told
<1>10. QED
  BY <1>5, <1>6, <1>7, <1>8, <1>9 DEF all

\* What `process` makes of a Maildir.
ReadsAll(out, entries, max) ==
  /\ DOMAIN entries = 1..Len(entries) /\ Len(entries) \in Nat
  /\ Len(out) = IF max > 0 /\ Len(entries) > max THEN max ELSE Len(entries)
  /\ DOMAIN out = 1..Len(out) /\ Len(out) <= Len(entries)
  /\ \A k \in 1..Len(out) :
       /\ out[k].num = k
       /\ out[k].lines = IF entries[k] = "unreadable" THEN <<>> ELSE entries[k]

LEMMA MaildirIsRead ==
  ASSUME NEW dirs \in Maildirs, NEW script, NEW max \in Nat
  PROVE  ReadsAll(ProcessMaildir(dirs, script, max), dirs[1] \o dirs[2], max)
<1> DEFINE a == dirs[1]
           b == dirs[2]
           S == {a[n] : n \in 1..Len(a)} \cup {b[n] : n \in 1..Len(b)}
           entries == a \o b
           L == Len(entries)
           out == ProcessMaildir(dirs, script, max)
           Result(n) == IF entries[n] = "unreadable"
                        THEN [num |-> n, lines |-> <<>>, error |-> TRUE, actions |-> <<>>]
                        ELSE ProcessMsg(n, entries[n], script)
           M == IF max > 0 /\ L > max THEN max ELSE L
<1>1. a \in Seq(S) /\ b \in Seq(S)
  <2>1. IsSlice(a) /\ IsSlice(b)
    BY ToolsAssumption
  <2> DEFINE m == Len(a)
             n == Len(b)
  <2>2. m \in Nat /\ n \in Nat /\ a = [i \in 1..m |-> a[i]] /\ b = [i \in 1..n |-> b[i]]
    BY <2>1, Zenon DEF IsSlice
  <2>3. S = {a[i] : i \in 1..m} \cup {b[i] : i \in 1..n}
    OBVIOUS
  <2> HIDE DEF a, b, S, m, n
  <2>4. a \in [1..m -> S] /\ b \in [1..n -> S]
    BY <2>2, <2>3
  <2>5. QED
    BY <2>2, <2>4
<1> HIDE DEF S, a, b
<1>2. L \in Nat /\ DOMAIN entries = 1..L
  BY <1>1, Joined, Elements
<1> HIDE DEF entries, L
<1>3. out = [n \in {i \in 1..L : Unlimited(max, i)} |-> Result(n)]
  BY <1>2 DEF ProcessMaildir, entries, L, a, b
<1>4. {i \in 1..L : Unlimited(max, i)} = 1..M
  BY <1>2 DEF Unlimited
<1>5. M \in Nat /\ M <= L
  BY <1>2
<1> HIDE DEF M, Result
<1>6. out = [n \in 1..M |-> Result(n)]
  BY <1>3, <1>4
<1> HIDE DEF out
<1>7. Len(out) = M /\ DOMAIN out = 1..M
  BY <1>5, <1>6
<1>8. ASSUME NEW k \in 1..M
      PROVE  /\ out[k].num = k
             /\ out[k].lines = IF entries[k] = "unreadable" THEN <<>> ELSE entries[k]
  <2>1. out[k] = Result(k)
    BY <1>6
  <2>2. /\ Result(k).num = k
        /\ Result(k).lines = IF entries[k] = "unreadable" THEN <<>> ELSE entries[k]
    <3>1. CASE entries[k] = "unreadable"
      BY <3>1 DEF Result
    <3>2. CASE entries[k] # "unreadable"
      BY <3>2, ResultIs DEF Result
    <3>3. QED
      BY <3>1, <3>2
  <2>3. QED
    BY <2>1, <2>2
<1>9. QED
  <2>1. ReadsAll(out, entries, max)
    BY <1>2, <1>5, <1>7, <1>8 DEF M, L, ReadsAll
  <2>2. QED
    BY <2>1 DEF entries, a, b, out

\* A run of `process` gives the results its input calls for.
LEMMA ProcessIsRight ==
  ASSUME NEW script, NEW max \in Limits, RunProcess(script, max)
  PROVE  ResultsAreTheMessages'
<1>1. max \in Nat
  BY ToolsAssumption
<1>2. ASSUME NEW f \in Mboxes,
             batch' = [kind |-> "mbox", src |-> f, max |-> max, out |-> ProcessMbox(f, script, max)]
      PROVE  ResultsAreTheMessages'
  <2> DEFINE out == ProcessMbox(f, script, max)
             total == Cardinality(Starts(f))
             extra == IF ~EndsWithFrom(f) THEN 1 ELSE 0
             all == [k \in 1..total |-> MessageAt(f, StartsAt(f)[k])]
  <2>1. IsMbox(f)
    BY ToolsAssumption DEF IsMbox
  <2>2. /\ Len(out) = IF max > 0 /\ total > max + extra THEN max ELSE total
        /\ DOMAIN out = 1..Len(out) /\ Len(out) \in Nat /\ Len(out) <= total /\ total \in Nat
        /\ \A k \in 1..Len(out) :
             out[k].num = k /\ out[k].lines = MessageAt(f, StartsAt(f)[k])
    BY <1>1, <2>1, MboxIsRead
  <2>3. batch'.kind = "mbox" /\ batch'.src = f /\ batch'.max = max /\ batch'.out = out
    BY <1>2
  <2>4. InMailbox' = all
    BY <2>3, Zenon DEF InMailbox, StartsAt
  <2> HIDE DEF out, total
  <2>5. Len(all) = total /\ \A k \in 1..total : all[k] = MessageAt(f, StartsAt(f)[k])
    BY <2>2
  <2> HIDE DEF all
  <2>6. \A k \in DOMAIN out : out[k].num = k /\ out[k].lines = all[k]
    BY <2>2, <2>5
  <2>7. Len(out) < total => max # 0 /\ Len(out) >= max
    BY <1>1, <2>2
  <2> HIDE DEF extra
  <2>8. QED
    BY <2>2, <2>3, <2>4, <2>5, <2>6, <2>7 DEF ResultsAreTheMessages
<1>3. ASSUME NEW d \in Maildirs,
             batch' = [kind |-> "maildir", src |-> d, max |-> max, out |-> ProcessMaildir(d, script, max)]
      PROVE  ResultsAreTheMessages'
  <2> DEFINE out == ProcessMaildir(d, script, max)
             entries == d[1] \o d[2]
             all == [k \in DOMAIN entries |->
                       LET f == entries[k] IN IF f = "unreadable" THEN <<>> ELSE f]
  <2>1. ReadsAll(out, entries, max)
    BY <1>1, MaildirIsRead
  <2>2. batch'.kind = "maildir" /\ batch'.src = d /\ batch'.max = max /\ batch'.out = out
    BY <1>3
  <2>3. InMailbox' = all
    BY <2>2 DEF InMailbox
  <2> HIDE DEF out, entries
  <2>4. /\ Len(all) = Len(entries)
        /\ \A k \in 1..Len(entries) :
             all[k] = IF entries[k] = "unreadable" THEN <<>> ELSE entries[k]
    BY <2>1 DEF ReadsAll
  <2> HIDE DEF all
  <2>5. \A k \in DOMAIN out : out[k].num = k /\ out[k].lines = all[k]
    BY <2>1, <2>4 DEF ReadsAll
  <2>6. Len(out) = IF max > 0 /\ Len(all) > max THEN max ELSE Len(all)
    BY <2>1, <2>4, Zenon DEF ReadsAll
  <2>7. /\ Len(out) <= Len(all)
        /\ Len(out) < Len(all) => max # 0 /\ Len(out) >= max
        /\ max # 0 => Len(out) <= max
    <3>1. Len(all) \in Nat
      BY <2>1, <2>4 DEF ReadsAll
    <3>2. QED
      BY <1>1, <2>6, <3>1
  <2>8. MaxIsTheMaximum'
    BY <2>2, <2>7 DEF MaxIsTheMaximum
  <2>9. QED
    BY <2>2, <2>3, <2>5, <2>7, <2>8 DEF ResultsAreTheMessages
<1>4. QED
  BY <1>2, <1>3 DEF RunProcess

\* The same, of a run.
RightRun(run) ==
  run.kind # "none" =>
    LET all == IF run.kind = "mbox"
               THEN [k \in 1..Cardinality(Starts(run.src)) |->
                       MessageAt(run.src, InOrder(Starts(run.src), StartOrder(run.src))[k])]
               ELSE [k \in DOMAIN (run.src[1] \o run.src[2]) |->
                       LET f == (run.src[1] \o run.src[2])[k] IN IF f = "unreadable" THEN <<>> ELSE f]
    IN /\ Len(run.out) <= Len(all)
       /\ Len(run.out) < Len(all) => run.max # 0 /\ Len(run.out) >= run.max
       /\ run.kind = "maildir" =>
            (run.kind # "none" /\ run.max # 0 => Len(run.out) <= run.max)
       /\ \A k \in DOMAIN run.out : run.out[k].num = k /\ run.out[k].lines = all[k]

BatchInv == BatchTypeOK /\ ResultsAreTheMessages

LEMMA BatchInitially == BatchInit => BatchInv
BY DEF BatchInit, BatchInv, BatchTypeOK, ResultsAreTheMessages, NoBatch

\* Every run of `process` gives the results its input calls for.
LEMMA BatchStays == BatchInv /\ [BatchNext]_batchVars => BatchInv'
<1> SUFFICES ASSUME BatchInv, [BatchNext]_batchVars PROVE BatchInv'
  OBVIOUS
<1>1. CASE UNCHANGED batchVars
  <2>1. batch' = batch
    BY <1>1 DEF batchVars
  <2>2. BatchInv <=> batch.kind \in {"none", "mbox", "maildir"} /\ RightRun(batch)
    BY Zenon DEF BatchInv, BatchTypeOK, ResultsAreTheMessages, MaxIsTheMaximum, InMailbox, RightRun
  <2>3. BatchInv' <=> batch'.kind \in {"none", "mbox", "maildir"} /\ RightRun(batch')
    BY Zenon DEF BatchInv, BatchTypeOK, ResultsAreTheMessages, MaxIsTheMaximum, InMailbox, RightRun
  <2>4. QED
    BY <2>1, <2>2, <2>3, Zenon
<1>2. ASSUME NEW s \in Loadable, NEW max \in Limits, RunProcess(s, max)
      PROVE  BatchInv'
  <2>1. batch'.kind \in {"mbox", "maildir"}
    BY <1>2 DEF RunProcess
  <2>2. QED
    BY <1>2, <2>1, ProcessIsRight DEF BatchInv, BatchTypeOK
<1>3. QED
  BY <1>1, <1>2 DEF BatchNext

------------------------------------------------------------------------------
(***************************************************************************)
(* The registry.                                                           *)
(***************************************************************************)
MarketInv == MarketTypeOK /\ RegistryHonest

\* What is installed has a place, a type and its own hash.
LEMMA SealedEntries ==
  ASSUME NEW p, p.code \in Codes \cup {NoCode}, MayInstall(p)
  PROVE  /\ Slot[p.id] \in Slots
         /\ Sealed(p) \in Entries /\ Sealed(p).hash = Sealed(p).code
  BY DEF MayInstall, Sealed, Entry, Entries, Slots

LEMMA OwnHash ==
  ASSUME NEW id \in ScriptIds, NEW code \in Codes
  PROVE  /\ Slot[id] \in Slots /\ Entry(id, code, code) \in Entries
         /\ Entry(id, code, code).hash = Entry(id, code, code).code
         /\ Entry(id, code, code).id = id /\ Entry(id, code, code).code = code
  BY DEF Entry, Entries, Slots

LEMMA MarketInitially == MarketInit => MarketInv
BY MarketAssumption DEF MarketInit, MarketInv, MarketTypeOK, RegistryHonest, InstalledScripts, Opened

\* Files and what was said of them change together: each file either stays as it is
\* and as it was said to be, or becomes what is said of it now, or nothing is said.
LEMMA ChangedTogether ==
  ASSUME MarketInv, diskFaults' \in 0..MaxDiskFaults, stars' \in [Slots -> Codes \cup {NoCode}],
         files' \in [Slots -> Entries \cup {Gone, Torn}],
         told' \in [Slots -> Entries \cup {Gone, Unsure}],
         \A s \in Slots :
           \/ files'[s] = files[s] /\ told'[s] = told[s]
           \/ files'[s] = Torn /\ told'[s] = Unsure
           \/ files'[s] = Gone /\ told'[s] = Gone
           \/ files'[s] = told'[s] /\ files'[s].hash = files'[s].code
  PROVE  MarketInv'
<1>1. \A s \in Slots : told'[s] # Unsure => files'[s] = told'[s]
  BY DEF MarketInv, RegistryHonest
<1>2. \A s \in Slots : files'[s] \notin {Gone, Torn} => files'[s].hash = files'[s].code
  BY DEF MarketInv, RegistryHonest, InstalledScripts, Opened
<1>3. RegistryHonest'
  BY <1>1, <1>2 DEF RegistryHonest, InstalledScripts, Opened
<1>4. QED
  BY <1>3 DEF MarketInv, MarketTypeOK

LEMMA OneFileChanges ==
  ASSUME MarketInv, NEW s \in Slots, NEW f, NEW t,
         files' = [files EXCEPT ![s] = f], told' = [told EXCEPT ![s] = t],
         stars' \in [Slots -> Codes \cup {NoCode}], diskFaults' \in 0..MaxDiskFaults,
         \/ f = Torn /\ t = Unsure
         \/ f = Gone /\ t = Gone
         \/ f = t /\ f \in Entries /\ f.hash = f.code
  PROVE  MarketInv'
<1>1. files \in [Slots -> Entries \cup {Gone, Torn}] /\ told \in [Slots -> Entries \cup {Gone, Unsure}]
  BY DEF MarketInv, MarketTypeOK
<1>2. /\ files' \in [Slots -> Entries \cup {Gone, Torn}]
      /\ told' \in [Slots -> Entries \cup {Gone, Unsure}]
  BY <1>1
<1>3. \A o \in Slots : o # s => files'[o] = files[o] /\ told'[o] = told[o]
  BY <1>1
<1>4. files'[s] = f /\ told'[s] = t
  BY <1>1
<1>5. QED
  BY <1>2, <1>3, <1>4, ChangedTogether

LEMMA InstallStays ==
  ASSUME MarketInv, NEW p, p.code \in Codes \cup {NoCode},
         \/ Install(p) /\ diskFaults' = diskFaults
         \/ InstallTorn(p),
         stars' \in [Slots -> Codes \cup {NoCode}]
  PROVE  MarketInv'
<1>1. diskFaults \in 0..MaxDiskFaults
  BY DEF MarketInv, MarketTypeOK
<1>2. MayInstall(p)
  BY DEF Install, InstallTorn
<1>3. CASE Install(p) /\ diskFaults' = diskFaults
  BY <1>1, <1>2, <1>3, SealedEntries, OneFileChanges DEF Install
<1>4. CASE InstallTorn(p)
  <2>1. diskFaults' \in 0..MaxDiskFaults
    BY <1>1, <1>4, MarketAssumption DEF InstallTorn
  <2>2. QED
    BY <1>2, <1>4, <2>1, SealedEntries, OneFileChanges DEF InstallTorn
<1>5. QED
  BY <1>3, <1>4

LEMMA InstallAllStays ==
  ASSUME MarketInv, NEW code \in Codes, NEW Failing \in SUBSET Builtins, InstallAll(code, Failing)
  PROVE  MarketInv'
<1> DEFINE Written(s) == {id \in Builtins \ Failing : Slot[id] = s}
           Broken(s) == {id \in Failing : Slot[id] = s}
           New(s) == Entry(CHOOSE id \in Written(s) : TRUE, code, code)
<1>1. /\ diskFaults + Cardinality(Failing) <= MaxDiskFaults
      /\ diskFaults' = diskFaults + Cardinality(Failing)
      /\ files' = [s \in Slots |-> IF Broken(s) # {} THEN Torn
                                   ELSE IF Written(s) # {} THEN New(s) ELSE files[s]]
      /\ told' = [s \in Slots |-> IF Broken(s) # {} THEN Unsure
                                  ELSE IF Written(s) # {} THEN New(s) ELSE told[s]]
      /\ stars' = [s \in Slots |-> IF Written(s) # {} THEN code ELSE stars[s]]
  BY DEF InstallAll
<1>2. \A s \in Slots : Written(s) # {} => New(s) \in Entries /\ New(s).hash = New(s).code
  <2>1. ASSUME NEW s \in Slots, Written(s) # {}
        PROVE  New(s) \in Entries /\ New(s).hash = New(s).code
    <3>1. (CHOOSE id \in Written(s) : TRUE) \in ScriptIds
      BY <2>1 DEF ScriptIds
    <3>2. QED
      BY <3>1, OwnHash
  <2>2. QED
    BY <2>1
<1> HIDE DEF Written, Broken, New
<1>3. /\ files \in [Slots -> Entries \cup {Gone, Torn}]
      /\ told \in [Slots -> Entries \cup {Gone, Unsure}]
      /\ stars \in [Slots -> Codes \cup {NoCode}] /\ diskFaults \in 0..MaxDiskFaults
  BY DEF MarketInv, MarketTypeOK
<1>4. /\ files' \in [Slots -> Entries \cup {Gone, Torn}]
      /\ told' \in [Slots -> Entries \cup {Gone, Unsure}]
      /\ stars' \in [Slots -> Codes \cup {NoCode}]
  BY <1>1, <1>2, <1>3
<1>5. diskFaults' \in 0..MaxDiskFaults
  <2>1. IsFiniteSet(Failing)
    BY MarketAssumption, FS_Subset
  <2>2. Cardinality(Failing) \in Nat
    BY <2>1, FS_CardinalityType
  <2>3. QED
    BY <1>1, <1>3, <2>2, MarketAssumption
<1>6. \A s \in Slots :
           \/ files'[s] = files[s] /\ told'[s] = told[s]
           \/ files'[s] = Torn /\ told'[s] = Unsure
           \/ files'[s] = told'[s] /\ files'[s].hash = files'[s].code
  BY <1>1, <1>2
<1>7. QED
  BY <1>4, <1>5, <1>6, ChangedTogether

\* Every command on the registry.
LEMMA MarketStays == MarketInv /\ [MarketNext]_marketVars => MarketInv'
<1> SUFFICES ASSUME MarketInv, [MarketNext]_marketVars PROVE MarketInv'
  OBVIOUS
<1>1. /\ stars \in [Slots -> Codes \cup {NoCode}] /\ diskFaults \in 0..MaxDiskFaults
      /\ files \in [Slots -> Entries \cup {Gone, Torn}]
      /\ told \in [Slots -> Entries \cup {Gone, Unsure}]
  BY DEF MarketInv, MarketTypeOK
<1>2. CASE UNCHANGED marketVars
  BY <1>2 DEF marketVars, MarketInv, MarketTypeOK, RegistryHonest, InstalledScripts, Opened
<1>3. ASSUME NEW id \in Builtins, NEW c \in Codes, InstallBuiltin(id, c)
      PROVE  MarketInv'
  <2> DEFINE p == Entry(id, c, c)
  <2>1. Slot[id] \in Slots /\ p.code = c
    BY OwnHash DEF ScriptIds
  <2>2. stars' \in [Slots -> Codes \cup {NoCode}]
    BY <1>1, <1>3, <2>1 DEF InstallBuiltin
  <2>3. \/ Install(p) /\ diskFaults' = diskFaults
        \/ InstallTorn(p)
    BY <1>3 DEF InstallBuiltin
  <2> HIDE DEF p
  <2>4. QED
    BY <2>1, <2>2, <2>3, InstallStays
<1>4. ASSUME NEW p \in Packages, Import(p)
      PROVE  MarketInv'
  <2>1. p.code \in Codes \cup {NoCode}
    BY OwnHash DEF Packages, Exported, ScriptIds
  <2>2. /\ UNCHANGED stars
        /\ \/ Install(p) /\ diskFaults' = diskFaults
           \/ InstallTorn(p)
    BY <1>4 DEF Import
  <2>3. QED
    BY <1>1, <2>1, <2>2, InstallStays
<1>5. ASSUME NEW id \in ScriptIds, Uninstall(id)
      PROVE  MarketInv'
  <2>1. Slot[id] \in Slots
    BY DEF Slots
  <2>2. CASE /\ files' = [files EXCEPT ![Slot[id]] = Gone]
             /\ told' = [told EXCEPT ![Slot[id]] = Gone]
             /\ diskFaults' = diskFaults /\ stars' = stars
    BY <1>1, <2>1, <2>2, OneFileChanges
  <2>3. CASE /\ diskFaults < MaxDiskFaults /\ diskFaults' = diskFaults + 1
             /\ files' = files /\ told' = told /\ stars' = stars
    <3>1. diskFaults' \in 0..MaxDiskFaults
      BY <1>1, <2>3, MarketAssumption
    <3>2. QED
      BY <1>1, <2>3, <3>1, ChangedTogether
  <2>4. QED
    BY <1>5, <2>2, <2>3 DEF Uninstall
<1>6. QED
  BY <1>2, <1>3, <1>4, <1>5, InstallAllStays DEF MarketNext

------------------------------------------------------------------------------
(***************************************************************************)
(* The programs together.  A call of the service changes the statistics of *)
(* the sessions and nothing else of theirs, and no other program changes   *)
(* anything of another.                                                    *)
(***************************************************************************)
LEMMA ServiceCounts == Flow /\ Counted /\ [ServiceNext]_gatewayVars => Flow' /\ Counted'
<1> SUFFICES ASSUME Flow, Counted, [ServiceNext]_gatewayVars PROVE Flow' /\ Counted'
  OBVIOUS
<1>1. stats \in Counters /\ Typed
  BY DEF Flow, Typed
<1>2. /\ UNCHANGED <<pc, held, acts, peer, astray, txn, offers, reply, taken>>
      /\ \/ UNCHANGED stats
         \/ stats' = [stats EXCEPT !.processed = @ + 1, !.accepted = @ + 1]
         \/ stats' = [stats EXCEPT !.processed = @ + 1, !.rejected = @ + 1]
  <2>1. CASE UNCHANGED gatewayVars
    BY <2>1 DEF gatewayVars, vars
  <2>2. CASE ServiceNext
    BY <2>2, Zenon DEF ServiceNext, ProcessMessage, RefuseFailed, CountAndForward, Respond
  <2>3. QED
    BY <2>1, <2>2
<1>3. stats' \in Counters
  BY <1>1, <1>2, CounterUpdates
<1>4. Flow'
  BY <1>2, <1>3 DEF Flow, Forwarded, Typed, InHandUnanswered, OnlyUnblockedGoesOn, DeliveredIsTaken,
     SessionCovers, AckMeansTaken, BlockedNeverForwarded, EnvelopeCovers
<1>5. Live' = Live /\ Exchanging' = Exchanging
  BY <1>2 DEF Live, Exchanging
<1>6. /\ stats'.active = stats.active
      /\ stats'.processed = stats'.accepted + stats'.rejected
      /\ stats'.accepted \in {stats.accepted, stats.accepted + 1}
  <2>1. \A c \in Counters :
          /\ c.active \in Int /\ c.processed \in Nat /\ c.accepted \in Nat /\ c.rejected \in Nat
          /\ [c EXCEPT !.processed = @ + 1, !.accepted = @ + 1].active = c.active
          /\ [c EXCEPT !.processed = @ + 1, !.accepted = @ + 1].processed = c.processed + 1
          /\ [c EXCEPT !.processed = @ + 1, !.accepted = @ + 1].accepted = c.accepted + 1
          /\ [c EXCEPT !.processed = @ + 1, !.accepted = @ + 1].rejected = c.rejected
          /\ [c EXCEPT !.processed = @ + 1, !.rejected = @ + 1].active = c.active
          /\ [c EXCEPT !.processed = @ + 1, !.rejected = @ + 1].processed = c.processed + 1
          /\ [c EXCEPT !.processed = @ + 1, !.rejected = @ + 1].accepted = c.accepted
          /\ [c EXCEPT !.processed = @ + 1, !.rejected = @ + 1].rejected = c.rejected + 1
    BY DEF Counters
  <2>2. /\ stats.active \in Int /\ stats.processed \in Nat /\ stats.accepted \in Nat
        /\ stats.rejected \in Nat /\ stats.processed = stats.accepted + stats.rejected
    BY <1>1, <2>1 DEF Counted
  <2>3. CASE UNCHANGED stats
    BY <2>2, <2>3
  <2>4. CASE stats' = [stats EXCEPT !.processed = @ + 1, !.accepted = @ + 1]
    <3>1. /\ stats'.active = stats.active /\ stats'.processed = stats.processed + 1
          /\ stats'.accepted = stats.accepted + 1 /\ stats'.rejected = stats.rejected
      BY <1>1, <2>1, <2>4
    <3>2. QED
      BY <2>2, <3>1
  <2>5. CASE stats' = [stats EXCEPT !.processed = @ + 1, !.rejected = @ + 1]
    <3>1. /\ stats'.active = stats.active /\ stats'.processed = stats.processed + 1
          /\ stats'.accepted = stats.accepted /\ stats'.rejected = stats.rejected + 1
      BY <1>1, <2>1, <2>5
    <3>2. QED
      BY <2>2, <3>1
  <2>6. QED
    BY <1>2, <2>3, <2>4, <2>5
<1>7. Cardinality(taken) \in Nat /\ Cardinality(Exchanging) \in Nat /\ stats.accepted \in Nat
  BY <1>1, SessionSets, FS_CardinalityType DEF Counted, Exchanging, Counters
<1>8. Counted'
  BY <1>2, <1>5, <1>6, <1>7 DEF Counted
<1>9. QED
  BY <1>4, <1>8

\* A step of the programs is a step of each of them, or leaves it alone.
LEMMA StepsApart ==
  [ProgramsNext]_programVars =>
    /\ [Next]_vars \/ [ServiceNext]_gatewayVars
    /\ [ServiceNext]_rpcVars /\ [ToolsNext]_toolVars
    /\ [BatchNext]_batchVars /\ [MarketNext]_marketVars
BY DEF ProgramsNext, programVars, gatewayVars, SessionStep, ServiceStep, ToolStep, BatchStep, MarketStep

LEMMA GatewayHolds == ProgramsSpec => [](Flow /\ Counted)
<1>1. ProgramsInit => Flow /\ Counted
  BY InitFlow, InitCounted DEF ProgramsInit
<1>2. Flow /\ Counted /\ [ProgramsNext]_programVars => Flow' /\ Counted'
  BY StepsApart, FlowStep, CountedNext, ServiceCounts DEF Flow
<1> QED
  BY <1>1, <1>2, PTL DEF ProgramsSpec

LEMMA ServiceHolds == ProgramsSpec => []ServiceInv
<1>1. ProgramsInit => ServiceInv
  BY ServiceInitially DEF ProgramsInit
<1>2. ServiceInv /\ [ProgramsNext]_programVars => ServiceInv'
  BY StepsApart, ServiceStays
<1> QED
  BY <1>1, <1>2, PTL DEF ProgramsSpec

LEMMA ToolsHold == ProgramsSpec => []ToolsInv
<1>1. ProgramsInit => ToolsInv
  BY ToolsInitially DEF ProgramsInit
<1>2. ToolsInv /\ [ProgramsNext]_programVars => ToolsInv'
  BY StepsApart, ToolsStay
<1> QED
  BY <1>1, <1>2, PTL DEF ProgramsSpec

LEMMA BatchHolds == ProgramsSpec => []BatchInv
<1>1. ProgramsInit => BatchInv
  BY BatchInitially DEF ProgramsInit
<1>2. BatchInv /\ [ProgramsNext]_programVars => BatchInv'
  BY StepsApart, BatchStays
<1> QED
  BY <1>1, <1>2, PTL DEF ProgramsSpec

LEMMA MarketHolds == ProgramsSpec => []MarketInv
<1>1. ProgramsInit => MarketInv
  BY MarketInitially DEF ProgramsInit
<1>2. MarketInv /\ [ProgramsNext]_programVars => MarketInv'
  BY StepsApart, MarketStays
<1> QED
  BY <1>1, <1>2, PTL DEF ProgramsSpec

(***************************************************************************)
(* The theorems.                                                           *)
(***************************************************************************)

\* Every variable of every program keeps its type; the statistics the gateway's
\* two entrances share never count fewer than no connections.
THEOREM ProgramsTypeCorrect == ProgramsSpec => []TypesOK
<1>1. /\ Flow /\ Counted => TypeOK
      /\ ServiceInv => ServiceTypeOK
      /\ ToolsInv => ToolsTypeOK
      /\ BatchInv => BatchTypeOK
      /\ MarketInv => MarketTypeOK
  BY TypesFollow, ToolsFollow DEF Flow, BatchInv, ServiceInv, MarketInv
<1>2. (Flow /\ Counted) /\ ServiceInv /\ ToolsInv /\ BatchInv /\ MarketInv => TypesOK
  BY <1>1 DEF TypesOK
<1> QED
  BY <1>2, GatewayHolds, ServiceHolds, ToolsHold, BatchHolds, MarketHolds, PTL

\* Both entrances of the gateway refuse the same of what they see, and a tool's run
\* shows what a first run does, whatever scripts there are and whatever ran before.
THEOREM EnginesVerdict == ProgramsSpec => []EngineDecides
<1>1. ServiceInv /\ ToolsInv => EngineDecides
  BY ToolsFollow DEF ServiceInv, EngineDecides
<1> QED
  BY <1>1, ServiceHolds, ToolsHold, PTL

\* `process` gives results for the messages of the mbox file or Maildir, in order,
\* whole and unmixed with their neighbours, for all of them or for as many as --max
\* at least, for every file and directory, of any length.
THEOREM ProcessReadsTheMailbox == ProgramsSpec => []ResultsAreTheMessages
<1>1. BatchInv => ResultsAreTheMessages
  BY DEF BatchInv
<1> QED
  BY <1>1, BatchHolds, PTL

\* The registry's files are as the user was told, and what is listed is intact,
\* whatever writes and removals fail.
THEOREM RegistryIsAsTold == ProgramsSpec => []RegistryHonest
<1>1. MarketInv => RegistryHonest
  BY DEF MarketInv
<1> QED
  BY <1>1, MarketHolds, PTL

\* The statistics add up with calls of the service between the sessions' messages,
\* and the sessions' promises hold beside these.
THEOREM CountsAreShared ==
  ProgramsSpec => [](StatsAddUp /\ AckMeansTaken /\ TakenIsRight)
<1>1. Flow /\ Counted => StatsAddUp /\ AckMeansTaken /\ TakenIsRight
  BY CountsFollow DEF Flow, TakenIsRight
<1> QED
  BY <1>1, GatewayHolds, PTL

==============================================================================
