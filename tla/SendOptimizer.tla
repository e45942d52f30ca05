----------------------------- MODULE SendOptimizer -----------------------------
(***************************************************************************)
(* Advice on when to send, on the UI goroutine: the Send Optimizer of      *)
(* internal/gui/insights.go over pkg/send/optimize.go, and the calendar    *)
(* check of pkg/presence/presence.go.  The query that feeds the view is    *)
(* still a stub without rows, and nothing calls the calendar check; here   *)
(* messages are exchanged as the stub's comment plans, and both are asked  *)
(* at any time.                                                            *)
(***************************************************************************)
EXTENDS OpenPattern

CONSTANTS
  Exchanges,    \* messages to the contact: records [sent, replied]; 0 is the zero time
  MaxExchanges, \* bound on them
  Moments,      \* when advice is asked for
  BusyLists     \* slices of calendar entries: records [start, end]

ASSUME OptimizerAssumption ==
  /\ MaxExchanges \in Nat
  /\ Moments \subseteq Nat
  /\ \A x \in Exchanges : x.sent \in Nat /\ x.replied \in Nat
  /\ BusyLists \subseteq Seq([start : Nat, end : Nat])

VARIABLES
  exchanged, \* the contact's records, in the order of the query
  card       \* what was asked and what was answered last

adviceVars == <<exchanged, card>>

NoCard == [about |-> "nothing"]

AdviceInit == exchanged = <<>> /\ card = NoCard

------------------------------------------------------------------------------
(***************************************************************************)
(* BuildProfile.                                                           *)
(***************************************************************************)
MinSamples == 3

Counted(x) == x.sent # 0

\* A reply counts within three days.
Replied(x) == Counted(x) /\ x.replied - x.sent \in 1..(72 * 60 - 1)

Sent(records) == {i \in DOMAIN records : Counted(records[i])}
Answered(records) == {i \in DOMAIN records : Replied(records[i])}

\* The slots of the records: the hours, or the days, they were sent at.
Hours(records) == [i \in DOMAIN records |-> HourOf(records[i].sent)]
Days(records) == [i \in DOMAIN records |-> WeekdayOf(records[i].sent)]

\* How many records of a set are in a slot.
CountIn(slot, set, s) == Cardinality({i \in set : slot[i] = s})

\* The slot in which the largest share of the messages was replied to: the first of
\* several, 0 when nothing was.
BestSlot(records, slot) ==
  LET sent(s)    == CountIn(slot, Sent(records), s)
      replies(s) == CountIn(slot, Answered(records), s)
      liked      == {s \in Range(slot) : replies(s) > 0}
  IN  IF liked = {} THEN 0
      ELSE Min({s \in liked :
                  \A other \in liked : replies(other) * sent(s) <= replies(s) * sent(other)})

\* The upper median, 0 of nothing.
Median(values) ==
  IF values = <<>> THEN 0 ELSE SortSeq(values, <)[Len(values) \div 2 + 1]

EmptyProfile == [samples |-> 0, bestHour |-> 0, bestDay |-> 0, median |-> 0, tzOffset |-> 0]

\* A record without a date is a sample, though nothing is learnt from it.
BuildProfile(records) ==
  LET replied == SelectSeq(records, Replied)
  IN  IF Len(records) < MinSamples
        THEN EmptyProfile
        ELSE [samples  |-> Len(records),
              bestHour |-> BestSlot(records, Hours(records)),
              bestDay  |-> BestSlot(records, Days(records)),
              median   |-> Median([i \in DOMAIN replied |-> replied[i].replied - replied[i].sent]),
              tzOffset |-> Median([i \in DOMAIN replied |-> 12 - HourOf(replied[i].replied)])]

------------------------------------------------------------------------------
(***************************************************************************)
(* SuggestSendTime.                                                        *)
(***************************************************************************)

\* From the hour today, a day at a time until it is the weekday and not past.
NextOccurrence(from, day, hour) ==
  LET candidate(n) == Midnight(from) + hour * 60 + n * Day
      fits(c) == WeekdayOf(c) = day /\ c >= from
      walk[n \in Nat] == IF fits(candidate(n)) THEN candidate(n) ELSE walk[n + 1]
  IN  walk[0]

\* Now, if too little is known or the best time is less than half an hour away.
SuggestSendTime(p, from) ==
  LET target == NextOccurrence(from, p.bestDay, p.bestHour)
  IN  IF p.samples < MinSamples \/ target - from < 30 THEN from ELSE target

------------------------------------------------------------------------------
(***************************************************************************)
(* What happens.                                                           *)
(***************************************************************************)

\* A message goes to the contact, and its reply comes or does not.
Exchange(x) ==
  /\ Len(exchanged) < MaxExchanges
  /\ exchanged' = Append(exchanged, x)
  /\ UNCHANGED card

\* The Analyze button.
Analyze(t) ==
  /\ card' = [about |-> "contact", asked |-> t, of |-> exchanged,
              at |-> SuggestSendTime(BuildProfile(exchanged), t)]
  /\ UNCHANGED exchanged

\* A caller asks the calendar, its slots in any order.
AskCalendar(t, busy) ==
  /\ \E order \in Sortings(busy) :
       card' = [about |-> "calendar", asked |-> t, of |-> busy, at |-> FindNextFree(t, busy, order)]
  /\ UNCHANGED exchanged

AdviceNext ==
  \/ \E x \in Exchanges : Exchange(x)
  \/ \E t \in Moments : Analyze(t)
  \/ \E t \in Moments, busy \in BusyLists : AskCalendar(t, busy)

------------------------------------------------------------------------------
(***************************************************************************)
(* Properties                                                              *)
(***************************************************************************)
AdviceTypeOK ==
  /\ exchanged \in Seq(Exchanges) /\ Len(exchanged) <= MaxExchanges
  /\ card = NoCard \/ card.at \in Nat

\* The moment the calendar check finds is in no busy slot, though it is moved out
\* of one slot after the other in a single pass; a free moment is kept.
FreeIsFree ==
  card.about = "calendar" =>
    LET clash(t) == \E i \in DOMAIN card.of : Clashes(t, card.of[i])
    IN  /\ card.at >= card.asked /\ ~clash(card.at)
        /\ ~clash(card.asked) => card.at = card.asked

\* Of the messages of no other slot a larger share is among the answered ones.
IsBest(records, slot, answered, best) ==
  \A s \in 0..23 :
    CountIn(slot, answered, s) * CountIn(slot, Sent(records), best)
      <= CountIn(slot, answered, best) * CountIn(slot, Sent(records), s)

\* A suggestion other than "now" is the first moment from now on at the hour and
\* on the day of which the largest share of messages was replied to within the three
\* days that the code counts (optimize.go:114 says two hours, and for those it is
\* false): never in the past, and at most a week ahead.
SuggestionIsNext ==
  card.about = "contact" =>
    LET p == BuildProfile(card.of)
        first == Min({t \in {Midnight(card.asked) + n * Day + p.bestHour * 60 : n \in 0..7} :
                        t >= card.asked /\ WeekdayOf(t) = p.bestDay})
    IN  card.at # card.asked =>
          /\ card.at = first
          /\ IsBest(card.of, Hours(card.of), Answered(card.of), p.bestHour)
          /\ IsBest(card.of, Days(card.of), Answered(card.of), p.bestDay)

==============================================================================
