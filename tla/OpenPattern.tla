------------------------------ MODULE OpenPattern ------------------------------
(***************************************************************************)
(* When somebody is likely to read: the arithmetic of                      *)
(* pkg/presence/presence.go.  Times are minutes since some Sunday, 0:00    *)
(* UTC.  Scores are in tenths, rounded down, which changes no comparison   *)
(* with a threshold in tenths; weights are integers over the pattern's     *)
(* `scale', in place of floats.                                            *)
(***************************************************************************)
EXTENDS Integers, SequencesExt

Day == 24 * 60

HourOf(t) == (t \div 60) % 24

WeekdayOf(t) == (t \div Day) % 7

Midnight(t) == t - (t % Day)

------------------------------------------------------------------------------
(***************************************************************************)
(* The historical pattern of one recipient.                                *)
(***************************************************************************)
NoOpens ==
  [samples |-> 0, scale |-> 1, hours |-> [h \in 0..23 |-> 0], days |-> [d \in 0..6 |-> 0]]

\* A moving average: a tenth of the weight goes to the hour and to the day of this
\* open; every other hour loses 1/230 of its own, the other days nothing.
RecordOpen(p, t) ==
  [samples |-> p.samples + 1,
   scale   |-> 230 * p.scale,
   hours   |-> [h \in 0..23 |-> IF h = HourOf(t) THEN 207 * p.hours[h] + 23 * p.scale
                                                 ELSE 229 * p.hours[h]],
   days    |-> [d \in 0..6 |-> IF d = WeekdayOf(t) THEN 207 * p.days[d] + 23 * p.scale
                                                   ELSE 230 * p.days[d]]]

MaxHourWeight(p) == Max({p.hours[h] : h \in 0..23})

\* The first of the hours with the highest weight.
BestHour(p) == Min({h \in 0..23 : p.hours[h] = MaxHourWeight(p)})

\* The best hour of today, of tomorrow if it has begun or begins within five
\* minutes; 9:00 tomorrow without any sample.
NextBestWindow(p, t) ==
  IF p.samples = 0
    THEN Midnight(t + Day) + 9 * 60
    ELSE LET candidate == Midnight(t) + BestHour(p) * 60
         IN  IF candidate < t + 5 THEN candidate + Day ELSE candidate

------------------------------------------------------------------------------
(***************************************************************************)
(* Signals and scores.                                                     *)
(***************************************************************************)

\* What the recipient's IMAP server answers: no connection, no login, no INBOX, or
\* the number of RECENT messages.
Unreachable == -3
LoginRefused == -2
NoInbox == -1

ServerSignals(answer) ==
  CASE answer = Unreachable  -> <<0>>
    [] answer = LoginRefused -> <<5>>
    [] answer = NoInbox      -> <<5, 7>>
    [] OTHER                 -> <<5, 7, Min({answer, 10})>>

\* The average of the server's signals and, with a pattern, of the weight of the
\* hour relative to the best one.
Aggregate(answer, p, t) ==
  LET signals == ServerSignals(answer)
      sum[n \in 0..Len(signals)] == IF n = 0 THEN 0 ELSE sum[n - 1] + signals[n]
      total == sum[Len(signals)]
      norm == MaxHourWeight(p)
  IN  IF p.samples = 0
        THEN total \div Len(signals)
        ELSE (total * norm + 10 * p.hours[HourOf(t)]) \div ((Len(signals) + 1) * norm)

ScoreToState(score) ==
  CASE score >= 8 -> "active"
    [] score >= 5 -> "online"
    [] score >= 2 -> "away"
    [] OTHER      -> "unknown"

------------------------------------------------------------------------------
(***************************************************************************)
(* The calendar.                                                           *)
(***************************************************************************)
Clashes(t, slot) == t < slot.end /\ t >= slot.start

AfterSlot(t, slot) == IF Clashes(t, slot) THEN slot.end + 5 ELSE t

\* The orders in which sort.Slice may leave the slots: by their start, and anyhow
\* where two start together.
Sortings(busy) ==
  {p \in Bijection(DOMAIN busy, DOMAIN busy) :
     \A i, j \in DOMAIN busy : i < j => busy[p[i]].start <= busy[p[j]].start}

NextFreeUnsorted(t, busy, order) == FoldLeft(AfterSlot, t, busy)

\* One pass over the slots in that order: five minutes after each that clashes
\* with the candidate so far.
FindNextFree(t, busy, order) ==
  LET candidate[n \in 0..Len(busy)] ==
        IF n = 0 THEN t ELSE AfterSlot(candidate[n - 1], busy[order[n]])
  IN  candidate[Len(busy)]

==============================================================================
