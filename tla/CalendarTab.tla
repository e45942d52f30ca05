------------------------------ MODULE CalendarTab ------------------------------
(***************************************************************************)
(* The calendar of the desktop client, internal/gui/calendar.go, over      *)
(* pkg/storage/calendar.go, on the UI goroutine: an agenda, a dialog for   *)
(* one event, and files in the iCal format, written and read by hand.      *)
(*                                                                         *)
(* A time is the minute of its day on the wall where it was taken, what it *)
(* has below the minute, and how far that wall is ahead of UTC.  A text is *)
(* its core, and whether blanks follow.                                    *)
(***************************************************************************)
EXTENDS Integers, SequencesExt, Slices

CONSTANTS
  Cores,       \* texts without blanks at the end
  Forms,       \* what the user fills in: three texts and two minutes, or
  Unreadable,  \*   what is no minute
  Clock,       \* what time.Now() says, as a set of times
  Foreign,     \* files of other programs: sequences of lines
  MaxEvents,   \* bound on the events ever added
  MaxCalFaults \* bound on the statements that fail

Texts == [core : Cores, blanks : BOOLEAN]

Times == [wall : Int, below : {"nothing", "seconds", "fraction"}, zone : Int]

\* Of the lines of a file those that matter have these names.
Lines ==
  [is : {"SUMMARY", "LOCATION", "DESCRIPTION"}, of : Texts]
    \cup [is : {"DTSTART", "DTEND"}, of : Times \cup {Unreadable}]
    \cup [is : {"BEGIN", "END"}, of : Texts]

ASSUME CalendarAssumption ==
  /\ MaxEvents \in Nat /\ MaxCalFaults \in Nat /\ "" \in Cores
  /\ \A f \in Forms : {f.title, f.location, f.description} \subseteq Texts
  /\ \A f \in Forms : {f.start, f.end} \subseteq Nat \cup {Unreadable}
  /\ Clock \subseteq Times /\ Unreadable \notin Times
  /\ Foreign \subseteq Seq(Lines)

VARIABLES
  events,   \* the calendar_events table
  agenda,   \* t.events
  ical,     \* the file the last export has written
  calFaults \* history: failed statements

calendarVars == <<events, agenda, ical, calFaults>>

Empty == [core |-> "", blanks |-> FALSE]

TrimSpace(t) == [t EXCEPT !.blanks = FALSE]

Minute(w) == [wall |-> w, below |-> "nothing", zone |-> 0]

\* The zero time.Time.
ZeroTime == Minute(0)

CalendarInit == events = {} /\ agenda = <<>> /\ ical = <<>> /\ calFaults = 0

------------------------------------------------------------------------------
(***************************************************************************)
(* The table.                                                              *)
(***************************************************************************)

\* ORDER BY start_time: stored as texts, times compare by their walls.
Earlier(d, e) == d.start.wall < e.start.wall \/ (d.start.wall = e.start.wall /\ d.id < e.id)

ListEvents(tab) == InOrder(tab, {p \in tab \X tab : Earlier(p[1], p[2])})

\* Reload, after a handler has lost some statements; a query that fails leaves the
\* agenda as it is.
ReloadsAgenda(lost) ==
  \/ agenda' = ListEvents(events') /\ calFaults' = calFaults + lost
  \/ agenda' = agenda /\ calFaults' = calFaults + lost + 1

------------------------------------------------------------------------------
(***************************************************************************)
(* The dialog.                                                             *)
(***************************************************************************)

\* The dialog shows minutes, and reads what it finds as UTC; what it cannot read
\* leaves the time as it was.
Entered(entry, t) == IF entry = Unreadable THEN t ELSE Minute(entry)

Filled(e, f) ==
  [e EXCEPT !.title = f.title, !.location = f.location, !.description = f.description,
            !.start = Entered(f.start, @), !.end = Entered(f.end, @)]

\* "New Event": its times are an hour ahead, to the nanosecond, until overwritten.
SaveNewEvent(now, f) ==
  LET e == [id |-> Cardinality(events) + 1, title |-> Empty, location |-> Empty,
            description |-> Empty, start |-> now, end |-> now]
  IN  /\ Cardinality(events) < MaxEvents
      /\ \/ /\ events' = events \cup {Filled(e, f)}
            /\ ReloadsAgenda(0)
         \/ events' = events /\ ReloadsAgenda(1)
      /\ calFaults' <= MaxCalFaults
      /\ UNCHANGED ical

\* A row of the agenda: the event as it was read, with what was entered.
SaveEvent(i, f) ==
  LET e == Filled(agenda[i], f)
  IN  /\ \/ /\ events' = {IF d.id = e.id THEN e ELSE d : d \in events}
            /\ ReloadsAgenda(0)
         \/ events' = events /\ ReloadsAgenda(1)
      /\ calFaults' <= MaxCalFaults
      /\ UNCHANGED ical

------------------------------------------------------------------------------
(***************************************************************************)
(* iCal.                                                                   *)
(***************************************************************************)
Line(name, value) == [is |-> name, of |-> value]

\* The whole second, by the clock in Greenwich.
Stamp(t) ==
  [wall |-> t.wall - t.zone, zone |-> 0,
   below |-> IF t.below = "nothing" THEN "nothing" ELSE "seconds"]

\* Newlines of a description are escaped: it is one line, whatever it says.
EventLines(e) ==
  <<Line("BEGIN", Empty), Line("SUMMARY", e.title),
    Line("DTSTART", Stamp(e.start)), Line("DTEND", Stamp(e.end))>>
  \o (IF e.location = Empty THEN <<>> ELSE <<Line("LOCATION", e.location)>>)
  \o (IF e.description = Empty THEN <<>> ELSE <<Line("DESCRIPTION", e.description)>>)
  \o <<Line("END", Empty)>>

ICal(list) ==
  LET written[n \in 0..Len(list)] ==
        IF n = 0 THEN <<>> ELSE written[n - 1] \o EventLines(list[n])
  IN  written[Len(list)]

\* The file may end early: the error of the write is not looked at.
ExportICal ==
  /\ \/ ical' = ICal(agenda) /\ UNCHANGED calFaults
     \/ /\ calFaults < MaxCalFaults /\ calFaults' = calFaults + 1
        /\ \E n \in 0..Len(ICal(agenda)) : ical' = SubSeq(ICal(agenda), 1, n)
  /\ UNCHANGED <<events, agenda>>

Blank ==
  [title |-> Empty, location |-> Empty, description |-> Empty, start |-> ZeroTime, end |-> ZeroTime]

Closed == [open |-> FALSE, event |-> Blank, read |-> <<>>]

\* A line with the blanks around it cut off; a time that does not parse, or a line of
\* another name, is passed over.
ReadField(e, line) ==
  CASE line.is = "SUMMARY"  -> [e EXCEPT !.title = TrimSpace(line.of)]
    [] line.is = "LOCATION" -> [e EXCEPT !.location = TrimSpace(line.of)]
    [] line.is = "DTSTART" /\ line.of # Unreadable -> [e EXCEPT !.start = line.of]
    [] line.is = "DTEND" /\ line.of # Unreadable   -> [e EXCEPT !.end = line.of]
    [] OTHER -> e

ReadEnd(r) == [open |-> FALSE, event |-> Blank, read |-> Append(r.read, r.event)]

ReadLineKeepsEvent(r, line) ==
  IF line.is = "BEGIN" THEN [r EXCEPT !.open = TRUE]
  ELSE IF ~r.open THEN r
  ELSE IF line.is = "END" THEN [r EXCEPT !.open = FALSE, !.read = Append(@, r.event)]
  ELSE [r EXCEPT !.event = ReadField(@, line)]

\* BEGIN begins anew, also inside an event.
ReadLine(r, line) ==
  IF line.is = "BEGIN" THEN [open |-> TRUE, event |-> Blank, read |-> r.read]
  ELSE IF ~r.open THEN r
  ELSE IF line.is = "END" THEN ReadEnd(r)
  ELSE [open |-> TRUE, event |-> ReadField(r.event, line), read |-> r.read]

Reading(r, file) ==
  LET after[n \in 0..Len(file)] == IF n = 0 THEN r ELSE ReadLine(after[n - 1], file[n])
  IN  after[Len(file)]

ReadICal(file) == Reading(Closed, file).read

\* AddEvent.
Added(n, e) ==
  [id |-> n, title |-> e.title, location |-> e.location, description |-> e.description,
   start |-> e.start, end |-> e.end]

\* Every event of the file is added; one that storage does not take is counted all
\* the same in what the user is told.
ImportICal(file) ==
  LET read == ReadICal(file) IN
  \E taken \in SUBSET DOMAIN read :
    /\ Cardinality(events) + Cardinality(taken) <= MaxEvents
    /\ events' = events \cup
         {Added(Cardinality(events) + Cardinality({j \in taken : j <= i}), read[i]) : i \in taken}
    /\ ReloadsAgenda(Len(read) - Cardinality(taken))
    /\ calFaults' <= MaxCalFaults
    /\ UNCHANGED ical

CalendarNext ==
  \/ \E now \in Clock, f \in Forms : SaveNewEvent(now, f)
  \/ \E i \in DOMAIN agenda, f \in Forms : SaveEvent(i, f)
  \/ ExportICal
  \/ \E file \in Foreign \cup {ical} : ImportICal(file)

------------------------------------------------------------------------------
(***************************************************************************)
(* Properties                                                              *)
(***************************************************************************)
Event ==
  [id : 1..MaxEvents, title : Texts, location : Texts, description : Texts, start : Times, end : Times]

CalendarTypeOK ==
  /\ events \subseteq Event /\ agenda \in Seq(Event)
  /\ ical \in Seq(Lines)
  /\ calFaults \in 0..MaxCalFaults

\* What is left of an event in a file: whole seconds, no blanks at the end of its
\* texts, and no description, which is written and not read.
Returned(e) ==
  [title |-> TrimSpace(e.title), location |-> TrimSpace(e.location), description |-> Empty,
   start |-> Stamp(e.start), end |-> Stamp(e.end)]

\* The file Export iCal writes is one Import iCal understands: read back, it has
\* every event of the agenda, in order, unmixed with its neighbours, each at the
\* time it was.
ExportReadsBack ==
  ReadICal(ICal(agenda)) = [i \in DOMAIN agenda |-> Returned(agenda[i])]

\* As long as nothing fails the agenda has every event of the table.
AgendaIsStored == calFaults = 0 => agenda = ListEvents(events)

==============================================================================
