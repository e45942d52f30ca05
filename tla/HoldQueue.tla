------------------------------- MODULE HoldQueue -------------------------------
(***************************************************************************)
(* The held-send scheduler, pkg/presence/presence.go: messages wait until  *)
(* the tracker's last report on their recipient scores high enough, or     *)
(* until they have waited MaxWait.  The tracker's map and the queue have   *)
(* mutexes of their own; dispatch reads reports while it holds the queue.  *)
(* The clock ticks in hours; probes say at which minute they start.        *)
(***************************************************************************)
EXTENDS Clock, OpenPattern, Slices

CONSTANTS
  Letters,    \* the *HeldMessages callers hold, each at most once
  Recipients,
  Scores,     \* minimum scores, in tenths
  Answers,    \* what the recipients' servers answer a probe
  OpenTimes,  \* when messages are opened
  MaxOpens,   \* bound on the opens of a recipient
  Minutes,    \* of the hour, at which probes start
  MaxProbes,  \* bound on the probes under way
  MaxWaits    \* MaxWait arguments; 0 asks for the default

DefaultWait == 24
DefaultScore == 6

ASSUME HoldQueueAssumption ==
  /\ Scores \subseteq 0..10 /\ MaxWaits \subseteq Nat
  /\ Answers \subseteq {Unreachable, LoginRefused, NoInbox} \cup Nat
  /\ OpenTimes \subseteq Nat /\ Minutes \subseteq 0..59
  /\ {MaxOpens, MaxProbes} \subseteq Nat

VARIABLES
  reports,  \* tracker.reports: the last report
  patterns, \* tracker.patterns, NoOpens where there is none
  probing,  \* the probes that have not come back: records [of, at]
  held,     \* q.held: records [letter, to, min, until]
  post,     \* what became of each letter
  holdQuit, \* q.quit is closed
  holdLoop  \* the loop: "select" or "returned"

holdVars == <<reports, patterns, probing, held, post, holdQuit, holdLoop>>

NoReport == [score |-> -1, state |-> "none", window |-> 0, at |-> 0]

TrackerInit ==
  /\ reports = [r \in Recipients |-> NoReport]
  /\ patterns = [r \in Recipients |-> NoOpens]
  /\ probing = {}

HoldInit ==
  /\ TrackerInit
  /\ held = <<>>
  /\ post = [l \in Letters |-> "new"]
  /\ holdQuit = FALSE
  /\ holdLoop = "select"

\* A recipient has opened a message at t, which need not be now.
TrackOpen(r, t) ==
  /\ patterns[r].samples < MaxOpens
  /\ patterns' = [patterns EXCEPT ![r] = RecordOpen(@, t)]
  /\ UNCHANGED <<reports, probing, held, post, holdQuit, holdLoop>>

\* Probe dates its report before it dials.
ProbeStarts(r, t) ==
  /\ Cardinality(probing) < MaxProbes
  /\ probing' = probing \cup {[of |-> r, at |-> t]}
  /\ UNCHANGED <<reports, patterns, held, post, holdQuit, holdLoop>>

\* The server has answered, or the ten seconds are over; the pattern is read now.
\* The report replaces the last one, also one of a probe that started later.
ProbeEnds(q, answer) ==
  LET p == patterns[q.of]
      score == Aggregate(answer, p, q.at)
  IN  /\ probing' = probing \ {q}
      /\ reports' = [reports EXCEPT ![q.of] =
           [score |-> score, state |-> ScoreToState(score), at |-> q.at,
            window |-> IF p.samples = 0 THEN q.at + 60 ELSE NextBestWindow(p, q.at)]]
      /\ UNCHANGED <<patterns, held, post, holdQuit, holdLoop>>

\* A caller queues a letter it dated q; the zero values of MaxWait and MinScore
\* become their defaults.
Hold(l, r, s, w, q) ==
  /\ post[l] = "new"
  /\ post' = [post EXCEPT ![l] = "held"]
  /\ held' = Append(held, [letter |-> l, to |-> r,
                           min |-> IF s = 0 THEN DefaultScore ELSE s,
                           until |-> q + IF w = 0 THEN DefaultWait ELSE w])
  /\ UNCHANGED <<reports, patterns, probing, holdQuit, holdLoop>>

RipeReported(m) == reports[m.to].score >= m.min

Ripe(m) == now > m.until \/ reports[m.to].score >= m.min

Unripe(m) == ~Ripe(m)

DispatchInPlace ==
  /\ holdLoop = "select"
  /\ post' = [l \in Letters |->
                IF \E i \in DOMAIN held : held[i].letter = l /\ Ripe(held[i])
                THEN "sending" ELSE post[l]]
  /\ held' = [i \in DOMAIN held |->
                LET rest == SelectSeq(held, Unripe)
                IN  IF i <= Len(rest) THEN rest[i] ELSE held[i]]
  /\ UNCHANGED <<reports, patterns, probing, holdQuit, holdLoop>>

\* One tick of the loop: under the mutex the ripe letters leave the queue; each
\* gets a goroutine.
Dispatch ==
  /\ holdLoop = "select"
  /\ post' = [l \in Letters |->
                IF \E i \in DOMAIN held : held[i].letter = l /\ Ripe(held[i])
                THEN "sending" ELSE post[l]]
  /\ held' = Only(held, {m \in ToSet(held) : ~Ripe(m)})
  /\ UNCHANGED <<reports, patterns, probing, holdQuit, holdLoop>>

\* SendFn runs once; an error is only logged.
SendHeld(l) ==
  /\ post[l] = "sending"
  /\ \E r \in {"sent", "failed"} : post' = [post EXCEPT ![l] = r]
  /\ UNCHANGED <<reports, patterns, probing, held, holdQuit, holdLoop>>

HoldStop ==
  /\ ~holdQuit
  /\ holdQuit' = TRUE
  /\ UNCHANGED <<reports, patterns, probing, held, post, holdLoop>>

HoldLoopReturns ==
  /\ holdLoop = "select" /\ holdQuit
  /\ holdLoop' = "returned"
  /\ UNCHANGED <<reports, patterns, probing, held, post, holdQuit>>

HoldNext ==
  \/ \E r \in Recipients, t \in OpenTimes : TrackOpen(r, t)
  \/ \E r \in Recipients, m \in Minutes : ProbeStarts(r, 60 * now + m)
  \/ \E q \in probing, answer \in Answers : ProbeEnds(q, answer)
  \/ \E l \in Letters, r \in Recipients, s \in Scores, w \in MaxWaits : Hold(l, r, s, w, now)
  \/ Dispatch \/ HoldStop \/ HoldLoopReturns
  \/ \E l \in Letters : SendHeld(l)

------------------------------------------------------------------------------
(***************************************************************************)
(* Properties                                                              *)
(***************************************************************************)

HoldTypeOK ==
  /\ \A r \in Recipients :
       /\ reports[r].score \in -1..10 /\ {reports[r].window, reports[r].at} \subseteq Nat
       /\ reports[r].state \in {"none", "active", "online", "away", "unknown"}
       /\ patterns[r].samples \in 0..MaxOpens
       /\ \A h \in 0..23 : patterns[r].hours[h] \in 0..patterns[r].scale
  /\ \A q \in probing : q.of \in Recipients /\ q.at \in Nat
  /\ held \in Seq([letter : Letters, to : Recipients, min : 1..10, until : Nat])
  /\ post \in [Letters -> {"new", "held", "sending", "sent", "failed"}]
  /\ holdQuit \in BOOLEAN
  /\ holdLoop \in {"select", "returned"}

\* The in-place filtering of dispatch keeps every letter that is not ripe, once, and
\* no letter that has been handed to a goroutine: what Hold took is in the queue until
\* a goroutine has it.
HeldOnce ==
  /\ IsInjective([i \in DOMAIN held |-> held[i].letter])
  /\ \A l \in Letters :
       post[l] = "held" <=> \E i \in DOMAIN held : held[i].letter = l

\* The window a report recommends is still ahead when the report is dated, by a day and
\* five minutes at most, and by five minutes at least unless it is midnight; it begins
\* on an hour that some message of the recipient has been opened in.
WindowIsAhead ==
  \A r \in Recipients :
    LET rep == reports[r] IN
    rep # NoReport =>
      /\ rep.window > rep.at /\ rep.window < rep.at + 5 + Day
      /\ rep.window < rep.at + 5 => rep.window % Day = 0
      /\ rep.window # rep.at + 60 =>
           rep.window % 60 = 0 /\ patterns[r].hours[HourOf(rep.window)] > 0

==============================================================================
