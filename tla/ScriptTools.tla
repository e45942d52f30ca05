------------------------------ MODULE ScriptTools -----------------------------
(***************************************************************************)
(* The programs of cmd/mailscript that run scripts over stored messages:   *)
(* `test`, `repl` and `debug`, of which the last two keep a message        *)
(* context over many runs of a script that appends to it, and `process`,   *)
(* which runs one over a mailbox.                                          *)
(***************************************************************************)
EXTENDS MailScript, FiniteSets

CONSTANTS
  Loadable,    \* the scripts the user has at hand
  NoScript,    \* the empty script
  ScriptLines, \* the number of lines of a script in the debugger
  Mboxes,      \* mbox files: sequences of what ReadString returns
  Maildirs,    \* pairs of sequences of files: cur and new
  Limits       \* the values of --max; 0 is no limit

\* What ReadString returns with EOF after a newline.
NoLine == ""

IsSlice(s) == Len(s) \in Nat /\ s = [n \in 1..Len(s) |-> s[n]]

ASSUME ToolsAssumption ==
  /\ Limits \subseteq Nat
  /\ \A f \in Mboxes : f \in Seq(STRING) \ {<<>>} /\ \A n \in 1..(Len(f) - 1) : f[n] # NoLine
  /\ \A d \in Maildirs : IsSlice(d[1]) /\ IsSlice(d[2])

VARIABLES
  tool,   \* the program that runs, or "shell"
  loaded, \* scriptContent; session.script
  ctx,    \* the message context of the program
  breaks, \* session.breakpoints
  report, \* what the last run has printed
  batch   \* what the last run of `process` has returned, with its input

toolVars == <<tool, loaded, ctx, breaks, report>>

batchVars == <<batch>>

Nothing == [of |-> "nothing"]

Kept(r) == [facts |-> r.facts, actions |-> r.actions, added |-> r.added, logs |-> r.logs]

ToolsInit ==
  /\ tool = "shell" /\ loaded = NoScript
  /\ ctx = NewContext({}) /\ breaks = {} /\ report = Nothing

\* What is on the screen after a run that left r: the results, or the error.
Show(script, r) ==
  report' = [of |-> tool', script |-> script, facts |-> r.facts, failed |-> r.failed,
             left |-> IF r.failed THEN NewContext(r.facts) ELSE Kept(r)]

\* Runs a script on a context; the program's context is what the run leaves.
RunOn(script, c) ==
  LET r == ExecuteEngine(script, c) IN ctx' = Kept(r) /\ Show(script, r)

------------------------------------------------------------------------------
(***************************************************************************)
(* test, and debug --trace: one run on a new context, then the shell.      *)
(***************************************************************************)
RunTest(script, facts) ==
  /\ tool = "shell"
  /\ UNCHANGED <<tool, loaded, breaks>>
  /\ RunOn(script, NewContext(facts))

\* The trace shows what a script has done before it failed, too.
RunTrace(script, facts) ==
  LET r == ExecuteEngine(script, NewContext(facts))
  IN /\ tool = "shell"
     /\ ctx' = Kept(r)
     /\ report' = [of |-> "trace", script |-> script, facts |-> facts, failed |-> r.failed,
                   left |-> Kept(r)]
     /\ UNCHANGED <<tool, loaded, breaks>>

------------------------------------------------------------------------------
(***************************************************************************)
(* repl.                                                                   *)
(***************************************************************************)
StartREPL(script) ==
  /\ tool = "shell"
  /\ tool' = "repl" /\ loaded' = script
  /\ ctx' = NewContext({}) /\ report' = Nothing
  /\ UNCHANGED breaks

\* load and edit; a file that cannot be read leaves the script as it is, and an
\* edit that ends at once leaves none.
LoadScript(script) ==
  /\ tool = "repl"
  /\ loaded' = script
  /\ UNCHANGED <<tool, ctx, breaks, report>>

\* set, body and spam, and set in the debugger: other facts hold of the message.
ChangeMessage(facts) ==
  /\ tool \in {"repl", "debug"}
  /\ ctx' = [ctx EXCEPT !.facts = facts]
  /\ UNCHANGED <<tool, loaded, breaks, report>>

RunREPLUnreset ==
  /\ tool = "repl" /\ loaded # NoScript
  /\ UNCHANGED <<tool, loaded, breaks>>
  /\ RunOn(loaded, [ctx EXCEPT !.logs = <<>>])

\* run: the headers that earlier runs have added stay.
RunREPL ==
  /\ tool = "repl" /\ loaded # NoScript
  /\ UNCHANGED <<tool, loaded, breaks>>
  /\ RunOn(loaded, [ctx EXCEPT !.actions = <<>>, !.logs = <<>>])

------------------------------------------------------------------------------
(***************************************************************************)
(* debug.                                                                  *)
(***************************************************************************)
StartDebug(script, facts) ==
  /\ tool = "shell"
  /\ tool' = "debug" /\ loaded' = script
  /\ ctx' = NewContext(facts) /\ breaks' = {} /\ report' = Nothing

DebugRun ==
  /\ tool = "debug"
  /\ UNCHANGED <<tool, loaded, breaks>>
  /\ RunOn(loaded, NewContext(ctx.facts))

\* Any other input is a script of its own, on a context of its own.
Snippet(script) ==
  /\ tool = "debug"
  /\ UNCHANGED <<tool, loaded, ctx, breaks>>
  /\ Show(script, ExecuteEngine(script, NewContext(ctx.facts)))

\* Breakpoints are kept and shown, and no run looks at them.
ToggleBreakpoint(n) ==
  /\ tool = "debug" /\ n \in 1..ScriptLines
  /\ breaks' = IF n \in breaks THEN breaks \ {n} ELSE breaks \cup {n}
  /\ UNCHANGED <<tool, loaded, ctx, report>>

\* reset, in both programs.
ResetContext ==
  /\ tool \in {"repl", "debug"}
  /\ ctx' = NewContext(ctx.facts)
  /\ UNCHANGED <<tool, loaded, breaks, report>>

Exit ==
  /\ tool \in {"repl", "debug"}
  /\ tool' = "shell"
  /\ UNCHANGED <<loaded, ctx, breaks, report>>

ToolsNext ==
  \/ \E s \in Loadable, F \in Mail : RunTest(s, F) \/ RunTrace(s, F) \/ StartDebug(s, F)
  \/ \E s \in Loadable \cup {NoScript} : StartREPL(s) \/ LoadScript(s)
  \/ \E F \in Mail : ChangeMessage(F)
  \/ RunREPL \/ DebugRun
  \/ \E s \in Loadable : Snippet(s)
  \/ \E n \in 0..(ScriptLines + 1) : ToggleBreakpoint(n)
  \/ ResetContext \/ Exit

------------------------------------------------------------------------------
(***************************************************************************)
(* process, a program without a state of its own.                          *)
(***************************************************************************)
NoBatch == [kind |-> "none"]

BatchInit == batch = NoBatch

\* The result for message number n, which is these lines: a message that does
\* not parse and a script that fails give an error and no actions.
ProcessMsg(n, lines, script) ==
  LET r == ExecuteEngine(script, NewContext(ToSet(lines) \cap Facts))
      bad == lines[1] = "junk" \/ r.failed
  IN [num |-> n, lines |-> lines, error |-> bad, actions |-> IF bad THEN <<>> ELSE r.actions]

Unlimited(max, n) == max = 0 \/ n <= max

\* The message that the end of the file ends is kept in the buffer.
ScanLineUnfinished(st, line, eof, script, max) ==
  IF line # "From" THEN [st EXCEPT !.buffer = IF line = NoLine THEN @ ELSE Append(@, line)]
  ELSE IF st.buffer = <<>> \/ st.done THEN st
  ELSE [st EXCEPT !.num = @ + 1, !.buffer = <<>>,
                  !.out = Append(@, ProcessMsg(st.num + 1, st.buffer, script))]

\* One line of the file; the last one comes together with EOF.  --max is looked
\* at when a From line ends a message, and not when the file does.
ScanLine(st, line, eof, script, max) ==
  LET buffer == IF line = NoLine THEN st.buffer ELSE Append(st.buffer, line)
      Emit(lines) == [st EXCEPT !.num = @ + 1, !.buffer = <<>>,
                                !.out = Append(@, ProcessMsg(st.num + 1, lines, script))]
  IN IF st.done \/ (line = "From" /\ st.buffer = <<>>) THEN st
     ELSE IF line = "From"
     THEN IF Unlimited(max, st.num + 1) THEN Emit(st.buffer) ELSE [st EXCEPT !.done = TRUE]
     ELSE IF eof /\ buffer # <<>> THEN Emit(buffer)
     ELSE [st EXCEPT !.buffer = buffer]

ScanStart == [buffer |-> <<>>, num |-> 0, out |-> <<>>, done |-> FALSE]

ProcessMbox(file, script, max) ==
  LET scan[i \in 0..Len(file)] ==
        IF i = 0 THEN ScanStart
        ELSE ScanLine(scan[i - 1], file[i], i = Len(file), script, max)
  IN scan[Len(file)].out

\* cur, then new, each in the order of its names, up to --max; a file that cannot
\* be read is a result with an error.
ProcessMaildir(dirs, script, max) ==
  LET entries == dirs[1] \o dirs[2]
      Result(n) == IF entries[n] = "unreadable"
                   THEN [num |-> n, lines |-> <<>>, error |-> TRUE, actions |-> <<>>]
                   ELSE ProcessMsg(n, entries[n], script)
  IN [n \in {i \in DOMAIN entries : Unlimited(max, i)} |-> Result(n)]

RunProcess(script, max) ==
  \/ \E f \in Mboxes :
       batch' = [kind |-> "mbox", src |-> f, max |-> max, out |-> ProcessMbox(f, script, max)]
  \/ \E d \in Maildirs :
       batch' = [kind |-> "maildir", src |-> d, max |-> max,
                 out |-> ProcessMaildir(d, script, max)]

BatchNext == \E s \in Loadable, max \in Limits : RunProcess(s, max)

------------------------------------------------------------------------------
(***************************************************************************)
(* Properties                                                              *)
(***************************************************************************)
ToolsTypeOK ==
  /\ tool \in {"shell", "repl", "debug"}
  /\ loaded \in Loadable \cup {NoScript}
  /\ ctx.facts \subseteq Facts
  /\ breaks \subseteq 1..ScriptLines
  /\ report # Nothing => report.script \in Loadable

BatchTypeOK == batch.kind \in {"none", "mbox", "maildir"}

\* However long a session has gone on, and whatever failed in it, a run shows
\* what the first run of the script over the message would, and nothing of earlier
\* runs; the added headers of a REPL session are those of all its runs.
RunsAreIndependent ==
  report # Nothing =>
    LET fresh == ExecuteEngine(report.script, NewContext(report.facts))
    IN /\ report.failed = fresh.failed
       /\ ~fresh.failed =>
            /\ report.left.actions = fresh.actions /\ report.left.logs = fresh.logs
            /\ fresh.added \subseteq report.left.added
            /\ report.of # "repl" => report.left.added = fresh.added

\* The messages of an mbox file: each begins at a line that follows a From line,
\* or at the first one, and goes up to the next From line.
Starts(file) ==
  {i \in DOMAIN file : file[i] \notin {"From", NoLine} /\ (i = 1 \/ file[i - 1] = "From")}

MessageAt(file, i) ==
  LET ends == {j \in i..Len(file) : file[j] \in {"From", NoLine}} \cup {Len(file) + 1} IN
  SubSeq(file, i, Min(ends) - 1)

StartOrder(file) == {p \in Starts(file) \X Starts(file) : p[1] < p[2]}

InMailbox ==
  IF batch.kind = "mbox"
  THEN [k \in 1..Cardinality(Starts(batch.src)) |->
          MessageAt(batch.src, InOrder(Starts(batch.src), StartOrder(batch.src))[k])]
  ELSE [k \in DOMAIN (batch.src[1] \o batch.src[2]) |->
          LET f == (batch.src[1] \o batch.src[2])[k] IN IF f = "unreadable" THEN <<>> ELSE f]

\* "Maximum messages to process (0 = all)" (process.go:51).
MaxIsTheMaximum == batch.kind # "none" /\ batch.max # 0 => Len(batch.out) <= batch.max

\* The messages that `process` has given a result for are those of the mailbox, in
\* order from the first one, whole and unmixed with their neighbours: all of them,
\* or as many as --max at least.  At most so many, as the flag's text says, only
\* from a Maildir: the end of an mbox file gives one more.
ResultsAreTheMessages ==
  batch.kind # "none" =>
    LET all == InMailbox
        out == batch.out
    IN /\ Len(out) <= Len(all)
       /\ Len(out) < Len(all) => batch.max # 0 /\ Len(out) >= batch.max
       /\ batch.kind = "maildir" => MaxIsTheMaximum
       /\ \A k \in DOMAIN out : out[k].num = k /\ out[k].lines = all[k]

==============================================================================
