# AfterMail: TLA+ specifications and proofs

AfterMail is a mail client, daemon and command-line tool written in Go. This
directory holds TLA+ models of its stateful parts, the TLC configurations that
check them on small instances, and TLAPS proofs of what matters most for every
size. `PROJECT.json` is the index: which definition models which lines, which run
checks which property, which bug in the code each property would catch, the
hazards the properties are aimed at, and the theorems.

    tlc -workers 2 -config DeadMan_crash.cfg DeadMan.tla    # a run
    tlapm DeadManProofs.tla                                     # a proof module

## 1. The system

There are three programs. The desktop client (`aftermail`, internal/gui) is one
process: its widgets' handlers run on one UI goroutine, and services started from
them run on goroutines of their own. The daemon (`aftermaild`) serves an HTTP API,
or, with `--mcp`, a tool protocol on standard input. `mailscript` is a set of
tools around a scripting language for mail, among them a filtering SMTP proxy.
They share a SQLite file, the system keychain and a directory of JSON files, and
nothing else; each may be killed at any moment.

| component | state | operations | talks to |
|---|---|---|---|
| dead man's switches (pkg/deadman) | a map of switches under a mutex, a JSON file for each, a monitor goroutine | Arm, CheckIn, Disarm, Stop, the tick, save, load | a trigger callback; the MCP tools |
| undo-send (pkg/send/undo.go) | a map of pending sends under a mutex, a goroutine and a context for each | ScheduleSend, CancelSend, countdown, two cleanups | the composer; an onSend callback |
| deferred mail (pkg/send/scheduler.go) | a queue under a mutex, a loop, a goroutine per message, a context | QueueMessage, CancelMessage, a tick, Stop | the composer |
| presence (pkg/presence) | open patterns, reports and held letters under mutexes, a loop | TrackOpen, Probe, Hold, dispatch, Stop, FindNextFree | IMAP servers and calendars; a SendFn callback |
| send-time optimiser (pkg/send/optimize.go) | none; the view keeps the last card | BuildProfile, SuggestSendTime, Analyze | the insights tab |
| SMTP proxy (cmd/mailscript/proxy.go) | a session per connection, shared statistics | the SMTP commands, filter, forward | SMTP clients, an upstream server, the script engine |
| OAuth tokens (pkg/accounts, pkg/storage) | a token in memory per client, a row and two keychain entries | Token, the refresh callback, GetAccount, UpdateAccount | the provider, SQLite, the keychain |
| gRPC connections (pkg/accounts/msgsglobal.go) | a package-level map of connections under a mutex | create, close or drop a client; close one or all connections | gateways; the daemon's shutdown |
| stored mail (pkg/storage/db.go) | accounts, messages, attachments | SaveMessage, GetMessage, the legacy account | importers, the MCP tools |
| importers (pkg/importer, cmd/legacy.go) | the position in the input and in a walk over paths, two counters | mbox, Maildir, another database; detection, scan | stored mail; the mail client that owns the Maildir |
| script engine (pkg/rules/engine.go) | a context of actions, headers and log entries per message | the builtins, ExecuteEngine | the Starlark interpreter |
| script programs (cmd/mailscript) | a session with a context (repl, debug), a position in a mailbox (process), shared statistics (gRPC service) | run, load, reset, break; process; test; ProcessMessage | the engine; mailboxes |
| script registry (pkg/marketplace) | a JSON file and a .star file for each script | install, export, import, remove, list | the user |
| MCP server (pkg/mcp) | the loop over stdin, a dead man's manager made by the first call that needs it | the methods and 16 tools | its client, a signal; most other packages |
| group keys (pkg/send/mpc.go) | threads with their shares; the shares a coordinator has collected | Split, Combine, Encrypt, Decrypt, SubmitShare | the MCP tools |
| stakes (pkg/stakemail) | a record for each message | stake, release, slash, expiry | a contract, the MCP tools |
| reputation (pkg/reputation) | counters, receipts and a score | record, keep, receive a receipt, stake, recompute | |
| ledger (pkg/ledger) | the entries sealed | Seal, Verify | IPFS and a chain |
| to-do tab, mail view, notes, calendar, contacts and commitments tabs (internal/gui) | a list, a selection, the widgets' own state | the handlers of each tab | their tables; Fyne's list widget; iCal files |
| migration wizard (internal/gui/migration.go) | a step, the dialogs open on top of each other, a log and a bar | Next, Back, Start, Close; two goroutines for each migration | channels of its own, in place of a MigrationJob |
| security checks, testers, AI helpers, plugins, exporters, protocol stubs | none that outlives a call | one remote call or one computation | remote services |

What is hard in them:

* **Concurrency.** The dead man's monitor calls its trigger outside the mutex and
  finds the switch changed when it returns. Arm saves outside the mutex that
  CheckIn and Disarm hold. CancelSend reads a status that the send's goroutine is
  about to write. Stop waits for goroutines while a loop may start more. Two
  clients refresh one account's tokens and store what they get. Callers share connections that any of
  them may close.
* **Failure.** A save truncates a file before it writes it. An error path returns
  before a reset. A callback has nobody to return its error to. A message is
  several SQL statements.
* **Ordering and reentrancy.** A widget that is being refreshed calls the
  callback of the row it showed before, which refreshes it again. A slice is
  filtered in place while pointers into it are kept. A Maildir's files move
  between two listings of it. An SMTP answer is read one line late. One context
  serves every run of an interactive session.
* **Time.** Deadlines and grace periods, a timer racing a cancellation, retries
  on the next tick, letters that must not wait for ever.

For each component, being correct means: a switch fires when it is overdue, once,
and never after a cancellation; a scheduled mail is sent once or undone; the proxy
acknowledges what upstream has and forwards nothing that is blocked; the newest tokens
are the ones stored; connections do not leak; mail is stored whole and once; a handler
acts on what the user sees; what becomes of a message is what the engine makes of
the script and of the facts a program gives it; the registry is as the user was told; enough shares give the key back; a
stake is paid out once; a tool call gets one answer; a proposed moment is a good one.

## 2. The modules

| module | models | composed in |
|---|---|---|
| `DeadMan` | pkg/deadman | |
| `DeadManPromise` | what `DeadMan` promises a caller, implemented by it | `DeadMan` (INSTANCE) |
| `Clock`, `UndoSend`, `ScheduledDispatcher`, `HoldQueue` | time, pkg/send, the tracker and the queue of pkg/presence | `Outbox`, with the composer's two buttons |
| `OpenPattern` | the arithmetic of pkg/presence: patterns, scores, windows, the calendar (constant level) | `HoldQueue`, `SendOptimizer` |
| `SendOptimizer` | pkg/send/optimize.go and its tab | `Outbox` |
| `SMTPProxy` | cmd/mailscript/proxy.go | `ScriptPrograms` |
| `MailScript` | pkg/rules/engine.go and the starter scripts (constant level) | the next three |
| `ScriptTools` | test, repl and debug; process | `ScriptPrograms` |
| `Marketplace` | pkg/marketplace and its commands | `ScriptPrograms` |
| `ScriptPrograms` | the gRPC service over the gateway's statistics; all programs of cmd/mailscript | |
| `TokenStore`, `ConnPool` | pkg/accounts over storage and keychain | `Accounts` |
| `MailStore`, `Importer` | pkg/storage, pkg/importer, cmd/legacy.go | `Services` |
| `GroupKey`, `StakeMail` | pkg/send/mpc.go, pkg/stakemail | `ToolServer` |
| `ToolServer` | pkg/mcp/server.go | `Services` |
| `Reputation`, `SealLedger` | pkg/reputation, pkg/ledger | `Services` |
| `TasksTab`, `MailView`, `NotesTab`, `CalendarTab`, `ContactsTab`, `CommitmentsView` | six tabs of internal/gui | `Desktop` |
| `MigrationWizard` | the wizard of the Tools menu, internal/gui/migration.go | `Desktop` |
| `Slices` | what loops over slices and ORDER BY clauses compute, and lemmas about it | the tabs, the queues, `MailScript`, `ToolServer` |
| `DeadManProofs`, `AccountsProofs`, `OutboxProofs`, `ProgramsProofs`, `DesktopProofs`, `ServicesProofs` | theorems about the module of that name, the last four about composed ones (`ProgramsProofs` about `SMTPProxy` and `ScriptPrograms`) | |

Conventions. What is for TLC only, the `MC` definitions (bounds, small inputs, a symmetry of
`DeadMan`), stands at the end of the composed module that a run is about. An action is one critical section, one file-system or database call,
or one callback, and is named after the function it is part of. A variable has
the name of the field it models; variables marked *history* exist for properties
only, and no guard reads them (bounds excepted). An operator that stands before
another and is called like it (`CheckInAnyStatus` before `CheckIn`) is the form
that a plausible bug would give it; no specification uses it, and PROJECT.json
says which property fails when it takes the other's place. Texts, names, bodies
and logging are left out.

### DeadMan

`reg` is m.switches; `idOf`, `status`, `deadline` and `every` are the fields of
the `*Switch` structs, which stay on the heap when a later Arm takes their place in
the map; `disk` holds the files; `cl` and `mon` say where each caller and the
monitor are. `Arm` publishes a struct and then saves without the mutex; `CheckIn`
and `Disarm` keep the mutex (`locked`) until their save returns. A save is
`SaveBegin` (marshal, truncate) and `SaveEnd` (write), with `SaveFail` at either
point; two writers of one file may leave a text that does not parse (`Written`).
The monitor reads the clock (`MonTick`), marks and collects the overdue switches
under the mutex (`MonCollect`), calls the trigger for one after the other outside
of it (`MonCall`, `TriggerOk`, `TriggerErr`), and saves, or sets the status back
to armed (`MonRearm`), which is not saved. `Crash` forgets everything but `disk`,
`Start` is load().

The code reads a struct's fields without the mutex in Arm's and the monitor's
saves. In the model the marshalled snapshot is of one moment; json.Marshal
racing with a writer could mix two.

IDs may repeat, as those of the MCP tool do, and any save may be the last thing a process
does. `acked` keeps what the last call on an ID confirmed until the message is out or a
later call replaces it; a call in progress replaces nothing. So a death inside a later save
counts as a loss, though the comment of NewManager has the switches persisted across restarts. `spoilt` names the files that were lost in one of two ways:
by such a death, or, with no death at all, by the monitor's save of a switch it has delivered over
the file of the one that has replaced it. `RestartKeepsAcked` says that there is no third way,
and that what a restart does load is never anything but what was confirmed last.

### Outbox

`UndoSend` has one goroutine per send (`gor`), which waits in a select for its
timer or its context and then marks, sends and marks again; `CancelSend` is four
steps (`CancelLookup`, `CancelCheck`, `CancelFunc`, `CancelMark`), of which only
the first and the last are under the mutex. When both channels of the select are
ready, either is taken. `ScheduledDispatcher` has the queue, the loop, the
goroutines and the three steps of Stop, which does not wait for the loop and drops
what its goroutines have not begun. `HoldQueue` has reports with scores in
tenths; dispatch filters the queue in its own array, which is what `HeldOnce`
is about. Its tracker has the open patterns, and probes that start and come back in
two steps, so that an older probe's report may replace a newer one, as it may in the
code. Scores come from `OpenPattern`, with integer weights over a common scale in place of floats.

`SendOptimizer` has the exchanges with one contact, the profile computed from them,
and the last card that the Analyze button or the calendar check has shown. What is proposed
has the largest share of replies within three days; the comments speak of two hours, which is
another thing (section 5). The query
that feeds the button is a stub in the code and the calendar check has no caller; the model
asks both at any time.

`Outbox` adds the composer. Its Send button hands ScheduleSend a nil message: the
handler panics on the first field it reads, the process ends (`ClickSend`), and
the ticker code after it is unreachable. Its Schedule button queues a message. What
the dispatcher "sends" is a log line (a TODO in the code); `Transmit` stands for it.

### SMTPProxy

One goroutine per connection, at a place `pc`, with an envelope `held` that
outlives its messages. `Filter` runs the script, whose set of actions is any of
`Verdicts`; one that fails leaves "error". forwardToUpstream is `Converse` (greeting
to DATA, in which upstream takes some of the recipients, and the code looks at
none of the answers) and the final answer. It reads one line for each answer: once upstream has
given an answer of several lines, be it to the greeting, MAIL, RCPT or DATA, or has refused DATA, so that
it takes the message for commands, the line read after the message may
be any of those still unread (`astray`), and a 250 there is taken for the answer to the
message. `AckMeansTaken` holds of the exchanges that stayed in step, and says so; in the others the client may be told 250 for
nothing (section 5). `Answer450` is the early return that
skips `Reset`. STARTTLS (which keeps the session) and the connection limit (which nothing
enforces) are left out.

### The script programs

No builtin reads what another has left, so in `MailScript` a script is, for each set
of facts that hold of a message, the calls it makes, at top level and in `evaluate`;
`ExecuteEngine` plays them on a context. The starter scripts are written out as such
functions. `ScriptTools` keeps one context over the runs of a session, as repl
and debug do. `process` reads mailboxes line by line, as recursive functions, and the
property compares with a definition by positions; --max is looked at when a From line ends a message, and not
when the file does, so there may be one result more than it says. `Marketplace` has the two files of a script and writes that fail before or in the
middle. `ScriptPrograms` adds ProcessMessage of the gRPC service next to the SMTP sessions, whose counters it
shares (startGRPCServer does not register it yet, so this is of the handler as it would
serve), puts the programs side by side and states what they have in common: `EngineDecides`, that
what becomes of a message is what the engine makes of the script and of the facts it is given.
The facts differ: the gateway and the service fill in no spam score and no RBL
(`Visible`), the tools do, so a script that asks for them may decide otherwise in a tool than
behind the gateway.

### Accounts

In `TokenStore` a token is its generation. The provider (external) is of one of two kinds: a
rotating one hands out a new refresh token with each refresh and honours only the latest, a keeping
one, as Google and Microsoft are, goes on honouring all of them, and may return the old one.
With the first kind stored tokens never go back (`TokensNeverGoBack`). With the second several clients
refresh with the same token, and a late callback leaves an older access token in
storage, which no property forbids: that costs a refresh, as the stored
refresh token is still honoured (`StoreIsCurrent`, for both kinds). A client's `Token` calls
the callback when the pair has changed; the callback reads the account
(`CallbackReads`) and writes it back in the order of the code: password, access
token, row. Every one of these steps may fail, and each failure is handled as the
code does: logged, and on with an empty string, or given up. In `ConnPool` the
mutex is held during a dial; `CloseClient` closes the connection that other
clients share, and leaves it in the pool.

### Importer

`MailStore` has SaveMessage as a transaction: what it has inserted is with the
caller until `Commit`, SQLite (external) admits one writer, any statement may fail,
the deferred Rollback undoes the rest. GetMessage is two reads; it passes over attachment rows
that do not scan and does not ask whether the iteration was cut short, so it may return a message without
those (`missed`), and no error. `Importer` has the
command line by line: each line of an mbox file, each row of a database and each
file of a Maildir is a step, and in between other processes move files, save, read
and die. An mbox line is what ReadString returns: a "From" line, a first header
line, other text, or the empty string that comes with EOF. A scan is a walk over
paths: each is detected (`DetectMailboxType`), passed over, or imported in the same
run of the command when the user says yes (`ImportNext`), whatever became of the one before.

### Services

`ToolServer` has the loop of the MCP server in the places where it may be: looking
at the signal, in Scan, in a call. A line is blank, garbage, too long, or a request; a
tool's answer is a result, a failure or a protocol error, and the tools that change
something call `GroupKey`, `StakeMail` and the dead man's manager, which a database or a disk
that fails may stop. `GroupKey` has GF(2^8) as sets of bits, with
multiplication, inverses and interpolation as the code computes them, over keys of one
byte; a coordinator combines what it has collected when it has as many shares as its caller says.
`StakeMail` has the record of each message and the transactions sent; a stake whose time is over
is called expired, and nothing returns it. `Reputation`
computes scores in thousandths as the code rounds them; a tick of its clock is the
time in which a receipt's weight halves. In `SealLedger` a signature is the pair of key
and content; anchoring is a stub in the code, which returns an ID and sends nothing. `Services` puts them and the importers side by side.

### Desktop

`TasksTab` models what Fyne's list does when it is refreshed (external, from
v2.7.3 as go.mod requires it): each visible row's box gets the value of the task
it now shows, and a box whose value changes calls the callback it has, which is
still that of the task it showed before; that callback writes and refreshes.
`frames` is the stack of refreshes under way; how deep they nest is in section 5. `MailView` has the backing array of
the message slice, and the toolbar's and the viewer's pointers as slots of it; a
search starts again from the built-in mailbox, as the code does, so deleted
messages return. `NotesTab` has the editor and its four handlers, with failing
statements. `CalendarTab` has the event dialog, and the iCal file as the lines that are
written and read; a time keeps its minute, what it has below it, and its zone, as far
as each conversion keeps them. `ContactsTab` has the details panel, which copies a contact, and
the list's own selection, which Reload does not clear. `CommitmentsView` has the rows as
painted over the table, and the extraction of commitments from a model's answer
(`Extract`), which nothing calls yet. `MigrationWizard` has the stack of dialogs, the
channels, and the step as it is read, written and read again by the UI goroutine and by
those of the migrations, none of which holds a mutex. In `Desktop` no handler starts
before the refreshes of another have returned: there is one UI goroutine.

## 3. The runs

| run | instance | checks | shows |
|---|---|---|---|
| `deadman_crash` | 2 IDs, 2 structs, 1 caller, clock to 3, 1 crash, failing saves; symmetric | TypeOK, FiresOnceOverdue, RestartKeepsAcked, ImplementsPromise | Messages go out overdue and once, only a death in the middle of a save and the save of a replaced switch take away what was confirmed, and the manager implements `DeadManPromise`. |
| `deadman_live` | 1 ID, 2 structs, clock to 3 | EventuallyFires | An overdue switch is delivered. |
| `deadman_disarm` | 1 of each | DisarmIsPermanent (violated) | A Disarm while the trigger runs is undone when the trigger fails. |
| `outbox` | 2 sends of one message, 2 mails with one ID, 2 letters to one recipient, 1 probe, 1 open, 3 exchanges, 7 calendars, clock to 2 | TypeOK, UndoIsOpen, InOnePlace, NothingAfterStop, TimesAreSound, EverythingLeaves | What was taken is in one place and never in none, pending sends can be undone unless a twin has their ID, nothing goes out after Stop, what is due goes out; a proposed moment is free, or ahead at the hour and on the day with the best shares. |
| `outbox_undo` | 1 send, 1 caller | UndoneNeverSent (violated) | CancelSend returns nil for a send that is sent. |
| `proxy` | 2 sessions, 2 addresses, 2 messages, 7 scripts, 6 kinds of message; mbox files of 5 lines; 3 IDs over 2 file names | TypesOK, AckMeansTaken, TakenIsRight, StatsAddUp, EngineDecides, ResultsAreTheMessages, RegistryHonest, DataIsAnswered | Where the exchange with upstream has stayed in step 250 means that upstream has the message; blocked mail goes nowhere, nobody is left off the envelope, the statistics add up, every message is answered. A message becomes what the engine decides from the facts it is given, `process` gives the messages of a mailbox, the registry is as the user was told. |
| `proxy_envelope` | 1 session | EnvelopeIsTransaction (violated) | After a 450 the next message also goes to the recipients of the failed one. |
| `accounts` | 3 clients, 3 generations, 2 faults; 3 callers, 2 gateways, 3 dials | TypeOK, StoreIsCurrent, PasswordSurvives, TokensNeverGoBack, NoConnectionLeaks, CallersAreServed | A provider of either kind honours the stored refresh token as long as storage works, a rotating one's tokens never go back, the password survives, no connection leaks, nobody waits for ever. |
| `accounts_refresh` | 1 client, 1 fault | RefreshedNotLost (violated) | A refreshed token whose callback failed is never stored. |
| `desktop` | 2 tasks, 3 messages, 3 notes, 2 events, 3 contacts, 2 commitments, 1 or 2 faults a tab; 2 migrations of 2 stages, 7 dialogs | TypeOK, RefreshesStayInList, ActsOnDisplayed, ScreenIsStored, ExportReadsBack, WizardShowsMigration | Refreshes that call themselves end and stay inside the list; buttons act on what is shown, and that is stored; a new note is stored once; an exported calendar is read back; a migration's messages are all shown before its end is. |
| `desktop_tasks` | the same, no faults in the to-do tab | RefreshWritesNothing (violated) | Showing the list writes completions into the table. |
| `importer` | 2 jobs, every mbox file of 4 lines, 3 databases, a Maildir of 2 files, a scan of 5 paths, 1 reader, 1 failure; 2 threads of up to 3 shares, combined at 1 or 3; 2 staked messages; 3 lines to the server | ServicesTypeOK, WholeMessages, ImportIsExact, AnyMSharesSuffice, PaidOutOnce, OneAnswerEach, ScoreIsAShare, SealsHold | Mail is stored whole and once, what a reader misses is what it could not read, and the printed numbers add up; enough shares give the body, stakes are paid out once, each line is answered once, scores are shares, sealed entries verify. |

A property with a composite name is the conjunction of those that its module defines
above it: FiresOnceOverdue of FiresOnlyOverdue and FiresAtMostOnce, InOnePlace of NeverTwice
and HeldOnce, TakenIsRight of BlockedNeverForwarded and EnvelopeCovers, TimesAreSound of WindowIsAhead, FreeIsFree and SuggestionIsNext, and so on.

The five violated properties are what comments in the source say; PROJECT.json quotes each of them
and says how the code breaks it. Where a property that holds has an exception because the code does
not do all that its comments say, the property names it, and section 5 lists it.

**Bounds, and why they are enough.** The hazards of `DeadMan` are between
one switch, the struct that replaces it, the monitor and a caller; a deadline of 1,
a grace of 1 and a clock to 3 leave room for an early tick, one inside the grace
period, a late one and a check-in that moves the deadline past the clock. There is
one caller because the program has one, the MCP server, which handles one request
at a time; the theorems allow any number. Two callers of one ID would break
RestartKeepsAcked: Arm's save, outside the mutex, can end
after that of a Disarm. `Outbox` needs two sends so that one can be cleaned up while
another is pending, two mails under one ID so that CancelMessage has a choice, and
two letters so that filtering moves one. The services share nothing but the clock
and the process, so the run lets a behaviour use one of them (`OneService`);
`Accounts` (also `OneService`), `Desktop` (`OneTab`), `Services` (`OneSide`) and `ScriptPrograms`
(`OneProgram`) do the same for parts that share nothing at all, so that the interleavings
left out are those of actions that commute. The optimiser's exchanges have a message
replied to within the hour, one replied to too late, one replied to after ten hours, one on
another day and one without a date; three are the fewest a profile is made of. The calendars touch, overlap and contain
each other, two start together, and each list comes in every order. A migration has a stage before its last one, and a second migration can
lose a line of the log; once the user has closed a dialog no more than three are piled up
(`FewDialogs`). A thread needs three shares for a subset to be chosen, and a second thread
for shares to be mixed; a coordinator is asked with a number below the thread's, where Decrypt
refuses, and one above. The client is one line ahead of the server, since the
order in which lines are written does not matter beyond that.
Sessions of the proxy share only the counters: `ScriptPrograms` explores two sessions with
one address and one message each, and one session with everything (`DeepOrWide`).
Three OAuth clients are a writer, its rival and a late third; two faults are one
for each of two clients, or one in the read and one in the write. In `Services`
a job alone goes through every mbox file of up to four lines, the largest
database and the scan; two jobs at once run on small inputs, which differ in what the store sees
(`Small`). A task list needs two tasks for a row to change its task, and
two faults for a write and a read to fail; three tasks with one fault (1.3 million states) hold as
well, and so do two tasks that can change between two due dates with one fault (13 million). Refreshes
nest deeper with more tasks (section 5), which TLC cannot explore; that they find their rows is proved
for any number.

Deadlock is checked in `desktop` and `desktop_tasks`, where a user can always do
something. Elsewhere the system really does stop: the process has ended, the clock
has reached its bound, all sessions are closed, all jobs are done.

**Fairness.** No run assumes that a user, a caller, Stop or a crash ever does
anything. `DeadMan`: the ticker ticks; a Go mutex hands itself to a waiter that
has starved for a millisecond, hence strong fairness where the monitor locks;
file operations return; a trigger that is tried again and again succeeds in the
end (that is what retrying relies on; without it nothing is delivered and nothing
could be). `Outbox`: tickers tick, goroutines that can run do, callbacks return,
the clock advances. `SMTPProxy`: a client that has begun a message ends it or goes
away, and upstream answers or closes; the code sets no deadline on either, and a
hazard records it. `ConnPool`: a dial ends, by its ten-second timeout if by
nothing else, and the mutex starves nobody.

## 4. The proofs

All theorems are about the specifications that TLC checks, for all values of
the constants that satisfy the modules' ASSUMEs: any number of switches, sends, letters,
sessions, messages, jobs, stakes, lines, scripts, events and failures, and clocks without
a bound. The composed modules are made of parts that share nothing, or only a clock: each
part has an inductive invariant of its own, and the composed one is their conjunction. The
instances `OneService`, `OneTab`, `OneSide` and `OneProgram` of section 3 restrict TLC's
runs and not the theorems.

**DeadManProofs.** `TypeCorrect`, `NeverFiresEarly` (FiresOnlyOverdue),
`NeverFiresTwice` (FiresAtMostOnce), `FiresOnce` (FiresOnceOverdue, which the run
checks), `InvariantHolds`, `Refinement` (ImplementsPromise), `RestartsKeepWhatWasSaid`
(RestartKeepsAcked). FiresOnlyOverdue is not inductive: that a collected switch
stays overdue depends on CheckIn refusing it, that is on its status, and that on
nobody arming it again meanwhile. `IInv` adds that what the monitor has in hand
is fired or cancelled (`InHandOverdue`), that a delivered struct is neither in hand
nor ever armed again (`DeliveredRetired`), that the monitor's place agrees with
what it holds (`MonitorShape`), that only allocated structs are saved
(`SavesAllocated`) and that a dead process holds nothing (`DownIsBlank`). The
refinement maps a struct that the monitor holds to "armed" whatever its status
field says, so that collecting and re-arming are stutters and the trigger's success
is the delivery; the step simulation uses IInv.

RestartKeepsAcked is proved for one caller (`OneCaller`), as the MCP server is, and any use
of IDs. `KeptInv` adds to it that IDs and structs know each other (`KnownIds`), that a caller saves
the registered struct and that nobody fills the file it has truncated, unless the message is out
or the file is spoilt (`SavesAreAlone`), and that the monitor saves only what it has delivered,
of which nothing is promised any more if it is still the registered one, and never as armed
(`DeliveredIsSettled`).

**ProgramsProofs: the SMTP proxy.** `TypeCorrect`, `Acknowledged` (AckMeansTaken),
`Blocked`, `Covered`, `TakenRightly` (TakenIsRight), `Counts` (StatsAddUp). `Flow` follows a message through the places of its session: what has
passed the filter is unblocked, what is delivered is taken (unless the exchange is `astray`),
the session's envelope covers the client's transaction, and a message in hand has
no answer yet. `Counted` says that the taken messages and those still in an
exchange are at most the accepted ones; one session's step changes either by at
most one, which is what the lemmas about cardinalities are for.

**ProgramsProofs: the script programs**, about `ProgramsSpec`, which is what the run `proxy` checks without its
fairness: `ProgramsTypeCorrect` (TypesOK), `EnginesVerdict` (EngineDecides), `ProcessReadsTheMailbox` (ResultsAreTheMessages), `RegistryIsAsTold` (RegistryHonest), `CountsAreShared` (StatsAddUp and the
three promises of the sessions). Flow and Counted are inductive with the service's calls
in between as well: a call counts a message as accepted and transfers none. For
EngineDecides the engine is taken apart: the actions a run leaves are those of the calls
before the first failure (`EngineLeaves`), they contain no folder that begins with Spam
unless some call has filed there, and the service's loop over the actions refuses exactly
what the gateway's loop does (`VerdictsAgree`). That a tool's runs do not depend on what ran
before is `RunsAlike`: two contexts with the same message and empty lists give the same
actions and logs. The property is about the last report only, so the invariant `ToolsInv` says it
of the report that is kept (`Honest`).
ResultsAreTheMessages compares a reading line after line with the messages found by their places
in the whole file. `Reading` says of the first i lines that the results are those of
the file's first messages, that as many messages have begun (`Upto`) as there are results, or one
more when a message is in hand, and that its lines so far are the buffer (`InHand`). Every line
keeps that (`ReadingStays`). When --max has stopped the reading a message follows
the last From line unless the file ends there (`MoreFollows`), which is the message beyond
--max that the end of a file still gives.

**OutboxProofs.** `SendsStayUndoable` (UndoIsOpen), `EachInOnePlace` (InOnePlace),
`StopIsFinal` (NothingAfterStop), `MomentsAreSound` (TimesAreSound), `OutboxTypeCorrect`
(TypeOK). `OutboxInv` has six parts.
`SendInv` ties a send's status to the place of its goroutine (`GoroutineAgrees`), a
caller's place to the send it has looked up (`CallersAgree`) and the map to both
(`MapAgrees`). An ID is made of the second and the message, so a second send of a message in one
second takes over the map's entry; `PendingCanBeUndone` names that exception and no other.
`MailInv` says of each mail that was taken where it is (`Placed`); it and `HeldInv` follow
queues of any length through removal by ID, through the loop that keeps what is not due, and
through the filter in place, with the lemmas of `Slices`. `TrackerInv` has the patterns' types,
and the arithmetic of days, hours and minutes behind NextBestWindow (`NextBestWindowIsAhead`,
from `DayArithmetic` and `OnTheHour`). The first attempt at it failed on a statement that was false: a
window is five minutes ahead at least, except at three minutes to midnight with best hour 0.
`ReportsInv` bounds the scores: a quotient of sums of weights is at most ten tenths (`AggregateIs`).
`AdviceInv` is about single answers: `NextFreeIsFree`, that one pass over sorted slots leaves
them all behind or untouched, whatever their number and the order of those that start together;
`NextOccurrenceIs`, that the walk from day to day ends, within a week, on the first that fits;
and `BestSlotIs`, that of finitely many shares one is the largest (`LargestShare`, by induction,
as comparing two shares is a comparison of products).

**DesktopProofs.** `DesktopTypeCorrect` (TypeOK), `ViewerAndEditorAct` (ActsOnDisplayed),
`ScreenShowsTables` (ScreenIsStored), `ExportIsReadBack` (ExportReadsBack), `WizardIsHonest`
(WizardShowsMigration), `RefreshesFindTheirRows` (RowsAreInTheList). In the mail view the types and the property
are inductive; the editor needs that what an opening has added is the note the editor belongs to
(`NotesInv`); the address book and the tables that IDs grow (`BookInv`, `CalInv`,
`CommitInv`: no two rows have one ID, which is why an update changes one row). ExportReadsBack is
a statement about two recursive functions, the writer and the reader. `ReadingOn` and
`ReadingUnique` say that the reader reads one file and then another as it reads both, and
`ReadingEvent` that it reads the lines of one event, closed before and after; the induction
over the agenda (`ICalReads`) is by the least event at which it would fail. `WizardInv`
is the longest: the log of a migration is the stretch of messages received (`WizardLog`), and
as long as no dialog is closed the process is in one of two phases, walking through the
steps or migrating (`WizardSteps`), in each of which the dialogs are determined by the step.
What the types say of the step needs `WizardRange`: a button leaves it at most one outside, and
each migration adds one, once. That a refresh of the to-do list finds the rows it asks for,
those under way outside of it included, is `TasksInv`: a callback inside a refresh writes the
completion of a task that is listed, so the list it loads is never shorter, with done tasks
hidden or not, as no ID is twice in the table (`TaskUpdated`); and a box without a task, which
a callback could not write, is one that the refresh has yet to reach (`Shown`).

**ServicesProofs.** `MessagesAreWhole` (WholeMessages), `ImportsAreExact` (ImportIsExact),
`AnySharesSuffice` (AnyMSharesSuffice), `StakesPayOnce` (PaidOutOnce), `LinesAreAnswered` (OneAnswerEach), `SealsAreHonest` (SealsHold),
`ScoresAreShares` (ScoreIsAShare), `ServicesAreTyped` (ServicesTypeOK). `StoreInv`: rows and their
attachments are committed together, and a reader that has seen the row sees what was committed with it.
`ImportInv`, for ImportIsExact, is the longest: what a job has stored and what it has counted as an
error are, one for one, what it has read past (`Passed`): the pieces of the mbox file that end before its
line (`PieceEnds`, `NoPieceEnds`), the rows before its row, the files it has taken from cur and
new. Two pieces never meet (`PiecesMeet`), so no message is stored twice; a file that is
moved while a job is between the two directories is, under its number, still one file; and each
kind of step moves one entry from ahead of the job to behind it (`Moves`, `Skips`, `Injects`,
`Returns`). The types need the same invariant, as a job and the statement it waits for go
together (`JobsTyped`, `StoreTyped`). Those of the group threads need only that sums, products and values of polynomials
over GF(2^8) are bytes (`ProductIsAByte`, `ValueIsAByte`, `SumIsAByte`);
that the monitor has switches only when there is a manager is a fact about two of the tools
(`QuietTools`, `ToolsTyped`).
`SharingInv`, for AnyMSharesSuffice: the shares of every thread are the points of one polynomial
of at most m coefficients, the first of them the key, at pairwise different indices none of which
is zero (`IsShared`). The invariant is short and what it needs long: that what Combine computes
from m or more such points is that first coefficient (`CombineGivesKey`), for bytes as the code
multiplies and inverts them. First, GF(2^8) is a field. A product is linear on each side
(`ProductAddsLeft`, `ProductAddsRight`), since each of the eight rounds is; so its other laws need
only be shown for the bytes of one bit (`Singles`, `BytesAreMade`, `ProductCommutes`,
`ProductAssociates`). GFInv raises to the power 254: eight squarings of a byte give the byte back
(`EightSquares`, on the bits), so x by its inverse is its own square, and only Zero and One are
(`OwnSquares`, `InverseOfByte`). Then sums and products over the points collected: leaving one
point out divides the others' terms by a difference (`LagrangeWithout`), from which the basis
polynomials add up to One (`BasisAddsUp`) and, weighted with the powers of the points that
are below their number, to Zero (`PowersAddUp`). So they give the constant of any polynomial
they interpolate (`Interpolates`). The indices of two recipients differ, and none is zero, as
the bits of two numbers below 256 do (`BitsApart`, `NoZeroIndex`).
`StakeInv`: each payment on the chain is of the lock that is the last transaction of its message before it
(`PaysOut`), and a record's status says which of the two the last transaction is (`Stands`).
`ServerInv`: the answers are those of the lines handled, in their order, the line in hand aside
(`Handled`, `AllFit`); that a tool's failure is a result and no protocol error is `ToolsEnd`, a
fact about each of the sixteen tools. `SealInv`: what is returned and what is pinned is signed.
`RepInv`: the score and its parts are shares whenever no more is kept than was recorded. Each
Recompute finds them from counters and receipts only (`RecomputeKeeps`); a weight that halves any
number of times, and the sum of weights of any number of receipts, is a natural number (`WeightIs`,
`WeightedSumIs`), so that what is divided by itself and more is a share.

**AccountsProofs.** `NeverGoesBack`, `PasswordKept`, `StoredTokensCurrent`,
`NothingLeaks`, `TypeCorrect`. With a rotating provider tokens never go back because a client on its way to
storage is the only one that holds the latest refresh token, and the row is still
behind it (`SoleHolder`): nobody else can have refreshed since. `Current` adds that
without failures the access token is stored before the row. A keeping provider honours any
token it has issued, so that StoreIsCurrent needs only that storage and the clients that are open
never hold an empty one (`SomeToken`). No connection leaks
because whoever dials holds the mutex and found no connection for its gateway
(`DiallerHolds`).

**Induction.** The library's induction theorems take an operator as a parameter and cannot
be instantiated. `NatLeast` in Slices, that a set of naturals has a least element, comes from the
library's theorem on finite sets instead; a proof by induction takes the least
counterexample and refutes it with the one before. `StaysIn` and `RecursionExists` are two
such proofs that serve every recursive function over an interval. The slices and the two functions of the calendar
are reasoned about in this way. `Slices` defines an order by rank, which is first-order, where the
community modules define the same with folds.

**Assumptions.** The ASSUMEs give constants their types, and say what is particular about them
where the code has it so: the monitor's grace, the slots of files (`Slot`), that a MailScript builtin without a
parameter has no argument (`SourceAssumption`), that cores of texts have no blanks and the
empty one is among them (`CalendarAssumption`), what an mbox file is as the reader returns its
lines, what a database's rows are and that a Maildir has finitely many files
(`ImporterAssumption`, `BatchAssumption`), that bounds are naturals. TLC evaluates each on every run that uses
it. The one condition of a theorem, `OneCaller`, is its alone and stated in it.

**Only model-checked**, and why:

* liveness (EventuallyFires, EverythingLeaves, DataIsAnswered, CallersAreServed): fairness and
  ENABLED are outside of what the prover does;
* RefreshesEnd, the other half of RefreshesStayInList: each callback changes what the next
  refresh does, also by writing a due date back that its box has kept. How many callbacks can
  follow the first one of a row depends on where the task it wrote was and where it goes in the
  list; an invariant would have to follow that move, row by row, through the refreshes under way.

## 5. What the models found

1. pkg/deadman: a Disarm during the trigger call is undone when the trigger
   fails (`deadman_disarm`).
2. pkg/send/undo.go: CancelSend can return nil for a message that goes out
   (`outbox_undo`).
3. cmd/mailscript/proxy.go: after a 450 the envelope is not reset
   (`proxy_envelope`).
4. pkg/accounts: a refreshed token whose callback failed is lost on restart
   (`accounts_refresh`).
5. internal/gui/tasks.go: a refresh toggles tasks (`desktop_tasks`).

Six more disagreements have no run of their own. Each is an exception made by a property
that holds, and TLC gives a trace when the promise is stated without it:

6. pkg/deadman: a death in the middle of a save loses a switch that an earlier call had
   confirmed, and so does the monitor's save of a switch that has been replaced; the comment of
   NewManager has them persisted across restarts (`spoilt` in RestartKeepsAcked).
7. pkg/send/optimize.go: what is proposed has the largest share of replies within three days; the
   comments say two hours (SuggestionIsNext counts the three days).
8. cmd/mailscript/proxy.go: the answers of upstream are read one line each and not looked at, so a 250
   to something else acknowledges a message nobody has (`astray` in AckMeansTaken).
9. cmd/mailscript/process.go: --max is exceeded by one when the file ends a message
   (ResultsAreTheMessages keeps the maximum for a Maildir only).
10. pkg/accounts: with a provider that keeps refresh tokens valid a late callback stores an older
    access token over a newer one (TokensNeverGoBack is about one that rotates them).
11. pkg/stakemail: an expired stake is said to be returned, and no transaction returns it
    (PaidOutOnce says nothing of expired stakes).

The refreshes that these toggles set off inside one another come to an end, but nest deeper
than it seems: a callback may change a row above its own, and where a box has kept a task with an
older due date its callback writes that back, which moves the task and shifts the rows between.
With two due dates and no failure two tasks give four refreshes, three give six and four eleven:
showing the completed tasks again, with two of them hidden, sets off ten callbacks inside one
another. So no constant number for each task is a bound; RefreshesEnd has the square.

Further disagreements have no run; the notes of the hazards have most of them: the composer's Send panics; a client's Close closes
a shared connection; the proxy acknowledges recipients that upstream refused; the
viewer's Delete leaves the toolbar pointing at another message; rows with the same remote
ID get the first one's attachments; Combine answers two shares of one index with a wrong
key; staking a message again replaces a locked stake; AddReceipt counts commitments
that were never recorded; FindNextFree gives a free moment and not the earliest one;
three minutes before midnight a recipient whose best hour is 0 is proposed a window that is
three minutes ahead, where other windows are five at least (NextBestWindow).

Seen while modelling, and not the subject of any property:

* `aftermaild --mcp` answers notifications, notices SIGTERM only with the next line,
  throws the shares of create_group_thread away, and panics on a share shorter than the
  others. stake_message makes a new client for each call.
* A calendar's description is exported and not imported, and Import counts events that
  storage refused. Closing the details of a resolved commitment snoozes it, and nothing
  wakes a snoozed one. A contact whose row is still highlighted cannot be opened again.
* A probe whose dial times out leaks its connection. A pattern is read without its mutex.
  Inside the best hour the optimiser proposes the same hour a week later.
* A scan of paths that overlap imports a mailbox twice, and offers a Maildir file that
  begins with an envelope line as a mailbox of its own.
* In the wizard, closing a dialog brings the buttons of an earlier step back: Start can be
  pressed again, and "Migration Complete!" appears at once.
* SQLite's pragmas are set on one connection of the pool. GetMessage returns a message without the
  attachments whose rows it could not read, and no error; ListEvents asks for no error after its
  loop and ListContacts passes over rows that do not scan.
* A MAIL or RCPT line with ">" before "<" panics (proxy.go:327 and 339).
* `mailscript daemon test` and `daemon monitor` work on a list that `aftermaild` always answers empty.

## 6. The plan

Done: the modules above, in the order of section 2.

Proofs: a theorem states every invariant and action property that a run checks, except that of
RefreshesStayInList one half is proved, RowsAreInTheList. What is left is at the end of section 4:
the liveness properties, out of the prover's reach, and the other half, RefreshesEnd.

Abstract specifications worth stating: an outbox in which a message is waiting, sent
or taken back, implemented by each of the three services; a mailbox to which whole
messages are added, implemented by `MailStore`.

## 7. What is not modelled

The reasons are in PROJECT.json, component by component. In short:

* straight-line network dialogues and one-call wrappers, which have no state (testers,
  security checks, AI helpers, AMP, IPFS, wallet, fingerprinting), and generated code;
* packages without a caller (sync engine, caldav, exporter, dispatcher, telemetry,
  webrtc, templates, CreateBackup, the web3 listener, MigrationJob.Start, the responder). The
  listener's reconnection with a backoff and the job's pausing would be the next to
  model if something came to call them. The ledger and the optimiser's query, which
  nothing feeds either, are modelled because their promises are stated in the code;
* the diagnostic command `aftermail-debug`, which prints;
* parts of the window that show fixed data or only open dialogs;
* `mailscript daemon`: what it lists comes from a stub (pkg/storage/db.go:272), so it never has
  a message to run a script over.

The Gmail and Outlook clients have no caller; their token source is modelled as
their constructors set it up. Fyne, SQLite, Starlark, Go's oauth2, gRPC and upstream
servers are external: the models use of them what the code relies on.

"storage: stored mail", "accounts: OAuth", "accounts: gRPC connection pool", the
composer, the mail view and the proxy are modelled in part; their entries in
PROJECT.json say what is left out. It is in each case what does not meet the state the
properties are about: columns of an account, AfterSMTP calls, dialogs, STARTTLS; of the proxy also
what upstream makes of a body it takes for commands, of which only the answers matter, and the panic on a
malformed line.
