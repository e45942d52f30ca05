------------------------------- MODULE DeadMan -------------------------------
(***************************************************************************)
(* The dead man's switch manager, pkg/deadman/deadman.go.                  *)
(*                                                                         *)
(* A Manager keeps a map from switch IDs to *Switch structs, guarded by a  *)
(* mutex, and one JSON file per ID.  Callers (Arm, CheckIn, Disarm) run    *)
(* concurrently with the monitor goroutine, whose tick marks the overdue   *)
(* switches under the mutex and calls the trigger outside it.  One action  *)
(* is one critical section, one file-system call or one callback.          *)
(*                                                                         *)
(* os.WriteFile is two steps: it truncates the file ("torn") and then      *)
(* writes the marshalled bytes.  A process that dies in between leaves a   *)
(* torn file, which load() skips.                                          *)
(***************************************************************************)
EXTENDS Integers, TLC

CONSTANTS
  Ids,        \* switch IDs (file names in the state directory)
  Structs,    \* *Switch heap objects one process may allocate
  Nil,        \* the nil *Switch, and the empty ID of an unused struct
  Clients,    \* goroutines that call the Manager
  Intervals,  \* CheckInInterval values; 0 means none
  Deadlines,  \* explicit Deadline values; 0 means the zero time
  Grace,      \* GracePeriod
  SaveMayFail,\* TRUE: os.WriteFile may return an error
  MaxTime,    \* bound on the clock
  MaxCrashes  \* bound on process deaths

ASSUME ConstantsAssumption ==
  /\ Nil \notin Structs
  /\ Nil \notin Ids
  /\ Intervals \subseteq Nat
  /\ Deadlines \subseteq Nat
  /\ Grace \in Nat
  /\ MaxTime \in Nat
  /\ MaxCrashes \in Nat
  /\ SaveMayFail \in BOOLEAN

\* For TLC: no operation looks at an ID or at a struct, other than to compare it.
Symmetry == Permutations(Ids) \cup Permutations(Structs)

VARIABLES
  now,        \* time.Now()
  up,         \* the process is running and NewManager has returned
  quit,       \* the quit channel is closed
  reg,        \* m.switches
  idOf,       \* s.ID
  status,     \* s.Status; "new" before the struct is allocated
  deadline,   \* s.Deadline
  every,      \* s.CheckInInterval
  disk,       \* the JSON files of the state directory
  cl,         \* what each caller is doing
  mon,        \* what the monitor goroutine is doing
  fires,      \* history: successful trigger calls per struct
  acked,      \* history: what the last call on an ID saved when it returned nil;
              \* "none" when it returned an error, and once the message is out
  spoilt,     \* history: IDs whose file was spoilt since a caller last began to save
              \* it, by a death in that save or by the save of a replaced switch
  crashes

swVars == <<reg, idOf, status, deadline, every>>
vars == <<now, up, quit, reg, idOf, status, deadline, every, disk, cl, mon,
          fires, acked, spoilt, crashes>>

(***************************************************************************)
(* The JSON image of a switch; "none" is an absent file, "torn" one that   *)
(* was truncated and not yet written.                                      *)
(***************************************************************************)
Files ==
  [st : {"none", "torn", "armed", "fired", "cancelled"},
   deadline : Nat, every : Nat]

NoFile == [st |-> "none", deadline |-> 0, every |-> 0]
TornFile == [st |-> "torn", deadline |-> 0, every |-> 0]

Snapshot(o) == [st |-> status[o], deadline |-> deadline[o], every |-> every[o]]

Idle == [pc |-> "idle", obj |-> Nil, locked |-> FALSE, buf |-> NoFile]
Asleep == [pc |-> "wait", seen |-> 0, batch |-> {}, cur |-> Nil, buf |-> NoFile]

\* m.mu is free: CheckIn and Disarm hold it while they save.
LockFree == \A c \in Clients : ~cl[c].locked

\* The structs the monitor has taken out of the map and not yet dealt with.
InHand ==
  mon.batch \cup (IF mon.pc \in {"trigger", "rearm"} THEN {mon.cur} ELSE {})

Registered(o) == status[o] # "new" /\ reg[idOf[o]] = o

Overdue(o, t) == t > deadline[o] + Grace

\* A caller has truncated the file of the ID and not yet written it.
Saving(id) == \E c \in Clients : cl[c].pc = "write" /\ idOf[cl[c].obj] = id

------------------------------------------------------------------------------
(***************************************************************************)
(* Callers                                                                 *)
(***************************************************************************)

\* now.Add(s.CheckInInterval)
NewDeadlineBackwards(k) == now - k
NewDeadline(k) == now + k

\* Arm: the struct is filled in privately, then published under the mutex.
\* The save that follows runs without the mutex.
Arm(c, id, o, d, k) ==
  /\ up /\ cl[c].pc = "idle" /\ LockFree
  /\ status[o] = "new"
  /\ d # 0 \/ k # 0
  /\ idOf' = [idOf EXCEPT ![o] = id]
  /\ status' = [status EXCEPT ![o] = "armed"]
  /\ every' = [every EXCEPT ![o] = k]
  /\ deadline' = [deadline EXCEPT ![o] = IF d = 0 THEN NewDeadline(k) ELSE d]
  /\ reg' = [reg EXCEPT ![id] = o]
  /\ cl' = [cl EXCEPT ![c] = [Idle EXCEPT !.pc = "save", !.obj = o]]
  /\ UNCHANGED <<now, up, quit, disk, mon, fires, acked, spoilt, crashes>>

\* CheckIn and Disarm take the mutex and keep it until their save returns.
LockAndSave(c, id) ==
  /\ up /\ cl[c].pc = "idle" /\ LockFree
  /\ reg[id] # Nil
  /\ cl' = [cl EXCEPT ![c] = [Idle EXCEPT !.pc = "save", !.obj = reg[id], !.locked = TRUE]]

Renew(id) ==
  /\ deadline' = IF every[reg[id]] > 0
                 THEN [deadline EXCEPT ![reg[id]] = NewDeadline(every[reg[id]])]
                 ELSE deadline
  /\ UNCHANGED <<now, up, quit, reg, idOf, status, every, disk, mon, fires, acked, spoilt,
                 crashes>>

CheckInAnyStatus(c, id) == LockAndSave(c, id) /\ Renew(id)

CheckIn(c, id) ==
  /\ LockAndSave(c, id)
  /\ status[reg[id]] = "armed"
  /\ Renew(id)

Disarm(c, id) ==
  /\ LockAndSave(c, id)
  /\ status' = [status EXCEPT ![reg[id]] = "cancelled"]
  /\ UNCHANGED <<now, up, quit, reg, idOf, deadline, every, disk, mon, fires, acked, spoilt,
                 crashes>>

\* save: marshal the struct and truncate its file ...
SaveBegin(c) ==
  /\ up /\ cl[c].pc = "save"
  /\ cl' = [cl EXCEPT ![c].pc = "write", ![c].buf = Snapshot(cl[c].obj)]
  /\ disk' = [disk EXCEPT ![idOf[cl[c].obj]] = TornFile]
  /\ spoilt' = spoilt \ {idOf[cl[c].obj]}
  /\ UNCHANGED <<now, up, quit, swVars, mon, fires, acked, crashes>>

\* ... then write it.  If somebody else wrote the file after our truncation,
\* a longer text may stick out behind ours, and the file does not parse.
Written(id, buf) ==
  IF disk[id] = TornFile THEN {buf} ELSE {buf, TornFile}

SaveEnd(c) ==
  /\ up /\ cl[c].pc = "write"
  /\ \E f \in Written(idOf[cl[c].obj], cl[c].buf) :
       disk' = [disk EXCEPT ![idOf[cl[c].obj]] = f]
  /\ acked' = [acked EXCEPT ![idOf[cl[c].obj]] =
                 IF fires[cl[c].obj] = 0 THEN cl[c].buf ELSE NoFile]
  /\ cl' = [cl EXCEPT ![c] = Idle]
  /\ UNCHANGED <<now, up, quit, swVars, mon, fires, spoilt, crashes>>

\* The call returns the error of os.WriteFile; memory keeps the change.
SaveFail(c) ==
  /\ SaveMayFail /\ up /\ cl[c].pc \in {"save", "write"}
  /\ cl' = [cl EXCEPT ![c] = Idle]
  /\ acked' = [acked EXCEPT ![idOf[cl[c].obj]] = NoFile]
  /\ UNCHANGED <<now, up, quit, swVars, disk, mon, fires, spoilt, crashes>>

------------------------------------------------------------------------------
(***************************************************************************)
(* The monitor goroutine                                                   *)
(***************************************************************************)

\* The ticker fires; tick() reads the clock before it locks.
MonTick ==
  /\ up /\ mon.pc = "wait"
  /\ mon' = [mon EXCEPT !.pc = "tick", !.seen = now]
  /\ UNCHANGED <<now, up, quit, swVars, disk, cl, fires, acked, spoilt, crashes>>

\* Where the loop over toFire goes next.
Onward(batch) == IF batch = {} THEN "wait" ELSE "next"

DueIgnoringGrace ==
  {o \in Structs : Registered(o) /\ status[o] = "armed" /\ mon.seen > deadline[o]}

Due == {o \in Structs : Registered(o) /\ status[o] = "armed" /\ Overdue(o, mon.seen)}

\* The overdue switches are marked fired under the mutex and collected.
MonCollect ==
  /\ up /\ mon.pc = "tick" /\ LockFree
  /\ mon' = [mon EXCEPT !.pc = Onward(Due), !.batch = Due]
  /\ status' = [o \in Structs |-> IF o \in Due THEN "fired" ELSE status[o]]
  /\ UNCHANGED <<now, up, quit, reg, idOf, deadline, every, disk, cl, fires,
                 acked, spoilt, crashes>>

\* The next collected switch (map order: any) goes to the trigger.
MonCall ==
  /\ up /\ mon.pc = "next"
  /\ \E o \in mon.batch :
       mon' = [mon EXCEPT !.pc = "trigger", !.cur = o, !.batch = @ \ {o}]
  /\ UNCHANGED <<now, up, quit, swVars, disk, cl, fires, acked, spoilt, crashes>>

\* The trigger accepted the message.  It discharges the promise made for the
\* ID when the struct is still the one registered under it.
TriggerOk ==
  /\ up /\ mon.pc = "trigger"
  /\ fires' = [fires EXCEPT ![mon.cur] = @ + 1]
  /\ mon' = [mon EXCEPT !.pc = "save"]
  /\ acked' = IF Registered(mon.cur)
              THEN [acked EXCEPT ![idOf[mon.cur]] = NoFile] ELSE acked
  /\ UNCHANGED <<now, up, quit, swVars, disk, cl, spoilt, crashes>>

TriggerErrDropped ==
  /\ up /\ mon.pc = "trigger"
  /\ mon' = [mon EXCEPT !.pc = Onward(mon.batch), !.cur = Nil]
  /\ UNCHANGED <<now, up, quit, swVars, disk, cl, fires, acked, spoilt, crashes>>

TriggerErr ==
  /\ up /\ mon.pc = "trigger"
  /\ mon' = [mon EXCEPT !.pc = "rearm"]
  /\ UNCHANGED <<now, up, quit, swVars, disk, cl, fires, acked, spoilt, crashes>>

MonRearmAndSave ==
  /\ up /\ mon.pc = "rearm" /\ LockFree
  /\ status' = [status EXCEPT ![mon.cur] = "armed"]
  /\ mon' = [mon EXCEPT !.pc = "save"]
  /\ UNCHANGED <<now, up, quit, reg, idOf, deadline, every, disk, cl, fires,
                 acked, spoilt, crashes>>

\* "Put back to armed so we retry next tick": unconditional, and not saved.
MonRearm ==
  /\ up /\ mon.pc = "rearm" /\ LockFree
  /\ status' = [status EXCEPT ![mon.cur] = "armed"]
  /\ mon' = [mon EXCEPT !.pc = Onward(mon.batch), !.cur = Nil]
  /\ UNCHANGED <<now, up, quit, reg, idOf, deadline, every, disk, cl, fires,
                 acked, spoilt, crashes>>

\* The file of an ID is spoilt when the struct saved there is no longer the one
\* registered under it.
Spoils == {id \in Ids : id = idOf[mon.cur] /\ reg[id] # mon.cur}

MonSaveBegin ==
  /\ up /\ mon.pc = "save"
  /\ mon' = [mon EXCEPT !.pc = "write", !.buf = Snapshot(mon.cur)]
  /\ disk' = [disk EXCEPT ![idOf[mon.cur]] = TornFile]
  /\ spoilt' = spoilt \cup Spoils
  /\ UNCHANGED <<now, up, quit, swVars, cl, fires, acked, crashes>>

\* The loop body is over: on to the next switch or back to the select.
MonDone ==
  mon' = [mon EXCEPT !.pc = Onward(mon.batch), !.cur = Nil, !.buf = NoFile]

MonSaveEnd ==
  /\ up /\ mon.pc = "write"
  /\ \E f \in Written(idOf[mon.cur], mon.buf) :
       disk' = [disk EXCEPT ![idOf[mon.cur]] = f]
  /\ spoilt' = spoilt \cup Spoils
  /\ MonDone
  /\ UNCHANGED <<now, up, quit, swVars, cl, fires, acked, crashes>>

\* The error of this save is ignored.
MonSaveFail ==
  /\ SaveMayFail /\ up /\ mon.pc \in {"save", "write"}
  /\ MonDone
  /\ UNCHANGED <<now, up, quit, swVars, disk, cl, fires, acked, spoilt, crashes>>

MonExit ==
  /\ up /\ quit /\ mon.pc = "wait"
  /\ mon' = [mon EXCEPT !.pc = "stopped"]
  /\ UNCHANGED <<now, up, quit, swVars, disk, cl, fires, acked, spoilt, crashes>>

------------------------------------------------------------------------------
(***************************************************************************)
(* Process lifetime and time                                               *)
(***************************************************************************)

Stop ==
  /\ up /\ ~quit
  /\ quit' = TRUE
  /\ UNCHANGED <<now, up, swVars, disk, cl, mon, fires, acked, spoilt, crashes>>

\* The process dies: memory is gone, files stay as they are.
Crash ==
  /\ up /\ crashes < MaxCrashes
  /\ crashes' = crashes + 1
  /\ spoilt' = spoilt \cup {id \in Ids : Saving(id)}
  /\ up' = FALSE
  /\ quit' = FALSE
  /\ reg' = [id \in Ids |-> Nil]
  /\ status' = [o \in Structs |-> "new"]
  /\ cl' = [c \in Clients |-> Idle]
  /\ mon' = Asleep
  /\ fires' = [o \in Structs |-> 0]
  /\ idOf' = [o \in Structs |-> Nil]
  /\ deadline' = [o \in Structs |-> 0]
  /\ every' = [o \in Structs |-> 0]
  /\ UNCHANGED <<now, disk, acked>>

\* NewManager: load() allocates one struct for every file that parses and says
\* armed, and registers it; then the monitor starts.
Start ==
  /\ ~up
  /\ \E f \in [Ids -> Structs \cup {Nil}], g \in [Structs -> Ids \cup {Nil}] :
       /\ \A id \in Ids : f[id] # Nil <=> disk[id].st = "armed"
       /\ \A id \in Ids, o \in Structs : f[id] = o <=> g[o] = id
       /\ reg' = f
       /\ idOf' = g
       /\ status' = [o \in Structs |-> IF g[o] = Nil THEN "new" ELSE "armed"]
       /\ deadline' = [o \in Structs |-> IF g[o] = Nil THEN 0 ELSE disk[g[o]].deadline]
       /\ every' = [o \in Structs |-> IF g[o] = Nil THEN 0 ELSE disk[g[o]].every]
  /\ up' = TRUE
  /\ UNCHANGED <<now, quit, disk, cl, mon, fires, acked, spoilt, crashes>>

Tick ==
  /\ now < MaxTime
  /\ now' = now + 1
  /\ UNCHANGED <<up, quit, swVars, disk, cl, mon, fires, acked, spoilt, crashes>>

------------------------------------------------------------------------------
Init ==
  /\ now = 0
  /\ up = TRUE
  /\ quit = FALSE
  /\ reg = [id \in Ids |-> Nil]
  /\ idOf = [o \in Structs |-> Nil]
  /\ status = [o \in Structs |-> "new"]
  /\ deadline = [o \in Structs |-> 0]
  /\ every = [o \in Structs |-> 0]
  /\ disk = [id \in Ids |-> NoFile]
  /\ cl = [c \in Clients |-> Idle]
  /\ mon = Asleep
  /\ fires = [o \in Structs |-> 0]
  /\ acked = [id \in Ids |-> NoFile]
  /\ spoilt = {}
  /\ crashes = 0

CallerStep(c) ==
  \/ \E id \in Ids, o \in Structs, d \in Deadlines, k \in Intervals : Arm(c, id, o, d, k)
  \/ \E id \in Ids : CheckIn(c, id) \/ Disarm(c, id)
  \/ SaveBegin(c) \/ SaveEnd(c) \/ SaveFail(c)

MonitorStep ==
  \/ MonTick \/ MonCollect \/ MonCall \/ TriggerOk \/ TriggerErr \/ MonRearm
  \/ MonSaveBegin \/ MonSaveEnd \/ MonSaveFail \/ MonExit

Next ==
  \/ \E c \in Clients : CallerStep(c)
  \/ MonitorStep
  \/ Stop \/ Crash \/ Start \/ Tick

Spec == Init /\ [][Next]_vars

(***************************************************************************)
(* Fairness.  The ticker ticks; sync.Mutex hands itself over to a waiter   *)
(* that has starved for a millisecond, hence strong fairness where the     *)
(* monitor locks; a caller inside save returns; a trigger that is tried    *)
(* again and again succeeds.  Nothing is assumed of the callers' will, of  *)
(* Stop, of Crash, of Start or of the clock.                               *)
(***************************************************************************)
Fairness ==
  /\ WF_vars(MonTick) /\ SF_vars(MonCollect) /\ WF_vars(MonCall)
  /\ SF_vars(MonRearm) /\ WF_vars(MonSaveBegin) /\ WF_vars(MonSaveEnd \/ MonSaveFail)
  /\ WF_vars(TriggerOk \/ TriggerErr)
  /\ \A o \in Structs : SF_vars(mon.cur = o /\ TriggerOk)
  /\ \A c \in Clients : WF_vars(SaveBegin(c)) /\ WF_vars(SaveEnd(c) \/ SaveFail(c))

FairSpec == Spec /\ Fairness

------------------------------------------------------------------------------
(***************************************************************************)
(* Properties                                                              *)
(***************************************************************************)

\* Every variable has its type.
TypeOK ==
  /\ now \in Nat /\ up \in BOOLEAN /\ quit \in BOOLEAN /\ crashes \in Nat
  /\ reg \in [Ids -> Structs \cup {Nil}]
  /\ idOf \in [Structs -> Ids \cup {Nil}]
  /\ status \in [Structs -> {"new", "armed", "fired", "cancelled"}]
  /\ deadline \in [Structs -> Nat]
  /\ every \in [Structs -> Nat]
  /\ disk \in [Ids -> Files]
  /\ acked \in [Ids -> Files]
  /\ spoilt \subseteq Ids
  /\ cl \in [Clients -> [pc : {"idle", "save", "write"}, obj : Structs \cup {Nil},
                         locked : BOOLEAN, buf : Files]]
  /\ mon \in [pc : {"wait", "tick", "next", "trigger", "rearm", "save", "write", "stopped"},
              seen : Nat, batch : SUBSET Structs, cur : Structs \cup {Nil}, buf : Files]
  /\ fires \in [Structs -> Nat]

\* A switch whose message is about to go out is past its deadline and grace
\* period by the clock, however a late check-in interleaves with the tick
\* that collected it: CheckIn refuses the switch once it is marked fired.
FiresOnlyOverdue ==
  \A o \in InHand : Overdue(o, now)

\* In one life of the process a message goes out at most once per Arm,
\* whatever the trigger errors, the disarms and the later ticks.
FiresAtMostOnce == \A o \in Structs : fires[o] <= 1

\* What Arm or CheckIn last confirmed for an ID stays in its file until the message
\* is out.  Only two things take it away while no caller is saving the ID: a process
\* that died in the middle of such a save, and the monitor when it saves the switch
\* it delivered over the file of the one that replaced it.  (deadman.go:86 knows no
\* exception: "persisted across daemon restarts".)  One caller at a time, as the MCP
\* server is: Arm saves outside the mutex.
AckedArmDurable ==
  \A id \in Ids :
    acked[id].st = "armed" /\ ~Saving(id) /\ id \notin spoilt => disk[id] = acked[id]

\* A restart never loads anything but what the last call confirmed, IDs used twice
\* and deaths in the middle of a save included: no older deadline, and no switch that
\* Disarm cancelled, although the monitor may at that moment be firing it, saving it
\* or re-arming it.  (A call that returned an error has promised nothing.)
LoadsWhatWasSaid ==
  \A id \in Ids :
    disk[id].st = "armed" /\ acked[id] # NoFile => disk[id] = acked[id]

\* The message of a switch goes out when nobody has checked in, and once.
FiresOnceOverdue == FiresOnlyOverdue /\ FiresAtMostOnce

\* What a caller was told about a switch is what a restart finds, up to the two
\* ways in which its file is spoilt.
RestartKeepsAcked == AckedArmDurable /\ LoadsWhatWasSaid

\* A switch nobody checks in on is eventually delivered, unless it is
\* disarmed, replaced, renewed, or the manager is stopped.
EventuallyFires ==
  \A o \in Structs :
    (up /\ Registered(o) /\ status[o] = "armed" /\ Overdue(o, now)) ~>
      (\/ fires[o] > 0 \/ status[o] = "cancelled" \/ ~Registered(o)
       \/ ~Overdue(o, now) \/ quit \/ ~up)

(***************************************************************************)
(* Refinement: the lifecycle a caller may rely on.  A struct the monitor   *)
(* holds and has not delivered is still "armed", whatever its Status field *)
(* says in the meantime.                                                   *)
(***************************************************************************)
Life ==
  [o \in Structs |->
     IF fires[o] > 0 THEN "delivered"
     ELSE IF o \in InHand THEN "armed"
     ELSE status[o]]

Promise == INSTANCE DeadManPromise WITH life <- Life, due <- deadline

\* The manager implements DeadManPromise.
ImplementsPromise == Promise!Spec

(***************************************************************************)
(* A claim of the source that the code does not meet.                      *)
(***************************************************************************)

\* "Disarm permanently cancels a switch without firing it": a cancelled
\* switch stays cancelled for the life of the process.
DisarmIsPermanent ==
  [][\A o \in Structs : status[o] = "cancelled" => status'[o] \in {"cancelled", "new"}]_vars

------------------------------------------------------------------------------
(***************************************************************************)
(* The inductive invariant behind FiresOnlyOverdue and FiresAtMostOnce.    *)
(***************************************************************************)

\* The monitor's program counter agrees with what it holds.
MonitorShape ==
  /\ mon.seen <= now
  /\ mon.pc \in {"wait", "tick", "stopped"} => mon.batch = {}
  /\ mon.pc \in {"trigger", "rearm", "save", "write"} => mon.cur \in Structs \ mon.batch

\* A collected struct is overdue by the clock and no longer armed, so neither
\* CheckIn nor a second collection can touch it.
InHandOverdue == \A o \in InHand : Overdue(o, now) /\ status[o] \in {"fired", "cancelled"}

\* A delivered struct is never armed again and is never in hand.
DeliveredRetired ==
  \A o \in Structs :
    /\ fires[o] <= 1
    /\ fires[o] > 0 => status[o] \in {"fired", "cancelled"} /\ o \notin InHand

\* Whoever saves a struct saves one that was armed once.
SavesAllocated ==
  /\ \A c \in Clients :
       cl[c].pc # "idle" => cl[c].obj \in Structs /\ status[cl[c].obj] # "new"
  /\ mon.pc \in {"save", "write"} => status[mon.cur] # "new"

\* A process that is down holds nothing.
DownIsBlank ==
  ~up => /\ mon = Asleep
         /\ \A c \in Clients : cl[c] = Idle
         /\ \A o \in Structs : fires[o] = 0

IInv ==
  /\ TypeOK /\ MonitorShape /\ InHandOverdue /\ DeliveredRetired /\ SavesAllocated
  /\ DownIsBlank

==============================================================================
