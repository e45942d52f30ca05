---------------------------- MODULE DeadManProofs ----------------------------
(***************************************************************************)
(* Proofs about DeadMan, for any sets of IDs, heap objects and callers and *)
(* any bounds.                                                             *)
(***************************************************************************)
EXTENDS DeadMan, TLAPS

\* Every JSON image save() can produce has the type of a file.
LEMMA SnapshotType ==
  ASSUME TypeOK, NEW o \in Structs, status[o] # "new"
  PROVE  Snapshot(o) \in Files
BY DEF TypeOK, Snapshot, Files

\* The constants of the model have the types the variables are given.
LEMMA ConstantImages ==
  /\ NoFile \in Files /\ TornFile \in Files
  /\ Idle \in [pc : {"idle", "save", "write"}, obj : Structs \cup {Nil},
               locked : BOOLEAN, buf : Files]
BY DEF NoFile, TornFile, Files, Idle

\* The invariant holds when the process starts for the first time.
LEMMA InitInv == Init => IInv
<1> SUFFICES ASSUME Init PROVE IInv
  OBVIOUS
<1>1. TypeOK
  BY ConstantImages DEF Init, TypeOK, Asleep, NoFile, Files
<1>2. InHand = {}
  BY DEF Init, InHand, Asleep
<1>3. MonitorShape /\ InHandOverdue /\ DeliveredRetired /\ SavesAllocated /\ DownIsBlank
  BY <1>2 DEF Init, MonitorShape, InHandOverdue, DeliveredRetired, SavesAllocated,
              DownIsBlank, Asleep, Idle
<1>4. QED
  BY <1>1, <1>3 DEF IInv

(***************************************************************************)
(* The callers' steps.  Saving disturbs only the typing and the caller's   *)
(* own record; Arm, CheckIn and Disarm also change a struct, which by      *)
(* InHandOverdue is not one the monitor holds unless it is cancelled.      *)
(***************************************************************************)
LEMMA CallerInv ==
  ASSUME IInv, NEW c \in Clients, CallerStep(c)
  PROVE  IInv'
<1> USE DEF IInv
<1>1. CASE SaveBegin(c)
  <2>1. TypeOK'
    BY <1>1, SnapshotType, ConstantImages DEF SaveBegin, swVars, TypeOK, SavesAllocated
  <2>2. MonitorShape' /\ InHandOverdue' /\ DeliveredRetired' /\ DownIsBlank'
    BY <1>1 DEF SaveBegin, swVars, MonitorShape, InHandOverdue, DeliveredRetired, DownIsBlank, InHand, Overdue
  <2>3. SavesAllocated'
    BY <1>1 DEF SaveBegin, swVars, SavesAllocated, TypeOK
  <2>4. QED
    BY <2>1, <2>2, <2>3
<1>2. CASE SaveEnd(c)
  <2>1. TypeOK'
    <3>1. PICK f \in Files : disk' = [disk EXCEPT ![idOf[cl[c].obj]] = f]
      <4>1. cl[c].buf \in Files
        BY DEF TypeOK
      <4>2. Written(idOf[cl[c].obj], cl[c].buf) \subseteq Files
        BY <4>1, ConstantImages DEF Written
      <4>3. QED
        BY <1>2, <4>2 DEF SaveEnd
    <3>2. disk' \in [Ids -> Files]
      BY <3>1 DEF TypeOK
    <3>3. acked' \in [Ids -> Files]
      BY <1>2, ConstantImages DEF SaveEnd, TypeOK
    <3>4. QED
      BY <1>2, <3>2, <3>3, ConstantImages DEF SaveEnd, swVars, TypeOK
  <2>2. MonitorShape' /\ InHandOverdue' /\ DeliveredRetired' /\ DownIsBlank'
    BY <1>2 DEF SaveEnd, swVars, MonitorShape, InHandOverdue, DeliveredRetired, DownIsBlank, InHand, Overdue
  <2>3. SavesAllocated'
    BY <1>2 DEF SaveEnd, swVars, SavesAllocated, TypeOK, Idle
  <2>4. QED
    BY <2>1, <2>2, <2>3
<1>3. CASE SaveFail(c)
  <2>1. TypeOK'
    BY <1>3, ConstantImages DEF SaveFail, swVars, TypeOK
  <2>2. MonitorShape' /\ InHandOverdue' /\ DeliveredRetired' /\ DownIsBlank'
    BY <1>3 DEF SaveFail, swVars, MonitorShape, InHandOverdue, DeliveredRetired, DownIsBlank, InHand, Overdue
  <2>3. SavesAllocated'
    BY <1>3 DEF SaveFail, swVars, SavesAllocated, TypeOK, Idle
  <2>4. QED
    BY <2>1, <2>2, <2>3
<1>4. ASSUME NEW id \in Ids, NEW o \in Structs, NEW d \in Deadlines, NEW k \in Intervals,
            Arm(c, id, o, d, k) PROVE IInv'
  <2>1. TypeOK'
    <3>1. deadline' \in [Structs -> Nat] /\ every' \in [Structs -> Nat]
      BY <1>4, ConstantsAssumption DEF Arm, NewDeadline, TypeOK
    <3>2. [Idle EXCEPT !.pc = "save", !.obj = o] \in
             [pc : {"idle", "save", "write"}, obj : Structs \cup {Nil},
              locked : BOOLEAN, buf : Files]
      BY ConstantImages DEF Idle
    <3>3. cl' \in [Clients -> [pc : {"idle", "save", "write"}, obj : Structs \cup {Nil},
                               locked : BOOLEAN, buf : Files]]
      BY <1>4, <3>2 DEF Arm, TypeOK
    <3>4. QED
      BY <1>4, <3>1, <3>3, ConstantImages DEF Arm, TypeOK
  <2>2. MonitorShape' /\ DownIsBlank'
    BY <1>4 DEF Arm, MonitorShape, DownIsBlank
  <2>3. InHandOverdue' /\ DeliveredRetired'
    BY <1>4 DEF Arm, InHandOverdue, DeliveredRetired, InHand, Overdue, TypeOK
  <2>4. SavesAllocated'
    BY <1>4 DEF Arm, SavesAllocated, MonitorShape, TypeOK, Idle
  <2>5. QED
    BY <2>1, <2>2, <2>3, <2>4
<1>5. ASSUME NEW id \in Ids, CheckIn(c, id) PROVE IInv'
  <2>1. TypeOK'
    <3>1. deadline' \in [Structs -> Nat]
      BY <1>5 DEF CheckIn, Renew, LockAndSave, NewDeadline, TypeOK
    <3>2. [Idle EXCEPT !.pc = "save", !.obj = reg[id], !.locked = TRUE] \in
             [pc : {"idle", "save", "write"}, obj : Structs \cup {Nil},
              locked : BOOLEAN, buf : Files]
      BY ConstantImages DEF Idle, TypeOK
    <3>3. QED
      BY <1>5, <3>1, <3>2, ConstantImages DEF CheckIn, Renew, LockAndSave, TypeOK
  <2>2. MonitorShape' /\ DeliveredRetired' /\ DownIsBlank'
    BY <1>5 DEF CheckIn, Renew, LockAndSave, MonitorShape, DeliveredRetired, DownIsBlank, InHand
  <2>3. InHandOverdue'
    <3>1. reg[id] \notin InHand
      BY <1>5 DEF CheckIn, InHandOverdue
    <3>2. \A o \in Structs : o # reg[id] => deadline'[o] = deadline[o]
      BY <1>5 DEF CheckIn, Renew, TypeOK
    <3>3. InHand' = InHand /\ InHand \subseteq Structs
      BY <1>5 DEF CheckIn, Renew, InHand, MonitorShape, TypeOK
    <3>4. QED
      BY <1>5, <3>1, <3>2, <3>3 DEF CheckIn, Renew, InHandOverdue, Overdue
  <2>4. SavesAllocated'
    BY <1>5 DEF CheckIn, Renew, LockAndSave, SavesAllocated, TypeOK, Idle
  <2>5. QED
    BY <2>1, <2>2, <2>3, <2>4
<1>6. ASSUME NEW id \in Ids, Disarm(c, id) PROVE IInv'
  <2>1. TypeOK'
    <3>1. [Idle EXCEPT !.pc = "save", !.obj = reg[id], !.locked = TRUE] \in
             [pc : {"idle", "save", "write"}, obj : Structs \cup {Nil},
              locked : BOOLEAN, buf : Files]
      BY ConstantImages DEF Idle, TypeOK
    <3>2. QED
      BY <1>6, <3>1, ConstantImages DEF Disarm, LockAndSave, TypeOK
  <2>2. MonitorShape' /\ DownIsBlank'
    BY <1>6 DEF Disarm, LockAndSave, MonitorShape, DownIsBlank
  <2>3. InHandOverdue' /\ DeliveredRetired'
    BY <1>6 DEF Disarm, LockAndSave, InHandOverdue, DeliveredRetired, MonitorShape, InHand, Overdue, TypeOK
  <2>4. SavesAllocated'
    BY <1>6 DEF Disarm, LockAndSave, SavesAllocated, MonitorShape, TypeOK, Idle
  <2>5. QED
    BY <2>1, <2>2, <2>3, <2>4
<1>7. QED
  BY <1>1, <1>2, <1>3, <1>4, <1>5, <1>6 DEF CallerStep

(***************************************************************************)
(* The monitor's steps.                                                    *)
(***************************************************************************)
LEMMA MonitorInv ==
  ASSUME IInv, MonitorStep
  PROVE  IInv'
<1> USE DEF IInv
<1>1. CASE MonTick
  <2>1. TypeOK'
    BY <1>1 DEF MonTick, swVars, TypeOK
  <2>2. MonitorShape' /\ InHandOverdue' /\ DeliveredRetired' /\ DownIsBlank'
    BY <1>1 DEF MonTick, swVars, MonitorShape, InHandOverdue, DeliveredRetired, DownIsBlank, InHand, Overdue, TypeOK
  <2>3. SavesAllocated'
    BY <1>1 DEF MonTick, swVars, SavesAllocated, MonitorShape, TypeOK
  <2>4. QED
    BY <2>1, <2>2, <2>3
<1>2. CASE MonCollect
  <2>1. TypeOK'
    BY <1>2 DEF MonCollect, Due, Onward, TypeOK
  <2>2. MonitorShape' /\ DownIsBlank'
    BY <1>2 DEF MonCollect, Due, Onward, MonitorShape, DownIsBlank, TypeOK
  <2>3. InHandOverdue'
    <3>1. InHand' \subseteq Due
      BY <1>2 DEF MonCollect, Onward, InHand, TypeOK
    <3>2. ASSUME NEW o \in Due PROVE Overdue(o, now) /\ status'[o] = "fired"
      <4>1. o \in Structs /\ Overdue(o, mon.seen)
        BY <3>2 DEF Due
      <4>2. mon.seen \in Nat /\ now \in Nat /\ deadline[o] \in Nat
        BY <4>1 DEF TypeOK
      <4>3. Overdue(o, now)
        BY <4>1, <4>2, ConstantsAssumption DEF Overdue, MonitorShape
      <4>4. QED
        BY <1>2, <3>2, <4>1, <4>3 DEF MonCollect
    <3>3. QED
      BY <1>2, <3>1, <3>2 DEF MonCollect, InHandOverdue, Overdue
  <2>4. DeliveredRetired'
    BY <1>2 DEF MonCollect, Due, Onward, DeliveredRetired, InHand, TypeOK
  <2>5. SavesAllocated'
    BY <1>2 DEF MonCollect, Due, Onward, SavesAllocated, TypeOK
  <2>6. QED
    BY <2>1, <2>2, <2>3, <2>4, <2>5
<1>3. CASE MonCall
  <2>1. TypeOK'
    <3>1. PICK o \in mon.batch :
           mon' = [mon EXCEPT !.pc = "trigger", !.cur = o, !.batch = mon.batch \ {o}]
      BY <1>3 DEF MonCall
    <3>2. mon.batch \subseteq Structs
      BY DEF TypeOK
    <3>3. QED
      BY <1>3, <3>1, <3>2 DEF MonCall, swVars, TypeOK
  <2>2. MonitorShape' /\ InHandOverdue' /\ DeliveredRetired' /\ DownIsBlank'
    BY <1>3 DEF MonCall, swVars, MonitorShape, InHandOverdue, DeliveredRetired, DownIsBlank, InHand, Overdue, TypeOK
  <2>3. SavesAllocated'
    BY <1>3 DEF MonCall, swVars, SavesAllocated, MonitorShape, TypeOK
  <2>4. QED
    BY <2>1, <2>2, <2>3
<1>4. CASE TriggerOk
  <2>1. TypeOK'
    <3>1. fires' \in [Structs -> Nat]
      BY <1>4 DEF TriggerOk, TypeOK, MonitorShape
    <3>2. acked' \in [Ids -> Files]
      BY <1>4, ConstantImages DEF TriggerOk, TypeOK
    <3>3. QED
      BY <1>4, <3>1, <3>2 DEF TriggerOk, swVars, TypeOK
  <2>2. MonitorShape' /\ InHandOverdue' /\ DownIsBlank'
    BY <1>4 DEF TriggerOk, swVars, MonitorShape, InHandOverdue, DownIsBlank, InHand, Overdue, TypeOK
  <2>3. DeliveredRetired'
    BY <1>4 DEF TriggerOk, swVars, MonitorShape, InHandOverdue, DeliveredRetired, InHand, Overdue, TypeOK
  <2>4. SavesAllocated'
    BY <1>4 DEF TriggerOk, swVars, SavesAllocated, InHandOverdue, InHand, Overdue, TypeOK
  <2>5. QED
    BY <2>1, <2>2, <2>3, <2>4
<1>5. CASE TriggerErr
  <2>1. TypeOK'
    BY <1>5 DEF TriggerErr, swVars, TypeOK
  <2>2. MonitorShape' /\ InHandOverdue' /\ DeliveredRetired' /\ DownIsBlank'
    BY <1>5 DEF TriggerErr, swVars, MonitorShape, InHandOverdue, DeliveredRetired, DownIsBlank, InHand, Overdue, TypeOK
  <2>3. SavesAllocated'
    BY <1>5 DEF TriggerErr, swVars, SavesAllocated, MonitorShape, TypeOK
  <2>4. QED
    BY <2>1, <2>2, <2>3
<1>6. CASE MonRearm
  <2>1. TypeOK'
    BY <1>6 DEF MonRearm, Onward, TypeOK
  <2>2. MonitorShape' /\ DownIsBlank'
    BY <1>6 DEF MonRearm, Onward, MonitorShape, DownIsBlank, TypeOK
  <2>3. InHandOverdue' /\ DeliveredRetired'
    BY <1>6 DEF MonRearm, Onward, MonitorShape, InHandOverdue, DeliveredRetired, InHand, Overdue, TypeOK
  <2>4. SavesAllocated'
    BY <1>6 DEF MonRearm, Onward, SavesAllocated, TypeOK
  <2>5. QED
    BY <2>1, <2>2, <2>3, <2>4
<1>7. CASE MonSaveBegin
  <2>1. TypeOK'
    BY <1>7, SnapshotType, ConstantImages DEF MonSaveBegin, Spoils, swVars, MonitorShape, SavesAllocated, TypeOK
  <2>2. MonitorShape' /\ InHandOverdue' /\ DeliveredRetired' /\ DownIsBlank'
    BY <1>7 DEF MonSaveBegin, swVars, MonitorShape, InHandOverdue, DeliveredRetired, DownIsBlank, InHand, Overdue, TypeOK
  <2>3. SavesAllocated'
    BY <1>7 DEF MonSaveBegin, swVars, SavesAllocated, MonitorShape, TypeOK
  <2>4. QED
    BY <2>1, <2>2, <2>3
<1>8. CASE MonSaveEnd
  <2>1. TypeOK'
    <3>1. PICK f \in Files : disk' = [disk EXCEPT ![idOf[mon.cur]] = f]
      BY <1>8, ConstantImages DEF MonSaveEnd, Written, TypeOK
    <3>2. disk' \in [Ids -> Files]
      BY <3>1 DEF TypeOK
    <3>3. QED
      BY <1>8, <3>2, ConstantImages DEF MonSaveEnd, Spoils, MonDone, Onward, swVars, TypeOK
  <2>2. MonitorShape' /\ InHandOverdue' /\ DeliveredRetired' /\ DownIsBlank'
    BY <1>8 DEF MonSaveEnd, MonDone, Onward, swVars, MonitorShape, InHandOverdue, DeliveredRetired, DownIsBlank, InHand, Overdue, TypeOK
  <2>3. SavesAllocated'
    BY <1>8 DEF MonSaveEnd, MonDone, Onward, swVars, SavesAllocated, MonitorShape, TypeOK
  <2>4. QED
    BY <2>1, <2>2, <2>3
<1>9. CASE MonSaveFail
  <2>1. TypeOK'
    BY <1>9, ConstantImages DEF MonSaveFail, MonDone, Onward, swVars, TypeOK
  <2>2. MonitorShape' /\ InHandOverdue' /\ DeliveredRetired' /\ DownIsBlank'
    BY <1>9 DEF MonSaveFail, MonDone, Onward, swVars, MonitorShape, InHandOverdue, DeliveredRetired, DownIsBlank, InHand, Overdue, TypeOK
  <2>3. SavesAllocated'
    BY <1>9 DEF MonSaveFail, MonDone, Onward, swVars, SavesAllocated, MonitorShape, TypeOK
  <2>4. QED
    BY <2>1, <2>2, <2>3
<1>10. CASE MonExit
  <2>1. TypeOK'
    BY <1>10 DEF MonExit, swVars, TypeOK
  <2>2. MonitorShape' /\ InHandOverdue' /\ DeliveredRetired' /\ DownIsBlank'
    BY <1>10 DEF MonExit, swVars, MonitorShape, InHandOverdue, DeliveredRetired, DownIsBlank, InHand, Overdue, TypeOK
  <2>3. SavesAllocated'
    BY <1>10 DEF MonExit, swVars, SavesAllocated, MonitorShape, TypeOK
  <2>4. QED
    BY <2>1, <2>2, <2>3
<1>11. QED
  BY <1>1, <1>2, <1>3, <1>4, <1>5, <1>6, <1>7, <1>8, <1>9, <1>10 DEF MonitorStep

(***************************************************************************)
(* The environment: Stop, Crash, Start and the clock.                      *)
(***************************************************************************)
LEMMA ProcessInv ==
  ASSUME IInv, Stop \/ Crash \/ Start \/ Tick
  PROVE  IInv'
<1> USE DEF IInv
<1>1. CASE Stop
  <2>1. TypeOK'
    BY <1>1 DEF Stop, swVars, TypeOK
  <2>2. MonitorShape' /\ InHandOverdue' /\ DeliveredRetired' /\ SavesAllocated' /\ DownIsBlank'
    BY <1>1 DEF Stop, swVars, MonitorShape, InHandOverdue, DeliveredRetired, SavesAllocated, DownIsBlank, InHand, Overdue
  <2>3. QED
    BY <2>1, <2>2
<1>2. CASE Crash
  <2>1. TypeOK'
    <3>1. Asleep \in [pc : {"wait", "tick", "next", "trigger", "rearm", "save", "write", "stopped"},
                       seen : Nat, batch : SUBSET Structs, cur : Structs \cup {Nil}, buf : Files]
      BY ConstantImages DEF Asleep
    <3>2. cl' \in [Clients -> [pc : {"idle", "save", "write"}, obj : Structs \cup {Nil},
                               locked : BOOLEAN, buf : Files]]
      BY <1>2, ConstantImages DEF Crash
    <3>3. reg' \in [Ids -> Structs \cup {Nil}] /\ idOf' \in [Structs -> Ids \cup {Nil}]
      BY <1>2 DEF Crash
    <3>4. /\ status' \in [Structs -> {"new", "armed", "fired", "cancelled"}]
          /\ deadline' \in [Structs -> Nat] /\ every' \in [Structs -> Nat]
          /\ fires' \in [Structs -> Nat]
      BY <1>2 DEF Crash
    <3>5. now' \in Nat /\ crashes' \in Nat
      BY <1>2 DEF Crash, TypeOK
    <3>6. up' \in BOOLEAN /\ quit' \in BOOLEAN
      BY <1>2 DEF Crash
    <3>7. disk' \in [Ids -> Files] /\ acked' \in [Ids -> Files]
      BY <1>2 DEF Crash, TypeOK
    <3>8. mon' = Asleep
      BY <1>2 DEF Crash
    <3>9. spoilt' \subseteq Ids
      BY <1>2 DEF Crash, TypeOK
    <3>10. QED
      BY <3>1, <3>2, <3>3, <3>4, <3>5, <3>6, <3>7, <3>8, <3>9 DEF TypeOK
  <2>2. MonitorShape' /\ InHandOverdue' /\ DeliveredRetired' /\ SavesAllocated' /\ DownIsBlank'
    <3>1. mon' = Asleep /\ InHand' = {}
      BY <1>2 DEF Crash, InHand, Asleep
    <3>2. QED
      BY <1>2, <3>1 DEF Crash, Asleep, Idle, MonitorShape, InHandOverdue, DeliveredRetired, SavesAllocated, DownIsBlank, TypeOK
  <2>3. QED
    BY <2>1, <2>2
<1>3. CASE Start
  <2>1. TypeOK'
    BY <1>3 DEF Start, Files, TypeOK
  <2>2. MonitorShape' /\ InHandOverdue' /\ DeliveredRetired' /\ DownIsBlank'
    <3>1. mon = Asleep /\ mon' = Asleep /\ InHand' = {}
      BY <1>3 DEF Start, DownIsBlank, InHand, Asleep
    <3>2. QED
      BY <1>3, <3>1 DEF Start, Asleep, MonitorShape, InHandOverdue, DeliveredRetired, DownIsBlank, TypeOK
  <2>3. SavesAllocated'
    <3>1. \A c \in Clients : cl[c] = Idle
      BY <1>3 DEF Start, DownIsBlank
    <3>2. QED
      BY <1>3, <3>1 DEF Start, SavesAllocated, DownIsBlank, Idle, Asleep
  <2>4. QED
    BY <2>1, <2>2, <2>3
<1>4. CASE Tick
  <2>1. TypeOK'
    BY <1>4 DEF Tick, swVars, TypeOK
  <2>2. MonitorShape' /\ DeliveredRetired' /\ SavesAllocated' /\ DownIsBlank'
    BY <1>4 DEF Tick, swVars, MonitorShape, DeliveredRetired, SavesAllocated, DownIsBlank, InHand, TypeOK
  <2>3. InHandOverdue'
    <3>1. InHand' = InHand /\ InHand \subseteq Structs
      BY <1>4 DEF Tick, InHand, MonitorShape, TypeOK
    <3>2. QED
      BY <1>4, <3>1, ConstantsAssumption DEF Tick, swVars, InHandOverdue, Overdue, TypeOK
  <2>4. QED
    BY <2>1, <2>2, <2>3
<1>5. QED
  BY <1>1, <1>2, <1>3, <1>4

\* Every step of the callers, the monitor and the process keeps the invariant.
LEMMA StepInv == IInv /\ [Next]_vars => IInv'
<1> SUFFICES ASSUME IInv, [Next]_vars PROVE IInv'
  OBVIOUS
<1>1. CASE UNCHANGED vars
  BY <1>1 DEF vars, IInv, TypeOK, MonitorShape, InHandOverdue, DeliveredRetired,
              SavesAllocated, DownIsBlank, InHand, Overdue
<1>2. QED
  BY <1>1, CallerInv, MonitorInv, ProcessInv DEF Next

\* The strengthened invariant holds throughout.
THEOREM InvariantHolds == Spec => []IInv
BY InitInv, StepInv, PTL DEF Spec

\* Type correctness of the manager, its callers, its monitor and its files.
THEOREM TypeCorrect == Spec => []TypeOK
<1>1. IInv => TypeOK
  BY DEF IInv
<1>2. QED
  BY <1>1, InvariantHolds, PTL

\* A message goes out only for a switch that is past its deadline and grace
\* period, for any number of callers, switches and restarts.
THEOREM NeverFiresEarly == Spec => []FiresOnlyOverdue
<1>1. IInv => FiresOnlyOverdue
  BY DEF IInv, InHandOverdue, FiresOnlyOverdue
<1>2. QED
  BY <1>1, InvariantHolds, PTL

\* One Arm sends at most one message per life of the process.
THEOREM NeverFiresTwice == Spec => []FiresAtMostOnce
<1>1. IInv => FiresAtMostOnce
  BY DEF IInv, DeliveredRetired, FiresAtMostOnce
<1>2. QED
  BY <1>1, InvariantHolds, PTL

\* Together: a message goes out once, and of an overdue switch.
THEOREM FiresOnce == Spec => []FiresOnceOverdue
<1>1. FiresOnlyOverdue /\ FiresAtMostOnce => FiresOnceOverdue
  BY DEF FiresOnceOverdue
<1>2. QED
  BY <1>1, NeverFiresEarly, NeverFiresTwice, PTL

------------------------------------------------------------------------------
(***************************************************************************)
(* The manager implements DeadManPromise.  The refinement mapping Life     *)
(* reads a struct's history, the monitor's hands and its Status field; the *)
(* following invariant says they agree.                                    *)
(***************************************************************************)
LifeShape ==
  /\ \A id \in Ids : reg[id] # Nil => status[reg[id]] # "new"
  /\ \A o \in Structs : status[o] = "fired" => fires[o] > 0 \/ o \in InHand
  /\ ~up => \A o \in Structs : status[o] = "new" /\ deadline[o] = 0

\* Every step keeps the status, the hands and the history in agreement.
LEMMA LifeShapeStep ==
  ASSUME IInv, LifeShape, [Next]_vars
  PROVE  LifeShape'
<1> USE DEF IInv, LifeShape
<1>1. ASSUME NEW c \in Clients, SaveBegin(c) \/ SaveEnd(c) \/ SaveFail(c) PROVE LifeShape'
  BY <1>1 DEF SaveBegin, SaveEnd, SaveFail, swVars, InHand
<1>2. ASSUME NEW c \in Clients, NEW id \in Ids, NEW o \in Structs, NEW d \in Deadlines,
             NEW k \in Intervals, Arm(c, id, o, d, k)
      PROVE  LifeShape'
  BY <1>2 DEF Arm, InHand, TypeOK
<1>3. ASSUME NEW c \in Clients, NEW id \in Ids, CheckIn(c, id) PROVE LifeShape'
  BY <1>3 DEF CheckIn, LockAndSave, Renew, InHand
<1>4. ASSUME NEW c \in Clients, NEW id \in Ids, Disarm(c, id) PROVE LifeShape'
  BY <1>4 DEF Disarm, LockAndSave, InHand, TypeOK
<1>5. CASE MonTick \/ MonExit \/ TriggerErr \/ MonSaveBegin
  BY <1>5 DEF MonTick, MonExit, TriggerErr, MonSaveBegin, swVars, InHand, TypeOK
<1>6. CASE MonCollect
  <2>1. InHand = {} /\ Due \subseteq InHand'
    BY <1>6 DEF MonCollect, Onward, InHand, MonitorShape, TypeOK
  <2>2. QED
    BY <1>6, <2>1 DEF MonCollect, TypeOK
<1>7. CASE MonCall
  BY <1>7 DEF MonCall, swVars, InHand, TypeOK
<1>8. CASE TriggerOk
  BY <1>8 DEF TriggerOk, swVars, InHand, MonitorShape, TypeOK
<1>9. CASE MonRearm
  BY <1>9 DEF MonRearm, Onward, InHand, MonitorShape, TypeOK
<1>10. CASE MonSaveEnd \/ MonSaveFail
  BY <1>10 DEF MonSaveEnd, MonSaveFail, MonDone, Onward, swVars, InHand, TypeOK
<1>11. CASE Stop \/ Tick
  BY <1>11 DEF Stop, Tick, swVars, InHand
<1>12. CASE Crash
  BY <1>12 DEF Crash
<1>13. CASE Start
  <2>1. \A o \in Structs : status'[o] # "fired"
    BY <1>13 DEF Start
  <2>2. \A id \in Ids : reg'[id] # Nil => status'[reg'[id]] # "new"
    BY <1>13, ConstantsAssumption DEF Start
  <2>3. QED
    BY <1>13, <2>1, <2>2 DEF Start
<1>14. CASE UNCHANGED vars
  BY <1>14 DEF vars, InHand
<1>15. QED
  BY <1>1, <1>2, <1>3, <1>4, <1>5, <1>6, <1>7, <1>8, <1>9, <1>10, <1>11, <1>12, <1>13, <1>14
     DEF Next, CallerStep, MonitorStep

\* One step of the manager is one step of the promise, or none.
LEMMA StepRefines ==
  ASSUME IInv, LifeShape, [Next]_vars
  PROVE  [Promise!Next]_<<now, Life, deadline>>
<1> USE DEF IInv
<1> DEFINE Stutter == now' = now /\ Life' = Life /\ deadline' = deadline
<1>1. ASSUME NEW c \in Clients, SaveBegin(c) \/ SaveEnd(c) \/ SaveFail(c) PROVE Stutter
  BY <1>1 DEF SaveBegin, SaveEnd, SaveFail, swVars, Life, InHand
<1>2. ASSUME NEW c \in Clients, NEW id \in Ids, NEW o \in Structs, NEW d \in Deadlines,
             NEW k \in Intervals, Arm(c, id, o, d, k)
      PROVE  Promise!Arm({o})
  <2>1. fires[o] = 0 /\ o \notin InHand
    BY <1>2 DEF Arm, DeliveredRetired, InHandOverdue, TypeOK
  <2>2. InHand' = InHand
    BY <1>2 DEF Arm, InHand
  <2>3. Life[o] = "new"
    BY <1>2, <2>1 DEF Arm, Life
  <2>4. Life' = [x \in Structs |-> IF x \in {o} THEN "armed" ELSE Life[x]]
    BY <1>2, <2>1, <2>2 DEF Arm, Life, TypeOK
  <2>5. DOMAIN deadline' = Structs /\ \A x \in Structs \ {o} : deadline'[x] = deadline[x]
    BY <1>2 DEF Arm, TypeOK
  <2>6. QED
    BY <1>2, <2>3, <2>4, <2>5 DEF Arm, Promise!Arm
<1>3. ASSUME NEW c \in Clients, NEW id \in Ids, CheckIn(c, id)
      PROVE  reg[id] \in Structs /\ Promise!Renew(reg[id])
  <2>1. reg[id] \in Structs /\ status[reg[id]] = "armed"
    BY <1>3 DEF CheckIn, LockAndSave, TypeOK
  <2>2. Life[reg[id]] = "armed"
    BY <2>1 DEF Life, DeliveredRetired, TypeOK
  <2>3. Life' = Life /\ now' = now
    BY <1>3 DEF CheckIn, Renew, Life, InHand
  <2>4. deadline' = [deadline EXCEPT ![reg[id]] = deadline'[reg[id]]]
    BY <1>3, <2>1 DEF CheckIn, Renew, TypeOK
  <2>5. QED
    BY <2>1, <2>2, <2>3, <2>4 DEF Promise!Renew
<1>4. ASSUME NEW c \in Clients, NEW id \in Ids, Disarm(c, id)
      PROVE  Stutter \/ (reg[id] \in Structs /\ Promise!Cancel(reg[id]))
  <2>1. reg[id] \in Structs /\ status[reg[id]] # "new"
    BY <1>4 DEF Disarm, LockAndSave, LifeShape, TypeOK
  <2>2. InHand' = InHand /\ fires' = fires /\ now' = now /\ deadline' = deadline
    BY <1>4 DEF Disarm, InHand
  <2>3. CASE fires[reg[id]] > 0 \/ reg[id] \in InHand \/ status[reg[id]] = "cancelled"
    <3>1. Life' = Life
      BY <1>4, <2>1, <2>2, <2>3 DEF Disarm, Life, TypeOK
    <3>2. QED
      BY <2>2, <3>1
  <2>4. CASE ~(fires[reg[id]] > 0 \/ reg[id] \in InHand \/ status[reg[id]] = "cancelled")
    <3>1. status[reg[id]] = "armed"
      BY <2>1, <2>4 DEF LifeShape, TypeOK
    <3>2. Life[reg[id]] = "armed"
      BY <2>1, <2>4, <3>1 DEF Life
    <3>3. Life' = [Life EXCEPT ![reg[id]] = "cancelled"]
      BY <1>4, <2>1, <2>2, <2>4 DEF Disarm, Life, TypeOK
    <3>4. QED
      BY <2>1, <2>2, <3>2, <3>3 DEF Promise!Cancel
  <2>5. QED
    BY <2>3, <2>4
<1>5. CASE MonTick \/ MonExit \/ TriggerErr \/ MonSaveBegin \/ MonSaveEnd \/ MonSaveFail \/ MonCall
  <2>1. InHand' = InHand
    <3>1. CASE MonCall
      BY <3>1 DEF MonCall, InHand, TypeOK
    <3>2. CASE MonTick \/ MonExit \/ TriggerErr \/ MonSaveBegin
      BY <3>2 DEF MonTick, MonExit, TriggerErr, MonSaveBegin, InHand, TypeOK
    <3>3. CASE MonSaveEnd \/ MonSaveFail
      BY <3>3 DEF MonSaveEnd, MonSaveFail, MonDone, Onward, InHand, TypeOK
    <3>4. QED
      BY <1>5, <3>1, <3>2, <3>3
  <2>2. fires' = fires /\ status' = status /\ now' = now /\ deadline' = deadline
    BY <1>5 DEF MonTick, MonExit, TriggerErr, MonSaveBegin, MonSaveEnd, MonSaveFail, MonCall,
                swVars
  <2>3. Stutter
    BY <2>1, <2>2 DEF Life
  <2>4. QED
    BY <2>3 DEF Promise!vars
<1>6. CASE MonCollect
  <2>1. InHand = {} /\ InHand' = Due
    BY <1>6 DEF MonCollect, Onward, InHand, MonitorShape, TypeOK
  <2>2. \A o \in Due : o \in Structs /\ status[o] = "armed" /\ fires[o] = 0
    BY DEF Due, DeliveredRetired, TypeOK
  <2>3. Life' = Life
    BY <1>6, <2>1, <2>2 DEF MonCollect, Life
  <2>4. QED
    BY <1>6, <2>3 DEF MonCollect
<1>7. CASE TriggerOk
  <2>1. mon.cur \in Structs /\ mon.cur \in InHand /\ InHand' = InHand \ {mon.cur}
    BY <1>7 DEF TriggerOk, InHand, MonitorShape, TypeOK
  <2>2. fires[mon.cur] = 0 /\ Overdue(mon.cur, now)
    BY <2>1 DEF DeliveredRetired, InHandOverdue, TypeOK
  <2>3. Life[mon.cur] = "armed"
    BY <2>1, <2>2 DEF Life
  <2>4. fires' = [fires EXCEPT ![mon.cur] = 1]
    BY <1>7, <2>2 DEF TriggerOk
  <2>5. Life' = [Life EXCEPT ![mon.cur] = "delivered"]
    <3>1. \A o \in Structs : fires'[o] > 0 <=> fires[o] > 0 \/ o = mon.cur
      BY <2>1, <2>2, <2>4 DEF TypeOK
    <3>2. status' = status
      BY <1>7 DEF TriggerOk, swVars
    <3>3. Life' = [o \in Structs |-> IF o = mon.cur THEN "delivered" ELSE Life[o]]
      BY <2>1, <3>1, <3>2 DEF Life
    <3>4. QED
      BY <3>3 DEF Life
  <2>6. Promise!Deliver(mon.cur)
    BY <1>7, <2>2, <2>3, <2>5 DEF TriggerOk, swVars, Overdue, Promise!Deliver
  <2>7. QED
    BY <2>1, <2>6 DEF Promise!Next
<1>8. CASE MonRearm
  <2>1. mon.cur \in Structs /\ mon.cur \in InHand /\ InHand' = InHand \ {mon.cur}
    BY <1>8 DEF MonRearm, Onward, InHand, MonitorShape, TypeOK
  <2>2. fires[mon.cur] = 0
    BY <2>1 DEF DeliveredRetired, TypeOK
  <2>3. Life' = Life
    BY <1>8, <2>1, <2>2 DEF MonRearm, Life, TypeOK
  <2>4. QED
    BY <1>8, <2>3 DEF MonRearm
<1>9. CASE Stop
  BY <1>9 DEF Stop, swVars, Life, InHand
<1>10. CASE Tick
  <2>1. Life' = Life
    BY <1>10 DEF Tick, swVars, Life, InHand
  <2>2. Promise!Pass
    BY <1>10, <2>1 DEF Tick, swVars, Promise!Pass
  <2>3. QED
    BY <2>2 DEF Promise!Next
<1>11. CASE Crash
  <2>1. InHand' = {}
    BY <1>11 DEF Crash, InHand, Asleep
  <2>2. Life' = [o \in Structs |-> "new"]
    BY <1>11, <2>1 DEF Crash, Life
  <2>3. Promise!Forget
    BY <1>11, <2>2 DEF Crash, Promise!Forget
  <2>4. QED
    BY <2>3 DEF Promise!Next
<1>12. CASE Start
  <2>1. PICK g \in [Structs -> Ids \cup {Nil}] :
          /\ status' = [o \in Structs |-> IF g[o] = Nil THEN "new" ELSE "armed"]
          /\ deadline' = [o \in Structs |-> IF g[o] = Nil THEN 0 ELSE disk[g[o]].deadline]
    BY <1>12 DEF Start
  <2> DEFINE S == {o \in Structs : g[o] # Nil}
  <2>2. InHand = {} /\ InHand' = {} /\ \A o \in Structs : fires[o] = 0 /\ fires'[o] = 0
    BY <1>12 DEF Start, DownIsBlank, InHand, Asleep
  <2>3. \A o \in Structs : Life[o] = "new" /\ deadline[o] = 0
    BY <1>12, <2>2 DEF Start, LifeShape, Life
  <2>4. Life' = [o \in Structs |-> IF o \in S THEN "armed" ELSE Life[o]]
    BY <2>1, <2>2, <2>3 DEF Life
  <2>5. CASE S = {}
    <3>1. Life' = Life
      BY <2>4, <2>5 DEF Life
    <3>2. deadline' = deadline
      BY <2>1, <2>3, <2>5 DEF TypeOK
    <3>3. QED
      BY <1>12, <3>1, <3>2 DEF Start
  <2>6. CASE S # {}
    <3>1. \A o \in Structs \ S : deadline'[o] = deadline[o]
      BY <2>1, <2>3
    <3>2. DOMAIN deadline' = Structs
      BY <2>1
    <3>3. Promise!Arm(S)
      BY <1>12, <2>3, <2>4, <2>6, <3>1, <3>2 DEF Start, Promise!Arm
    <3>4. QED
      BY <3>3 DEF Promise!Next
  <2>7. QED
    BY <2>5, <2>6
<1>13. CASE UNCHANGED vars
  BY <1>13 DEF vars, Life, InHand
<1>14. ASSUME NEW c \in Clients, CallerStep(c) PROVE [Promise!Next]_<<now, Life, deadline>>
  <2>1. ASSUME NEW id \in Ids, NEW o \in Structs, NEW d \in Deadlines, NEW k \in Intervals,
               Arm(c, id, o, d, k)
        PROVE  Promise!Next
    BY <1>2, <2>1 DEF Promise!Next
  <2>2. ASSUME NEW id \in Ids, CheckIn(c, id) PROVE Promise!Next
    BY <1>3, <2>2 DEF Promise!Next
  <2>3. ASSUME NEW id \in Ids, Disarm(c, id)
        PROVE  [Promise!Next]_<<now, Life, deadline>>
    BY <1>4, <2>3 DEF Promise!Next
  <2>4. QED
    BY <1>1, <1>14, <2>1, <2>2, <2>3 DEF CallerStep
<1>15. QED
  BY <1>5, <1>6, <1>7, <1>8, <1>9, <1>10, <1>11, <1>12, <1>13, <1>14 DEF Next, MonitorStep

\* The manager with its monitor, mutex, files, callers and restarts implements
\* the lifecycle of DeadManPromise.
THEOREM Refinement == Spec => ImplementsPromise
<1>1. Init => Promise!Init /\ LifeShape
  BY DEF Init, Promise!Init, LifeShape, Life, InHand, Asleep
<1>2. IInv /\ LifeShape /\ [Next]_vars => LifeShape'
  BY LifeShapeStep
<1>3. IInv /\ LifeShape /\ [Next]_vars => [Promise!Next]_(Promise!vars)
  BY StepRefines DEF Promise!vars
<1>4. QED
  BY <1>1, <1>2, <1>3, InvariantHolds, PTL DEF Spec, ImplementsPromise, Promise!Spec

------------------------------------------------------------------------------
(***************************************************************************)
(* What a restart finds.  When one caller at a time calls the manager, a   *)
(* save of a caller is alone with the file until the message is out or the *)
(* monitor saves a struct that has been replaced, which spoils the file.   *)
(***************************************************************************)
KnownIds ==
  /\ \A o \in Structs : status[o] # "new" => idOf[o] \in Ids
  /\ \A id \in Ids : reg[id] # Nil => status[reg[id]] # "new" /\ idOf[reg[id]] = id

\* A caller saves the struct that is registered, and nobody fills the file it has
\* truncated, unless the message is out or the file is spoilt.
SavesAreAlone ==
  \A c \in Clients :
    /\ cl[c].pc # "idle" => reg[idOf[cl[c].obj]] = cl[c].obj
    /\ cl[c].pc = "write" /\ fires[cl[c].obj] = 0 /\ idOf[cl[c].obj] \notin spoilt
         => disk[idOf[cl[c].obj]] = TornFile

\* Nothing is promised of a registered switch whose message is out; the monitor saves
\* only such switches, and never as armed.
DeliveredIsSettled ==
  /\ \A o \in Structs : fires[o] > 0 => status[o] # "new"
  /\ \A id \in Ids : reg[id] # Nil /\ fires[reg[id]] > 0 => acked[id] = NoFile
  /\ mon.pc \in {"save", "write"} => fires[mon.cur] > 0
  /\ mon.pc = "write" => mon.buf.st # "armed"

KeptInv ==
  KnownIds /\ SavesAreAlone /\ DeliveredIsSettled /\ RestartKeepsAcked

OneCaller == \A c, d \in Clients : c = d

\* A caller's step: the calls touch no file before they save, and a save ends with the
\* file it confirms.
LEMMA CallerKeeps ==
  ASSUME IInv, KeptInv, OneCaller, NEW c \in Clients, CallerStep(c)
  PROVE  KeptInv'
<1> USE DEF IInv, KeptInv, RestartKeepsAcked
<1>1. TypeOK'
  BY CallerInv
<1>2. \A d \in Clients : d = c
  BY DEF OneCaller
<1>3. ASSUME NEW id \in Ids, NEW o \in Structs, NEW d \in Deadlines, NEW k \in Intervals,
            Arm(c, id, o, d, k) PROVE KeptInv'
  <2>1. /\ status[o] = "new" /\ idOf'[o] = id /\ status'[o] = "armed" /\ reg'[id] = o
        /\ \A p \in Structs : p # o => idOf'[p] = idOf[p] /\ status'[p] = status[p]
        /\ \A i \in Ids : i # id => reg'[i] = reg[i]
        /\ UNCHANGED <<disk, fires, mon, acked, spoilt>>
        /\ cl[c].pc = "idle" /\ cl'[c].pc = "save" /\ cl'[c].obj = o
    BY <1>3 DEF Arm, TypeOK, Idle
  <2>2. fires[o] = 0
    BY <2>1 DEF DeliveredRetired, TypeOK
  <2>3. KnownIds'
    BY <2>1, ConstantsAssumption DEF KnownIds, TypeOK
  <2>4. SavesAreAlone'
    BY <1>2, <2>1 DEF SavesAreAlone
  <2>5. DeliveredIsSettled'
    BY <2>1, <2>2 DEF DeliveredIsSettled, KnownIds, TypeOK
  <2>6. \A i \in Ids : ~Saving(i) /\ ~Saving(i)'
    BY <1>2, <2>1 DEF Saving
  <2>7. AckedArmDurable' /\ LoadsWhatWasSaid'
    BY <2>1, <2>6 DEF AckedArmDurable, LoadsWhatWasSaid
  <2>8. QED
    BY <2>3, <2>4, <2>5, <2>7
<1>4. ASSUME NEW id \in Ids, CheckIn(c, id) \/ Disarm(c, id) PROVE KeptInv'
  <2>1. /\ reg[id] \in Structs /\ status[reg[id]] # "new" /\ idOf[reg[id]] = id
        /\ cl' = [cl EXCEPT ![c] = [Idle EXCEPT !.pc = "save", !.obj = reg[id], !.locked = TRUE]]
        /\ cl[c].pc = "idle"
    BY <1>4 DEF CheckIn, Disarm, LockAndSave, KnownIds, TypeOK
  <2>2. cl'[c].pc = "save" /\ cl'[c].obj = reg[id]
    BY <2>1 DEF TypeOK, Idle
  <2>3. /\ UNCHANGED <<disk, fires, mon, reg, idOf, acked, spoilt>>
        /\ status' = status \/ status' = [status EXCEPT ![reg[id]] = "cancelled"]
    BY <1>4 DEF CheckIn, Disarm, Renew
  <2>4. \A p \in Structs : status'[p] = "new" <=> status[p] = "new"
    BY <2>1, <2>3 DEF TypeOK
  <2>5. KnownIds'
    BY <2>3, <2>4 DEF KnownIds, TypeOK
  <2>6. SavesAreAlone'
    BY <1>2, <2>1, <2>2, <2>3 DEF SavesAreAlone
  <2>7. DeliveredIsSettled'
    BY <2>3, <2>4 DEF DeliveredIsSettled, TypeOK
  <2>8. \A i \in Ids : ~Saving(i) /\ ~Saving(i)'
    BY <1>2, <2>1, <2>2 DEF Saving
  <2>9. AckedArmDurable' /\ LoadsWhatWasSaid'
    BY <2>3, <2>8 DEF AckedArmDurable, LoadsWhatWasSaid
  <2>10. QED
    BY <2>5, <2>6, <2>7, <2>9
<1>5. CASE SaveBegin(c) \/ SaveEnd(c) \/ SaveFail(c)
  <2> DEFINE o == cl[c].obj
             id == idOf[cl[c].obj]
  <2>1. o \in Structs /\ id \in Ids /\ reg[id] = o /\ status[o] # "new"
    BY <1>5 DEF SaveBegin, SaveEnd, SaveFail, SavesAllocated, KnownIds, SavesAreAlone, TypeOK
  <2>2. /\ UNCHANGED <<reg, idOf, status, fires, mon>>
        /\ \A i \in Ids : i # id => disk'[i] = disk[i] /\ acked'[i] = acked[i]
        /\ \A i \in Ids : i # id => (i \in spoilt' <=> i \in spoilt)
    BY <1>5 DEF SaveBegin, SaveEnd, SaveFail, swVars, TypeOK
  <2>3. KnownIds'
    BY <2>2 DEF KnownIds
  <2>4. \A i \in Ids : i # id => ~Saving(i) /\ ~Saving(i)'
    <3>1. cl'[c] = Idle \/ cl'[c].obj = o
      BY <1>5 DEF SaveBegin, SaveEnd, SaveFail, TypeOK
    <3>2. QED
      BY <1>2, <2>2, <3>1 DEF Saving, Idle
  <2>5. CASE SaveBegin(c)
    <3>1. /\ acked' = acked /\ disk'[id] = TornFile /\ cl'[c].pc = "write" /\ cl'[c].obj = o
          /\ id \notin spoilt'
      BY <2>1, <2>5 DEF SaveBegin, TypeOK
    <3>2. SavesAreAlone'
      BY <1>2, <2>1, <2>2, <3>1 DEF SavesAreAlone
    <3>3. DeliveredIsSettled'
      BY <2>2, <3>1 DEF DeliveredIsSettled
    <3>4. Saving(id)'
      BY <2>2, <3>1 DEF Saving
    <3>5. AckedArmDurable'
      BY <2>2, <2>4, <3>1, <3>4 DEF AckedArmDurable
    <3>6. LoadsWhatWasSaid'
      BY <2>2, <3>1 DEF LoadsWhatWasSaid, TornFile
    <3>7. QED
      BY <2>3, <3>2, <3>3, <3>5, <3>6
  <2>6. CASE SaveEnd(c)
    <3>1. /\ cl'[c].pc = "idle" /\ disk'[id] \in Written(id, cl[c].buf)
          /\ acked'[id] = IF fires[o] = 0 THEN cl[c].buf ELSE NoFile
          /\ spoilt' = spoilt /\ cl[c].pc = "write"
      BY <2>1, <2>6 DEF SaveEnd, TypeOK, Idle
    <3>2. SavesAreAlone'
      BY <1>2, <3>1 DEF SavesAreAlone
    <3>3. DeliveredIsSettled'
      BY <2>1, <2>2, <3>1 DEF DeliveredIsSettled, TypeOK
    <3>4. disk'[id] = cl[c].buf \/ disk'[id] = TornFile
      BY <3>1 DEF Written
    <3>5. fires[o] = 0 /\ id \notin spoilt => disk'[id] = cl[c].buf
      BY <3>1 DEF SavesAreAlone, Written
    <3>6. AckedArmDurable'
      <4>1. ASSUME NEW i \in Ids, acked'[i].st = "armed", ~Saving(i)', i \notin spoilt'
            PROVE  disk'[i] = acked'[i]
        <5>1. CASE i = id
          BY <3>1, <3>5, <4>1, <5>1 DEF NoFile
        <5>2. CASE i # id
          BY <2>2, <2>4, <3>1, <4>1, <5>2 DEF AckedArmDurable
        <5>3. QED
          BY <5>1, <5>2
      <4>2. QED
        BY <4>1 DEF AckedArmDurable
    <3>7. LoadsWhatWasSaid'
      BY <2>2, <3>1, <3>4 DEF LoadsWhatWasSaid, TornFile
    <3>8. QED
      BY <2>3, <3>2, <3>3, <3>6, <3>7
  <2>7. CASE SaveFail(c)
    <3>1. acked'[id] = NoFile /\ disk' = disk /\ spoilt' = spoilt /\ cl'[c].pc = "idle"
      BY <2>1, <2>7 DEF SaveFail, TypeOK, Idle
    <3>2. SavesAreAlone'
      BY <1>2, <3>1 DEF SavesAreAlone
    <3>3. DeliveredIsSettled'
      BY <2>2, <3>1 DEF DeliveredIsSettled
    <3>4. AckedArmDurable'
      BY <2>2, <2>4, <3>1 DEF AckedArmDurable, NoFile
    <3>5. LoadsWhatWasSaid'
      BY <2>2, <3>1 DEF LoadsWhatWasSaid
    <3>6. QED
      BY <2>3, <3>2, <3>3, <3>4, <3>5
  <2>8. QED
    BY <1>5, <2>5, <2>6, <2>7
<1>6. QED
  BY <1>3, <1>4, <1>5 DEF CallerStep

\* The monitor writes only files of which nothing is promised any more, or spoils them.
LEMMA MonitorKeeps ==
  ASSUME IInv, KeptInv, MonitorStep
  PROVE  KeptInv'
<1> USE DEF IInv, KeptInv, RestartKeepsAcked
<1> USE DEF Saving
<1>1. CASE MonTick \/ MonCall \/ TriggerErr \/ MonExit \/ MonSaveFail
  <2>1. /\ UNCHANGED <<reg, idOf, status, disk, cl, fires, acked, spoilt>>
        /\ mon'.pc \notin {"save", "write"}
    BY <1>1 DEF MonTick, MonCall, TriggerErr, MonExit, MonSaveFail, MonDone, Onward, swVars, TypeOK
  <2>2. QED
    BY <2>1 DEF KnownIds, SavesAreAlone, DeliveredIsSettled, AckedArmDurable, LoadsWhatWasSaid
<1>2. CASE MonCollect \/ MonRearm
  <2>1. /\ UNCHANGED <<reg, idOf, disk, cl, fires, acked, spoilt>> /\ mon'.pc \notin {"save", "write"}
        /\ \A p \in Structs : status'[p] = "new" <=> status[p] = "new"
    <3>1. CASE MonCollect
      BY <3>1 DEF MonCollect, Onward, Due, TypeOK
    <3>2. CASE MonRearm
      <4>1. mon.cur \in InHand /\ status[mon.cur] # "new"
        BY <3>2 DEF MonRearm, InHand, InHandOverdue
      <4>2. QED
        BY <3>2, <4>1 DEF MonRearm, Onward, TypeOK
    <3>3. QED
      BY <1>2, <3>1, <3>2
  <2>2. KnownIds'
    BY <2>1 DEF KnownIds, TypeOK
  <2>3. QED
    BY <2>1, <2>2 DEF SavesAreAlone, DeliveredIsSettled, AckedArmDurable, LoadsWhatWasSaid
<1>3. CASE TriggerOk
  <2> DEFINE o == mon.cur
             id == idOf[mon.cur]
  <2>1. o \in Structs /\ o \in InHand /\ status[o] # "new" /\ id \in Ids
    BY <1>3 DEF TriggerOk, MonitorShape, InHand, InHandOverdue, KnownIds
  <2>2. /\ UNCHANGED <<reg, idOf, status, disk, cl, spoilt>>
        /\ \A i \in Ids : acked'[i] = acked[i] \/ acked'[i] = NoFile
        /\ reg[id] = o => acked'[id] = NoFile
        /\ fires'[o] = fires[o] + 1 /\ \A p \in Structs : p # o => fires'[p] = fires[p]
        /\ mon'.cur = o /\ mon'.pc = "save"
    BY <1>3, <2>1 DEF TriggerOk, Registered, swVars, TypeOK
  <2>3. KnownIds'
    BY <2>2 DEF KnownIds
  <2>4. SavesAreAlone'
    <3>1. ASSUME NEW c \in Clients, cl[c].pc # "idle"
          PROVE  fires'[cl[c].obj] = 0 => fires[cl[c].obj] = 0
      BY <2>1, <2>2, <3>1 DEF SavesAllocated, TypeOK
    <3>2. QED
      BY <2>2, <3>1 DEF SavesAreAlone
  <2>5. DeliveredIsSettled'
    <3>1. fires'[o] > 0
      BY <2>1, <2>2 DEF TypeOK
    <3>2. ASSUME NEW i \in Ids, reg[i] # Nil, fires'[reg[i]] > 0 PROVE acked'[i] = NoFile
      <4>1. reg[i] \in Structs /\ idOf[reg[i]] = i
        BY <3>2 DEF KnownIds, TypeOK
      <4>2. CASE reg[i] = o
        BY <2>2, <4>1, <4>2
      <4>3. CASE reg[i] # o
        BY <2>2, <3>2, <4>1, <4>3 DEF DeliveredIsSettled
      <4>4. QED
        BY <4>2, <4>3
    <3>3. \A p \in Structs : fires'[p] > 0 => status[p] # "new"
      BY <2>1, <2>2 DEF DeliveredIsSettled
    <3>4. QED
      BY <2>2, <3>1, <3>2, <3>3 DEF DeliveredIsSettled
  <2>6. AckedArmDurable' /\ LoadsWhatWasSaid'
    BY <2>2 DEF AckedArmDurable, LoadsWhatWasSaid, NoFile
  <2>7. QED
    BY <2>3, <2>4, <2>5, <2>6
<1>4. CASE MonSaveBegin \/ MonSaveEnd
  <2> DEFINE o == mon.cur
             id == idOf[mon.cur]
  <2>1. o \in Structs /\ fires[o] > 0 /\ id \in Ids
    BY <1>4 DEF MonSaveBegin, MonSaveEnd, MonitorShape, DeliveredIsSettled, KnownIds
  <2>2. reg[id] = o => acked[id] = NoFile
    BY <2>1, ConstantsAssumption DEF DeliveredIsSettled
  <2>3. /\ UNCHANGED <<reg, idOf, status, cl, fires, acked>>
        /\ \A i \in Ids : i # id => disk'[i] = disk[i]
        /\ mon'.pc \in {"save", "write"} => mon'.cur = o
    BY <1>4 DEF MonSaveBegin, MonSaveEnd, MonDone, Onward, swVars, TypeOK
  <2>4. spoilt \subseteq spoilt' /\ (reg[id] # o => id \in spoilt')
    BY <1>4, <2>1 DEF MonSaveBegin, MonSaveEnd, Spoils
  <2>5. disk'[id].st # "armed"
    <3>1. CASE MonSaveBegin
      BY <2>1, <3>1 DEF MonSaveBegin, TornFile, TypeOK
    <3>2. CASE MonSaveEnd
      BY <2>1, <3>2 DEF MonSaveEnd, Written, TornFile, DeliveredIsSettled, TypeOK
    <3>3. QED
      BY <1>4, <3>1, <3>2
  <2>6. KnownIds'
    BY <2>3 DEF KnownIds
  <2>7. SavesAreAlone'
    <3>1. ASSUME NEW c \in Clients, cl[c].pc = "write", fires[cl[c].obj] = 0,
                 idOf[cl[c].obj] \notin spoilt'
          PROVE  disk'[idOf[cl[c].obj]] = TornFile
      <4>1. /\ cl[c].obj \in Structs /\ reg[idOf[cl[c].obj]] = cl[c].obj
            /\ idOf[cl[c].obj] \in Ids
        BY <3>1 DEF SavesAllocated, KnownIds, SavesAreAlone
      <4>2. cl[c].obj # o
        BY <2>1, <3>1 DEF TypeOK
      <4>3. idOf[cl[c].obj] # id
        BY <2>4, <3>1, <4>1, <4>2
      <4>4. QED
        BY <2>3, <2>4, <3>1, <4>1, <4>3 DEF SavesAreAlone
    <3>2. QED
      BY <2>3, <3>1 DEF SavesAreAlone
  <2>8. DeliveredIsSettled'
    <3>1. mon'.pc = "write" => mon'.buf.st # "armed"
      <4>1. CASE MonSaveBegin
        <5>1. status[o] # "armed" /\ mon'.buf = Snapshot(o)
          BY <2>1, <4>1 DEF MonSaveBegin, DeliveredRetired, TypeOK
        <5>2. QED
          BY <5>1 DEF Snapshot
      <4>2. CASE MonSaveEnd
        BY <4>2 DEF MonSaveEnd, MonDone, Onward, TypeOK
      <4>3. QED
        BY <1>4, <4>1, <4>2
    <3>2. QED
      BY <2>1, <2>3, <3>1 DEF DeliveredIsSettled
  <2>9. AckedArmDurable'
    BY <2>2, <2>3, <2>4 DEF AckedArmDurable, NoFile
  <2>10. LoadsWhatWasSaid'
    BY <2>3, <2>5 DEF LoadsWhatWasSaid
  <2>11. QED
    BY <2>6, <2>7, <2>8, <2>9, <2>10
<1>5. QED
  BY <1>1, <1>2, <1>3, <1>4 DEF MonitorStep

\* A death spoils the file that was being saved; a new life begins with one struct for
\* each file that says armed.
LEMMA ProcessKeeps ==
  ASSUME IInv, KeptInv, Stop \/ Crash \/ Start \/ Tick
  PROVE  KeptInv'
<1> USE DEF IInv, KeptInv, RestartKeepsAcked
<1>1. CASE Stop \/ Tick
  BY <1>1 DEF Stop, Tick, swVars, KnownIds, SavesAreAlone, DeliveredIsSettled,
              AckedArmDurable, LoadsWhatWasSaid, Saving
<1>2. CASE Crash
  <2>1. KnownIds' /\ SavesAreAlone' /\ DeliveredIsSettled'
    BY <1>2 DEF Crash, KnownIds, SavesAreAlone, DeliveredIsSettled, Idle, Asleep
  <2>2. \A id \in Ids : Saving(id) \/ id \in spoilt => id \in spoilt'
    BY <1>2 DEF Crash
  <2>3. disk' = disk /\ acked' = acked
    BY <1>2 DEF Crash
  <2>4. AckedArmDurable' /\ LoadsWhatWasSaid'
    BY <2>2, <2>3 DEF AckedArmDurable, LoadsWhatWasSaid
  <2>5. QED
    BY <2>1, <2>4
<1>3. CASE Start
  <2>1. PICK f \in [Ids -> Structs \cup {Nil}], g \in [Structs -> Ids \cup {Nil}] :
          /\ \A id \in Ids, o \in Structs : f[id] = o <=> g[o] = id
          /\ reg' = f /\ idOf' = g
          /\ status' = [o \in Structs |-> IF g[o] = Nil THEN "new" ELSE "armed"]
    BY <1>3 DEF Start
  <2>2. KnownIds'
    BY <2>1, ConstantsAssumption DEF KnownIds
  <2>3. mon = Asleep /\ (\A c \in Clients : cl[c] = Idle) /\ (\A o \in Structs : fires[o] = 0)
    BY <1>3 DEF Start, DownIsBlank
  <2>4. UNCHANGED <<disk, cl, mon, fires, acked, spoilt>>
    BY <1>3 DEF Start
  <2>5. SavesAreAlone'
    BY <2>3, <2>4 DEF SavesAreAlone, Idle
  <2>6. DeliveredIsSettled'
    BY <2>1, <2>3, <2>4 DEF DeliveredIsSettled, Asleep
  <2>7. \A id \in Ids : ~Saving(id) /\ ~Saving(id)'
    BY <2>3, <2>4 DEF Saving, Idle
  <2>8. AckedArmDurable' /\ LoadsWhatWasSaid'
    BY <2>4, <2>7 DEF AckedArmDurable, LoadsWhatWasSaid
  <2>9. QED
    BY <2>2, <2>5, <2>6, <2>8
<1>4. QED
  BY <1>1, <1>2, <1>3

\* What the last successful Arm, CheckIn or Disarm of an ID saved is what a restart
\* loads, whatever IDs are armed again and wherever the process dies, except where a
\* death in the middle of a save or the save of a replaced switch spoilt its file: for
\* callers that call one at a time, as the MCP server does.
THEOREM RestartsKeepWhatWasSaid ==
  ASSUME OneCaller
  PROVE  Spec => []RestartKeepsAcked
<1>1. Init => KeptInv
  BY DEF Init, KeptInv, RestartKeepsAcked, KnownIds, SavesAreAlone, DeliveredIsSettled,
         AckedArmDurable, LoadsWhatWasSaid, Idle, Asleep, NoFile
<1>2. ASSUME IInv, KeptInv, [Next]_vars PROVE KeptInv'
  <2>1. CASE UNCHANGED vars
    BY <1>2, <2>1 DEF vars, KeptInv, RestartKeepsAcked, KnownIds, SavesAreAlone,
                      DeliveredIsSettled, AckedArmDurable, LoadsWhatWasSaid, Saving
  <2>2. QED
    BY <1>2, <2>1, CallerKeeps, MonitorKeeps, ProcessKeeps DEF Next
<1>3. KeptInv => RestartKeepsAcked
  BY DEF KeptInv
<1>4. QED
  BY <1>1, <1>2, <1>3, InvariantHolds, PTL DEF Spec

==============================================================================
