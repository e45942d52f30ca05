---------------------------- MODULE DeadManPromise ----------------------------
(***************************************************************************)
(* What the dead man's switch manager promises about one armed switch:     *)
(* its message goes out at most once, only when its deadline and grace     *)
(* period have passed, and never after a cancellation that took effect.    *)
(* The monitor, the mutex, the files and the callers' interleavings are    *)
(* invisible here.                                                         *)
(***************************************************************************)
EXTENDS Integers

CONSTANTS Structs, Grace

VARIABLES
  now,   \* the clock
  life,  \* new, armed, delivered or cancelled
  due    \* the deadline of each armed switch

vars == <<now, life, due>>

Init ==
  /\ now = 0
  /\ life = [o \in Structs |-> "new"]
  /\ due = [o \in Structs |-> 0]

\* One switch is armed, or (after a restart) several at once; the deadlines of
\* the others stay.
Arm(S) ==
  /\ S # {}
  /\ \A o \in S : life[o] = "new"
  /\ life' = [o \in Structs |-> IF o \in S THEN "armed" ELSE life[o]]
  /\ \A o \in Structs \ S : due'[o] = due[o]
  /\ DOMAIN due' = Structs
  /\ UNCHANGED now

\* A check-in moves the deadline of an armed switch.
Renew(o) ==
  /\ life[o] = "armed"
  /\ due' = [due EXCEPT ![o] = due'[o]]
  /\ UNCHANGED <<now, life>>

Deliver(o) ==
  /\ life[o] = "armed"
  /\ now > due[o] + Grace
  /\ life' = [life EXCEPT ![o] = "delivered"]
  /\ UNCHANGED <<now, due>>

Cancel(o) ==
  /\ life[o] = "armed"
  /\ life' = [life EXCEPT ![o] = "cancelled"]
  /\ UNCHANGED <<now, due>>

\* The process dies and forgets.
Forget ==
  /\ life' = [o \in Structs |-> "new"]
  /\ due' = [o \in Structs |-> 0]
  /\ UNCHANGED now

Pass ==
  /\ now' = now + 1
  /\ UNCHANGED <<life, due>>

Next ==
  \/ \E S \in SUBSET Structs : Arm(S)
  \/ \E o \in Structs : Renew(o) \/ Deliver(o) \/ Cancel(o)
  \/ Forget \/ Pass

Spec == Init /\ [][Next]_vars

==============================================================================
