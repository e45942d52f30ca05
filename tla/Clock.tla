--------------------------------- MODULE Clock ---------------------------------
(***************************************************************************)
(* time.Now() of one process, shared by the components that wait for it.   *)
(***************************************************************************)
EXTENDS Integers

CONSTANT MaxTime \* bound on the clock

ASSUME ClockAssumption == MaxTime \in Nat

VARIABLE now

ClockInit == now = 0

Advance == now < MaxTime /\ now' = now + 1

==============================================================================
