------------------------------- MODULE Accounts -------------------------------
(***************************************************************************)
(* What outlives a call in pkg/accounts: the stored tokens and the pool of *)
(* connections.                                                            *)
(***************************************************************************)
EXTENDS TokenStore, ConnPool

vars == <<tokenVars, poolVars>>

Init == TokenInit /\ PoolInit

TokenStep == TokenNext /\ UNCHANGED poolVars
PoolStep == PoolNext /\ UNCHANGED tokenVars

Next == TokenStep \/ PoolStep

Spec == Init /\ [][Next]_vars

TypeOK == TokenTypeOK /\ PoolTypeOK

(***************************************************************************)
(* For TLC: tokens and connections share no state, so one behaviour uses   *)
(* one of them; interleaving the two adds nothing to what each of them     *)
(* does.                                                                   *)
(***************************************************************************)
OneService == TokenInit \/ PoolInit

MCSpec == Init /\ [][Next /\ OneService']_vars /\ PoolFairness

==============================================================================
