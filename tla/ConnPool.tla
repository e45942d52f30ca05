------------------------------- MODULE ConnPool -------------------------------
(***************************************************************************)
(* The gRPC connections of pkg/accounts/msgsglobal.go: one per gateway, in *)
(* a package-level map whose mutex is held while a connection is dialled.  *)
(* Callers are goroutines that create a client, use it, and close it or    *)
(* drop it.                                                                *)
(***************************************************************************)
EXTENDS Integers

CONSTANTS
  Callers,
  Gateways,
  DefaultGateway,
  MaxDials, \* bound on the connections ever dialled; they are numbered from 1
  None      \* no gateway is configured; the mutex is free

ASSUME PoolAssumption ==
  MaxDials \in Nat /\ DefaultGateway \in Gateways /\ None \notin Callers \cup Gateways

VARIABLES
  pool,   \* grpcConnPool: the gateway's connection, 0 without one
  opened, \* connections dialled and not closed
  dials,  \* connections dialled so far
  mutex,  \* grpcConnMu: its holder
  at,     \* where each caller is
  gw,     \* the gateway of each caller's client; None before the first
  conn    \* the connection of each caller's client, 0 without one

poolVars == <<pool, opened, dials, mutex, at, gw, conn>>

PoolInit ==
  /\ pool = [g \in Gateways |-> 0]
  /\ opened = {}
  /\ dials = 0
  /\ mutex = None
  /\ at = [k \in Callers |-> "idle"]
  /\ gw = [k \in Callers |-> None]
  /\ conn = [k \in Callers |-> 0]

NewClientAsConfigured(k, g) ==
  /\ at[k] = "idle"
  /\ at' = [at EXCEPT ![k] = "waiting"]
  /\ gw' = [gw EXCEPT ![k] = g]
  /\ UNCHANGED <<pool, opened, dials, mutex, conn>>

\* NewMsgsGlobalClient, when the account's keys are good: an account without a
\* gateway gets the default one, and the caller asks for the mutex.
NewClient(k, g) ==
  /\ at[k] = "idle"
  /\ at' = [at EXCEPT ![k] = "waiting"]
  /\ gw' = [gw EXCEPT ![k] = IF g = None THEN DefaultGateway ELSE g]
  /\ UNCHANGED <<pool, opened, dials, mutex, conn>>

LookupUnlocked(k) ==
  /\ at[k] = "waiting"
  /\ IF pool[gw[k]] # 0
     THEN /\ at' = [at EXCEPT ![k] = "using"]
          /\ conn' = [conn EXCEPT ![k] = pool[gw[k]]]
          /\ UNCHANGED mutex
     ELSE /\ at' = [at EXCEPT ![k] = "dialling"]
          /\ mutex' = k
          /\ UNCHANGED conn
  /\ UNCHANGED <<pool, opened, dials, gw>>

\* Under the mutex: a pooled connection is taken as it is, and the mutex is
\* free again; otherwise the caller dials and keeps it.
Lookup(k) ==
  /\ at[k] = "waiting" /\ mutex = None
  /\ IF pool[gw[k]] # 0
     THEN /\ at' = [at EXCEPT ![k] = "using"]
          /\ conn' = [conn EXCEPT ![k] = pool[gw[k]]]
          /\ UNCHANGED mutex
     ELSE /\ at' = [at EXCEPT ![k] = "dialling"]
          /\ mutex' = k
          /\ UNCHANGED conn
  /\ UNCHANGED <<pool, opened, dials, gw>>

DialSucceeds(k) ==
  /\ at[k] = "dialling" /\ dials < MaxDials
  /\ dials' = dials + 1
  /\ opened' = opened \cup {dials'}
  /\ pool' = [pool EXCEPT ![gw[k]] = dials']
  /\ conn' = [conn EXCEPT ![k] = dials']
  /\ at' = [at EXCEPT ![k] = "using"]
  /\ mutex' = None
  /\ UNCHANGED gw

DialFailsLocked(k) ==
  /\ at[k] = "dialling"
  /\ at' = [at EXCEPT ![k] = "idle"]
  /\ UNCHANGED <<pool, opened, dials, mutex, gw, conn>>

\* The dial fails, or its ten seconds are over.
DialFails(k) ==
  /\ at[k] = "dialling"
  /\ at' = [at EXCEPT ![k] = "idle"]
  /\ mutex' = None
  /\ UNCHANGED <<pool, opened, dials, gw, conn>>

\* Close closes the client's connection; the pool keeps it.
CloseClient(k) ==
  /\ at[k] = "using"
  /\ opened' = opened \ {conn[k]}
  /\ at' = [at EXCEPT ![k] = "idle"]
  /\ conn' = [conn EXCEPT ![k] = 0]
  /\ UNCHANGED <<pool, dials, mutex, gw>>

\* The composer drops its client without closing it.
DropClient(k) ==
  /\ at[k] = "using"
  /\ at' = [at EXCEPT ![k] = "idle"]
  /\ conn' = [conn EXCEPT ![k] = 0]
  /\ UNCHANGED <<pool, opened, dials, mutex, gw>>

CloseConnectionForGateway(g) ==
  /\ mutex = None /\ pool[g] # 0
  /\ pool' = [pool EXCEPT ![g] = 0]
  /\ opened' = opened \ {pool[g]}
  /\ UNCHANGED <<dials, mutex, at, gw, conn>>

CloseAllConnections ==
  /\ mutex = None
  /\ pool' = [g \in Gateways |-> 0]
  /\ opened' = opened \ {pool[g] : g \in Gateways}
  /\ UNCHANGED <<dials, mutex, at, gw, conn>>

PoolNext ==
  \/ \E k \in Callers :
       \/ \E g \in Gateways \cup {None} : NewClient(k, g)
       \/ Lookup(k) \/ DialSucceeds(k) \/ DialFails(k) \/ CloseClient(k) \/ DropClient(k)
  \/ \E g \in Gateways : CloseConnectionForGateway(g)
  \/ CloseAllConnections

PoolSpec == PoolInit /\ [][PoolNext]_poolVars

\* A dial ends, if only by its timeout, and a Go mutex starves nobody.  None
\* has to use a client or close anything.
PoolFairness ==
  \A k \in Callers :
    /\ WF_poolVars(DialSucceeds(k) \/ DialFails(k))
    /\ SF_poolVars(Lookup(k))

------------------------------------------------------------------------------
(***************************************************************************)
(* Properties                                                              *)
(***************************************************************************)

PoolTypeOK ==
  /\ pool \in [Gateways -> 0..dials]
  /\ opened \subseteq 1..dials
  /\ dials \in 0..MaxDials
  /\ mutex \in Callers \cup {None}
  /\ at \in [Callers -> {"idle", "waiting", "dialling", "using"}]
  /\ gw \in [Callers -> Gateways \cup {None}]
  /\ \A k \in Callers : at[k] # "idle" => gw[k] \in Gateways
  /\ conn \in [Callers -> 0..dials]

\* No connection is open that the pool does not know, however many callers ask
\* for the same gateway at once: CloseAllConnections reaches all of them.
NoConnectionLeaks == \A n \in opened : \E g \in Gateways : pool[g] = n

\* A caller that waits for the pool gets a connection or an error, even if the
\* gateway of another caller does not answer.
CallersAreServed ==
  \A k \in Callers : at[k] = "waiting" ~> at[k] \in {"using", "idle"}

==============================================================================
