------------------------------ MODULE TokenStore ------------------------------
(***************************************************************************)
(* OAuth tokens of one mail account: pkg/accounts/oauth_refresh.go and     *)
(* oauth_helpers.go over the account table of pkg/storage/db.go and the    *)
(* keychain of pkg/accounts/keychain.go.  Several clients of the account,  *)
(* in one process or in several, read their first token from storage,      *)
(* refresh it when they need to, and write what they are given back: the   *)
(* access token to the keychain, the refresh token to the row.             *)
(*                                                                         *)
(* Tokens are generations, 0 is the empty string.  "Refresh token might    *)
(* not change" (oauth_helpers.go:59): one kind of provider hands out a new *)
(* refresh token with every refresh and takes the old one back, the other, *)
(* which Google and Microsoft are, goes on honouring every refresh token   *)
(* it has handed out, whether it returns a new one or not.                 *)
(***************************************************************************)
EXTENDS Integers, TLC

CONSTANTS
  Clients,  \* Gmail or Outlook clients of the account
  MaxGen,   \* bound on the provider's generations
  MaxFaults \* bound on the failures of storage, and on exits half way through

ASSUME TokenAssumption == MaxGen \in Nat \ {0} /\ MaxFaults \in Nat

VARIABLES
  provider, \* the kind of provider
  issued,   \* the provider: the latest generation it has handed out
  row,      \* accounts.oauth_refresh_token
  secret,   \* keychain: "OAuthToken"
  password, \* keychain: "Password", 1 when it holds one
  stage,    \* where each client is
  access,   \* notifyTokenSource.tok.AccessToken of each client
  refresh,  \* notifyTokenSource.tok.RefreshToken of each client
  read,     \* the password GetAccount returned to each client's callback
  faults

tokenVars ==
  <<provider, issued, row, secret, password, stage, access, refresh, read, faults>>

Empty == 0

Generations == 0..MaxGen

Kinds == {"rotating", "keeping"}

Persisting == {"notified", "storing", "storing token", "saving"}
Stages == {"closed", "opening", "idle"} \cup Persisting

TokenInit ==
  /\ provider \in Kinds
  /\ issued = 1 /\ row = 1 /\ secret = 1 /\ password = 1
  /\ stage = [c \in Clients |-> "closed"]
  /\ access = [c \in Clients |-> Empty]
  /\ refresh = [c \in Clients |-> Empty]
  /\ read = [c \in Clients |-> Empty]
  /\ faults = 0

Goes(c, to) == stage' = [stage EXCEPT ![c] = to]

Fault == faults < MaxFaults /\ faults' = faults + 1

\* A step that works, or fails and leaves x alone.
Works(x, new) == \/ x' = new /\ UNCHANGED faults
                 \/ Fault /\ UNCHANGED x

\* GetAccount for a new client: first the row, then the keychain, where an
\* error leaves the access token empty.
OpenRow(c) ==
  /\ stage[c] = "closed"
  /\ Goes(c, "opening")
  /\ refresh' = [refresh EXCEPT ![c] = row]
  /\ UNCHANGED <<issued, row, secret, password, access, read, faults>>

OpenSecret(c) ==
  /\ stage[c] = "opening"
  /\ Goes(c, "idle")
  /\ Works(access, [access EXCEPT ![c] = secret])
  /\ UNCHANGED <<issued, row, secret, password, refresh, read>>

\* The source beneath returns the cached token while it is valid, ...
Cached(c, a, r) ==
  access[c] # Empty /\ a = access[c] /\ r = refresh[c] /\ UNCHANGED issued

Rotates == provider = "rotating"

Honoured(r) == r # Empty /\ (Rotates => r = issued)

\* ... or the next generation, if the provider honours the refresh token;
\* otherwise an error, and Token returns it.
Refreshed(c, a, r) ==
  /\ Honoured(refresh[c]) /\ issued < MaxGen
  /\ issued' = issued + 1 /\ a = issued'
  /\ r = issued' \/ (~Rotates /\ r = refresh[c])

ChangedAlways(c, a, r) == TRUE

Changed(c, a, r) == access[c] # a \/ refresh[c] # r

\* Token, up to the callback, which runs under the source's mutex.
Token(c) ==
  /\ stage[c] = "idle"
  /\ \E a, r \in Generations :
       /\ Cached(c, a, r) \/ Refreshed(c, a, r)
       /\ access' = [access EXCEPT ![c] = a]
       /\ refresh' = [refresh EXCEPT ![c] = r]
       /\ IF Changed(c, a, r) THEN Goes(c, "notified") ELSE UNCHANGED stage
  /\ UNCHANGED <<row, secret, password, read, faults>>

\* The callback: GetAccount.  When it fails the callback returns; when only the
\* keychain fails, the password it hands back is empty.
CallbackReads(c) ==
  /\ stage[c] = "notified"
  /\ \/ /\ Goes(c, "storing")
        /\ Works(read, [read EXCEPT ![c] = password])
     \/ Goes(c, "idle") /\ Fault /\ UNCHANGED read
  /\ UNCHANGED <<issued, row, secret, password, access, refresh>>

StoredAsGiven(data, old) == data

\* StoreAccountSecret skips empty data.
Stored(data, old) == IF data = Empty THEN old ELSE data

\* UpdateAccount writes the keychain first, logging its errors, ...
StorePassword(c) ==
  /\ stage[c] = "storing"
  /\ Goes(c, "storing token")
  /\ Works(password, Stored(read[c], password))
  /\ read' = [read EXCEPT ![c] = Empty]
  /\ UNCHANGED <<issued, row, secret, access, refresh>>

StoreToken(c) ==
  /\ stage[c] = "storing token"
  /\ Goes(c, "saving")
  /\ Works(secret, Stored(access[c], secret))
  /\ UNCHANGED <<issued, row, password, access, refresh, read>>

SaveExpiryOnly(c) ==
  /\ stage[c] = "saving"
  /\ Goes(c, "idle")
  /\ UNCHANGED <<issued, row, secret, password, access, refresh, read, faults>>

\* ... and then the row.  Its error is logged by the callback, which cannot
\* return one.
SaveRow(c) ==
  /\ stage[c] = "saving"
  /\ Goes(c, "idle")
  /\ Works(row, refresh[c])
  /\ UNCHANGED <<issued, secret, password, access, refresh, read>>

\* The client's process ends, or drops the client.
Exit(c) ==
  /\ stage[c] # "closed"
  /\ IF stage[c] \in Persisting THEN Fault ELSE UNCHANGED faults
  /\ Goes(c, "closed")
  /\ access' = [access EXCEPT ![c] = Empty]
  /\ refresh' = [refresh EXCEPT ![c] = Empty]
  /\ read' = [read EXCEPT ![c] = Empty]
  /\ UNCHANGED <<issued, row, secret, password>>

\* The provider stays of its kind.
TokenNext ==
  /\ \E c \in Clients :
       \/ OpenRow(c) \/ OpenSecret(c) \/ Token(c) \/ CallbackReads(c)
       \/ StorePassword(c) \/ StoreToken(c) \/ SaveRow(c) \/ Exit(c)
  /\ UNCHANGED provider

TokenSpec == TokenInit /\ [][TokenNext]_tokenVars

------------------------------------------------------------------------------
(***************************************************************************)
(* Properties                                                              *)
(***************************************************************************)

TokenTypeOK ==
  /\ provider \in Kinds
  /\ issued \in Generations /\ row \in Generations /\ secret \in Generations
  /\ password \in {Empty, 1}
  /\ stage \in [Clients -> Stages]
  /\ access \in [Clients -> Generations]
  /\ refresh \in [Clients -> Generations]
  /\ read \in [Clients -> {Empty, 1}]
  /\ faults \in Nat

\* With a provider that rotates, and whatever fails: however the callbacks of
\* several clients interleave, storage never goes back to an older token, which
\* the provider would refuse.  (With one that keeps, a late callback does write
\* an older token over a newer one.)
TokensNeverGoBack ==
  [][Rotates => row' >= row /\ secret' >= secret]_tokenVars

Quiet == faults = 0 /\ \A c \in Clients : stage[c] \notin Persisting

\* Between callbacks, and as long as nothing has failed, storage holds a refresh
\* token that the provider honours, though other clients may have refreshed with
\* the one that was there; from a provider that rotates, it also holds the latest
\* access token.
StoreIsCurrent ==
  Quiet => Honoured(row) /\ (Rotates => secret = issued)

\* A refresh writes back the whole account it read, and GetAccount turns a
\* keychain error into an empty password: the stored password survives it.
PasswordSurvives == password # Empty

\* "This ensures that refreshed tokens are not lost on application restart"
\* (oauth_helpers.go:19), though a callback fails: what a client will refresh
\* with next time is what a restarted one would read.
RefreshedNotLost ==
  \A c \in Clients : stage[c] = "idle" => refresh[c] <= row

==============================================================================
