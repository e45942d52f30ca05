---------------------------- MODULE AccountsProofs ----------------------------
(***************************************************************************)
(* Proofs about the stored tokens and the pool of connections.             *)
(***************************************************************************)
EXTENDS Accounts, TLAPS

\* With a provider that rotates: a client whose refresh is not in storage yet holds
\* the latest token, and holds it alone: nobody else can refresh until the row is
\* written.
SoleHolder ==
  \A c \in Clients :
    Rotates /\ stage[c] \in Persisting =>
      /\ access[c] = issued /\ refresh[c] = issued
      /\ row < issued
      /\ \A d \in Clients \ {c} : refresh[d] < issued

\* Nothing is newer than what the provider has handed out.
Bounded ==
  /\ row <= issued /\ secret <= issued
  /\ \A c \in Clients : access[c] <= issued /\ refresh[c] <= issued

\* With the other kind: somebody has been given a refresh token, and every one that
\* is stored or about to be is good.
SomeToken ==
  /\ issued >= 1 /\ row >= 1
  /\ \A c \in Clients : stage[c] # "closed" => refresh[c] >= 1

TokenInv == TokenTypeOK /\ Bounded /\ SomeToken /\ SoleHolder

\* The invariant holds of a store that is up to date and has no clients.
LEMMA TokenInvInit == TokenInit => TokenInv
  BY TokenAssumption
  DEF TokenInit, TokenInv, TokenTypeOK, Bounded, SoleHolder, SomeToken, Generations,
      Empty, Stages, Persisting

\* A client only goes from stage to stage, and only when it is in one.
LEMMA StageStep ==
  ASSUME stage \in [Clients -> Stages], TokenNext
  PROVE  stage' \in [Clients -> Stages]
BY DEF TokenNext, OpenRow, OpenSecret, Token, CallbackReads, StorePassword, StoreToken,
       SaveRow, Exit, Goes, Stages, Persisting

\* Types: every step leaves generations generations.
LEMMA TokenTypeStep == TokenTypeOK /\ [TokenNext]_tokenVars => TokenTypeOK'
<1> SUFFICES ASSUME TokenTypeOK, [TokenNext]_tokenVars
             PROVE  TokenTypeOK'
  OBVIOUS
<1> USE TokenAssumption DEF TokenTypeOK, Generations, Empty
<1>p. provider' \in Kinds
  BY DEF TokenNext, tokenVars
<1> USE <1>p
<1>1. CASE UNCHANGED tokenVars
  BY <1>1 DEF tokenVars
<1>2. ASSUME TokenNext
      PROVE  TokenTypeOK'
  <2>1. stage' \in [Clients -> Stages]
    BY <1>2, StageStep
  <2>2. ASSUME NEW c \in Clients, OpenRow(c)
        PROVE  TokenTypeOK'
    BY <2>1, <2>2 DEF OpenRow
  <2>3. ASSUME NEW c \in Clients, OpenSecret(c)
        PROVE  TokenTypeOK'
    BY <2>1, <2>3 DEF OpenSecret, Works, Fault
  <2>4. ASSUME NEW c \in Clients, Token(c)
        PROVE  TokenTypeOK'
    <3>1. issued' \in Generations
      BY <2>4 DEF Token, Cached, Refreshed
    <3>2. access' \in [Clients -> Generations] /\ refresh' \in [Clients -> Generations]
      BY <2>4 DEF Token
    <3>3. QED
      BY <2>1, <2>4, <3>1, <3>2 DEF Token
  <2>5. ASSUME NEW c \in Clients, CallbackReads(c)
        PROVE  TokenTypeOK'
    BY <2>1, <2>5 DEF CallbackReads, Works, Fault
  <2>6. ASSUME NEW c \in Clients, StorePassword(c)
        PROVE  TokenTypeOK'
    <3>1. Stored(read[c], password) \in {Empty, 1}
      BY <2>6 DEF Stored
    <3>2. faults' = faults \/ faults' = faults + 1
      BY <2>6 DEF StorePassword, Works, Fault
    <3>3. password' \in {Empty, 1}
      BY <2>6, <3>1 DEF StorePassword, Works
    <3>4. UNCHANGED <<issued, row, secret, access, refresh>> /\ read' = [read EXCEPT ![c] = Empty]
      BY <2>6 DEF StorePassword
    <3>5. QED
      BY <2>1, <3>2, <3>3, <3>4
  <2>7. ASSUME NEW c \in Clients, StoreToken(c)
        PROVE  TokenTypeOK'
    <3>1. Stored(access[c], secret) \in Generations
      BY <2>7 DEF Stored
    <3>2. faults' = faults \/ faults' = faults + 1
      BY <2>7 DEF StoreToken, Works, Fault
    <3>3. secret' \in Generations
      BY <2>7, <3>1 DEF StoreToken, Works
    <3>4. UNCHANGED <<issued, row, password, access, refresh, read>>
      BY <2>7 DEF StoreToken
    <3>5. QED
      BY <2>1, <3>2, <3>3, <3>4
  <2>8. ASSUME NEW c \in Clients, SaveRow(c)
        PROVE  TokenTypeOK'
    BY <2>1, <2>8 DEF SaveRow, Works, Fault
  <2>9. ASSUME NEW c \in Clients, Exit(c)
        PROVE  TokenTypeOK'
    BY <2>1, <2>9 DEF Exit, Fault
  <2>10. QED
    BY <1>2, <2>2, <2>3, <2>4, <2>5, <2>6, <2>7, <2>8, <2>9 DEF TokenNext
<1>3. QED
  BY <1>1, <1>2

\* No step loses the refresh token: what a client writes back is never empty.
LEMMA SomeTokenStep ==
  ASSUME TokenTypeOK, SomeToken, [TokenNext]_tokenVars
  PROVE  SomeToken'
<1> USE TokenAssumption DEF TokenTypeOK, SomeToken, Generations, Empty
<1>1. CASE UNCHANGED tokenVars
  BY <1>1 DEF tokenVars
<1>2. ASSUME NEW c \in Clients, OpenRow(c)
      PROVE  SomeToken'
  BY <1>2 DEF OpenRow, Goes
<1>3. ASSUME NEW c \in Clients, OpenSecret(c) \/ CallbackReads(c) \/ StorePassword(c) \/ StoreToken(c)
      PROVE  SomeToken'
  <2>1. stage[c] # "closed" /\ UNCHANGED <<issued, row, refresh>>
    BY <1>3 DEF OpenSecret, CallbackReads, StorePassword, StoreToken
  <2>2. \A d \in Clients \ {c} : stage'[d] = stage[d]
    BY <1>3 DEF OpenSecret, CallbackReads, StorePassword, StoreToken, Goes
  <2>3. QED
    BY <2>1, <2>2
<1>4. ASSUME NEW c \in Clients, Token(c)
      PROVE  SomeToken'
  BY <1>4 DEF Token, Cached, Refreshed, Goes
<1>5. ASSUME NEW c \in Clients, SaveRow(c)
      PROVE  SomeToken'
  <2>1. UNCHANGED <<issued, refresh>> /\ refresh[c] >= 1 /\ row' \in {row, refresh[c]}
    BY <1>5 DEF SaveRow, Works
  <2>2. stage[c] # "closed" /\ \A d \in Clients \ {c} : stage'[d] = stage[d]
    BY <1>5 DEF SaveRow, Goes
  <2>3. QED
    BY <2>1, <2>2
<1>6. ASSUME NEW c \in Clients, Exit(c)
      PROVE  SomeToken'
  BY <1>6 DEF Exit, Goes
<1>7. QED
  BY <1>1, <1>2, <1>3, <1>4, <1>5, <1>6 DEF TokenNext

\* Every step of a client keeps the invariant; with a provider that rotates no stored
\* token goes back.
LEMMA TokenInvStep ==
  TokenInv /\ [TokenNext]_tokenVars
    => TokenInv' /\ (Rotates => row' >= row /\ secret' >= secret)
<1> DEFINE Order == Rotates => row' >= row /\ secret' >= secret
<1> SUFFICES ASSUME TokenInv, [TokenNext]_tokenVars
             PROVE  Bounded' /\ SoleHolder' /\ Order
  BY TokenTypeStep, SomeTokenStep DEF TokenInv
<1>p. provider' = provider
  BY DEF TokenNext, tokenVars
<1> USE TokenAssumption, <1>p DEF TokenInv, TokenTypeOK, Generations, Empty, Rotates
<1>1. CASE UNCHANGED tokenVars
  BY <1>1 DEF tokenVars, Bounded, SoleHolder
<1>2. ASSUME NEW c \in Clients, OpenRow(c)
      PROVE  Bounded' /\ SoleHolder' /\ Order
  <2>1. Bounded' /\ Order
    BY <1>2 DEF OpenRow, Bounded, SoleHolder
  <2>2. SoleHolder'
    BY <1>2 DEF OpenRow, Goes, Bounded, SoleHolder, Persisting
  <2>3. QED
    BY <2>1, <2>2
<1>3. ASSUME NEW c \in Clients, OpenSecret(c)
      PROVE  Bounded' /\ SoleHolder' /\ Order
  <2>1. Bounded' /\ Order
    BY <1>3 DEF OpenSecret, Works, Bounded, SoleHolder
  <2>2. SoleHolder'
    BY <1>3 DEF OpenSecret, Works, Goes, Bounded, SoleHolder, Persisting
  <2>3. QED
    BY <2>1, <2>2
<1>4. ASSUME NEW c \in Clients, Token(c)
      PROVE  Bounded' /\ SoleHolder' /\ Order
  <2>1. Bounded' /\ Order
    BY <1>4 DEF Token, Cached, Refreshed, Changed, Bounded, SoleHolder
  <2>2. PICK a, r \in Generations :
          /\ Cached(c, a, r) \/ Refreshed(c, a, r)
          /\ access' = [access EXCEPT ![c] = a]
          /\ refresh' = [refresh EXCEPT ![c] = r]
          /\ IF Changed(c, a, r) THEN Goes(c, "notified") ELSE UNCHANGED stage
    BY <1>4 DEF Token
  <2>3. ASSUME Cached(c, a, r)
        PROVE  SoleHolder'
    <3>1. UNCHANGED <<issued, row, stage, access, refresh>>
      BY <1>4, <2>2, <2>3 DEF Token, Cached, Changed
    <3>2. QED
      BY <3>1 DEF SoleHolder
  <2>4. ASSUME Refreshed(c, a, r)
        PROVE  SoleHolder'
    <3>1. Goes(c, "notified") /\ UNCHANGED row
      BY <1>4, <2>2, <2>4 DEF Token, Refreshed, Changed, Bounded
    <3>2. Rotates =>
            \A d \in Clients \ {c} : refresh'[d] < issued' /\ stage'[d] \notin Persisting
      <4> SUFFICES ASSUME Rotates, NEW d \in Clients \ {c}
                   PROVE  refresh'[d] < issued' /\ stage'[d] \notin Persisting
        OBVIOUS
      <4>1. refresh[c] = issued /\ issued' = issued + 1
        BY <2>4 DEF Refreshed, Honoured
      <4>2. refresh'[d] = refresh[d] /\ stage'[d] = stage[d] /\ refresh[d] <= issued
        BY <2>2, <3>1 DEF Goes, Bounded
      <4>3. ASSUME stage[d] \in Persisting
            PROVE  FALSE
        <5>1. refresh[c] < issued
          BY <4>3 DEF SoleHolder
        <5>2. QED
          BY <4>1, <5>1
      <4>4. QED
        BY <4>1, <4>2, <4>3
    <3>3. Rotates => access'[c] = issued' /\ refresh'[c] = issued' /\ row' < issued'
      BY <2>2, <2>4, <3>1 DEF Refreshed, Honoured, Bounded
    <3>4. QED
      BY <3>2, <3>3 DEF SoleHolder
  <2>5. QED
    BY <2>1, <2>2, <2>3, <2>4
<1>5. ASSUME NEW c \in Clients, CallbackReads(c)
      PROVE  Bounded' /\ SoleHolder' /\ Order
  <2>1. Bounded' /\ Order
    BY <1>5 DEF CallbackReads, Bounded, SoleHolder
  <2>2. SoleHolder'
    BY <1>5 DEF CallbackReads, Goes, Bounded, SoleHolder, Persisting
  <2>3. QED
    BY <2>1, <2>2
<1>6. ASSUME NEW c \in Clients, StorePassword(c)
      PROVE  Bounded' /\ SoleHolder' /\ Order
  <2>1. Bounded' /\ Order
    <3>1. UNCHANGED <<issued, row, secret, access, refresh>>
      BY <1>6 DEF StorePassword
    <3>2. QED
      BY <3>1 DEF Bounded
  <2>2. SoleHolder'
    BY <1>6 DEF StorePassword, Goes, Bounded, SoleHolder, Persisting
  <2>3. QED
    BY <2>1, <2>2
<1>7. ASSUME NEW c \in Clients, StoreToken(c)
      PROVE  Bounded' /\ SoleHolder' /\ Order
  <2>1. Bounded' /\ Order
    <3>1. Rotates => access[c] = issued
      BY <1>7 DEF StoreToken, SoleHolder, Persisting
    <3>2. Stored(access[c], secret) \in {access[c], secret}
      BY DEF Stored
    <3>3. secret' \in {access[c], secret}
      BY <1>7, <3>2 DEF StoreToken, Works
    <3>4. UNCHANGED <<issued, row, access, refresh>>
      BY <1>7 DEF StoreToken
    <3>5. QED
      BY <3>1, <3>3, <3>4 DEF Bounded
  <2>2. SoleHolder'
    BY <1>7 DEF StoreToken, Works, Stored, Goes, Bounded, SoleHolder, Persisting
  <2>3. QED
    BY <2>1, <2>2
<1>8. ASSUME NEW c \in Clients, SaveRow(c)
      PROVE  Bounded' /\ SoleHolder' /\ Order
  <2>1. Bounded' /\ Order
    <3>1. Rotates => refresh[c] = issued
      BY <1>8 DEF SaveRow, SoleHolder, Persisting
    <3>2. row' \in {refresh[c], row} /\ UNCHANGED <<issued, secret, access, refresh>>
      BY <1>8 DEF SaveRow, Works
    <3>3. QED
      BY <3>1, <3>2 DEF Bounded
  <2>2. SoleHolder'
    BY <1>8 DEF SaveRow, Works, Goes, Bounded, SoleHolder, Persisting
  <2>3. QED
    BY <2>1, <2>2
<1>9. ASSUME NEW c \in Clients, Exit(c)
      PROVE  Bounded' /\ SoleHolder' /\ Order
  <2>1. Bounded' /\ Order
    BY <1>9 DEF Exit, Bounded, SoleHolder
  <2>2. SoleHolder'
    <3>1. stage'[c] \notin Persisting
      BY <1>9 DEF Exit, Goes, Persisting
    <3>2. \A d \in Clients \ {c} :
            stage'[d] = stage[d] /\ access'[d] = access[d] /\ refresh'[d] = refresh[d]
      BY <1>9 DEF Exit, Goes
    <3>3. refresh'[c] = 0 /\ UNCHANGED <<issued, row>>
      BY <1>9 DEF Exit
    <3>4. QED
      BY <3>1, <3>2, <3>3 DEF SoleHolder
  <2>3. QED
    BY <2>1, <2>2
<1>10. QED
  BY <1>1, <1>2, <1>3, <1>4, <1>5, <1>6, <1>7, <1>8, <1>9 DEF TokenNext

\* The invariant holds throughout.
LEMMA TokenInvHolds == TokenSpec => []TokenInv
BY TokenInvInit, TokenInvStep, PTL DEF TokenSpec

\* However many clients of an account refresh, in however many processes, with
\* storage failing as often as it likes: with a provider that rotates, no stored
\* token is replaced by an older one, which the provider would refuse.
THEOREM NeverGoesBack == TokenSpec => TokensNeverGoBack
<1>1. TokenInv /\ [TokenNext]_tokenVars => [Rotates => row' >= row /\ secret' >= secret]_tokenVars
  BY TokenInvStep
<1>2. QED
  BY <1>1, TokenInvHolds, PTL DEF TokenSpec, TokensNeverGoBack

\* The stored password: no refresh empties it, whatever the keychain answers.
THEOREM PasswordKept == TokenSpec => []PasswordSurvives
<1>1. TokenInit => PasswordSurvives
  BY DEF TokenInit, PasswordSurvives, Empty
<1>2. TokenTypeOK /\ PasswordSurvives /\ [TokenNext]_tokenVars => PasswordSurvives'
  <2> SUFFICES ASSUME TokenTypeOK, password = 1, [TokenNext]_tokenVars
               PROVE  password' = 1
    BY DEF TokenTypeOK, PasswordSurvives, Empty
  <2>1. CASE UNCHANGED tokenVars
    BY <2>1 DEF tokenVars
  <2>2. ASSUME NEW c \in Clients, StorePassword(c)
        PROVE  password' = 1
    <3>1. read[c] \in {Empty, 1}
      BY <2>2 DEF TokenTypeOK
    <3>2. Stored(read[c], password) = 1
      BY <3>1 DEF Stored
    <3>3. QED
      BY <2>2, <3>2 DEF StorePassword, Works
  <2>3. ASSUME NEW c \in Clients,
               \/ OpenRow(c) \/ OpenSecret(c) \/ Token(c) \/ CallbackReads(c)
               \/ StoreToken(c) \/ SaveRow(c) \/ Exit(c)
        PROVE  UNCHANGED password
    BY <2>3 DEF OpenRow, OpenSecret, Token, CallbackReads, StoreToken, SaveRow, Exit
  <2>4. QED
    BY <2>1, <2>2, <2>3 DEF TokenNext
<1>3. TokenInv => TokenTypeOK
  BY DEF TokenInv
<1>4. QED
  BY <1>1, <1>2, <1>3, TokenInvHolds, PTL DEF TokenSpec

\* Without failures, and with a provider that rotates: nobody under way, and storage
\* is up to date; or somebody is, and has stored the access token by the time it
\* saves the row.
NoneUnderWay == \A c \in Clients : stage[c] \notin Persisting

Current ==
  faults = 0 /\ Rotates =>
    /\ NoneUnderWay => row = issued /\ secret = issued
    /\ \A c \in Clients : stage[c] = "saving" => secret = issued

\* Every step keeps storage current; SoleHolder says that the client whose row
\* is written is the only one under way.
LEMMA CurrentStep == TokenInv /\ Current /\ [TokenNext]_tokenVars => Current'
<1> SUFFICES ASSUME TokenInv, Current, [TokenNext]_tokenVars, faults' = 0, Rotates'
             PROVE  /\ NoneUnderWay' => row' = issued' /\ secret' = issued'
                    /\ \A c \in Clients : stage'[c] = "saving" => secret' = issued'
  BY DEF Current
<1>0. ~Fault
  BY DEF Fault, TokenInv, TokenTypeOK
<1>p. Rotates
  BY DEF TokenNext, tokenVars, Rotates
<1> USE <1>p
<1>types. stage \in [Clients -> Stages] /\ access \in [Clients -> Generations]
        /\ refresh \in [Clients -> Generations] /\ issued \in Generations
        /\ row \in Generations /\ SoleHolder
  BY DEF TokenInv, TokenTypeOK
<1>1. CASE UNCHANGED tokenVars
  BY <1>1 DEF tokenVars, Current, NoneUnderWay
<1>2. ASSUME NEW c \in Clients,
             OpenRow(c) \/ OpenSecret(c) \/ Exit(c)
      PROVE  Current'
  <2>1. stage[c] \notin Persisting /\ stage'[c] \notin Persisting /\ faults = 0
    <3>1. stage[c] \notin Persisting /\ faults = 0
      BY <1>0, <1>2 DEF OpenRow, OpenSecret, Exit, Works, Persisting
    <3>2. stage'[c] \notin Persisting
      BY <1>types, <1>2 DEF OpenRow, OpenSecret, Exit, Goes, Persisting
    <3>3. QED
      BY <3>1, <3>2
  <2>2. UNCHANGED <<issued, row, secret>>
    BY <1>2 DEF OpenRow, OpenSecret, Exit
  <2>3. \A d \in Clients \ {c} : stage'[d] = stage[d]
    BY <1>types, <1>2 DEF OpenRow, OpenSecret, Exit, Goes
  <2>4. QED
    BY <2>1, <2>2, <2>3 DEF Current, NoneUnderWay, Persisting
<1>3. ASSUME NEW c \in Clients, Token(c)
      PROVE  Current'
  <2>1. faults = 0 /\ UNCHANGED <<row, secret>>
    BY <1>3 DEF Token
  <2>2. CASE UNCHANGED <<stage, issued>>
    BY <2>1, <2>2 DEF Current, NoneUnderWay
  <2>3. CASE Goes(c, "notified") /\ NoneUnderWay'
    BY <1>types, <2>3 DEF Goes, NoneUnderWay, Persisting
  <2>4. CASE Goes(c, "notified") /\ ~NoneUnderWay' /\ refresh[c] = issued
    <3>1. \A d \in Clients : stage[d] \notin Persisting
      <4>1. stage[c] = "idle" /\ issued \in Nat /\ refresh[c] = issued
        BY <1>types, <1>3, <2>4 DEF Token, Generations
      <4>2. ASSUME NEW d \in Clients, stage[d] \in Persisting
            PROVE  FALSE
        <5>1. c # d
          BY <4>1, <4>2 DEF Persisting
        <5>2. refresh[c] < issued
          BY <1>types, <4>2, <5>1 DEF SoleHolder
        <5>3. QED
          BY <4>1, <5>2
      <4>3. QED
        BY <4>2
    <3>2. \A d \in Clients : stage'[d] # "saving"
      BY <1>types, <2>4, <3>1 DEF Goes, Persisting
    <3>3. QED
      BY <2>4, <3>2 DEF Current
  <2>5. \/ UNCHANGED <<stage, issued>>
        \/ Goes(c, "notified") /\ refresh[c] = issued
    BY <1>3 DEF Token, Cached, Refreshed, Honoured, Changed, Rotates
  <2>6. QED
    BY <2>2, <2>3, <2>4, <2>5
<1>4. ASSUME NEW c \in Clients, CallbackReads(c) \/ StorePassword(c)
      PROVE  Current'
  <2>1. stage'[c] \in Persisting /\ stage'[c] # "saving" /\ faults = 0
    <3>1. Goes(c, "storing") \/ Goes(c, "storing token")
      BY <1>0, <1>4 DEF CallbackReads, StorePassword
    <3>2. faults = 0
      BY <1>0, <1>4 DEF CallbackReads, StorePassword, Works
    <3>3. QED
      BY <1>types, <3>1, <3>2 DEF Goes, Persisting
  <2>2. UNCHANGED <<issued, secret>> /\ \A d \in Clients \ {c} : stage'[d] = stage[d]
    BY <1>types, <1>4 DEF CallbackReads, StorePassword, Goes
  <2>3. QED
    BY <2>1, <2>2 DEF Current, NoneUnderWay
<1>5. ASSUME NEW c \in Clients, StoreToken(c)
      PROVE  Current'
  <2>1. access[c] = issued /\ row < issued
    BY <1>types, <1>5 DEF StoreToken, SoleHolder, Persisting
  <2>2. Stored(access[c], secret) = issued
    BY <1>types, <2>1 DEF Stored, Empty, Generations
  <2>3. secret' = issued
    BY <1>0, <1>5, <2>2 DEF StoreToken, Works
  <2>4. UNCHANGED issued /\ stage'[c] \in Persisting
    BY <1>types, <1>5 DEF StoreToken, Goes, Persisting
  <2>5. QED
    BY <2>3, <2>4 DEF Current, NoneUnderWay
<1>6. ASSUME NEW c \in Clients, SaveRow(c)
      PROVE  Current'
  <2>1. refresh[c] = issued /\ \A d \in Clients \ {c} : stage[d] \notin Persisting
    <3>1. stage[c] \in Persisting
      BY <1>6 DEF SaveRow, Persisting
    <3>2. refresh[c] = issued /\ issued \in Nat
      BY <1>types, <3>1 DEF SoleHolder, Generations
    <3>3. ASSUME NEW d \in Clients \ {c}, stage[d] \in Persisting
          PROVE  FALSE
      <4>1. refresh[c] < issued
        BY <1>types, <3>3 DEF SoleHolder
      <4>2. QED
        BY <3>2, <4>1
    <3>4. QED
      BY <3>2, <3>3
  <2>2. faults = 0 /\ row' = refresh[c] /\ UNCHANGED <<issued, secret>>
    BY <1>0, <1>6 DEF SaveRow, Works
  <2>3. secret = issued
    BY <1>6, <2>2 DEF SaveRow, Current
  <2>4. QED
    BY <2>1, <2>2, <2>3 DEF Current
<1>7. QED
  BY <1>1, <1>2, <1>3, <1>4, <1>5, <1>6 DEF TokenNext, Current

\* As long as nothing fails, storage holds a refresh token that the provider honours
\* whenever no client is writing one back, and the latest access token of a
\* provider that rotates.
THEOREM StoredTokensCurrent == TokenSpec => []StoreIsCurrent
<1>1. TokenInit => Current
  BY DEF TokenInit, Current, NoneUnderWay, Persisting
<1>2. TokenInv /\ Current => StoreIsCurrent
  <2> SUFFICES ASSUME TokenInv, Current, Quiet
               PROVE  Honoured(row) /\ (Rotates => secret = issued)
    BY DEF StoreIsCurrent
  <2>1. faults = 0 /\ NoneUnderWay
    BY DEF Quiet, NoneUnderWay
  <2>2. row # Empty
    BY DEF TokenInv, TokenTypeOK, SomeToken, Empty, Generations
  <2>3. Rotates => row = issued /\ secret = issued
    BY <2>1 DEF Current
  <2>4. QED
    BY <2>2, <2>3 DEF Honoured
<1>3. QED
  BY <1>1, <1>2, CurrentStep, TokenInvHolds, PTL DEF TokenSpec

------------------------------------------------------------------------------

\* A caller that dials holds the mutex, and its gateway has no connection yet.
DiallerHolds ==
  \A k \in Callers :
    at[k] = "dialling" => mutex = k /\ pool[gw[k]] = 0

PoolInv == PoolTypeOK /\ DiallerHolds /\ NoConnectionLeaks

\* The invariant holds of the empty pool.
LEMMA PoolInvInit == PoolInit => PoolInv
  BY PoolAssumption
  DEF PoolInit, PoolInv, PoolTypeOK, DiallerHolds, NoConnectionLeaks

\* Every step of a caller, and every closing, keeps it.
LEMMA PoolInvStep == PoolInv /\ [PoolNext]_poolVars => PoolInv'
<1> SUFFICES ASSUME PoolInv, [PoolNext]_poolVars
             PROVE  PoolInv'
  OBVIOUS
<1> USE PoolAssumption DEF PoolInv, PoolTypeOK, DiallerHolds, NoConnectionLeaks
<1>1. CASE UNCHANGED poolVars
  BY <1>1 DEF poolVars
<1>2. ASSUME NEW k \in Callers, NEW g \in Gateways \cup {None}, NewClient(k, g)
      PROVE  PoolInv'
  BY <1>2 DEF NewClient
<1>3. ASSUME NEW k \in Callers, Lookup(k)
      PROVE  PoolInv'
  BY <1>3 DEF Lookup
<1>4. ASSUME NEW k \in Callers, DialSucceeds(k)
      PROVE  PoolInv'
  BY <1>4 DEF DialSucceeds
<1>5. ASSUME NEW k \in Callers, DialFails(k)
      PROVE  PoolInv'
  BY <1>5 DEF DialFails
<1>6. ASSUME NEW k \in Callers, CloseClient(k)
      PROVE  PoolInv'
  <2>1. PoolTypeOK'
    <3>1. opened' \subseteq 1..dials /\ UNCHANGED dials
      BY <1>6 DEF CloseClient
    <3>2. at' \in [Callers -> {"idle", "waiting", "dialling", "using"}] /\ conn' \in [Callers -> 0..dials]
      BY <1>6 DEF CloseClient
    <3>3. QED
      BY <1>6, <3>1, <3>2 DEF CloseClient
  <2>2. DiallerHolds'
    BY <1>6 DEF CloseClient
  <2>3. NoConnectionLeaks'
    BY <1>6 DEF CloseClient
  <2>4. QED
    BY <2>1, <2>2, <2>3
<1>7. ASSUME NEW k \in Callers, DropClient(k)
      PROVE  PoolInv'
  BY <1>7 DEF DropClient
<1>8. ASSUME NEW g \in Gateways, CloseConnectionForGateway(g)
      PROVE  PoolInv'
  <2>1. PoolTypeOK'
    <3>1. opened' \subseteq 1..dials /\ UNCHANGED dials
      BY <1>8 DEF CloseConnectionForGateway
    <3>2. pool' \in [Gateways -> 0..dials]
      BY <1>8 DEF CloseConnectionForGateway
    <3>3. QED
      BY <1>8, <3>1, <3>2 DEF CloseConnectionForGateway
  <2>2. DiallerHolds'
    BY <1>8 DEF CloseConnectionForGateway
  <2>3. NoConnectionLeaks'
    BY <1>8 DEF CloseConnectionForGateway
  <2>4. QED
    BY <2>1, <2>2, <2>3
<1>9. CASE CloseAllConnections
  <2>1. PoolTypeOK'
    <3>1. opened' \subseteq 1..dials /\ UNCHANGED dials
      BY <1>9 DEF CloseAllConnections
    <3>2. pool' \in [Gateways -> 0..dials]
      BY <1>9 DEF CloseAllConnections
    <3>3. QED
      BY <1>9, <3>1, <3>2 DEF CloseAllConnections
  <2>2. DiallerHolds'
    BY <1>9 DEF CloseAllConnections
  <2>3. NoConnectionLeaks'
    BY <1>9 DEF CloseAllConnections
  <2>4. QED
    BY <2>1, <2>2, <2>3
<1>10. QED
  BY <1>1, <1>2, <1>3, <1>4, <1>5, <1>6, <1>7, <1>8, <1>9 DEF PoolNext

\* However many callers ask for however many gateways at once, every open
\* connection is in the pool: there is never a second one for a gateway.
THEOREM NothingLeaks == PoolSpec => []NoConnectionLeaks
<1>1. PoolInv => NoConnectionLeaks
  BY DEF PoolInv
<1>2. QED
  BY <1>1, PoolInvInit, PoolInvStep, PTL DEF PoolSpec

------------------------------------------------------------------------------

\* The account's two halves side by side: each behaves as it does alone.
LEMMA Halves == Spec => TokenSpec /\ PoolSpec
<1>1. Init => TokenInit /\ PoolInit
  BY DEF Init
<1>2. [Next]_vars => [TokenNext]_tokenVars /\ [PoolNext]_poolVars
  BY DEF Next, TokenStep, PoolStep, vars
<1>3. QED
  BY <1>1, <1>2, PTL DEF Spec, TokenSpec, PoolSpec

\* Every variable keeps its type, for any number of clients, callers and
\* gateways.
THEOREM TypeCorrect == Spec => []TypeOK
<1>1. TokenInv /\ PoolInv => TypeOK
  BY DEF TokenInv, PoolInv, TypeOK
<1>2. PoolSpec => []PoolInv
  BY PoolInvInit, PoolInvStep, PTL DEF PoolSpec
<1>3. QED
  BY <1>1, <1>2, Halves, TokenInvHolds, PTL

==============================================================================
