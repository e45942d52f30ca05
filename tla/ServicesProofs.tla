---------------------------- MODULE ServicesProofs -----------------------------
(***************************************************************************)
(* Theorems about the parts of Services, for any number of jobs, messages, *)
(* stakes, lines and sealed entries, and of failures.                      *)
(***************************************************************************)
EXTENDS Services, FiniteSetTheorems, SequenceTheorems, TLAPS

\* A sequence, whatever is in it.
IsSeq(s) == s \in Seq({s[i] : i \in DOMAIN s})

\* One element more.
LEMMA SeqGrows ==
  ASSUME NEW s, IsSeq(s), NEW e
  PROVE  /\ Len(s) \in Nat /\ DOMAIN s = 1..Len(s)
         /\ IsSeq(Append(s, e)) /\ Len(Append(s, e)) = Len(s) + 1
         /\ DOMAIN Append(s, e) = 1..(Len(s) + 1)
         /\ \A i \in DOMAIN s : Append(s, e)[i] = s[i]
         /\ Append(s, e)[Len(s) + 1] = e
<1> DEFINE T == {s[i] : i \in DOMAIN s}
           S == T \cup {e}
           t == Append(s, e)
<1>1. s \in Seq(S)
  <2>1. s \in Seq(T)
    BY DEF IsSeq
  <2> HIDE DEF T
  <2>2. T \subseteq S
    OBVIOUS
  <2>3. QED
    BY <2>1, <2>2, SeqMonotonic
<1>2. e \in S
  OBVIOUS
<1> HIDE DEF T, S
<1>3. /\ Len(s) \in Nat /\ DOMAIN s = 1..Len(s)
      /\ t \in Seq(S) /\ Len(t) = Len(s) + 1
      /\ \A i \in 1..Len(s) : t[i] = s[i]
      /\ t[Len(s) + 1] = e
  BY <1>1, <1>2, LenProperties, AppendProperties
<1> HIDE DEF t
<1>4. DOMAIN t = 1..(Len(s) + 1)
  BY <1>3, LenProperties
<1>5. IsSeq(t)
  <2> DEFINE R == {t[i] : i \in DOMAIN t}
  <2>1. t = [i \in 1..Len(t) |-> t[i]]
    BY <1>3
  <2>2. Len(t) \in Nat /\ \A i \in 1..Len(t) : t[i] \in R
    BY <1>3, <1>4
  <2> HIDE DEF R
  <2>3. t \in Seq(R)
    BY <2>1, <2>2
  <2>4. QED
    BY <2>3 DEF R, IsSeq
<1>6. QED
  BY <1>3, <1>4, <1>5 DEF t

------------------------------------------------------------------------------
(***************************************************************************)
(* The stored mail, and its callers, the importers.                        *)
(***************************************************************************)

\* A committed transaction has inserted every attachment, and a reader that has both
\* of its answers has those of one row, which nothing changes.
WholeRead(r) ==
  /\ got[r] = [id |-> got[r].id, done |-> got[r].done, atts |-> got[r].atts,
              missed |-> got[r].missed]
  /\ got[r].done \in BOOLEAN
  /\ got[r].id \in 0..Len(mail)
  /\ got[r].done => got[r].id # 0 /\ got[r].atts = mail[got[r].id].atts \ got[r].missed

StoreInv ==
  /\ IsSeq(mail) /\ IsSeq(stored) /\ Len(stored) = Len(mail)
  /\ \A i \in 1..Len(mail) : stored[i] = mail[i].atts
  /\ got = [r \in Readers |-> got[r]]
  /\ \A r \in Readers : WholeRead(r)

mailVars == <<mail, stored, got>>

LEMMA StoreInitial == StoreInit => StoreInv
<1> SUFFICES ASSUME StoreInit PROVE StoreInv
  OBVIOUS
<1>1. IsSeq(<<>>) /\ Len(<<>>) = 0
  BY EmptySeq DEF IsSeq
<1>2. \A r \in Readers : WholeRead(r)
  <2> SUFFICES ASSUME NEW r \in Readers PROVE WholeRead(r)
    OBVIOUS
  <2>1. got[r] = NotRead /\ Len(mail) = 0
    BY <1>1 DEF StoreInit
  <2>2. NotRead.id = 0 /\ NotRead = [id |-> NotRead.id, done |-> NotRead.done, atts |-> NotRead.atts,
               missed |-> NotRead.missed]
    BY DEF NotRead
  <2>3. NotRead.done = FALSE
    BY Zenon DEF NotRead
  <2>4. got[r].done \in BOOLEAN /\ ~got[r].done
    BY <2>1, <2>3, Zenon
  <2>5. QED
    BY <2>1, <2>2, <2>4 DEF WholeRead
<1>3. QED
  BY <1>1, <1>2 DEF StoreInit, StoreInv

LEMMA CommitKeeps == ASSUME StoreInv, NEW j \in Jobs, Commit(j) PROVE StoreInv'
<1>1. /\ call[j].done = call[j].msg.atts
      /\ mail' = Append(mail, call[j].msg) /\ stored' = Append(stored, call[j].done)
      /\ got' = got
  BY DEF Commit
<1>2. /\ Len(mail) \in Nat /\ DOMAIN mail = 1..Len(mail) /\ IsSeq(mail') /\ Len(mail') = Len(mail) + 1
      /\ (\A i \in DOMAIN mail : mail'[i] = mail[i]) /\ mail'[Len(mail) + 1] = call[j].msg
  BY <1>1, SeqGrows DEF StoreInv
<1>3. /\ DOMAIN stored = 1..Len(stored) /\ IsSeq(stored') /\ Len(stored') = Len(stored) + 1
      /\ (\A i \in DOMAIN stored : stored'[i] = stored[i])
      /\ stored'[Len(stored) + 1] = call[j].done
  BY <1>1, SeqGrows DEF StoreInv
<1>4. Len(stored) = Len(mail) /\ \A i \in 1..Len(mail) : stored[i] = mail[i].atts
  BY DEF StoreInv
<1>5. \A i \in 1..Len(mail') : stored'[i] = mail'[i].atts
  BY <1>1, <1>2, <1>3, <1>4
<1>6. \A r \in Readers : WholeRead(r)'
  BY <1>1, <1>2 DEF StoreInv, WholeRead
<1>7. QED
  BY <1>1, <1>2, <1>3, <1>4, <1>5, <1>6 DEF StoreInv

LEMMA ReadStepKeeps == ASSUME StoreInv, NEW r \in Readers, ReadStep(r) PROVE StoreInv'
<1>1. mail' = mail /\ stored' = stored
  BY DEF ReadStep, ReadRow, ReadAttachments, QueryFails, GetReturns
<1>2. /\ Len(mail) \in Nat /\ DOMAIN mail = 1..Len(mail)
      /\ \A i \in 1..Len(mail) : stored[i] = mail[i].atts
  BY SeqGrows DEF StoreInv
<1>3. PICK g : got' = [got EXCEPT ![r] = g]
               /\ g = [id |-> g.id, done |-> g.done, atts |-> g.atts, missed |-> g.missed]
               /\ g.done \in BOOLEAN /\ g.id \in 0..Len(mail)
               /\ (g.done => g.id # 0 /\ g.atts = mail[g.id].atts \ g.missed)
  <2>1. WholeRead(r)
    BY DEF StoreInv
  <2>2. ASSUME NEW i \in DOMAIN mail, ReadRow(r, i)
        PROVE  \E g : /\ got' = [got EXCEPT ![r] = g]
                      /\ g = [id |-> g.id, done |-> g.done, atts |-> g.atts, missed |-> g.missed]
                      /\ g.done \in BOOLEAN /\ g.id \in 0..Len(mail)
                      /\ (g.done => g.id # 0 /\ g.atts = mail[g.id].atts \ g.missed)
    <3> DEFINE g == [id |-> i, done |-> got[r].done, atts |-> got[r].atts,
              missed |-> got[r].missed]
    <3>1. got[r].id = 0 /\ got[r].done = FALSE
      BY <2>1, <2>2 DEF ReadRow, WholeRead
    <3>2. got' = [got EXCEPT ![r] = [got[r] EXCEPT !.id = i]]
      BY <2>2 DEF ReadRow
    <3>3. [got[r] EXCEPT !.id = i] = g
      BY <2>1 DEF WholeRead
    <3>4. g.done = FALSE /\ g.id \in 0..Len(mail)
      BY <1>2, <3>1
    <3>5. QED
      BY <3>2, <3>3, <3>4
  <2>3. CASE ReadAttachments(r)
    <3>0. PICK missed :
            got' = [got EXCEPT ![r] = [id |-> @.id, done |-> TRUE,
                                       atts |-> stored[@.id] \ missed, missed |-> missed]]
      BY <2>3 DEF ReadAttachments
    <3> DEFINE g == [id |-> got[r].id, done |-> TRUE, atts |-> stored[got[r].id] \ missed,
                     missed |-> missed]
    <3>1. got[r].id # 0 /\ got[r].id \in 0..Len(mail) /\ got' = [got EXCEPT ![r] = g]
      BY <2>1, <2>3, <3>0 DEF ReadAttachments, WholeRead
    <3>2. g.atts = mail[g.id].atts \ g.missed /\ g.id # 0
      BY <1>2, <3>1
    <3>3. QED
      BY <3>1, <3>2
  <2>4. CASE QueryFails(r) \/ GetReturns(r)
    <3>1. got' = [got EXCEPT ![r] = NotRead]
      BY <2>4 DEF QueryFails, GetReturns
    <3>2. NotRead = [id |-> NotRead.id, done |-> NotRead.done, atts |-> NotRead.atts,
               missed |-> NotRead.missed]
          /\ NotRead.done = FALSE /\ NotRead.id \in 0..Len(mail)
      BY <1>2 DEF NotRead
    <3>3. QED
      BY <3>1, <3>2
  <2>5. QED
    BY <2>2, <2>3, <2>4 DEF ReadStep
<1>4. got' = [q \in Readers |-> got'[q]] /\ got'[r] = g /\ \A q \in Readers \ {r} : got'[q] = got[q]
  BY <1>3 DEF StoreInv
<1>5. \A q \in Readers : WholeRead(q)'
  BY <1>1, <1>3, <1>4 DEF StoreInv, WholeRead
<1>6. QED
  BY <1>1, <1>4, <1>5 DEF StoreInv

LEMMA StoreStays == ASSUME StoreInv, UNCHANGED mailVars PROVE StoreInv'
BY DEF StoreInv, WholeRead, IsSeq, mailVars

\* What the command does between its calls of SaveMessage is no statement that stores
\* mail.
LEMMA JobsStoreNothing == ASSUME NEW j \in Jobs, JobStep(j) PROVE UNCHANGED mailVars
<1> USE DEF storeVars, mailVars
<1>1. CASE Start(j) \/ AccountExists(j) \/ CreateLegacyAccount(j) \/ EnsureFails(j)
           \/ Unsupported(j) \/ PassOver(j) \/ ImportNext(j)
  BY <1>1 DEF Start, AccountExists, CreateLegacyAccount, EnsureFails, Unsupported, PassOver, ImportNext
<1>2. CASE Saved(j) \/ InputFails(j) \/ Kill(j)
  BY <1>2 DEF Saved, InputFails, Kill
<1>3. CASE SkipEnvelope(j) \/ FlushAtEnvelope(j) \/ AddLine(j) \/ FlushAtEOF(j)
  BY <1>3 DEF SkipEnvelope, FlushAtEnvelope, AddLine, FlushAtEOF, InjectMessage, Inject
<1>4. CASE ImportRow(j) \/ ScanFails(j) \/ NoRows(j)
  BY <1>4 DEF ImportRow, ScanFails, NoRows, Inject
<1>5. CASE ListDir(j) \/ ListFails(j) \/ ImportFile(j) \/ FileFails(j)
  BY <1>5 DEF ListDir, ListFails, ImportFile, FileFails, Inject
<1>6. QED
  BY <1>1, <1>2, <1>3, <1>4, <1>5 DEF JobStep

LEMMA StorePreserved == ASSUME StoreInv, [Next]_importVars PROVE StoreInv'
<1>1. ASSUME NEW j \in Jobs, JobStep(j) PROVE StoreInv'
  BY <1>1, JobsStoreNothing, StoreStays
<1>2. ASSUME NEW j \in Jobs, SaveStep(j) PROVE StoreInv'
  <2>1. CASE Commit(j)
    BY <2>1, CommitKeeps
  <2>2. CASE InsertMessage(j) \/ SaveFails(j) \/ \E a \in Attachments : InsertAttachment(j, a)
    <3>1. UNCHANGED mailVars
      BY <2>2 DEF InsertMessage, SaveFails, InsertAttachment, mailVars
    <3>2. QED
      BY <3>1, StoreStays
  <2>3. QED
    BY <1>2, <2>1, <2>2 DEF SaveStep
<1>3. ASSUME NEW r \in Readers, ReadStep(r) PROVE StoreInv'
  BY <1>3, ReadStepKeeps
<1>4. ASSUME NEW f \in Files, MoveToCur(f) PROVE StoreInv'
  <2>1. UNCHANGED mailVars
    BY <1>4 DEF MoveToCur, storeVars, mailVars
  <2>2. QED
    BY <2>1, StoreStays
<1>5. CASE UNCHANGED importVars
  <2>1. UNCHANGED mailVars
    BY <1>5 DEF importVars, storeVars, mailVars
  <2>2. QED
    BY <2>1, StoreStays
<1>6. QED
  BY <1>1, <1>2, <1>3, <1>4, <1>5 DEF Next

LEMMA StoreMeans == StoreInv => WholeMessages
<1> SUFFICES ASSUME StoreInv PROVE WholeMessages
  OBVIOUS
<1>1. DOMAIN mail = 1..Len(mail)
  BY SeqGrows DEF StoreInv
<1>2. QED
  BY <1>1 DEF StoreInv, WholeRead, WholeMessages

------------------------------------------------------------------------------
(***************************************************************************)
(* The ledger of sealed messages.                                          *)
(***************************************************************************)

\* An entry with its five fields, signed by the key it names.
Signed(e) ==
  /\ e = [letter |-> e.letter, key |-> e.key, signature |-> e.signature, cid |-> e.cid, tx |-> e.tx]
  /\ e.signature = <<e.key, [letter |-> e.letter, key |-> e.key]>>

Anchored(e, pins) ==
  e.tx # Nowhere => \E p \in pins : e.tx = <<"tx", CID(p)>> /\ Signable(p) = Signable(e)

\* What is returned and what is pinned is signed, the pin of an anchored entry is there,
\* and what others show is judged by its signed fields.
SealInv ==
  /\ \A e \in sealed \cup pinned : Signed(e)
  /\ \A e \in sealed : Anchored(e, pinned)
  /\ \A c \in copies : c.valid <=> Signable(c.copy) = Signable(c.of)

LEMMA SealInitial == SealInit => SealInv
BY DEF SealInit, SealInv

LEMMA SealKeeps ==
  ASSUME SealInv, NEW letter \in Letters, NEW key \in SealKeys, Seal(letter, key)
  PROVE  SealInv'
<1> DEFINE signature == <<key, [letter |-> letter, key |-> key]>>
           entry == [letter |-> letter, key |-> key, signature |-> signature, cid |-> Nowhere, tx |-> Nowhere]
           draft == Unsigned(letter, key)
           known(cid) == [entry EXCEPT !.cid = cid]
           anchored(cid) == [known(cid) EXCEPT !.tx = <<"tx", cid>>]
<1>1. [draft EXCEPT !.signature = Signature(draft)] = entry
  BY DEF Unsigned, Signature, Signable
<1>2. PICK cid \in {CID(entry), Unavailable} :
        /\ pinned' = IF cid = Unavailable THEN pinned ELSE pinned \cup {entry}
        /\ \/ sealed' = sealed \cup {known(cid)}
           \/ MayAnchor(known(cid)) /\ sealed' = sealed \cup {anchored(cid)}
  <2> HIDE DEF entry
  <2>1. QED
    BY <1>1 DEF Seal
<1>3. copies' = copies
  BY DEF Seal
<1>4. known(cid) = [letter |-> letter, key |-> key, signature |-> signature, cid |-> cid, tx |-> Nowhere]
  OBVIOUS
<1>5. anchored(cid) = [letter |-> letter, key |-> key, signature |-> signature, cid |-> cid, tx |-> <<"tx", cid>>]
  <2> HIDE DEF known, signature
  <2>1. QED
    BY <1>4
<1>6. Signed(entry) /\ Signed(known(cid)) /\ Signed(anchored(cid))
  <2>1. Signed(entry)
    BY DEF Signed
  <2>2. Signed(known(cid))
    BY <1>4 DEF Signed
  <2>3. Signed(anchored(cid))
    BY <1>5 DEF Signed
  <2>4. QED
    BY <2>1, <2>2, <2>3
<1>7. Anchored(known(cid), pinned')
  BY <1>4 DEF Anchored
<1>8. MayAnchor(known(cid)) => Anchored(anchored(cid), pinned')
  <2> SUFFICES ASSUME MayAnchor(known(cid)) PROVE Anchored(anchored(cid), pinned')
    OBVIOUS
  <2>1. cid # Unavailable
    BY <1>4 DEF MayAnchor
  <2>2. cid = CID(entry) /\ entry \in pinned'
    BY <1>2, <2>1
  <2>3. Signable(entry) = Signable(anchored(cid))
    BY <1>5 DEF Signable
  <2>4. anchored(cid).tx = <<"tx", CID(entry)>>
    BY <1>5, <2>2
  <2>5. QED
    BY <2>2, <2>3, <2>4 DEF Anchored
<1>9. \A e \in sealed : Anchored(e, pinned')
  <2>1. pinned \subseteq pinned'
    BY <1>2
  <2>2. QED
    BY <2>1 DEF SealInv, Anchored
<1>10. \/ sealed' = sealed \cup {known(cid)}
       \/ MayAnchor(known(cid)) /\ sealed' = sealed \cup {anchored(cid)}
  <2> HIDE DEF entry, known, anchored, signature, draft
  <2>1. QED
    BY <1>2
<1> HIDE DEF entry, known, anchored
<1>11. \A e \in sealed' : Signed(e) /\ Anchored(e, pinned')
  BY <1>6, <1>7, <1>8, <1>9, <1>10 DEF SealInv
<1>12. \A e \in pinned' : Signed(e)
  BY <1>2, <1>6 DEF SealInv
<1>13. QED
  BY <1>3, <1>11, <1>12 DEF SealInv

LEMMA ShowKeeps ==
  ASSUME SealInv, NEW e \in sealed \cup pinned, NEW letter \in Letters, NEW key \in SealKeys,
         Show(e, letter, key)
  PROVE  SealInv'
<1> DEFINE copy == [e EXCEPT !.letter = letter, !.key = key]
           shown == [copy |-> copy, of |-> e, valid |-> Verify(copy)]
<1>1. copies' = copies \cup {shown} /\ sealed' = sealed /\ pinned' = pinned
  BY DEF Show
<1>2. Signed(e)
  BY DEF SealInv
<1>3. copy.letter = letter /\ copy.key = key /\ copy.signature = e.signature
  BY <1>2 DEF Signed
<1>4. Verify(copy) <=> e.signature = <<key, [letter |-> letter, key |-> key]>>
  BY <1>3 DEF Verify, Signable
<1>5. Verify(copy) <=> [letter |-> letter, key |-> key] = [letter |-> e.letter, key |-> e.key]
  BY <1>2, <1>4 DEF Signed
<1>6. Verify(copy) <=> Signable(copy) = Signable(e)
  BY <1>3, <1>5 DEF Signable
<1>7. shown.valid = Verify(copy) /\ shown.copy = copy /\ shown.of = e
  BY Zenon
<1> HIDE DEF copy, shown
<1>8. shown.valid <=> Signable(shown.copy) = Signable(shown.of)
  BY <1>6, <1>7
<1>9. QED
  BY <1>1, <1>8 DEF SealInv

LEMMA SealPreserved == ASSUME SealInv, [SealNext]_sealVars PROVE SealInv'
<1>1. ASSUME NEW letter \in Letters, NEW key \in SealKeys, Seal(letter, key) PROVE SealInv'
  BY <1>1, SealKeeps
<1>2. ASSUME NEW e \in sealed \cup pinned, NEW letter \in Letters, NEW key \in SealKeys,
             Show(e, letter, key)
      PROVE  SealInv'
  BY <1>2, ShowKeeps
<1>3. CASE UNCHANGED sealVars
  BY <1>3 DEF SealInv, sealVars
<1>4. QED
  BY <1>1, <1>2, <1>3 DEF SealNext

LEMMA SealMeans == SealInv => SealsHold
BY DEF SealInv, SealsHold, Anchored

------------------------------------------------------------------------------
(***************************************************************************)
(* The staked messages.                                                    *)
(***************************************************************************)
Ops == {"lock", "release", "slash"}

\* The n-th transaction of c is the last one of the message.
LastOf(c, id, n) ==
  n \in 1..Len(c) /\ c[n].id = id /\ \A k \in 1..Len(c) : c[k].id = id => k <= n

\* The n-th transaction pays out what the k-th has locked, the one before it of the
\* same message.
Pays(c, n, k) ==
  /\ k \in 1..(n - 1) /\ c[k].op = "lock" /\ c[k].id = c[n].id /\ c[k].amount = c[n].amount
  /\ \A l \in (k + 1)..(n - 1) : c[l].id # c[n].id

PaysOut(c, n) == \E k \in 1..(n - 1) : Pays(c, n, k)

\* What a record says of the last transaction of its message.
Stands(c, id, s) ==
  /\ s.status = "none" => \A n \in 1..Len(c) : c[n].id # id
  /\ s.status \in {"locked", "expired"} =>
       \E n \in 1..Len(c) : LastOf(c, id, n) /\ c[n].op = "lock" /\ c[n].amount = s.amount
  /\ s.status \in {"released", "slashed"} =>
       \E n \in 1..Len(c) : LastOf(c, id, n) /\ c[n].op # "lock"

Records == [status : {"locked", "released", "slashed", "expired"}, amount : Amounts,
            policy : Policies, expires : Nat]

\* Every payment is of the lock right before it.
StakeInv ==
  /\ IsSeq(chain) /\ \A n \in 1..Len(chain) : chain[n].op \in Ops /\ chain[n].id \in MsgIds
  /\ \A n \in 1..Len(chain) : chain[n].op # "lock" => PaysOut(chain, n)
  /\ stakes = [id \in MsgIds |-> stakes[id]]
  /\ \A id \in MsgIds : stakes[id] \in Records \/ stakes[id] = NoStake
  /\ \A id \in MsgIds : Stands(chain, id, stakes[id])
  /\ stakeClock \in Nat

LEMMA StakeInitial == StakeInit => StakeInv
<1> SUFFICES ASSUME StakeInit PROVE StakeInv
  OBVIOUS
<1>1. IsSeq(<<>>) /\ Len(<<>>) = 0
  BY EmptySeq DEF IsSeq
<1>2. NoStake.status = "none"
  BY DEF NoStake
<1>3. \A id \in MsgIds : stakes[id] = NoStake /\ Stands(chain, id, stakes[id])
  BY <1>1, <1>2 DEF StakeInit, Stands
<1>4. QED
  BY <1>1, <1>3 DEF StakeInit, StakeInv

\* One more transaction.
LEMMA Submitted ==
  ASSUME StakeInv, NEW id \in MsgIds, NEW op \in Ops, NEW amount, NEW to, Submit(op, id, amount, to)
  PROVE  LET N == Len(chain) IN
         /\ N \in Nat /\ IsSeq(chain') /\ Len(chain') = N + 1
         /\ \A n \in 1..N : chain'[n] = chain[n]
         /\ chain'[N + 1].op = op /\ chain'[N + 1].id = id /\ chain'[N + 1].amount = amount
         /\ LastOf(chain', id, N + 1)
         /\ \A i \in MsgIds \ {id}, n \in 1..N : LastOf(chain, i, n) => LastOf(chain', i, n)
         /\ \A n \in 1..N : PaysOut(chain, n) => PaysOut(chain', n)
         /\ \A n \in 1..(N + 1) : chain'[n].op \in Ops /\ chain'[n].id \in MsgIds
<1> DEFINE t == Transaction(op, id, amount, to)
           N == Len(chain)
<1>1. chain' = Append(chain, t) /\ IsSeq(chain)
  BY DEF Submit, StakeInv
<1>2. t.op = op /\ t.id = id /\ t.amount = amount
  BY DEF Transaction
<1> HIDE DEF t
<1>3. /\ N \in Nat /\ IsSeq(chain') /\ Len(chain') = N + 1
      /\ (\A n \in 1..N : chain'[n] = chain[n]) /\ chain'[N + 1] = t
  BY <1>1, SeqGrows
<1>4. LastOf(chain', id, N + 1)
  BY <1>2, <1>3 DEF LastOf
<1>5. \A i \in MsgIds \ {id}, n \in 1..N : LastOf(chain, i, n) => LastOf(chain', i, n)
  BY <1>2, <1>3 DEF LastOf
<1>6. ASSUME NEW n \in 1..N, PaysOut(chain, n) PROVE PaysOut(chain', n)
  <2>1. PICK k \in 1..(n - 1) : Pays(chain, n, k)
    BY <1>6 DEF PaysOut
  <2>2. \A l \in 1..n : chain'[l] = chain[l]
    BY <1>3
  <2>3. Pays(chain', n, k)
    BY <2>1, <2>2 DEF Pays
  <2>4. QED
    BY <2>3 DEF PaysOut
<1>7. \A n \in 1..(N + 1) : chain'[n].op \in Ops /\ chain'[n].id \in MsgIds
  <2>1. \A n \in 1..(N + 1) : n \in 1..N \/ n = N + 1
    BY <1>3
  <2>2. QED
    BY <1>2, <1>3, <2>1 DEF StakeInv
<1> HIDE DEF N
<1>8. QED
  BY <1>2, <1>3, <1>4, <1>5, <1>6, <1>7 DEF N

\* The record of the message the transaction is of says what it was.
LEMMA RecordSubmitted ==
  ASSUME StakeInv, NEW id \in MsgIds, NEW op \in Ops, NEW amount, NEW to, Submit(op, id, amount, to),
         op # "lock" => PaysOut(chain', Len(chain) + 1),
         NEW s \in Records, stakes' = [stakes EXCEPT ![id] = s], UNCHANGED stakeClock,
         \/ op = "lock" /\ s.status = "locked" /\ s.amount = amount
         \/ op # "lock" /\ s.status \in {"released", "slashed"}
  PROVE  StakeInv'
<1> DEFINE N == Len(chain)
<1>1. /\ N \in Nat /\ IsSeq(chain') /\ Len(chain') = N + 1
      /\ \A n \in 1..N : chain'[n] = chain[n]
      /\ chain'[N + 1].op = op /\ chain'[N + 1].id = id /\ chain'[N + 1].amount = amount
      /\ LastOf(chain', id, N + 1)
      /\ \A i \in MsgIds \ {id}, n \in 1..N : LastOf(chain, i, n) => LastOf(chain', i, n)
      /\ \A n \in 1..N : PaysOut(chain, n) => PaysOut(chain', n)
      /\ \A n \in 1..(N + 1) : chain'[n].op \in Ops /\ chain'[n].id \in MsgIds
  BY Submitted
<1>2. stakes' = [i \in MsgIds |-> stakes'[i]] /\ stakes'[id] = s
      /\ \A i \in MsgIds \ {id} : stakes'[i] = stakes[i]
  BY DEF StakeInv
<1>3. \A n \in 1..Len(chain') : chain'[n].op # "lock" => PaysOut(chain', n)
  <2>1. \A n \in 1..(N + 1) : n \in 1..N \/ n = N + 1
    BY <1>1
  <2>2. \A n \in 1..N : chain[n].op # "lock" => PaysOut(chain, n)
    BY DEF StakeInv
  <2>3. QED
    BY <1>1, <2>1, <2>2
<1>4. Stands(chain', id, s)
  <2>1. N + 1 \in 1..Len(chain')
    BY <1>1
  <2>2. QED
    BY <1>1, <2>1 DEF Stands
<1>5. ASSUME NEW i \in MsgIds \ {id} PROVE Stands(chain', i, stakes[i])
  <2>1. Stands(chain, i, stakes[i])
    BY DEF StakeInv
  <2>2. ASSUME stakes[i].status = "none", NEW n \in 1..Len(chain') PROVE chain'[n].id # i
    <3>1. n \in 1..N \/ n = N + 1
      BY <1>1
    <3>2. QED
      BY <1>1, <2>1, <2>2, <3>1 DEF Stands
  <2>3. \A n \in 1..N : n \in 1..Len(chain')
    BY <1>1
  <2> HIDE DEF N
  <2>4. QED
    <3>1. \A n \in 1..N : LastOf(chain, i, n) => n \in 1..Len(chain') /\ LastOf(chain', i, n) /\ chain'[n] = chain[n]
      BY <1>1, <2>3
    <3>2. stakes[i].status \in {"locked", "expired"} =>
            \E n \in 1..N : LastOf(chain, i, n) /\ chain[n].op = "lock" /\ chain[n].amount = stakes[i].amount
      BY <2>1 DEF Stands, N
    <3>3. stakes[i].status \in {"released", "slashed"} =>
            \E n \in 1..N : LastOf(chain, i, n) /\ chain[n].op # "lock"
      BY <2>1 DEF Stands, N
    <3>4. QED
      BY <2>2, <3>1, <3>2, <3>3 DEF Stands
<1>6. \A i \in MsgIds : Stands(chain', i, stakes'[i])
  BY <1>2, <1>4, <1>5
<1>7. QED
  BY <1>1, <1>2, <1>3, <1>6 DEF StakeInv

\* What a locked message pays is what its last transaction has locked.
LEMMA LockedPays ==
  ASSUME StakeInv, NEW id \in MsgIds, stakes[id].status = "locked", NEW op \in Ops, NEW to,
         Submit(op, id, stakes[id].amount, to)
  PROVE  PaysOut(chain', Len(chain) + 1)
<1> DEFINE N == Len(chain)
           amount == stakes[id].amount
<1>1. Submit(op, id, amount, to)
  OBVIOUS
<1> HIDE DEF amount
<1>2. /\ N \in Nat /\ \A n \in 1..N : chain'[n] = chain[n]
      /\ chain'[N + 1].id = id /\ chain'[N + 1].amount = amount
  BY <1>1, Submitted
<1>3. PICK k \in 1..N : LastOf(chain, id, k) /\ chain[k].op = "lock" /\ chain[k].amount = amount
  BY DEF StakeInv, Stands, amount
<1>4. k \in 1..((N + 1) - 1) /\ \A l \in (k + 1)..((N + 1) - 1) : l \in 1..N /\ chain[l].id # id
  BY <1>2, <1>3 DEF LastOf
<1>5. Pays(chain', N + 1, k)
  BY <1>2, <1>3, <1>4 DEF Pays, LastOf
<1>6. QED
  BY <1>4, <1>5 DEF PaysOut

LEMMA StakePreserved == ASSUME StakeInv, [StakeNext]_stakeVars PROVE StakeInv'
<1>0. StakeTTL \in Nat /\ stakeClock \in Nat
  BY StakeAssumption DEF StakeInv
<1>1. ASSUME NEW id \in MsgIds, NEW amount \in Amounts, NEW policy \in Policies,
             Stake(id, amount, policy)
      PROVE  StakeInv'
  <2> DEFINE s == [status |-> "locked", amount |-> amount, policy |-> policy,
                   expires |-> stakeClock + StakeTTL]
  <2>1. /\ stakes' = [stakes EXCEPT ![id] = s] /\ Submit("lock", id, amount, "escrow")
        /\ UNCHANGED stakeClock
    BY <1>1 DEF Stake
  <2>2. s \in Records /\ s.status = "locked" /\ s.amount = amount
    BY <1>0 DEF Records
  <2> HIDE DEF s
  <2>3. "lock" \in Ops
    BY DEF Ops
  <2>4. QED
    BY <2>1, <2>2, <2>3, RecordSubmitted
<1>2. ASSUME NEW id \in MsgIds, ReleaseStake(id) \/ Slash(id) PROVE StakeInv'
  <2>1. PICK status \in {"released", "slashed"}, op \in {"release", "slash"} :
          \E to : /\ stakes' = [stakes EXCEPT ![id] = [stakes[id] EXCEPT !.status = status]]
                  /\ Submit(op, id, stakes[id].amount, to)
    BY <1>2 DEF ReleaseStake, Slash, Resolve
  <2>2. PICK to : Submit(op, id, stakes[id].amount, to)
    BY <2>1
  <2>3. stakes[id].status = "locked" /\ UNCHANGED stakeClock
    BY <1>2 DEF ReleaseStake, Slash, Locked
  <2>4. stakes[id] \in Records
    BY <2>3 DEF StakeInv, NoStake
  <2> DEFINE s == [stakes[id] EXCEPT !.status = status]
  <2>5. s \in Records /\ s.status = status
    BY <2>4 DEF Records
  <2>6. op \in Ops /\ op # "lock"
    BY DEF Ops
  <2>7. PaysOut(chain', Len(chain) + 1)
    BY <2>2, <2>3, <2>6, LockedPays
  <2> HIDE DEF s
  <2>8. stakes' = [stakes EXCEPT ![id] = s]
    BY <2>1 DEF s
  <2> DEFINE amount == stakes[id].amount
  <2>9. Submit(op, id, amount, to)
    BY <2>2
  <2> HIDE DEF amount
  <2>10. QED
    BY <2>3, <2>5, <2>6, <2>7, <2>8, <2>9, RecordSubmitted
<1>3. CASE ExpireStale
  <2>1. /\ UNCHANGED <<stakeClock, chain>>
        /\ stakes' = [id \in MsgIds |-> IF id \in Stale THEN [stakes[id] EXCEPT !.status = "expired"]
                                        ELSE stakes[id]]
    BY <1>3 DEF ExpireStale
  <2>2. ASSUME NEW id \in MsgIds
        PROVE  /\ stakes'[id] \in Records \/ stakes'[id] = NoStake
               /\ Stands(chain, id, stakes'[id])
    <3>1. CASE id \notin Stale
      BY <2>1, <3>1 DEF StakeInv
    <3>2. CASE id \in Stale
      <4>1. stakes[id].status = "locked" /\ stakes[id] \in Records
        BY <3>2 DEF Stale, Locked, StakeInv, NoStake
      <4>2. stakes'[id] = [stakes[id] EXCEPT !.status = "expired"]
        BY <2>1, <3>2
      <4>3. stakes'[id] \in Records /\ stakes'[id].status = "expired" /\ stakes'[id].amount = stakes[id].amount
        BY <4>1, <4>2 DEF Records
      <4>4. Stands(chain, id, stakes[id])
        BY DEF StakeInv
      <4>5. QED
        BY <4>1, <4>3, <4>4 DEF Stands
    <3>3. QED
      BY <3>1, <3>2
  <2>3. stakes' = [id \in MsgIds |-> stakes'[id]]
    BY <2>1
  <2>4. QED
    BY <2>1, <2>2, <2>3 DEF StakeInv
<1>4. CASE StakeTick
  BY <1>4 DEF StakeTick, StakeInv
<1>5. CASE UNCHANGED stakeVars
  BY <1>5 DEF stakeVars, StakeInv
<1>6. QED
  BY <1>1, <1>2, <1>3, <1>4, <1>5 DEF StakeNext

\* A payment's lock is the one the payment is of.
LEMMA LockIs ==
  ASSUME NEW n \in Nat, NEW k, Pays(chain, n, k), chain[n].op # "lock"
  PROVE  LockOf(n) = k
<1> DEFINE P(j) == /\ chain[j].op = "lock" /\ chain[j].id = chain[n].id
                   /\ \A l \in (j + 1)..n : chain[l].id = chain[n].id => chain[l].op # "lock"
<1>1. k \in 1..n /\ P(k)
  <2>1. k \in 1..n /\ \A l \in (k + 1)..n : l \in (k + 1)..(n - 1) \/ l = n
    BY DEF Pays
  <2>2. QED
    BY <2>1 DEF Pays
<1>2. ASSUME NEW j \in 1..n, P(j) PROVE j = k
  <2>1. j < k => FALSE
    BY <1>1, <1>2
  <2>2. k < j => FALSE
    BY <1>1, <1>2
  <2>3. QED
    BY <1>1, <2>1, <2>2
<1>3. LockOf(n) = CHOOSE j \in 1..n : P(j)
  BY DEF LockOf
<1> HIDE DEF P
<1>4. QED
  BY <1>1, <1>2, <1>3

LEMMA StakeMeans == StakeInv => PaidOutOnce
<1> SUFFICES ASSUME StakeInv PROVE PaidOutOnce
  OBVIOUS
<1>1. DOMAIN chain = 1..Len(chain) /\ Len(chain) \in Nat
  BY SeqGrows DEF StakeInv
<1>2. Payouts = {n \in 1..Len(chain) : chain[n].op # "lock"}
  BY <1>1 DEF Payouts
<1>3. ASSUME NEW n \in Payouts PROVE n \in 1..Len(chain) /\ Pays(chain, n, LockOf(n))
  <2>1. n \in 1..Len(chain) /\ n \in Nat /\ chain[n].op # "lock"
    BY <1>1, <1>2
  <2>2. PICK k \in 1..(n - 1) : Pays(chain, n, k)
    BY <2>1 DEF StakeInv, PaysOut
  <2>3. QED
    BY <2>1, <2>2, LockIs
<1>4. ASSUME NEW n \in Payouts, NEW k \in Payouts, n < k, chain[n].id = chain[k].id
      PROVE  LockOf(n) # LockOf(k)
  <2>1. LockOf(n) \in 1..(n - 1)
    BY <1>3 DEF Pays
  <2>2. Pays(chain, k, LockOf(k)) /\ n \in 1..Len(chain) /\ k \in 1..Len(chain)
    BY <1>3
  <2>3. n \notin (LockOf(k) + 1)..(k - 1)
    BY <1>4, <2>2 DEF Pays
  <2> DEFINE a == LockOf(n)
             b == LockOf(k)
  <2>4. a \in 1..(n - 1) /\ b \in 1..(k - 1) /\ n \notin (b + 1)..(k - 1)
    BY <2>1, <2>2, <2>3 DEF Pays
  <2> HIDE DEF a, b
  <2>5. a # b
    BY <1>4, <2>2, <2>4
  <2>6. QED
    BY <2>5 DEF a, b
<1>5. \A n \in Payouts : \A k \in Payouts \ {n} : chain[n].id = chain[k].id => LockOf(n) # LockOf(k)
  <2> SUFFICES ASSUME NEW n \in Payouts, NEW k \in Payouts \ {n}, chain[n].id = chain[k].id
               PROVE  LockOf(n) # LockOf(k)
    OBVIOUS
  <2>1. n < k \/ k < n
    BY <1>2
  <2>2. QED
    BY <1>4, <2>1
<1>6. \A n \in Payouts : chain[n].amount = chain[LockOf(n)].amount
  BY <1>3 DEF Pays
<1>7. ASSUME NEW id \in MsgIds
      PROVE  /\ stakes[id].status \in {"released", "slashed"} => IsPaidOut(id)
             /\ stakes[id].status = "locked" => ~IsPaidOut(id)
  <2>1. stakes[id].status \in {"none", "locked", "expired", "released", "slashed"}
    BY DEF StakeInv, Records, NoStake
  <2>2. Stands(chain, id, stakes[id])
    BY DEF StakeInv
  <2>3. CASE stakes[id].status \in {"none", "expired"}
    BY <2>3
  <2>4. CASE stakes[id].status = "locked"
    <3>1. PICK n \in 1..Len(chain) : LastOf(chain, id, n) /\ chain[n].op = "lock"
      BY <2>2, <2>4 DEF Stands
    <3>2. ASSUME NEW k \in Payouts, chain[k].id = id, \A l \in DOMAIN chain : chain[l].id = id => l <= k
          PROVE  FALSE
      <4>1. k \in 1..Len(chain) /\ chain[k].op # "lock"
        BY <1>2
      <4>2. k <= n /\ n <= k
        BY <1>1, <3>1, <3>2, <4>1 DEF LastOf
      <4>3. k = n
        BY <1>1, <4>1, <4>2
      <4>4. QED
        BY <3>1, <4>1, <4>3
    <3>3. QED
      BY <2>4, <3>2 DEF IsPaidOut
  <2>5. CASE stakes[id].status \in {"released", "slashed"}
    BY <1>1, <1>2, <2>2, <2>5 DEF Stands, LastOf, IsPaidOut
  <2>6. QED
    BY <2>1, <2>3, <2>4, <2>5
<1>8. QED
  BY <1>5, <1>6, <1>7 DEF PaidOutOnce, Locked

------------------------------------------------------------------------------
(***************************************************************************)
(* The MCP server.                                                         *)
(***************************************************************************)
Kinds == {"result", "failure", "error", "panic"}

\* The lines that are answered.
Answered == {l \in Lines : l.form \in {"garbage", "request"}}

\* The answer a line gets.
Fits(a, l) ==
  /\ a.id = IF l.form = "garbage" THEN NoId ELSE l.id
  /\ a.kind = "error" <=> Unfit(l)

AllFit(answers, lines) ==
  /\ Len(answers) = Len(lines)
  /\ \A n \in 1..Len(answers) : Fits(answers[n], lines[n])

\* The line in hand is the last one read.
InHand == loop \in {"dispatch", "crashed"}

\* The lines read before the one in hand.
Handled(before) ==
  IF InHand THEN before \in Seq(Lines) /\ line \in Answered /\ read = Append(before, line)
  ELSE before = read

\* The answers are those of the lines handled, and once the context is cancelled the
\* loop is at Scan for the last time.
ServerInv ==
  /\ stdin \in Seq(Lines) /\ read \in Seq(Lines) /\ IsSeq(sent)
  /\ loop \in {"check", "scan", "dispatch", "ended", "crashed"}
  /\ InHand => line.form = "request"
  /\ \E before \in Seq(Lines) : Handled(before) /\ AllFit(sent, Only(before, Answered))
  /\ loop = "ended" => cancelled \/ line = TooLong \/ (closed /\ stdin = <<>>)
  /\ late \in {0, 1}
  /\ late = 1 => cancelled /\ loop # "scan"

LEMMA OnlyIsSeq ==
  ASSUME NEW before \in Seq(Lines)
  PROVE  Only(before, Answered) \in Seq(Lines) /\ IsSeq(Only(before, Answered))
<1>1. Only(before, Answered) \in Seq(Lines)
  BY OnlyProperties
<1>2. IsSeq(Only(before, Answered))
  <2> DEFINE s == Only(before, Answered)
             T == {s[i] : i \in DOMAIN s}
  <2>1. s \in Seq(Lines) /\ s = [i \in 1..Len(s) |-> s[i]] /\ Len(s) \in Nat /\ DOMAIN s = 1..Len(s)
    <3> HIDE DEF s
    <3>1. s \in Seq(Lines)
      BY <1>1 DEF s
    <3>2. QED
      BY <3>1, LenProperties
  <2> HIDE DEF s
  <2>2. \A i \in 1..Len(s) : s[i] \in T
    BY <2>1
  <2> HIDE DEF T
  <2>3. s \in Seq(T)
    BY <2>1, <2>2
  <2>4. QED
    BY <2>3 DEF s, T, IsSeq
<1>3. QED
  BY <1>1, <1>2

\* One more answer, to one more line.
LEMMA FitsOneMore ==
  ASSUME NEW answers, IsSeq(answers), NEW lines, IsSeq(lines), AllFit(answers, lines),
         NEW a, NEW l, Fits(a, l)
  PROVE  IsSeq(Append(answers, a)) /\ AllFit(Append(answers, a), Append(lines, l))
<1> DEFINE as == Append(answers, a)
           ls == Append(lines, l)
           N == Len(answers)
<1>1. /\ N \in Nat /\ IsSeq(as) /\ Len(as) = N + 1
      /\ (\A i \in 1..N : as[i] = answers[i]) /\ as[N + 1] = a
  BY SeqGrows
<1>2. /\ Len(lines) = N /\ Len(ls) = N + 1
      /\ (\A i \in 1..N : ls[i] = lines[i]) /\ ls[N + 1] = l
  BY SeqGrows DEF AllFit
<1> HIDE DEF as, ls
<1>3. ASSUME NEW n \in 1..(N + 1) PROVE Fits(as[n], ls[n])
  <2>1. n \in 1..N \/ n = N + 1
    BY <1>1
  <2>2. QED
    BY <1>1, <1>2, <2>1 DEF AllFit
<1>4. AllFit(as, ls)
  BY <1>1, <1>2, <1>3 DEF AllFit
<1>5. QED
  BY <1>1, <1>4 DEF as, ls

LEMMA LineForms ==
  ASSUME NEW l \in Lines
  PROVE  l \in {Blank, Garbage, TooLong} \/ l.form = "request"
BY Zenon, ToolServerAssumption

\* What Combine can come to; DecryptResult makes of it a body or a failure.
LEMMA Decrypts ==
  ASSUME NEW thread, NEW threshold, NEW shares
  PROVE  DecryptResult(thread, threshold, shares).is \in {"error", "panic", "body"}
<1>1. Combine(shares).is \in {"error", "panic", "key"}
  BY DEF Combine, Failed, Panic, Secret
<1>2. QED
  BY <1>1 DEF DecryptResult, Failed, Body

\* A tool never ends a call with a protocol error.
LEMMA ToolsEnd ==
  ASSUME NEW args, NEW kind, CallTool(args, kind)
  PROVE  kind # "error"
<1> USE DEF Ends, Queried
<1>1. CASE ListInbox(args, kind) \/ GetMessage(args, kind) \/ SearchMessages(args, kind)
  BY <1>1 DEF ListInbox, GetMessage, SearchMessages
<1>2. CASE ListAccounts(args, kind) \/ GetStats(args, kind) \/ DaemonStatus(args, kind)
  BY <1>2 DEF ListAccounts, GetStats, DaemonStatus
<1>3. CASE RunMailScript(args, kind) \/ ListCommitments(args, kind) \/ AnalyzeSender(args, kind)
  BY <1>3 DEF RunMailScript, ListCommitments, AnalyzeSender
<1>4. CASE GetReputation(args, kind) \/ ListMarketplace(args, kind) \/ CreateGroupThread(args, kind)
  BY <1>4 DEF GetReputation, ListMarketplace, CreateGroupThread
<1>5. CASE DecryptGroupThread(args, kind)
  <2> DEFINE result == DecryptResult(args.thread, args.threshold, args.shares)
  <2>1. result.is \in {"error", "panic", "body"}
    BY Decrypts
  <2>2. kind = CASE args.shares = <<>> \/ result.is = "error" -> "failure"
                 [] args.shares # <<>> /\ result.is = "panic" -> "panic"
                 [] args.shares # <<>> /\ result.is = "body" -> "result"
    BY <1>5 DEF DecryptGroupThread
  <2> HIDE DEF result
  <2>3. QED
    BY <2>1, <2>2
<1>6. CASE StakeMessage(args, kind)
  BY <1>6 DEF StakeMessage
<1>7. CASE ArmDeadman(args, kind) \/ CheckinDeadman(args, kind)
  BY <1>7 DEF ArmDeadman, CheckinDeadman
<1>8. CASE UnknownTool(args, kind)
  BY <1>8 DEF UnknownTool
<1>9. QED
  BY <1>1, <1>2, <1>3, <1>4, <1>5, <1>6, <1>7, <1>8 DEF CallTool

LEMMA ServerInitial == ServerInit => ServerInv
<1> SUFFICES ASSUME ServerInit PROVE ServerInv
  OBVIOUS
<1>1. <<>> \in Seq(Lines) /\ IsSeq(<<>>) /\ Len(<<>>) = 0
  BY EmptySeq DEF IsSeq
<1>2. Handled(<<>>) /\ AllFit(sent, Only(<<>>, Answered))
  BY <1>1, OnlyEmpty DEF ServerInit, Handled, AllFit, InHand
<1>3. \E before \in Seq(Lines) : Handled(before) /\ AllFit(sent, Only(before, Answered))
  BY <1>1, <1>2
<1>4. QED
  BY <1>1, <1>3 DEF ServerInit, ServerInv, InHand

LEMMA CheckContextKeeps == ASSUME ServerInv, CheckContext PROVE ServerInv'
<1>1. /\ loop = "check" /\ loop' = IF cancelled THEN "ended" ELSE "scan"
      /\ UNCHANGED <<stdin, closed, cancelled, line, read, late, sent>>
  BY DEF CheckContext, HandsOff
<1>2. ~InHand /\ ~InHand'
  BY <1>1 DEF InHand
<1>3. read \in Seq(Lines) /\ AllFit(sent, Only(read, Answered))
  BY <1>2 DEF ServerInv, Handled
<1>4. Handled(read)' /\ AllFit(sent', Only(read', Answered))
  BY <1>1, <1>2, <1>3 DEF Handled
<1>5. (\E before \in Seq(Lines) : Handled(before) /\ AllFit(sent, Only(before, Answered)))'
  BY <1>1, <1>3, <1>4
<1>6. QED
  BY <1>1, <1>2, <1>5 DEF ServerInv, IsSeq

LEMMA ScanKeeps == ASSUME ServerInv, Scan PROVE ServerInv'
<1> DEFINE l == Head(stdin)
<1>1. /\ loop = "scan" /\ stdin # <<>>
      /\ line' = l /\ stdin' = Tail(stdin) /\ read' = Append(read, l)
      /\ late' = IF cancelled THEN late + 1 ELSE late
      /\ loop' = CASE line'.form \in {"blank", "garbage"} -> "check"
                   [] line'.form = "long" -> "ended"
                   [] line'.form = "request" -> "dispatch"
      /\ sent' = IF l.form = "garbage" THEN Append(sent, Answer(NoId, "error")) ELSE sent
      /\ UNCHANGED <<closed, cancelled>>
  BY DEF Scan, ReplyToGarbage, Send
<1>2. l \in Lines /\ stdin' \in Seq(Lines)
  BY <1>1, HeadTailProperties DEF ServerInv
<1> HIDE DEF l
<1>3. /\ ~InHand /\ read \in Seq(Lines) /\ IsSeq(sent) /\ AllFit(sent, Only(read, Answered))
      /\ late = 0
  BY <1>1 DEF ServerInv, Handled, InHand
<1>4. late' \in {0, 1} /\ (late' = 1 => cancelled')
  BY <1>1, <1>3
<1>5. read' \in Seq(Lines)
  BY <1>1, <1>2, <1>3, AppendProperties
<1>6. Only(read', Answered) = IF l \in Answered THEN Append(Only(read, Answered), l) ELSE Only(read, Answered)
  BY <1>1, <1>2, <1>3, OnlyAppend
<1>7. CASE l.form \notin {"garbage", "request", "long"}
  <2>1. l = Blank
    BY <1>2, <1>7, LineForms DEF Blank, Garbage, TooLong
  <2>2. l.form = "blank"
    BY <2>1 DEF Blank
  <2>3. loop' = "check" /\ sent' = sent
    BY <1>1, <2>2
  <2>4. ~InHand' /\ Only(read', Answered) = Only(read, Answered)
    BY <1>6, <1>7, <2>3 DEF InHand, Answered
  <2>5. PICK b \in Seq(Lines) : b = read'
    BY <1>5
  <2>6. Handled(b)' /\ AllFit(sent', Only(b, Answered))
    BY <1>3, <2>3, <2>4, <2>5 DEF Handled
  <2>7. (\E before \in Seq(Lines) : Handled(before) /\ AllFit(sent, Only(before, Answered)))'
    BY <2>6
  <2>8. QED
    BY <1>2, <1>3, <1>4, <1>5, <2>3, <2>4, <2>7 DEF ServerInv
<1>8. CASE l.form = "garbage"
  <2>1. loop' = "check" /\ sent' = Append(sent, Answer(NoId, "error")) /\ l \in Answered
    BY <1>1, <1>2, <1>8 DEF Answered
  <2>2. Fits(Answer(NoId, "error"), l)
    BY <1>8 DEF Fits, Answer, Unfit
  <2>3. IsSeq(sent') /\ AllFit(sent', Only(read', Answered))
    <3> DEFINE a == Answer(NoId, "error")
               lines == Only(read, Answered)
    <3>1. IsSeq(lines) /\ AllFit(sent, lines) /\ Fits(a, l) /\ IsSeq(sent)
      BY <1>3, <2>2, OnlyIsSeq
    <3> HIDE DEF a, lines
    <3>2. IsSeq(Append(sent, a)) /\ AllFit(Append(sent, a), Append(lines, l))
      BY <3>1, FitsOneMore
    <3>3. sent' = Append(sent, a) /\ Only(read', Answered) = Append(lines, l)
      BY <1>6, <2>1 DEF a, lines
    <3>4. QED
      BY <3>2, <3>3
  <2>4. ~InHand'
    BY <2>1 DEF InHand
  <2>5. PICK b \in Seq(Lines) : b = read'
    BY <1>5
  <2>6. Handled(b)' /\ AllFit(sent', Only(b, Answered))
    BY <2>3, <2>4, <2>5 DEF Handled
  <2>7. (\E before \in Seq(Lines) : Handled(before) /\ AllFit(sent, Only(before, Answered)))'
    BY <2>6
  <2>8. QED
    BY <1>2, <1>4, <1>5, <2>1, <2>3, <2>4, <2>7 DEF ServerInv
<1>9. CASE l.form = "long"
  <2>1. l = TooLong
    BY <1>2, <1>9, LineForms DEF Blank, Garbage, TooLong
  <2>2. loop' = "ended" /\ sent' = sent /\ line' = TooLong
    BY <1>1, <1>9, <2>1
  <2>3. ~InHand' /\ Only(read', Answered) = Only(read, Answered)
    BY <1>6, <1>9, <2>2 DEF InHand, Answered
  <2>4. PICK b \in Seq(Lines) : b = read'
    BY <1>5
  <2>5. Handled(b)' /\ AllFit(sent', Only(b, Answered))
    BY <1>3, <2>2, <2>3, <2>4 DEF Handled
  <2>6. (\E before \in Seq(Lines) : Handled(before) /\ AllFit(sent, Only(before, Answered)))'
    BY <2>5
  <2>7. QED
    BY <1>2, <1>3, <1>4, <1>5, <2>2, <2>3, <2>6 DEF ServerInv
<1>10. CASE l.form = "request"
  <2>1. loop' = "dispatch" /\ sent' = sent /\ line' = l /\ l \in Answered
    BY <1>1, <1>2, <1>10 DEF Answered
  <2>2. InHand'
    BY <2>1 DEF InHand
  <2>3. PICK b \in Seq(Lines) : b = read
    BY <1>3
  <2>4. Handled(b)' /\ AllFit(sent', Only(b, Answered))
    BY <1>1, <1>3, <2>1, <2>2, <2>3 DEF Handled
  <2>5. (\E before \in Seq(Lines) : Handled(before) /\ AllFit(sent, Only(before, Answered)))'
    BY <2>4
  <2>6. QED
    BY <1>2, <1>3, <1>4, <1>5, <1>10, <2>1, <2>2, <2>5 DEF ServerInv
<1>11. QED
  BY <1>7, <1>8, <1>9, <1>10

LEMMA DispatchKeeps == ASSUME ServerInv, NEW kind \in Kinds, Dispatch(kind) PROVE ServerInv'
<1>1. /\ loop = "dispatch"
      /\ loop' = IF kind = "panic" THEN "crashed" ELSE "check"
      /\ sent' = IF kind = "panic" THEN sent ELSE Append(sent, Answer(line.id, kind))
      /\ UNCHANGED <<stdin, closed, cancelled, line, read, late>>
  BY DEF Dispatch, Send, HandsOff
<1>2. InHand /\ line.form = "request" /\ IsSeq(sent) /\ (late = 1 => cancelled)
  BY <1>1 DEF ServerInv, InHand
<1>3. PICK b \in Seq(Lines) : Handled(b) /\ AllFit(sent, Only(b, Answered))
  BY DEF ServerInv
<1>4. line \in Answered /\ read = Append(b, line) /\ line \in Lines
  BY <1>2, <1>3 DEF Handled, Answered
<1>5. CASE kind = "panic"
  <2>1. loop' = "crashed" /\ sent' = sent /\ InHand'
    BY <1>1, <1>5 DEF InHand
  <2>2. Handled(b)' /\ AllFit(sent', Only(b, Answered))
    BY <1>1, <1>3, <1>4, <2>1 DEF Handled
  <2>3. (\E before \in Seq(Lines) : Handled(before) /\ AllFit(sent, Only(before, Answered)))'
    BY <2>2
  <2>4. QED
    BY <1>1, <1>2, <2>1, <2>3 DEF ServerInv
<1>6. CASE kind # "panic"
  <2> DEFINE a == Answer(line.id, kind)
             lines == Only(b, Answered)
  <2>1. loop' = "check" /\ sent' = Append(sent, a) /\ ~InHand'
    BY <1>1, <1>6 DEF InHand
  <2>2. kind = "error" <=> Unfit(line)
    <3>1. CASE line.method = "tools/call" /\ line.args # BadParams
      <4>1. CallTool(line.args, kind)
        BY <3>1 DEF Dispatch
      <4>2. kind # "error"
        BY <4>1, ToolsEnd
      <4>3. ~Unfit(line)
        BY <1>2, <3>1 DEF Unfit
      <4>4. QED
        BY <4>2, <4>3
    <3>2. CASE ~(line.method = "tools/call" /\ line.args # BadParams)
      <4>1. kind = IF line.method \in {"initialize", "tools/list", "ping"} THEN "result" ELSE "error"
        BY <3>2 DEF Dispatch
      <4>2. Unfit(line) <=> line.method \notin {"initialize", "tools/list", "ping"}
        BY <1>2, <3>2 DEF Unfit
      <4>3. QED
        BY <4>1, <4>2
    <3>3. QED
      BY <3>1, <3>2
  <2>3. Fits(a, line)
    BY <1>2, <2>2 DEF Fits, Answer
  <2>4. IsSeq(lines) /\ AllFit(sent, lines) /\ Only(read, Answered) = Append(lines, line)
    BY <1>3, <1>4, OnlyIsSeq, OnlyAppend
  <2> HIDE DEF a, lines
  <2>5. IsSeq(Append(sent, a)) /\ AllFit(Append(sent, a), Append(lines, line))
    BY <1>2, <2>3, <2>4, FitsOneMore
  <2>6. IsSeq(sent') /\ AllFit(sent', Only(read', Answered))
    BY <1>1, <2>1, <2>4, <2>5
  <2>7. PICK now \in Seq(Lines) : now = read'
    BY <1>1 DEF ServerInv
  <2>8. Handled(now)' /\ AllFit(sent', Only(now, Answered))
    BY <2>1, <2>6, <2>7 DEF Handled
  <2>9. (\E before \in Seq(Lines) : Handled(before) /\ AllFit(sent, Only(before, Answered)))'
    BY <2>8
  <2>10. QED
    BY <1>1, <1>2, <2>1, <2>6, <2>9 DEF ServerInv
<1>7. QED
  BY <1>5, <1>6

\* What others do between the steps of the loop.
LEMMA LoopWaits ==
  ASSUME ServerInv, stdin' \in Seq(Lines), UNCHANGED <<loop, line, read, late, sent>>,
         cancelled => cancelled', closed /\ stdin = <<>> => closed' /\ stdin' = <<>>
  PROVE  ServerInv'
<1>1. PICK b \in Seq(Lines) : Handled(b) /\ AllFit(sent, Only(b, Answered))
  BY DEF ServerInv
<1>2. Handled(b)' /\ AllFit(sent', Only(b, Answered))
  BY <1>1 DEF Handled, InHand
<1>3. (\E before \in Seq(Lines) : Handled(before) /\ AllFit(sent, Only(before, Answered)))'
  BY <1>2
<1>4. QED
  BY <1>3 DEF ServerInv, InHand, IsSeq

LEMMA ServerPreserved == ASSUME ServerInv, [ServerNext]_serverVars PROVE ServerInv'
<1>1. CASE CheckContext \/ Scan
  BY <1>1, CheckContextKeeps, ScanKeeps
<1>2. CASE ScanEOF
  <2>1. /\ loop = "scan" /\ loop' = "ended" /\ closed /\ stdin = <<>>
        /\ UNCHANGED <<stdin, closed, cancelled, line, read, late, sent>>
    BY <1>2 DEF ScanEOF, HandsOff
  <2>2. ~InHand /\ ~InHand'
    BY <2>1 DEF InHand
  <2>3. read \in Seq(Lines) /\ AllFit(sent, Only(read, Answered))
    BY <2>2 DEF ServerInv, Handled
  <2>4. Handled(read)' /\ AllFit(sent', Only(read', Answered))
    BY <2>1, <2>2, <2>3 DEF Handled
  <2>5. (\E before \in Seq(Lines) : Handled(before) /\ AllFit(sent, Only(before, Answered)))'
    BY <2>1, <2>3, <2>4
  <2>6. QED
    BY <2>1, <2>2, <2>5 DEF ServerInv, IsSeq
<1>3. ASSUME NEW kind \in Kinds, Dispatch(kind) PROVE ServerInv'
  BY <1>3, DispatchKeeps
<1>4. ASSUME NEW l \in Lines, WriteLine(l) PROVE ServerInv'
  <2>1. ~closed /\ stdin' = Append(stdin, l) /\ UNCHANGED <<closed, cancelled, loop, line, read, late, sent>>
    BY <1>4 DEF WriteLine
  <2>2. stdin' \in Seq(Lines)
    BY <2>1, AppendProperties DEF ServerInv
  <2>3. QED
    BY <2>1, <2>2, LoopWaits
<1>5. CASE CloseInput \/ Signal \/ UNCHANGED serverVars
  <2>1. /\ stdin' = stdin /\ UNCHANGED <<loop, line, read, late, sent>>
        /\ (cancelled => cancelled') /\ (closed => closed')
    BY <1>5 DEF CloseInput, Signal, serverVars
  <2>2. stdin' \in Seq(Lines)
    BY <2>1 DEF ServerInv
  <2>3. QED
    BY <2>1, <2>2, LoopWaits
<1>6. ASSUME NEW id \in SwitchIds, MonitorFires(id) PROVE ServerInv'
  <2>1. UNCHANGED <<stdin, closed, cancelled, loop, line, read, late, sent>>
    BY <1>6 DEF MonitorFires
  <2>2. stdin' \in Seq(Lines)
    BY <2>1 DEF ServerInv
  <2>3. QED
    BY <2>1, <2>2, LoopWaits
<1>7. QED
  BY <1>1, <1>2, <1>3, <1>4, <1>5, <1>6 DEF ServerNext, Kinds

LEMMA ServerMeans == ServerInv => OneAnswerEach
<1> SUFFICES ASSUME ServerInv PROVE OneAnswerEach
  OBVIOUS
<1>1. PICK b \in Seq(Lines) : Handled(b) /\ AllFit(sent, Only(b, Answered))
  BY DEF ServerInv
<1>2. Only(b, Answered) \in Seq(Lines) /\ Len(Only(b, Answered)) \in Nat
  BY OnlyIsSeq, LenProperties
<1>3. Owed = Only(b, Answered)
  <2> DEFINE asked == Only(read, Answered)
             s == Only(b, Answered)
  <2>1. Owed = IF InHand THEN SubSeq(asked, 1, Len(asked) - 1) ELSE asked
    BY DEF Owed, InHand, Answered
  <2>2. CASE ~InHand
    BY <1>1, <2>1, <2>2 DEF Handled
  <2>3. CASE InHand
    <3>1. line \in Answered /\ line \in Lines /\ read = Append(b, line)
      BY <1>1, <2>3 DEF Handled, Answered
    <3>2. asked = Append(s, line)
      BY <3>1, OnlyAppend
    <3> HIDE DEF asked
    <3>3. s \in Seq(Lines)
      BY <1>2
    <3> HIDE DEF s
    <3>4. asked \in Seq(Lines) /\ Len(asked) = Len(s) + 1 /\ \A i \in 1..Len(s) : asked[i] = s[i]
      BY <3>1, <3>2, <3>3, AppendProperties
    <3>5. Len(s) \in Nat /\ s = [i \in 1..Len(s) |-> s[i]]
      BY <3>3, LenProperties
    <3>6. SubSeq(asked, 1, Len(s)) = [i \in 1..Len(s) |-> asked[i]]
      BY <3>4, <3>5, SubSeqProperties
    <3>7. SubSeq(asked, 1, Len(s)) = s
      BY <3>4, <3>5, <3>6
    <3>8. Len(asked) - 1 = Len(s)
      BY <3>4, <3>5
    <3>9. QED
      BY <2>1, <2>3, <3>7, <3>8 DEF s
  <2>4. QED
    BY <2>2, <2>3
<1>4. DOMAIN sent = 1..Len(sent)
  BY SeqGrows DEF ServerInv
<1>5. late <= 1
  BY DEF ServerInv
<1>6. AllFit(sent, Owed)
  BY <1>1, <1>3
<1>7. QED
  BY <1>4, <1>5, <1>6 DEF AllFit, Fits, OneAnswerEach, ServerInv

------------------------------------------------------------------------------
(***************************************************************************)
(* The reputation profile.                                                 *)
(***************************************************************************)
IsHalved(f, age) == f = [n \in 0..age |-> IF n = 0 THEN 1000 ELSE f[n - 1] \div 2]

LEMMA HalfIs == ASSUME NEW w \in Nat PROVE w \div 2 \in Nat
BY QuotientIs

\* However old it is, a receipt has a weight: halving is defined for every number of
\* ticks and ends in a natural number.
LEMMA WeightIs == ASSUME NEW age \in Nat PROVE Weight(age) \in Nat
<1> DEFINE g == [n \in 1..age |-> [w \in Nat |-> w \div 2]]
<1>1. \E f : IsHalved(f, age)
  <2>1. g \in [1..age -> [Nat -> Nat]] /\ \A n \in 1..age : \A w \in Nat : g[n][w] = w \div 2
    BY HalfIs
  <2> HIDE DEF g
  <2>2. PICK f \in [0..age -> Nat] : f[0] = 1000 /\ \A n \in 1..age : f[n] = g[n][f[n - 1]]
    <3> DEFINE first == 1000
    <3>1. first \in Nat /\ StepsOf(g, age, Nat)
      BY <2>1 DEF StepsOf
    <3> HIDE DEF first
    <3>2. PICK f : RunsBy(f, age, Nat, first, g)
      BY <3>1, RecursionExists, Zenon
    <3>3. f \in [0..age -> Nat] /\ f[0] = first /\ \A n \in 1..age : f[n] = g[n][f[n - 1]]
      BY <3>2, Zenon DEF RunsBy
    <3>4. \E h \in [0..age -> Nat] : h[0] = first /\ \A n \in 1..age : h[n] = g[n][h[n - 1]]
      BY <3>3, Zenon
    <3>5. QED
      BY <3>4, Zenon DEF first
  <2>3. ASSUME NEW n \in 1..age PROVE f[n] = f[n - 1] \div 2
    <3>1. n - 1 \in 0..age
      OBVIOUS
    <3>2. f[n - 1] \in Nat
      BY <2>2, <3>1
    <3>3. g[n][f[n - 1]] = f[n - 1] \div 2
      BY <2>1, <3>2, Zenon
    <3>4. f[n] = g[n][f[n - 1]]
      BY <2>2
    <3>5. QED
      BY <3>3, <3>4, Zenon
  <2>4. \A n \in 0..age : f[n] = IF n = 0 THEN 1000 ELSE f[n - 1] \div 2
    BY <2>2, <2>3
  <2>5. f = [n \in 0..age |-> f[n]]
    BY <2>2
  <2>6. f = [n \in 0..age |-> IF n = 0 THEN 1000 ELSE f[n - 1] \div 2]
    BY <2>4, <2>5
  <2>7. IsHalved(f, age)
    BY <2>6, Zenon DEF IsHalved
  <2>8. QED
    BY <2>7
<1> DEFINE f == CHOOSE f : IsHalved(f, age)
<1>2. Weight(age) = f[age]
  BY DEF Weight, IsHalved
<1>3. IsHalved(f, age)
  BY <1>1
<1> HIDE DEF f
<1>4. \A n \in 0..age : f[n] = IF n = 0 THEN 1000 ELSE f[n - 1] \div 2
  BY <1>3 DEF IsHalved
<1>5. \A n \in 1..age : f[n - 1] \in Nat => f[n] \in Nat
  BY <1>4, HalfIs
<1>6. f[0] \in Nat
  BY <1>4
<1>7. \A n \in 0..age : f[n] \in Nat
  BY <1>5, <1>6, StaysIn
<1>8. QED
  BY <1>2, <1>7

\* The receipts together, w[n] being the weight of the n-th.
IsWeighed(f, N, w) == f = [n \in 0..N |-> IF n = 0 THEN 0 ELSE f[n - 1] + w[n]]

LEMMA WeighedIs ==
  ASSUME NEW N \in Nat, NEW w \in [1..N -> Nat]
  PROVE  /\ \E f : IsWeighed(f, N, w)
         /\ \A f : IsWeighed(f, N, w) => f[N] \in Nat
<1>1. \E f : IsWeighed(f, N, w)
  <2> DEFINE g == [n \in 1..N |-> [x \in Nat |-> x + w[n]]]
  <2>1. g \in [1..N -> [Nat -> Nat]] /\ \A n \in 1..N : \A x \in Nat : g[n][x] = x + w[n]
    OBVIOUS
  <2> HIDE DEF g
  <2>2. PICK f \in [0..N -> Nat] : f[0] = 0 /\ \A n \in 1..N : f[n] = g[n][f[n - 1]]
    <3>1. 0 \in Nat /\ StepsOf(g, N, Nat)
      BY <2>1 DEF StepsOf
    <3>2. PICK f : RunsBy(f, N, Nat, 0, g)
      BY <3>1, RecursionExists, Zenon
    <3>3. QED
      BY <3>2 DEF RunsBy
  <2>3. ASSUME NEW n \in 1..N PROVE f[n] = f[n - 1] + w[n]
    <3>1. n - 1 \in 0..N
      OBVIOUS
    <3>2. f[n - 1] \in Nat
      BY <2>2, <3>1
    <3>3. QED
      BY <2>1, <2>2, <3>2
  <2>4. \A n \in 0..N : f[n] = IF n = 0 THEN 0 ELSE f[n - 1] + w[n]
    BY <2>2, <2>3
  <2>5. f = [n \in 0..N |-> f[n]]
    BY <2>2
  <2>6. f = [n \in 0..N |-> IF n = 0 THEN 0 ELSE f[n - 1] + w[n]]
    BY <2>4, <2>5
  <2>7. QED
    BY <2>6 DEF IsWeighed
<1>2. ASSUME NEW f, IsWeighed(f, N, w) PROVE f[N] \in Nat
  <2>1. \A n \in 0..N : f[n] = IF n = 0 THEN 0 ELSE f[n - 1] + w[n]
    BY <1>2 DEF IsWeighed
  <2>2. \A n \in 1..N : f[n - 1] \in Nat => f[n] \in Nat
    BY <2>1
  <2>3. f[0] \in Nat
    BY <2>1
  <2>4. \A n \in 0..N : f[n] \in Nat
    BY <2>2, <2>3, StaysIn
  <2>5. QED
    BY <2>4
<1>3. QED
  BY <1>1, <1>2

LEMMA WeightedSumIs ==
  ASSUME NEW p, repClock \in Nat, p.receipts \in Seq(0..repClock)
  PROVE  WeightedSum(p) \in Nat
<1> DEFINE N == Len(p.receipts)
           w == [n \in 1..N |-> Weight(repClock - p.receipts[n])]
           f == CHOOSE f : f = [n \in 0..N |-> IF n = 0 THEN 0
                                              ELSE f[n - 1] + Weight(repClock - p.receipts[n])]
<1>1. WeightedSum(p) = f[N]
  BY DEF WeightedSum
<1>2. N \in Nat /\ \A n \in 1..N : p.receipts[n] \in 0..repClock
  BY ElementOfSeq, LenProperties
<1>3. w \in [1..N -> Nat] /\ \A n \in 1..N : w[n] = Weight(repClock - p.receipts[n])
  <2>1. \A n \in 1..N : repClock - p.receipts[n] \in Nat
    BY <1>2
  <2>2. \A n \in 1..N : Weight(repClock - p.receipts[n]) \in Nat
    BY <2>1, WeightIs
  <2>3. QED
    BY <2>2
<1> HIDE DEF N, w
<1>4. ASSUME NEW h
      PROVE  IsWeighed(h, N, w)
             <=> h = [n \in 0..N |-> IF n = 0 THEN 0 ELSE h[n - 1] + Weight(repClock - p.receipts[n])]
  <2>1. \A n \in 0..N : (IF n = 0 THEN 0 ELSE h[n - 1] + w[n])
                        = IF n = 0 THEN 0 ELSE h[n - 1] + Weight(repClock - p.receipts[n])
    BY <1>2, <1>3
  <2>2. [n \in 0..N |-> IF n = 0 THEN 0 ELSE h[n - 1] + w[n]]
        = [n \in 0..N |-> IF n = 0 THEN 0 ELSE h[n - 1] + Weight(repClock - p.receipts[n])]
    BY <2>1
  <2>3. QED
    BY <2>2 DEF IsWeighed
<1>5. PICK h : IsWeighed(h, N, w)
  BY <1>2, <1>3, WeighedIs
<1>6. h = [n \in 0..N |-> IF n = 0 THEN 0 ELSE h[n - 1] + Weight(repClock - p.receipts[n])]
  BY <1>4, <1>5
<1>7. f = [n \in 0..N |-> IF n = 0 THEN 0 ELSE f[n - 1] + Weight(repClock - p.receipts[n])]
  BY <1>6
<1> HIDE DEF f
<1>8. IsWeighed(f, N, w)
  BY <1>4, <1>7
<1>9. QED
  BY <1>1, <1>2, <1>3, <1>8, WeighedIs

\* Rounding does not leave a bound that is a whole number.
LEMMA RoundedIs ==
  ASSUME NEW d \in Nat \ {0}, NEW b \in Nat, NEW n \in Nat, n <= b * d
  PROVE  Rounded(n, d) \in 0..b
<1> DEFINE x == 2 * n + d
           e == 2 * d
           q == x \div e
<1>1. x \in Nat /\ e \in Nat \ {0}
  OBVIOUS
<1>2. q \in Nat /\ e * q \in Nat /\ e * q <= x
  <2> HIDE DEF x, e
  <2>1. q \in Nat
    BY <1>1, QuotientIs
  <2>2. x = e * q + (x % e) /\ (x % e) \in Nat
    BY <1>1
  <2>3. QED
    BY <1>1, <2>1, <2>2
<1>3. ASSUME q >= b + 1 PROVE FALSE
  <2>1. e * (b + 1) <= e * q
    <3> HIDE DEF e, q
    <3>1. QED
      BY <1>1, <1>2, <1>3
  <2>2. e * (b + 1) = 2 * (b * d) + 2 * d /\ b * d \in Nat
    OBVIOUS
  <2> HIDE DEF q
  <2>3. 2 * (b * d) + 2 * d <= 2 * n + d
    BY <1>2, <2>1, <2>2
  <2>4. QED
    BY <2>2, <2>3
<1> HIDE DEF q
<1>4. q \in 0..b
  BY <1>2, <1>3
<1>5. QED
  BY <1>4 DEF Rounded, q

\* A share of d is at most a thousand thousandths.
LEMMA ShareIs ==
  ASSUME NEW d \in Nat \ {0}, NEW n \in 0..d
  PROVE  Thousandths(n, d) \in 0..1000
<1>1. 1000 * n \in Nat /\ 1000 * n <= 1000 * d
  OBVIOUS
<1>2. Rounded(1000 * n, d) \in 0..1000
  <2> DEFINE x == 1000 * n
             b == 1000
  <2>1. x \in Nat /\ b \in Nat /\ x <= b * d
    BY <1>1
  <2> HIDE DEF x, b
  <2>2. Rounded(x, d) \in 0..b
    BY <2>1, RoundedIs, Zenon
  <2>3. QED
    BY <2>2 DEF x, b
<1>3. QED
  BY <1>2, Zenon DEF Thousandths

Profiles ==
  [receipts : Seq(0..repClock), total : 0..MaxCount, kept : 0..MaxCount, staked : 0..MaxCount,
   score : Int, parts : [reliability : Int, receipts : Int, stake : Int, age : Int],
   updated : Never..repClock]

\* When no more commitments are kept than were made, every score is a share.
SharesFit(p) ==
  p.kept <= p.total =>
    /\ p.score \in 0..1000
    /\ p.parts.reliability \in 0..1000 /\ p.parts.receipts \in 0..1000
    /\ p.parts.stake \in 0..1000 /\ p.parts.age \in 0..1000

RepInv == repClock \in 0..MaxRepClock /\ profile \in Profiles /\ SharesFit(profile)

LEMMA RepInitial == RepInit => RepInv
<1> SUFFICES ASSUME RepInit PROVE RepInv
  OBVIOUS
<1>1. <<>> \in Seq(0..repClock)
  BY EmptySeq
<1>2. QED
  BY <1>1, ReputationAssumption DEF RepInit, NewProfile, NoScores, RepInv, SharesFit, Profiles, Never

\* Recompute, called with any counters: the score is one of the parts' weights, and a
\* share when each of them is.
LEMMA RecomputeKeeps ==
  ASSUME NEW p \in Profiles, repClock \in 0..MaxRepClock, profile' = Recompute(p), repClock' = repClock
  PROVE  RepInv'
<1> DEFINE rel == Reliability(p)
           rec == ReceiptScore(p)
           stk == StakeScore(p)
           age == Longevity(p)
           x == 40 * rel + 35 * rec + 15 * stk + 10 * age
           parts == [reliability |-> rel, receipts |-> rec, stake |-> stk, age |-> age]
<1>1. /\ p.receipts \in Seq(0..repClock) /\ p.total \in Nat /\ p.kept \in Nat /\ p.staked \in Nat
      /\ repClock \in Nat
  BY ReputationAssumption DEF Profiles
<1>2. rec \in 0..1000
  <2> DEFINE s == WeightedSum(p)
  <2>1. s \in Nat
    BY <1>1, WeightedSumIs
  <2> HIDE DEF s
  <2> DEFINE d == s + 20000
  <2>2. d \in Nat \ {0} /\ s \in 0..d
    BY <2>1
  <2>3. rec = Thousandths(s, d)
    BY DEF ReceiptScore, s
  <2> HIDE DEF d
  <2>4. Thousandths(s, d) \in 0..1000
    BY <2>2, ShareIs, ZenonT(40)
  <2>5. QED
    BY <2>3, <2>4
<1>3. stk \in 0..1000
  <2>1. p.staked + 10 \in Nat \ {0} /\ p.staked \in 0..(p.staked + 10)
    BY <1>1
  <2>2. QED
    BY <2>1, ShareIs, ZenonT(40) DEF StakeScore
<1>4. age \in 0..1000
  BY DEF Longevity
<1>5. rel \in Int /\ (p.kept <= p.total => rel \in 0..1000)
  <2>1. CASE p.total = 0
    BY <2>1 DEF Reliability
  <2>2. CASE p.total # 0
    <3>1. p.kept <= p.total => Thousandths(p.kept, p.total) \in 0..1000
      <4>1. p.kept <= p.total => p.kept \in 0..p.total /\ p.total \in Nat \ {0}
        BY <1>1, <2>2
      <4>2. QED
        BY <4>1, ShareIs, ZenonT(40)
    <3>2. Thousandths(p.kept, p.total) \in Int
      <4> DEFINE y == 2 * (1000 * p.kept) + p.total
                 e == 2 * p.total
      <4>1. y \in Nat /\ e \in Nat \ {0}
        BY <1>1, <2>2
      <4> HIDE DEF y, e
      <4>2. y \div e \in Int
        BY <4>1, QuotientIs
      <4>3. QED
        BY <4>2 DEF Thousandths, Rounded, y, e
    <3>3. QED
      BY <2>2, <3>1, <3>2, SMTT(30) DEF Reliability
  <2>3. QED
    BY <2>1, <2>2
<1>6. profile' = [p EXCEPT !.parts = parts, !.score = Rounded(x, 100), !.updated = repClock]
  BY DEF Recompute
<1> HIDE DEF rel, rec, stk, age
<1>7. Rounded(x, 100) \in Int /\ (p.kept <= p.total => Rounded(x, 100) \in 0..1000)
  <2>1. rel \in Int /\ rec \in Nat /\ stk \in Nat /\ age \in Nat
    BY <1>2, <1>3, <1>4, <1>5
  <2>2. rec <= 1000 /\ stk <= 1000 /\ age <= 1000
    BY <1>2, <1>3, <1>4
  <2>3. p.kept <= p.total => rel \in Nat /\ rel <= 1000
    BY <1>5
  <2>4. x \in Int
    BY <2>1
  <2>5. p.kept <= p.total => x \in Nat /\ x <= 1000 * 100
    BY <2>1, <2>2, <2>3
  <2> HIDE DEF x
  <2>6. p.kept <= p.total => Rounded(x, 100) \in 0..1000
    <3>1. ASSUME p.kept <= p.total PROVE Rounded(x, 100) \in 0..1000
      <4> DEFINE b == 1000
                 d == 100
      <4>1. x \in Nat /\ b \in Nat /\ d \in Nat \ {0} /\ x <= b * d
        BY <2>5, <3>1
      <4> HIDE DEF b, d
      <4>2. Rounded(x, d) \in 0..b
        BY <4>1, RoundedIs, Zenon
      <4>3. QED
        BY <4>2 DEF b, d
    <3>2. QED
      BY <3>1
  <2>7. Rounded(x, 100) \in Int
    BY <2>4 DEF Rounded
  <2>8. QED
    BY <2>6, <2>7
<1> HIDE DEF x
<1>8. /\ profile'.receipts = p.receipts /\ profile'.total = p.total /\ profile'.kept = p.kept
      /\ profile'.staked = p.staked /\ profile'.score = Rounded(x, 100) /\ profile'.parts = parts
      /\ profile'.updated = repClock
      /\ profile' = [receipts |-> p.receipts, total |-> p.total, kept |-> p.kept, staked |-> p.staked,
                     score |-> Rounded(x, 100), parts |-> parts, updated |-> repClock]
  BY <1>6 DEF Profiles
<1>9. /\ parts \in [reliability : Int, receipts : Int, stake : Int, age : Int]
      /\ parts.reliability = rel /\ parts.receipts = rec /\ parts.stake = stk /\ parts.age = age
  BY <1>2, <1>3, <1>4, <1>5
<1> HIDE DEF parts
<1>10. repClock \in Never..repClock
  BY <1>1 DEF Never
<1>11. profile' \in Profiles'
  BY <1>7, <1>8, <1>9, <1>10 DEF Profiles
<1>12. QED
  BY <1>2, <1>3, <1>4, <1>5, <1>7, <1>8, <1>9, <1>11, SMTT(30) DEF RepInv, SharesFit

LEMMA RepPreserved == ASSUME RepInv, [RepNext]_repVars PROVE RepInv'
<1>1. repClock \in 0..MaxRepClock /\ profile \in Profiles /\ MaxCount \in Nat /\ MaxRepClock \in Nat
  BY ReputationAssumption DEF RepInv
<1>2. ASSUME NEW issued \in 0..repClock, AddReceipt(issued) PROVE RepInv'
  <2> DEFINE p == [profile EXCEPT !.receipts = Append(@, issued), !.kept = @ + 1]
  <2>1. profile' = Recompute(p) /\ repClock' = repClock /\ profile.kept + 1 \in 0..MaxCount
    BY <1>1, <1>2, SMTT(30) DEF AddReceipt, Profiles
  <2>2. profile.receipts \in Seq(0..repClock)
    BY <1>1 DEF Profiles
  <2>3. Append(profile.receipts, issued) \in Seq(0..repClock)
    BY <2>2, AppendProperties
  <2>4. p \in Profiles
    BY <1>1, <2>1, <2>3 DEF Profiles
  <2> HIDE DEF p
  <2>5. QED
    BY <1>1, <2>1, <2>4, RecomputeKeeps
<1>3. CASE RecordCommitment
  <2> DEFINE p == [profile EXCEPT !.total = @ + 1]
  <2>1. profile' = Recompute(p) /\ repClock' = repClock /\ profile.total + 1 \in 0..MaxCount
    BY <1>1, <1>3 DEF RecordCommitment, Profiles
  <2>2. p \in Profiles
    BY <1>1, <2>1 DEF Profiles
  <2> HIDE DEF p
  <2>3. QED
    BY <1>1, <2>1, <2>2, RecomputeKeeps
<1>4. CASE RecordStake
  <2> DEFINE p == [profile EXCEPT !.staked = @ + 1]
  <2>1. profile' = Recompute(p) /\ repClock' = repClock /\ profile.staked + 1 \in 0..MaxCount
    BY <1>1, <1>4 DEF RecordStake, Profiles
  <2>2. p \in Profiles
    BY <1>1, <2>1 DEF Profiles
  <2> HIDE DEF p
  <2>3. QED
    BY <1>1, <2>1, <2>2, RecomputeKeeps
<1>5. CASE RepTick
  <2>1. repClock' = repClock + 1 /\ profile' = profile /\ repClock' \in 0..MaxRepClock
    BY <1>1, <1>5 DEF RepTick
  <2>2. 0..repClock \subseteq 0..repClock' /\ Never..repClock \subseteq Never..repClock'
    BY <1>1, <2>1 DEF Never
  <2>3. profile.receipts \in Seq(0..repClock')
    BY <1>1, <2>2, SeqMonotonic DEF Profiles
  <2>4. profile' \in Profiles'
    BY <1>1, <2>1, <2>2, <2>3 DEF Profiles
  <2>5. QED
    BY <2>1, <2>4 DEF RepInv
<1>6. CASE UNCHANGED repVars
  <2>1. profile' = profile /\ repClock' = repClock
    BY <1>6 DEF repVars
  <2>2. Profiles' = Profiles
    BY <2>1, Zenon DEF Profiles
  <2>3. QED
    BY <2>1, <2>2 DEF RepInv
<1>7. QED
  BY <1>2, <1>3, <1>4, <1>5, <1>6 DEF RepNext

LEMMA RepMeans == RepInv => ScoreIsAShare
<1> SUFFICES ASSUME RepInv, profile.kept <= profile.total PROVE ScoreIsAShare
  BY ZenonT(40) DEF ScoreIsAShare
<1>1. DOMAIN profile.parts = {"reliability", "receipts", "stake", "age"}
  BY DEF RepInv, SharesFit, Profiles
<1>2. QED
  BY <1>1, SMTT(30) DEF RepInv, SharesFit, ScoreIsAShare

------------------------------------------------------------------------------
(***************************************************************************)
(* What a job has read, and what it has made of it.                        *)
(***************************************************************************)

\* Of a job that has not begun a mailbox, or a directory of it.
Nameless == ""

\* The numbers of an entry, from the first to the last: lines of an mbox file; or one
\* row or file.
Key(p) == [n \in 1..(p[2] - p[1] + 1) |-> p[1] + n - 1]

\* Of the numbers 1..l, those after n.
Left(n, l) == [i \in 1..(l - n) |-> n + i]

\* How much of the input a job has read, and how much before what is in its buffer.
ReadSoFar(J) == Len(J.src) - Len(J.rest)
UpTo(J) == ReadSoFar(J) - Len(J.buf)

\* The entries that a job has come to the end of.  Of the Maildir, those that it can have:
\* a file of new is one only after new has been listed.
PassedLines(f, a) == {p \in Pieces(f) : p[2] <= a}

PassedRows(n) == {<<m, m>> : m \in 1..n}

PassedFiles(J, dirs) ==
  {<<f, f>> : f \in {f \in Files : /\ J.dir # Nameless /\ f \notin ToSet(J.rest)
                                   /\ J.dir = "cur" => dirs[f] = "cur"}}

Passed(J, dirs) ==
  IF J.kind = "mbox" THEN PassedLines(J.src, UpTo(J))
  ELSE IF J.kind = "database" THEN PassedRows(ReadSoFar(J))
  ELSE IF J.kind = "maildir" THEN PassedFiles(J, dirs)
  ELSE {}

\* The buffer is what has been read of one piece, from its first line on.
ReadsMbox(J) ==
  /\ IsRead(J.src) /\ ReadSoFar(J) \in 0..Len(J.src) /\ UpTo(J) \in 0..ReadSoFar(J)
  /\ J.rest = Left(ReadSoFar(J), Len(J.src)) /\ J.buf = Key(<<UpTo(J) + 1, ReadSoFar(J)>>)
  /\ \A n \in (UpTo(J) + 1)..ReadSoFar(J) : IsText(J.src, n)
  /\ UpTo(J) \notin {0, Len(J.src)} => ~IsText(J.src, UpTo(J))
  /\ J.at # "run" => UpTo(J) = ReadSoFar(J)
  /\ J.at \in {"account", "create", "run"} => ReadSoFar(J) < Len(J.src)
  /\ J.at = "done" => ReadSoFar(J) = Len(J.src)

ReadsRows(J) ==
  /\ AreRows(J.src) /\ ReadSoFar(J) \in 0..Len(J.src)
  /\ J.rest = Left(ReadSoFar(J), Len(J.src))
  /\ J.at = "done" => ReadSoFar(J) = Len(J.src)

\* The files of the directory that is being read, each once.
ReadsFiles(J) ==
  /\ J.rest \in Seq(Files) /\ IsInjective(J.rest)
  /\ J.dir \in {Nameless, "cur", "new", "end"}
  /\ J.dir \in {Nameless, "end"} => J.rest = <<>>
  /\ J.at # "done" => J.dir # "end"

Reads(J) ==
  /\ J.kind = "mbox" => ReadsMbox(J)
  /\ J.kind = "database" => ReadsRows(J)
  /\ J.kind = "maildir" => ReadsFiles(J)

Ats == {"idle", "account", "create", "run", "saving", "done", "failed", "dead"}

Boxes == {"mbox", "database", "maildir", "unknown", "directory"}

IsRecord(J) ==
  J = [at |-> J.at, kind |-> J.kind, src |-> J.src, rest |-> J.rest, buf |-> J.buf, dir |-> J.dir,
       oks |-> J.oks, errs |-> J.errs, paths |-> J.paths, box |-> J.box]

IsRun(J) ==
  /\ IsRecord(J)
  /\ J.at \in Ats /\ J.kind \in Boxes \cup {Nameless, "scan"}
  /\ J.oks \in Nat /\ J.errs \in Nat /\ J.box \in Nat

\* The numbers of two entries are different.
Apart(x, y) == ToSet(x) \cap ToSet(y) = {}

\* A job with E, the keys of what it has stored, and C, its call of SaveMessage.
Exact(j, J, C, E, dirs) ==
  /\ IsRun(J) /\ C = [at |-> C.at, msg |-> C.msg, done |-> C.done]
  /\ J.at # "saving" => C.at = "idle"
  /\ J.at = "saving" => C.at \in {"begun", "open", "saved", "failed"}
  /\ C.at \in {"begun", "open"} =>
       /\ C.msg.from = j /\ C.msg.box = J.box
       /\ \E p \in Passed(J, dirs) : C.msg.key = Key(p)
       /\ \A i \in DOMAIN E : Apart(E[i], C.msg.key)
  /\ IsFiniteSet(DOMAIN E)
  /\ \A i, k \in DOMAIN E : i # k => Apart(E[i], E[k])
  /\ J.kind = "mbox" => \A i \in DOMAIN E : \E p \in Pieces(J.src) : E[i] = Key(p)
  /\ J.at = "idle" => J = NotStarted /\ DOMAIN E = {}
  /\ J.at \in {"idle", "account", "create"} => J.oks = 0 /\ J.errs = 0 /\ J.dir = Nameless
  /\ J.at \notin {"idle", "failed", "dead"} =>
       /\ Reads(J)
       /\ \A i \in DOMAIN E : \E p \in Passed(J, dirs) : E[i] = Key(p)
       /\ J.oks + (IF C.at = "saved" THEN 1 ELSE 0) = Cardinality(DOMAIN E)
       /\ J.kind \in {"mbox", "database"} =>
            J.oks + J.errs + (IF J.at = "saving" THEN 1 ELSE 0) = Cardinality(Passed(J, dirs))

KeysIn(j, box) ==
  [i \in {i \in DOMAIN mail : mail[i].from = j /\ mail[i].box = box} |-> mail[i].key]

\* What a scan will come across.
ToCome(paths) ==
  \A n \in DOMAIN paths :
    /\ paths[n].lines # <<>> => IsRead(paths[n].lines) /\ paths[n].shape = "file"
    /\ AreRows(paths[n].rows)

JobInv(j) ==
  /\ Exact(j, job[j], call[j], KeysIn(j, job[j].box), maildir)
  /\ \A i \in DOMAIN mail : mail[i].from = j => mail[i].box \in Nat /\ mail[i].box <= job[j].box
  /\ IsSeq(job[j].paths) /\ ToCome(job[j].paths)

ImportInv ==
  /\ job = [j \in Jobs |-> job[j]] /\ call = [j \in Jobs |-> call[j]]
  /\ maildir \in [Files -> {"cur", "new"}]
  /\ \A j \in Jobs : JobInv(j)

LEMMA ReadIs ==
  ASSUME NEW f, IsRead(f)
  PROVE  Len(f) \in Nat /\ Len(f) > 0 /\ \A n \in 1..(Len(f) - 1) : f[n] # Nameless
<1>1. f \in Seq(STRING) /\ f # <<>> /\ \A n \in 1..(Len(f) - 1) : f[n] # Nameless
  BY Zenon DEF IsRead, Nameless
<1>2. Len(f) # 0
  BY <1>1, EmptySeq
<1>3. QED
  BY <1>1, <1>2, LenProperties

LEMMA LeftIs ==
  ASSUME NEW l \in Nat, NEW n \in 0..l
  PROVE  /\ Left(n, l) \in Seq(Nat) /\ Len(Left(n, l)) = l - n
         /\ n = l => Left(n, l) = <<>>
         /\ n < l => /\ Left(n, l) # <<>> /\ Head(Left(n, l)) = n + 1
                     /\ Tail(Left(n, l)) = Left(n + 1, l)
<1> DEFINE s == Left(n, l)
<1>1. s \in Seq(Nat) /\ Len(s) = l - n /\ \A i \in 1..(l - n) : s[i] = n + i
  BY DEF Left
<1>2. ASSUME n = l PROVE s = <<>>
  BY <1>1, <1>2, EmptySeq
<1>3. ASSUME n < l PROVE s # <<>> /\ Head(s) = n + 1 /\ Tail(s) = Left(n + 1, l)
  <2>1. s # <<>> /\ Head(s) = s[1] /\ 1 \in 1..(l - n)
    BY <1>1, <1>3, EmptySeq
  <2>2. /\ Tail(s) \in Seq(Nat) /\ Len(Tail(s)) = Len(s) - 1
        /\ \A i \in 1..Len(Tail(s)) : Tail(s)[i] = s[i + 1]
    BY <1>1, <2>1, HeadTailProperties
  <2>3. \A i \in 1..(l - (n + 1)) : s[i + 1] = (n + 1) + i
    BY <1>1
  <2>4. Len(s) - 1 = l - (n + 1)
    BY <1>1
  <2>5. Tail(s) = [i \in 1..(l - (n + 1)) |-> (n + 1) + i]
    <3> DEFINE t == Tail(s)
    <3>1. t \in Seq(Nat)
      BY <2>2
    <3> HIDE DEF t
    <3>2. t = [i \in 1..Len(t) |-> t[i]]
      BY <3>1, LenProperties
    <3>3. QED
      BY <2>2, <2>3, <2>4, <3>2 DEF t
  <2>6. QED
    BY <1>1, <2>1, <2>5 DEF Left
<1>4. QED
  BY <1>1, <1>2, <1>3

LEMMA KeyIs ==
  ASSUME NEW a \in Nat, NEW b \in Nat, a <= b
  PROVE  /\ Key(<<a + 1, b>>) \in Seq(Nat) /\ Len(Key(<<a + 1, b>>)) = b - a
         /\ ToSet(Key(<<a + 1, b>>)) = (a + 1)..b
         /\ a = b <=> Key(<<a + 1, b>>) = <<>>
         /\ a < b => Head(Key(<<a + 1, b>>)) = a + 1
         /\ Append(Key(<<a + 1, b>>), b + 1) = Key(<<a + 1, b + 1>>)
<1> DEFINE s == Key(<<a + 1, b>>)
<1>1. s = [n \in 1..(b - a) |-> a + n]
  <2>1. b - (a + 1) + 1 = b - a
    OBVIOUS
  <2>2. \A n \in 1..(b - a) : (a + 1) + n - 1 = a + n
    OBVIOUS
  <2>3. QED
    BY <2>1, <2>2 DEF Key
<1>2. s \in Seq(Nat) /\ Len(s) = b - a /\ DOMAIN s = 1..(b - a)
  BY <1>1
<1>3. ToSet(s) = (a + 1)..b
  <2>1. ASSUME NEW x \in (a + 1)..b PROVE \E n \in 1..(b - a) : x = a + n
    <3>1. x - a \in 1..(b - a) /\ x = a + (x - a)
      OBVIOUS
    <3>2. QED
      BY <3>1
  <2>2. \A n \in 1..(b - a) : a + n \in (a + 1)..b
    OBVIOUS
  <2>3. ToSet(s) = {a + n : n \in 1..(b - a)}
    BY <1>1 DEF ToSet
  <2>4. QED
    BY <2>1, <2>2, <2>3
<1>4. a = b <=> s = <<>>
  BY <1>2, EmptySeq
<1>5. a < b => Head(s) = a + 1
  BY <1>1, <1>2, EmptySeq
<1>6. Append(s, b + 1) = Key(<<a + 1, b + 1>>)
  <2>1. Append(s, b + 1) = [n \in 1..(Len(s) + 1) |-> IF n = Len(s) + 1 THEN b + 1 ELSE s[n]]
    BY <1>2
  <2>2. \A n \in 1..(b - a + 1) : (IF n = Len(s) + 1 THEN b + 1 ELSE s[n]) = a + n
    BY <1>1, <1>2
  <2>3. Append(s, b + 1) = [n \in 1..(b - a + 1) |-> a + n]
    BY <1>2, <2>1, <2>2
  <2>4. Key(<<a + 1, b + 1>>) = [n \in 1..(b - a + 1) |-> a + n]
    <3>1. b + 1 - (a + 1) + 1 = b - a + 1
      OBVIOUS
    <3>2. \A n \in 1..(b - a + 1) : (a + 1) + n - 1 = a + n
      OBVIOUS
    <3>3. QED
      BY <3>1, <3>2 DEF Key
  <2>5. QED
    BY <2>3, <2>4
<1>7. QED
  BY <1>2, <1>3, <1>4, <1>5, <1>6

LEMMA NoKey == \A a \in Nat : Key(<<a + 1, a>>) = <<>>
<1> SUFFICES ASSUME NEW a \in Nat PROVE Key(<<a + 1, a>>) = <<>>
  OBVIOUS
<1>1. a <= a
  OBVIOUS
<1>2. a = a <=> Key(<<a + 1, a>>) = <<>>
  BY <1>1, KeyIs
<1>3. QED
  BY <1>2

\* The numbers of one row or file.
LEMMA KeyOfOne == ASSUME NEW m \in Nat PROVE Key(<<m, m>>) = <<m>> /\ ToSet(Key(<<m, m>>)) = {m}
<1>1. m - m + 1 = 1 /\ m + 1 - 1 = m
  OBVIOUS
<1>2. Key(<<m, m>>) = [n \in 1..1 |-> m]
  BY <1>1 DEF Key
<1>3. <<m>> = [n \in 1..1 |-> m]
  OBVIOUS
<1>4. ToSet(<<m>>) = {m}
  BY DEF ToSet
<1>5. QED
  BY <1>2, <1>3, <1>4

LEMMA PiecesAre ==
  ASSUME NEW f, Len(f) \in Nat, NEW p \in Pieces(f)
  PROVE  /\ p[1] \in 1..Len(f) /\ p[2] \in 1..Len(f) /\ p = <<p[1], p[2]>>
         /\ p[1] <= p[2] /\ \A n \in p[1]..p[2] : IsText(f, n)
         /\ p[1] > 1 => ~IsText(f, p[1] - 1)
         /\ p[2] < Len(f) => ~IsText(f, p[2] + 1)
BY DEF Pieces

\* Two pieces have no line in common.
LEMMA PiecesMeet ==
  ASSUME NEW f, Len(f) \in Nat, NEW p \in Pieces(f), NEW q \in Pieces(f),
         NEW x \in (p[1]..p[2]) \cap (q[1]..q[2])
  PROVE  p = q
<1>1. /\ p[1] \in Nat /\ p[2] \in Nat /\ p[1] > 0 /\ p[2] <= Len(f) /\ p[1] <= x /\ x <= p[2]
      /\ q[1] \in Nat /\ q[2] \in Nat /\ q[1] > 0 /\ q[2] <= Len(f) /\ q[1] <= x /\ x <= q[2]
      /\ x \in Nat
  BY PiecesAre
<1>2. /\ \A n \in p[1]..p[2] : IsText(f, n)
      /\ \A n \in q[1]..q[2] : IsText(f, n)
  BY PiecesAre
<1>3. ~(p[1] < q[1]) /\ ~(q[1] < p[1])
  <2>1. ASSUME p[1] < q[1] PROVE FALSE
    <3>1. q[1] - 1 \in p[1]..p[2] /\ q[1] > 1
      BY <1>1, <2>1
    <3>2. QED
      BY <1>2, <3>1, PiecesAre
  <2>2. ASSUME q[1] < p[1] PROVE FALSE
    <3>1. p[1] - 1 \in q[1]..q[2] /\ p[1] > 1
      BY <1>1, <2>2
    <3>2. QED
      BY <1>2, <3>1, PiecesAre
  <2>3. QED
    BY <2>1, <2>2
<1>4. ~(p[2] < q[2]) /\ ~(q[2] < p[2])
  <2>1. ASSUME p[2] < q[2] PROVE FALSE
    <3>1. p[2] + 1 \in q[1]..q[2] /\ p[2] < Len(f)
      BY <1>1, <2>1
    <3>2. QED
      BY <1>2, <3>1, PiecesAre
  <2>2. ASSUME q[2] < p[2] PROVE FALSE
    <3>1. q[2] + 1 \in p[1]..p[2] /\ q[2] < Len(f)
      BY <1>1, <2>2
    <3>2. QED
      BY <1>2, <3>1, PiecesAre
  <2>3. QED
    BY <2>1, <2>2
<1>5. p[1] = q[1] /\ p[2] = q[2]
  BY <1>1, <1>3, <1>4
<1>6. QED
  BY <1>5, PiecesAre

\* A line that is no text ends no piece.
LEMMA NoPieceEnds ==
  ASSUME NEW f, Len(f) \in Nat, NEW n \in Nat, n < Len(f), ~IsText(f, n + 1)
  PROVE  PassedLines(f, n + 1) = PassedLines(f, n)
<1>1. ASSUME NEW p \in Pieces(f), p[2] <= n + 1 PROVE p[2] <= n
  <2>1. p[1] \in Nat /\ p[2] \in Nat /\ p[1] <= p[2]
    BY PiecesAre
  <2>2. p[2] \in p[1]..p[2]
    BY <2>1
  <2>3. p[2] # n + 1
    BY <2>2, PiecesAre
  <2>4. QED
    BY <1>1, <2>1, <2>3
<1>2. ASSUME NEW p \in Pieces(f), p[2] <= n PROVE p[2] <= n + 1
  BY <1>2, PiecesAre
<1>3. QED
  BY <1>1, <1>2 DEF PassedLines

\* One piece, from where the last one has ended: nothing else ends meanwhile.
LEMMA PieceEnds ==
  ASSUME NEW f, Len(f) \in Nat, NEW a \in Nat, NEW b \in Nat, a < b, b <= Len(f),
         \A n \in (a + 1)..b : IsText(f, n), a # 0 => ~IsText(f, a),
         b < Len(f) => ~IsText(f, b + 1)
  PROVE  /\ <<a + 1, b>> \in Pieces(f) /\ <<a + 1, b>> \notin PassedLines(f, a)
         /\ PassedLines(f, b) = PassedLines(f, a) \cup {<<a + 1, b>>}
<1> DEFINE e == <<a + 1, b>>
<1>1. e \in Pieces(f)
  <2>1. e[1] = a + 1 /\ e[2] = b /\ e \in (1..Len(f)) \X (1..Len(f))
    OBVIOUS
  <2>2. (a + 1) - 1 = a /\ a + 1 <= b /\ (a + 1 > 1 => a # 0)
    OBVIOUS
  <2> HIDE DEF e
  <2>3. QED
    BY <2>1, <2>2 DEF Pieces
<1>2. e[1] = a + 1 /\ e[2] = b
  OBVIOUS
<1> HIDE DEF e
<1>3. e \notin PassedLines(f, a)
  BY <1>2 DEF PassedLines
<1>4. ASSUME NEW p \in Pieces(f), p[2] <= b, ~(p[2] <= a) PROVE p = e
  <2>1. p[1] \in Nat /\ p[2] \in Nat /\ p[1] <= p[2] /\ p[2] \in (a + 1)..b
    BY <1>4, PiecesAre
  <2>2. p[2] \in (p[1]..p[2]) \cap (e[1]..e[2])
    BY <1>2, <2>1
  <2>3. QED
    BY <1>1, <2>2, PiecesMeet
<1>5. ASSUME NEW p \in Pieces(f), p[2] <= a PROVE p[2] <= b
  BY <1>5, PiecesAre
<1>6. e[2] <= b
  BY <1>2
<1>7. PassedLines(f, b) = PassedLines(f, a) \cup {e}
  BY <1>1, <1>4, <1>5, <1>6 DEF PassedLines
<1>8. QED
  BY <1>1, <1>3, <1>7 DEF e

LEMMA PiecesFinite == ASSUME NEW f, Len(f) \in Nat PROVE IsFiniteSet(Pieces(f))
<1>1. IsFiniteSet(1..Len(f))
  BY FS_Interval
<1>2. IsFiniteSet((1..Len(f)) \X (1..Len(f)))
  BY <1>1, FS_Product
<1>3. Pieces(f) \in SUBSET ((1..Len(f)) \X (1..Len(f)))
  BY DEF Pieces
<1>4. QED
  BY <1>2, <1>3, FS_Subset

LEMMA RowsAre ==
  ASSUME NEW n \in Nat
  PROVE  /\ IsFiniteSet(PassedRows(n)) /\ Cardinality(PassedRows(n)) = n
         /\ <<n + 1, n + 1>> \notin PassedRows(n)
         /\ PassedRows(n + 1) = PassedRows(n) \cup {<<n + 1, n + 1>>}
<1> DEFINE f == [m \in 1..n |-> <<m, m>>]
<1>1. f \in Bijection(1..n, PassedRows(n))
  <2>1. \A m \in 1..n : f[m] = <<m, m>>
    OBVIOUS
  <2>2. \A m, k \in 1..n : f[m] = f[k] => m = k
    BY <2>1
  <2>3. PassedRows(n) = {f[m] : m \in 1..n} /\ f = [m \in 1..n |-> f[m]]
    BY <2>1 DEF PassedRows
  <2> HIDE DEF f
  <2>4. f \in [1..n -> PassedRows(n)]
    BY <2>3
  <2>5. \A x \in PassedRows(n) : \E m \in 1..n : f[m] = x
    BY <2>3
  <2>6. QED
    BY <2>2, <2>4, <2>5, Fun_IsBij
<1>2. IsFiniteSet(1..n) /\ Cardinality(1..n) = n
  BY FS_Interval
<1>3. ExistsBijection(1..n, PassedRows(n))
  BY <1>1 DEF ExistsBijection
<1>4. IsFiniteSet(PassedRows(n)) /\ Cardinality(PassedRows(n)) = n
  BY <1>2, <1>3, FS_Bijection
<1>5. <<n + 1, n + 1>> \notin PassedRows(n)
  BY DEF PassedRows
<1>6. PassedRows(n + 1) = PassedRows(n) \cup {<<n + 1, n + 1>>}
  <2>1. 1..(n + 1) = (1..n) \cup {n + 1}
    OBVIOUS
  <2>2. QED
    BY <2>1 DEF PassedRows
<1>7. QED
  BY <1>4, <1>5, <1>6

LEMMA SetToSeqIs ==
  ASSUME NEW S, IsFiniteSet(S)
  PROVE  /\ SetToSeq(S) \in Seq(S) /\ IsInjective(SetToSeq(S)) /\ ToSet(SetToSeq(S)) \subseteq S
         /\ S = {} => SetToSeq(S) = <<>>
<1> DEFINE n == Cardinality(S)
           s == SetToSeq(S)
<1>1. n \in Nat /\ ExistsBijection(1..n, S)
  BY FS_CardinalityType
<1>2. \E f \in [1..n -> S] : IsInjective(f)
  <2>1. PICK f \in Bijection(1..n, S) : TRUE
    BY <1>1 DEF ExistsBijection
  <2>2. f \in [1..n -> S] /\ \A a, b \in 1..n : f[a] = f[b] => a = b
    BY <2>1, Fun_BijectionProperties
  <2>3. QED
    BY <2>2 DEF IsInjective
<1>3. s \in [1..n -> S] /\ IsInjective(s)
  BY <1>2 DEF SetToSeq
<1> HIDE DEF s
<1>4. s \in Seq(S)
  BY <1>1, <1>3
<1>5. ToSet(s) \subseteq S
  BY <1>3 DEF ToSet
<1>6. S = {} => s = <<>>
  <2>1. S = {} => n = 0
    BY FS_EmptySet
  <2>2. Len(s) = n
    BY <1>1, <1>3
  <2>3. QED
    BY <1>4, <2>1, <2>2, EmptySeq
<1>7. QED
  BY <1>3, <1>4, <1>5, <1>6 DEF s

LEMMA TailIs ==
  ASSUME NEW S, NEW s \in Seq(S), s # <<>>, IsInjective(s)
  PROVE  /\ Tail(s) \in Seq(S) /\ IsInjective(Tail(s)) /\ ToSet(Tail(s)) \subseteq ToSet(s)
         /\ Head(s) \in S /\ Head(s) \in ToSet(s) /\ Head(s) \notin ToSet(Tail(s))
<1> DEFINE t == Tail(s)
           n == Len(s)
<1>1. /\ t \in Seq(S) /\ Len(t) = n - 1 /\ Head(s) \in S
      /\ \A i \in 1..Len(t) : t[i] = s[i + 1]
  BY HeadTailProperties
<1>2. n \in Nat /\ n # 0 /\ DOMAIN s = 1..n /\ Head(s) = s[1]
  BY EmptySeq, LenProperties
<1> HIDE DEF t, n
<1>3. DOMAIN t = 1..(n - 1) /\ \A i \in 1..(n - 1) : t[i] = s[i + 1] /\ i + 1 \in 1..n /\ i + 1 # 1
  BY <1>1, <1>2, LenProperties
<1>4. 1 \in 1..n
  BY <1>2
<1>5. \A i, k \in 1..n : s[i] = s[k] => i = k
  BY <1>2 DEF IsInjective
<1>6. IsInjective(t)
  <2> SUFFICES ASSUME NEW i \in DOMAIN t, NEW k \in DOMAIN t, t[i] = t[k] PROVE i = k
    BY DEF IsInjective
  <2>1. i \in 1..(n - 1) /\ k \in 1..(n - 1)
    BY <1>3
  <2>2. i + 1 = k + 1
    BY <1>3, <1>5, <2>1
  <2>3. QED
    BY <1>2, <2>1, <2>2
<1>7. ToSet(t) \subseteq ToSet(s)
  BY <1>2, <1>3 DEF ToSet
<1>8. Head(s) \in ToSet(s)
  BY <1>2, <1>4 DEF ToSet
<1>9. Head(s) \notin ToSet(t)
  <2> SUFFICES ASSUME NEW i \in DOMAIN t, t[i] = s[1] PROVE FALSE
    BY <1>2 DEF ToSet
  <2>1. i \in 1..(n - 1)
    BY <1>3
  <2>2. s[i + 1] = s[1] /\ i + 1 \in 1..n /\ i + 1 # 1
    BY <1>3, <2>1
  <2>3. QED
    BY <1>4, <1>5, <2>2
<1>10. QED
  BY <1>1, <1>6, <1>7, <1>8, <1>9 DEF t

LEMMA PassedFinite == ASSUME NEW J, NEW dirs, Reads(J) PROVE IsFiniteSet(Passed(J, dirs))
<1>1. CASE J.kind = "mbox"
  <2>1. Len(J.src) \in Nat
    BY <1>1, LenProperties DEF Reads, ReadsMbox, IsRead
  <2>2. IsFiniteSet(Pieces(J.src))
    BY <2>1, PiecesFinite
  <2>3. PassedLines(J.src, UpTo(J)) \in SUBSET Pieces(J.src)
    BY DEF PassedLines
  <2>4. QED
    BY <1>1, <2>2, <2>3, FS_Subset DEF Passed
<1>2. CASE J.kind = "database"
  <2>1. ReadSoFar(J) \in Nat
    BY <1>2, LenProperties DEF Reads, ReadsRows, AreRows
  <2>2. QED
    BY <1>2, <2>1, RowsAre DEF Passed
<1>3. CASE J.kind = "maildir"
  <2> DEFINE S == {f \in Files : /\ J.dir # Nameless /\ f \notin ToSet(J.rest)
                                 /\ J.dir = "cur" => dirs[f] = "cur"}
             g == [f \in S |-> <<f, f>>]
  <2>1. IsFiniteSet(S)
    <3>1. S \in SUBSET Files
      OBVIOUS
    <3>2. QED
      BY <3>1, FS_Subset, ImporterAssumption
  <2>2. PassedFiles(J, dirs) = {<<f, f>> : f \in S}
    BY DEF PassedFiles
  <2> HIDE DEF S
  <2>3. g \in Surjection(S, PassedFiles(J, dirs))
    <3>1. \A f \in S : g[f] = <<f, f>>
      OBVIOUS
    <3>2. g \in [S -> PassedFiles(J, dirs)] /\ \A x \in PassedFiles(J, dirs) : \E f \in S : g[f] = x
      BY <2>2, <3>1
    <3>3. QED
      BY <3>2, Fun_IsSurj
  <2>4. QED
    BY <1>3, <2>1, <2>3, FS_Surjection DEF Passed
<1>4. CASE J.kind \notin {"mbox", "database", "maildir"}
  BY <1>4, FS_EmptySet DEF Passed
<1>5. QED
  BY <1>1, <1>2, <1>3, <1>4

\* Of the entries of one mailbox, no two have a number in common.
LEMMA PassedApart ==
  ASSUME NEW J, NEW dirs, Reads(J), NEW p \in Passed(J, dirs), NEW q \in Passed(J, dirs), p # q
  PROVE  Apart(Key(p), Key(q))
<1>1. CASE J.kind = "mbox"
  <2>1. Len(J.src) \in Nat
    BY <1>1, LenProperties DEF Reads, ReadsMbox, IsRead
  <2>2. p \in Pieces(J.src) /\ q \in Pieces(J.src)
    BY <1>1 DEF Passed, PassedLines
  <2>3. /\ p[1] \in 1..Len(J.src) /\ p[2] \in 1..Len(J.src) /\ p = <<p[1], p[2]>> /\ p[1] <= p[2]
        /\ q[1] \in 1..Len(J.src) /\ q[2] \in 1..Len(J.src) /\ q = <<q[1], q[2]>> /\ q[1] <= q[2]
    BY <2>1, <2>2, PiecesAre
  <2>4. \A x \in p[1]..p[2] : x \notin q[1]..q[2]
    BY <2>1, <2>2, PiecesMeet
  <2>5. ToSet(Key(p)) = p[1]..p[2]
    <3>1. p[1] - 1 \in Nat /\ p[2] \in Nat /\ p[1] - 1 <= p[2] /\ (p[1] - 1) + 1 = p[1]
      BY <2>1, <2>3
    <3>2. ToSet(Key(<<(p[1] - 1) + 1, p[2]>>)) = ((p[1] - 1) + 1)..p[2]
      BY <3>1, KeyIs
    <3>3. QED
      BY <2>3, <3>1, <3>2
  <2>6. ToSet(Key(q)) = q[1]..q[2]
    <3>1. q[1] - 1 \in Nat /\ q[2] \in Nat /\ q[1] - 1 <= q[2] /\ (q[1] - 1) + 1 = q[1]
      BY <2>1, <2>3
    <3>2. ToSet(Key(<<(q[1] - 1) + 1, q[2]>>)) = ((q[1] - 1) + 1)..q[2]
      BY <3>1, KeyIs
    <3>3. QED
      BY <2>3, <3>1, <3>2
  <2>7. QED
    BY <2>4, <2>5, <2>6 DEF Apart
<1>2. CASE J.kind \in {"database", "maildir"}
  <2>1. \A x \in Passed(J, dirs) : \E m \in Nat : x = <<m, m>>
    <3>1. CASE J.kind = "database"
      <4>1. Passed(J, dirs) = {<<m, m>> : m \in 1..ReadSoFar(J)}
        BY <3>1 DEF Passed, PassedRows
      <4>2. \A m \in 1..ReadSoFar(J) : m \in Nat
        OBVIOUS
      <4>3. QED
        BY <4>1, <4>2
    <3>2. CASE J.kind = "maildir"
      <4>1. \A x \in Passed(J, dirs) : \E f \in Files : x = <<f, f>>
        BY <3>2 DEF Passed, PassedFiles
      <4>2. \A f \in Files : f \in Nat
        BY ImporterAssumption
      <4>3. QED
        BY <4>1, <4>2
    <3>3. QED
      BY <1>2, <3>1, <3>2
  <2>2. (\E m \in Nat : p = <<m, m>>) /\ (\E m \in Nat : q = <<m, m>>)
    BY <2>1
  <2>3. PICK m \in Nat, k \in Nat : p = <<m, m>> /\ q = <<k, k>>
    BY <2>2
  <2>4. m # k /\ ToSet(Key(p)) = {m} /\ ToSet(Key(q)) = {k}
    BY <2>3, KeyOfOne
  <2>5. QED
    BY <2>4 DEF Apart
<1>3. QED
  BY <1>1, <1>2 DEF Passed

------------------------------------------------------------------------------
(***************************************************************************)
(* What a step makes of a job that is exact.                               *)
(***************************************************************************)

\* The same mailbox, of which no less has been passed.
Goes(J, K, dirs) ==
  /\ IsRun(K) /\ K.kind = J.kind /\ K.src = J.src /\ K.box = J.box /\ Reads(K)
  /\ Passed(J, dirs) \subseteq Passed(K, dirs)

Counted == {"mbox", "database"}

\* One entry more.
Gains(J, K, dirs, p) ==
  /\ p \in Passed(K, dirs) \ Passed(J, dirs)
  /\ J.kind \in Counted => Passed(K, dirs) = Passed(J, dirs) \cup {p}

LEMMA Moves ==
  ASSUME NEW j, NEW J, NEW K, NEW C, NEW E, NEW dirs, Exact(j, J, C, E, dirs), Goes(J, K, dirs),
         J.at \in {"account", "create", "run"}, K.at \in {"create", "run", "done"},
         K.oks = J.oks, K.errs = J.errs,
         J.kind \in Counted => Passed(K, dirs) = Passed(J, dirs),
         K.at = "create" => J.at = "account" /\ K.dir = J.dir
  PROVE  Exact(j, K, C, E, dirs)
<1>1. \A i \in DOMAIN E : \E p \in Passed(K, dirs) : E[i] = Key(p)
  BY DEF Exact, Goes
<1>2. QED
  BY <1>1 DEF Exact, Goes, Counted

\* An entry that cannot be read is counted.
LEMMA Skips ==
  ASSUME NEW j, NEW J, NEW K, NEW C, NEW E, NEW dirs, Exact(j, J, C, E, dirs), Goes(J, K, dirs),
         J.at = "run", K.at \in {"run", "done"}, K.oks = J.oks, K.errs = J.errs + 1,
         J.kind \in Counted => \E p : Gains(J, K, dirs, p)
  PROVE  Exact(j, K, C, E, dirs)
<1>1. \A i \in DOMAIN E : \E p \in Passed(K, dirs) : E[i] = Key(p)
  BY DEF Exact, Goes
<1>2. J.oks \in Nat /\ J.errs \in Nat /\ C.at = "idle"
  BY DEF Exact, IsRun
<1>3. J.kind \in Counted => K.oks + K.errs = Cardinality(Passed(K, dirs))
  <2> SUFFICES ASSUME J.kind \in Counted PROVE K.oks + K.errs = Cardinality(Passed(K, dirs))
    OBVIOUS
  <2>1. PICK p : Gains(J, K, dirs, p)
    OBVIOUS
  <2>2. J.oks + J.errs + 0 = Cardinality(Passed(J, dirs)) /\ Reads(J)
    BY DEF Exact, Counted
  <2>3. Cardinality(Passed(K, dirs)) = Cardinality(Passed(J, dirs)) + 1
    BY <2>1, <2>2, PassedFinite, FS_AddElement DEF Gains
  <2>4. QED
    BY <1>2, <2>2, <2>3
<1>4. QED
  BY <1>1, <1>2, <1>3 DEF Exact, Goes, Counted

\* A call of SaveMessage with the entry p.
Begun(D, j, J, p) ==
  /\ D = [at |-> D.at, msg |-> D.msg, done |-> D.done] /\ D.at = "begun"
  /\ D.msg.from = j /\ D.msg.box = J.box /\ D.msg.key = Key(p)

\* An entry is given to SaveMessage.
LEMMA Injects ==
  ASSUME NEW j, NEW J, NEW K, NEW C, NEW D, NEW E, NEW dirs, NEW p,
         Exact(j, J, C, E, dirs), Goes(J, K, dirs), Gains(J, K, dirs, p),
         J.at = "run", K.at = "saving", K.oks = J.oks, K.errs = J.errs,
         Begun(D, j, J, p)
  PROVE  Exact(j, K, D, E, dirs)
<1>1. \A i \in DOMAIN E : \E q \in Passed(K, dirs) : E[i] = Key(q)
  BY DEF Exact, Goes
<1>2. J.oks \in Nat /\ J.errs \in Nat /\ C.at = "idle"
  BY DEF Exact, IsRun
<1>3. J.kind \in Counted => K.oks + K.errs + 1 = Cardinality(Passed(K, dirs))
  <2> SUFFICES ASSUME J.kind \in Counted PROVE K.oks + K.errs + 1 = Cardinality(Passed(K, dirs))
    OBVIOUS
  <2>1. J.oks + J.errs + 0 = Cardinality(Passed(J, dirs)) /\ Reads(J)
    BY DEF Exact, Counted
  <2>2. Cardinality(Passed(K, dirs)) = Cardinality(Passed(J, dirs)) + 1
    BY <2>1, PassedFinite, FS_AddElement DEF Gains
  <2>3. QED
    BY <1>2, <2>1, <2>2
<1>4. \A i \in DOMAIN E : Apart(E[i], D.msg.key)
  <2> SUFFICES ASSUME NEW i \in DOMAIN E PROVE Apart(E[i], Key(p))
    BY DEF Begun
  <2>1. PICK q \in Passed(J, dirs) : E[i] = Key(q)
    BY DEF Exact
  <2>2. q \in Passed(K, dirs) /\ q # p /\ p \in Passed(K, dirs) /\ Reads(K)
    BY <2>1 DEF Goes, Gains
  <2>3. QED
    BY <2>1, <2>2, PassedApart
<1>5. \E q \in Passed(K, dirs) : D.msg.key = Key(q)
  BY DEF Gains, Begun
<1>6. J.oks = Cardinality(DOMAIN E)
  BY <1>2 DEF Exact
<1>7. QED
  BY <1>1, <1>2, <1>3, <1>4, <1>5, <1>6 DEF Begun, Exact, Goes, Counted

\* SaveMessage has returned.
LEMMA Returns ==
  ASSUME NEW j, NEW J, NEW K, NEW C, NEW E, NEW dirs, Exact(j, J, C, E, dirs), Goes(J, K, dirs),
         J.at = "saving", C.at \in {"saved", "failed"}, K.at \in {"run", "done"},
         Passed(K, dirs) = Passed(J, dirs),
         K.oks = J.oks + (IF C.at = "saved" THEN 1 ELSE 0),
         K.errs = J.errs + (1 - (IF C.at = "saved" THEN 1 ELSE 0))
  PROVE  Exact(j, K, NoCall, E, dirs)
<1>1. J.oks \in Nat /\ J.errs \in Nat
  BY DEF Exact, IsRun
<1>2. NoCall = [at |-> NoCall.at, msg |-> NoCall.msg, done |-> NoCall.done] /\ NoCall.at = "idle"
  BY DEF NoCall
<1>3. J.kind \in Counted => J.oks + J.errs + 1 = Cardinality(Passed(J, dirs))
  BY DEF Exact, Counted
<1>4. J.kind \in Counted => K.oks + K.errs = Cardinality(Passed(K, dirs))
  BY <1>1, <1>3
<1>5. K.oks = Cardinality(DOMAIN E)
  BY DEF Exact
<1>6. \A i \in DOMAIN E : \E p \in Passed(K, dirs) : E[i] = Key(p)
  BY DEF Exact
<1>7. K.oks \in Nat /\ K.errs \in Nat
  BY <1>1
<1>8. QED
  BY <1>2, <1>4, <1>5, <1>6, <1>7 DEF Exact, Goes, Counted

\* The command ends, or dies.
LEMMA JobEnds ==
  ASSUME NEW j, NEW J, NEW K, NEW C, NEW D, NEW E, NEW dirs, Exact(j, J, C, E, dirs), IsRun(K),
         K.kind = J.kind, K.src = J.src, K.at \in {"failed", "dead"},
         (D = C /\ J.at # "saving") \/ D = NoCall
  PROVE  Exact(j, K, D, E, dirs)
<1>1. D = [at |-> D.at, msg |-> D.msg, done |-> D.done] /\ D.at = "idle"
  <2>1. CASE D = C /\ J.at # "saving"
    BY <2>1 DEF Exact
  <2>2. CASE D = NoCall
    BY <2>2 DEF NoCall
  <2>3. QED
    BY <2>1, <2>2
<1>2. QED
  BY <1>1 DEF Exact

\* SaveMessage goes on.
LEMMA CallGoes ==
  ASSUME NEW j, NEW J, NEW C, NEW D, NEW E, NEW dirs, Exact(j, J, C, E, dirs),
         C.at \in {"begun", "open"}, D.at \in {"open", "failed"},
         D = [at |-> D.at, msg |-> C.msg, done |-> D.done]
  PROVE  Exact(j, J, D, E, dirs)
<1>1. D.msg = C.msg /\ D = [at |-> D.at, msg |-> D.msg, done |-> D.done]
  OBVIOUS
<1>2. QED
  BY <1>1 DEF Exact

\* SaveMessage stores the entry.
LEMMA CallSaves ==
  ASSUME NEW j, NEW J, NEW C, NEW D, NEW E, NEW F, NEW n, NEW dirs, Exact(j, J, C, E, dirs),
         C.at = "open", D = [at |-> "saved", msg |-> C.msg, done |-> D.done],
         n \notin DOMAIN E, DOMAIN F = DOMAIN E \cup {n}, \A i \in DOMAIN E : F[i] = E[i],
         F[n] = C.msg.key
  PROVE  Exact(j, J, D, F, dirs)
<1>1. D.at = "saved" /\ D = [at |-> D.at, msg |-> D.msg, done |-> D.done]
  OBVIOUS
<1>2. J.at = "saving" /\ J.oks \in Nat
  BY DEF Exact, IsRun
<1>3. IsFiniteSet(DOMAIN F) /\ Cardinality(DOMAIN F) = Cardinality(DOMAIN E) + 1
  <2>1. IsFiniteSet(DOMAIN E)
    BY DEF Exact
  <2>2. QED
    BY <2>1, FS_AddElement
<1>4. J.oks = Cardinality(DOMAIN E)
  BY <1>2 DEF Exact
<1>5. PICK p \in Passed(J, dirs) : C.msg.key = Key(p)
  BY DEF Exact
<1>6. \A i \in DOMAIN E : \E q \in Passed(J, dirs) : E[i] = Key(q)
  BY <1>2 DEF Exact
<1>7. \A i \in DOMAIN F : \E q \in Passed(J, dirs) : F[i] = Key(q)
  BY <1>5, <1>6
<1>8. J.kind = "mbox" => \A i \in DOMAIN F : \E q \in Pieces(J.src) : F[i] = Key(q)
  BY <1>7 DEF Passed, PassedLines
<1>9. \A i, k \in DOMAIN F : i # k => Apart(F[i], F[k])
  <2>1. \A i \in DOMAIN E : Apart(F[i], F[n]) /\ Apart(F[n], F[i])
    BY DEF Exact, Apart
  <2>2. \A i, k \in DOMAIN E : i # k => Apart(F[i], F[k])
    BY DEF Exact
  <2>3. QED
    BY <2>1, <2>2
<1>10. J.oks + 1 = Cardinality(DOMAIN F)
  BY <1>3, <1>4
<1>11. J.kind \in Counted => J.oks + J.errs + 1 = Cardinality(Passed(J, dirs))
  BY <1>2 DEF Exact, Counted
<1>12. IsRun(J) /\ Reads(J)
  BY <1>2 DEF Exact
<1>13. QED
  BY <1>1, <1>2, <1>3, <1>7, <1>8, <1>9, <1>10, <1>11, <1>12 DEF Exact, Counted

\* The other mail client moves a file.
LEMMA DirsMove ==
  ASSUME NEW j, NEW J, NEW C, NEW E, NEW dirs, NEW now, Exact(j, J, C, E, dirs),
         Passed(J, dirs) \subseteq Passed(J, now),
         J.kind \in Counted => Passed(J, now) = Passed(J, dirs)
  PROVE  Exact(j, J, C, E, now)
<1>1. (\A i \in DOMAIN E : \E p \in Passed(J, dirs) : E[i] = Key(p))
        => \A i \in DOMAIN E : \E p \in Passed(J, now) : E[i] = Key(p)
  OBVIOUS
<1>2. (\E p \in Passed(J, dirs) : C.msg.key = Key(p)) => \E p \in Passed(J, now) : C.msg.key = Key(p)
  OBVIOUS
<1>3. QED
  BY <1>1, <1>2 DEF Exact, Counted

\* A scan passes a path over: all but the paths stays.
LEMMA PathsMove ==
  ASSUME NEW j, NEW J, NEW K, NEW C, NEW E, NEW dirs, Exact(j, J, C, E, dirs), IsRun(K),
         J.at \in {"done", "failed"},
         K.at = J.at, K.kind = J.kind, K.src = J.src, K.rest = J.rest, K.buf = J.buf,
         K.dir = J.dir, K.oks = J.oks, K.errs = J.errs, K.box = J.box
  PROVE  Exact(j, K, C, E, dirs)
<1>1. ReadSoFar(K) = ReadSoFar(J) /\ UpTo(K) = UpTo(J)
  BY DEF ReadSoFar, UpTo
<1>2. Passed(K, dirs) = Passed(J, dirs)
  BY <1>1 DEF Passed, PassedFiles
<1>3. ReadsMbox(J) => ReadsMbox(K)
  BY <1>1 DEF ReadsMbox
<1>4. (ReadsRows(J) => ReadsRows(K)) /\ (ReadsFiles(J) => ReadsFiles(K))
  BY <1>1 DEF ReadsRows, ReadsFiles
<1>5. Reads(J) => Reads(K)
  BY <1>3, <1>4 DEF Reads
<1>6. QED
  BY <1>2, <1>5 DEF Exact

\* A mailbox that is not begun yet.
LEMMA JobBegins ==
  ASSUME NEW j, NEW K, NEW C, NEW E, NEW dirs, IsRun(K),
         K.at \in {"account", "run"}, K.oks = 0, K.errs = 0, K.dir = Nameless, K.buf = <<>>,
         K.kind # "scan" => K.rest = Numbers(K.src),
         K.kind = "mbox" => IsRead(K.src), K.kind = "database" => AreRows(K.src),
         K.kind = "maildir" => K.src = <<>>,
         C.at = "idle", C = [at |-> C.at, msg |-> C.msg, done |-> C.done], DOMAIN E = {}
  PROVE  Exact(j, K, C, E, dirs)
<1>1. K.kind \in Counted \cup {"maildir"} => Len(K.src) \in Nat
  BY EmptySeq, LenProperties DEF IsRead, AreRows, Counted
<1>2. K.kind \in Counted \cup {"maildir"} =>
        K.rest = Left(0, Len(K.src)) /\ Len(K.rest) = Len(K.src) /\ ReadSoFar(K) = 0
  <2> SUFFICES ASSUME K.kind \in Counted \cup {"maildir"}
               PROVE K.rest = Left(0, Len(K.src)) /\ Len(K.rest) = Len(K.src) /\ ReadSoFar(K) = 0
    OBVIOUS
  <2>1. K.rest = Numbers(K.src)
    BY DEF Counted
  <2>2. Len(K.src) - 0 = Len(K.src) /\ \A i \in 1..Len(K.src) : 0 + i = i
    BY <1>1
  <2>3. Numbers(K.src) = Left(0, Len(K.src))
    BY <2>2 DEF Numbers, Left
  <2>4. Len(Left(0, Len(K.src))) = Len(K.src) - 0
    BY <1>1, LeftIs
  <2>5. QED
    BY <1>1, <2>1, <2>3, <2>4 DEF ReadSoFar
<1>3. K.kind = "mbox" => ReadsMbox(K) /\ Passed(K, dirs) = {}
  <2> SUFFICES ASSUME K.kind = "mbox" PROVE ReadsMbox(K) /\ Passed(K, dirs) = {}
    OBVIOUS
  <2>1. Len(K.src) \in Nat /\ Len(K.src) > 0 /\ Len(<<>>) = 0
    BY ReadIs
  <2>2. UpTo(K) = 0 /\ ReadSoFar(K) = 0
    BY <1>2, <2>1 DEF UpTo, Counted
  <2>3. K.buf = Key(<<0 + 1, 0>>)
    BY NoKey, Zenon
  <2>4. \A p \in Pieces(K.src) : ~(p[2] <= 0)
    BY <2>1, PiecesAre
  <2>5. Passed(K, dirs) = {}
    BY <2>2, <2>4 DEF Passed, PassedLines
  <2>6. QED
    BY <1>2, <2>1, <2>2, <2>3, <2>5 DEF ReadsMbox, Counted
<1>4. K.kind = "database" => ReadsRows(K) /\ Passed(K, dirs) = {}
  <2> SUFFICES ASSUME K.kind = "database" PROVE ReadsRows(K) /\ Passed(K, dirs) = {}
    OBVIOUS
  <2>1. ReadSoFar(K) = 0 /\ Len(K.src) \in Nat
    BY <1>1, <1>2 DEF Counted
  <2>2. ReadsRows(K)
    BY <1>2, <2>1 DEF ReadsRows, Counted
  <2>3. PassedRows(0) = {}
    BY DEF PassedRows
  <2>4. QED
    BY <2>1, <2>2, <2>3 DEF Passed
<1>5. K.kind = "maildir" => ReadsFiles(K)
  <2> SUFFICES ASSUME K.kind = "maildir" PROVE ReadsFiles(K)
    OBVIOUS
  <2>1. K.rest = <<>>
    BY <1>1, <1>2, LeftIs, EmptySeq
  <2>2. K.rest \in Seq(Files) /\ IsInjective(K.rest)
    BY <2>1 DEF IsInjective
  <2>3. Nameless # "end"
    BY Zenon DEF Nameless
  <2>4. QED
    BY <2>1, <2>2, <2>3 DEF ReadsFiles
<1>6. Reads(K)
  BY <1>3, <1>4, <1>5 DEF Reads
<1>7. IsFiniteSet(DOMAIN E) /\ Cardinality(DOMAIN E) = 0
  BY FS_EmptySet
<1>8. K.kind \in Counted => Cardinality(Passed(K, dirs)) = 0
  BY <1>3, <1>4, FS_EmptySet DEF Counted
<1>9. QED
  BY <1>6, <1>7, <1>8 DEF Exact, Counted

------------------------------------------------------------------------------
(***************************************************************************)
(* What a step reads.                                                      *)
(***************************************************************************)

LEMMA TextIs == ASSUME NEW f, NEW n PROVE IsText(f, n) <=> f[n] # "From" /\ f[n] # Nameless
BY Zenon DEF IsText, Nameless

\* All that ReadsMbox says of a job that still reads.
LEMMA MboxLeft ==
  ASSUME NEW J, ReadsMbox(J), J.at \in {"account", "create", "run"}
  PROVE  /\ Len(J.src) \in Nat /\ ReadSoFar(J) \in Nat /\ ReadSoFar(J) < Len(J.src)
         /\ UpTo(J) \in Nat /\ UpTo(J) <= ReadSoFar(J)
         /\ J.rest # <<>> /\ Head(J.rest) = ReadSoFar(J) + 1
         /\ Tail(J.rest) = Left(ReadSoFar(J) + 1, Len(J.src))
         /\ Len(J.rest) = Len(J.src) - ReadSoFar(J)
         /\ J.buf = <<>> <=> UpTo(J) = ReadSoFar(J)
         /\ J.buf = Key(<<UpTo(J) + 1, ReadSoFar(J)>>)
         /\ ReadSoFar(J) + 1 < Len(J.src) => J.src[ReadSoFar(J) + 1] # Nameless
<1> DEFINE n == ReadSoFar(J)
           a == UpTo(J)
           l == Len(J.src)
<1>1. /\ IsRead(J.src) /\ n \in 0..l /\ a \in 0..n /\ n < l
      /\ J.rest = Left(n, l) /\ J.buf = Key(<<a + 1, n>>)
  BY DEF ReadsMbox
<1>2. l \in Nat /\ \A i \in 1..(l - 1) : J.src[i] # Nameless
  BY <1>1, ReadIs
<1> HIDE DEF n, a, l
<1>3. n \in Nat /\ a \in Nat /\ a <= n
  BY <1>1, <1>2
<1>4. J.rest # <<>> /\ Head(J.rest) = n + 1 /\ Tail(J.rest) = Left(n + 1, l) /\ Len(J.rest) = l - n
  BY <1>1, <1>2, LeftIs
<1>5. J.buf = <<>> <=> a = n
  <2>1. a = n <=> Key(<<a + 1, n>>) = <<>>
    BY <1>3, KeyIs
  <2>2. QED
    BY <1>1, <2>1
<1>6. n + 1 < l => J.src[n + 1] # Nameless
  BY <1>2, <1>3
<1>7. QED
  BY <1>1, <1>2, <1>3, <1>4, <1>5, <1>6 DEF n, a, l

\* The line ends what is in the buffer, or is the last one.
LEMMA MboxLine ==
  ASSUME NEW J, NEW K, ReadsMbox(J), J.at = "run", K.src = J.src, K.rest = Tail(J.rest),
         K.buf = <<>>, K.at \in {"run", "saving", "done"},
         K.at = "run" => K.rest # <<>>, K.at = "done" => K.rest = <<>>,
         K.rest # <<>> => ~IsText(J.src, ReadSoFar(J) + 1)
  PROVE  ReadsMbox(K) /\ UpTo(K) = ReadSoFar(J) + 1
<1> DEFINE n == ReadSoFar(J)
           l == Len(J.src)
<1>1. l \in Nat /\ n \in Nat /\ n < l /\ K.rest = Left(n + 1, l) /\ IsRead(J.src) /\ Len(K.src) = l
  BY MboxLeft DEF ReadsMbox
<1>2. ReadSoFar(K) = Len(K.src) - Len(K.rest) /\ UpTo(K) = ReadSoFar(K) - Len(K.buf)
  BY DEF ReadSoFar, UpTo
<1> HIDE DEF n, l
<1>3. n + 1 \in 0..l /\ n + 1 \in Nat
  BY <1>1
<1>4. Len(Left(n + 1, l)) = l - (n + 1) /\ (n + 1 = l => K.rest = <<>>) /\ (n + 1 < l => K.rest # <<>>)
  BY <1>1, <1>3, LeftIs
<1>5. ReadSoFar(K) = n + 1 /\ UpTo(K) = n + 1
  <2>1. Len(K.buf) = 0
    BY EmptySeq
  <2>2. QED
    BY <1>1, <1>2, <1>4, <2>1
<1>6. K.buf = Key(<<UpTo(K) + 1, ReadSoFar(K)>>)
  BY <1>3, <1>5, NoKey, Zenon
<1>7. UpTo(K) \notin {0, l} => ~IsText(K.src, UpTo(K))
  BY <1>1, <1>3, <1>4, <1>5 DEF n
<1>8. \A i \in (UpTo(K) + 1)..ReadSoFar(K) : IsText(K.src, i)
  BY <1>3, <1>5
<1>9. IsRead(K.src) /\ Len(K.src) = l /\ K.rest = Left(ReadSoFar(K), l)
  BY <1>1, <1>5
<1>10. /\ ReadSoFar(K) \in 0..l /\ UpTo(K) \in 0..ReadSoFar(K)
       /\ K.at = "run" => ReadSoFar(K) < l
       /\ K.at = "done" => ReadSoFar(K) = l
  BY <1>1, <1>3, <1>4, <1>5
<1>11. K.at \notin {"account", "create"}
  OBVIOUS
<1>12. ReadsMbox(K)
  BY <1>5, <1>6, <1>7, <1>8, <1>9, <1>10, <1>11 DEF ReadsMbox
<1>13. QED
  BY <1>5, <1>12 DEF n

\* The line is one more of the piece in the buffer.
LEMMA MboxText ==
  ASSUME NEW J, NEW K, ReadsMbox(J), J.at = "run", K.at = "run", K.src = J.src,
         K.rest = Tail(J.rest), K.buf = Append(J.buf, Head(J.rest)),
         Len(J.rest) # 1, IsText(J.src, ReadSoFar(J) + 1)
  PROVE  ReadsMbox(K) /\ UpTo(K) = UpTo(J)
<1> DEFINE n == ReadSoFar(J)
           a == UpTo(J)
           l == Len(J.src)
<1>1. /\ l \in Nat /\ n \in Nat /\ n < l /\ K.rest = Left(n + 1, l) /\ IsRead(J.src) /\ Len(K.src) = l
      /\ Len(J.rest) = l - n /\ a \in Nat /\ a <= n /\ J.buf = Key(<<a + 1, n>>)
      /\ Head(J.rest) = n + 1
      /\ \A i \in (a + 1)..n : IsText(J.src, i)
      /\ a \notin {0, l} => ~IsText(J.src, a)
  BY MboxLeft DEF ReadsMbox
<1>2. ReadSoFar(K) = Len(K.src) - Len(K.rest) /\ UpTo(K) = ReadSoFar(K) - Len(K.buf)
  BY DEF ReadSoFar, UpTo
<1>3. IsText(J.src, n + 1)
  OBVIOUS
<1> HIDE DEF n, a, l
<1>4. n + 1 \in 0..l /\ n + 1 \in Nat /\ n + 1 < l /\ a <= n + 1
  BY <1>1
<1>5. Len(Left(n + 1, l)) = l - (n + 1)
  BY <1>1, <1>4, LeftIs
<1>6. K.buf = Key(<<a + 1, n + 1>>)
  <2>1. Append(Key(<<a + 1, n>>), n + 1) = Key(<<a + 1, n + 1>>)
    BY <1>1, KeyIs
  <2>2. QED
    BY <1>1, <2>1, Zenon
<1>7. Len(K.buf) = (n + 1) - a
  <2> DEFINE b == n + 1
  <2>1. b \in Nat /\ a <= b /\ K.buf = Key(<<a + 1, b>>)
    BY <1>4, <1>6
  <2> HIDE DEF b
  <2>2. Len(Key(<<a + 1, b>>)) = b - a
    BY <1>1, <2>1, KeyIs
  <2>3. Len(K.buf) = b - a
    BY <2>1, <2>2
  <2>4. QED
    BY <2>3 DEF b
<1>8. ReadSoFar(K) = n + 1 /\ UpTo(K) = a
  <2>1. Len(K.rest) = l - (n + 1)
    BY <1>1, <1>5
  <2>2. ReadSoFar(K) = n + 1
    <3>1. ReadSoFar(K) = l - (l - (n + 1))
      BY <1>1, <1>2, <2>1
    <3>2. QED
      BY <1>1, <3>1
  <2>3. UpTo(K) = (n + 1) - ((n + 1) - a)
    BY <1>2, <1>7, <2>2
  <2>4. QED
    BY <1>1, <2>2, <2>3
<1>9. \A i \in (a + 1)..(n + 1) : IsText(J.src, i)
  BY <1>1, <1>3
<1>10. ReadSoFar(K) \in 0..Len(K.src) /\ UpTo(K) \in 0..ReadSoFar(K) /\ ReadSoFar(K) < Len(K.src)
  BY <1>1, <1>4, <1>8
<1>11. K.rest = Left(ReadSoFar(K), Len(K.src)) /\ K.buf = Key(<<UpTo(K) + 1, ReadSoFar(K)>>)
  BY <1>1, <1>6, <1>8
<1>12. /\ \A i \in (UpTo(K) + 1)..ReadSoFar(K) : IsText(K.src, i)
       /\ UpTo(K) \notin {0, Len(K.src)} => ~IsText(K.src, UpTo(K))
  BY <1>1, <1>8, <1>9
<1>13. ReadsMbox(K)
  BY <1>1, <1>10, <1>11, <1>12 DEF ReadsMbox
<1>14. QED
  BY <1>8, <1>13 DEF a

\* What the line makes of the pieces that have been passed.
LEMMA MboxPasses ==
  ASSUME NEW J, ReadsMbox(J), J.at = "run"
  PROVE  LET n == ReadSoFar(J)
             a == UpTo(J)
             was == PassedLines(J.src, a)
             now == PassedLines(J.src, n + 1)
         IN  /\ ~IsText(J.src, n + 1) /\ a = n => now = was
             /\ ~IsText(J.src, n + 1) /\ a < n =>
                  <<a + 1, n>> \notin was /\ now = was \cup {<<a + 1, n>>}
             /\ IsText(J.src, n + 1) /\ n + 1 = Len(J.src) =>
                  <<a + 1, n + 1>> \notin was /\ now = was \cup {<<a + 1, n + 1>>}
<1> DEFINE n == ReadSoFar(J)
           a == UpTo(J)
           f == J.src
<1>1. /\ Len(f) \in Nat /\ n \in Nat /\ n < Len(f) /\ a \in Nat /\ a <= n
      /\ \A i \in (a + 1)..n : IsText(f, i)
      /\ a \notin {0, Len(f)} => ~IsText(f, a)
  BY MboxLeft DEF ReadsMbox
<1> HIDE DEF n, a, f
<1>2. a # 0 => ~IsText(f, a)
  BY <1>1
<1>3. ~IsText(f, n + 1) => PassedLines(f, n + 1) = PassedLines(f, n)
  BY <1>1, NoPieceEnds
<1>4. ASSUME ~IsText(f, n + 1), a < n
      PROVE  /\ <<a + 1, n>> \notin PassedLines(f, a)
             /\ PassedLines(f, n) = PassedLines(f, a) \cup {<<a + 1, n>>}
  <2>1. n <= Len(f) /\ (n < Len(f) => ~IsText(f, n + 1))
    BY <1>1, <1>4
  <2>2. QED
    BY <1>1, <1>2, <1>4, <2>1, PieceEnds
<1>5. ASSUME IsText(f, n + 1), n + 1 = Len(f)
      PROVE  /\ <<a + 1, n + 1>> \notin PassedLines(f, a)
             /\ PassedLines(f, n + 1) = PassedLines(f, a) \cup {<<a + 1, n + 1>>}
  <2> DEFINE b == n + 1
  <2>1. b \in Nat /\ a < b /\ b <= Len(f) /\ ~(b < Len(f)) /\ \A i \in (a + 1)..b : IsText(f, i)
    BY <1>1, <1>5
  <2> HIDE DEF b
  <2>2. <<a + 1, b>> \notin PassedLines(f, a) /\ PassedLines(f, b) = PassedLines(f, a) \cup {<<a + 1, b>>}
    BY <1>1, <1>2, <2>1, PieceEnds
  <2>3. QED
    BY <2>2 DEF b
<1>6. QED
  BY <1>3, <1>4, <1>5 DEF n, a, f

\* One row.
LEMMA RowsOnward ==
  ASSUME NEW J, NEW K, ReadsRows(J), J.rest # <<>>, K.src = J.src, K.rest = Tail(J.rest),
         K.at = "done" => K.rest = <<>>
  PROVE  /\ ReadsRows(K) /\ Head(J.rest) \in Nat
         /\ <<Head(J.rest), Head(J.rest)>> \notin PassedRows(ReadSoFar(J))
         /\ PassedRows(ReadSoFar(K)) =
              PassedRows(ReadSoFar(J)) \cup {<<Head(J.rest), Head(J.rest)>>}
<1> DEFINE n == ReadSoFar(J)
           l == Len(J.src)
<1>1. AreRows(J.src) /\ n \in 0..l /\ J.rest = Left(n, l) /\ ReadSoFar(K) = Len(K.src) - Len(K.rest)
  BY DEF ReadsRows, ReadSoFar
<1>2. l \in Nat /\ Len(K.src) = l
  BY <1>1, LenProperties DEF AreRows
<1> HIDE DEF n, l
<1>3. n < l
  BY <1>1, <1>2, LeftIs
<1>4. Head(J.rest) = n + 1 /\ K.rest = Left(n + 1, l)
  BY <1>1, <1>2, <1>3, LeftIs
<1>5. n \in Nat /\ n + 1 \in Nat /\ n + 1 \in 0..l
  BY <1>1, <1>2, <1>3
<1>6. Len(K.rest) = l - (n + 1)
  BY <1>2, <1>4, <1>5, LeftIs
<1>7. ReadSoFar(K) = n + 1
  BY <1>1, <1>2, <1>5, <1>6
<1>8. K.at = "done" => n + 1 = l
  <2> SUFFICES ASSUME K.rest = <<>> PROVE n + 1 = l
    OBVIOUS
  <2>1. Len(K.rest) = 0
    BY EmptySeq
  <2>2. l - (n + 1) = 0
    BY <1>6, <2>1
  <2>3. QED
    BY <1>2, <1>5, <2>2
<1>9. ReadsRows(K)
  BY <1>1, <1>2, <1>4, <1>5, <1>7, <1>8 DEF ReadsRows
<1>10. <<n + 1, n + 1>> \notin PassedRows(n) /\ PassedRows(n + 1) = PassedRows(n) \cup {<<n + 1, n + 1>>}
  BY <1>5, RowsAre
<1>11. QED
  BY <1>4, <1>5, <1>7, <1>9, <1>10 DEF n

\* One file.
LEMMA FilesOnward ==
  ASSUME NEW J, NEW K, NEW dirs, ReadsFiles(J), J.rest # <<>>, J.at # "done", K.dir = J.dir,
         K.rest = Tail(J.rest)
  PROVE  /\ ReadsFiles(K) /\ Head(J.rest) \in Nat
         /\ PassedFiles(J, dirs) \subseteq PassedFiles(K, dirs)
         /\ <<Head(J.rest), Head(J.rest)>> \notin PassedFiles(J, dirs)
         /\ dirs[Head(J.rest)] = J.dir => <<Head(J.rest), Head(J.rest)>> \in PassedFiles(K, dirs)
<1>1. /\ J.rest \in Seq(Files) /\ IsInjective(J.rest) /\ J.dir \in {Nameless, "cur", "new", "end"}
      /\ J.dir # Nameless /\ J.dir # "end"
  BY DEF ReadsFiles
<1>2. /\ K.rest \in Seq(Files) /\ IsInjective(K.rest) /\ ToSet(K.rest) \subseteq ToSet(J.rest)
      /\ Head(J.rest) \in Files /\ Head(J.rest) \in ToSet(J.rest) /\ Head(J.rest) \notin ToSet(K.rest)
  BY <1>1, TailIs
<1>3. ReadsFiles(K)
  BY <1>1, <1>2 DEF ReadsFiles
<1>4. Head(J.rest) \in Nat
  <2>1. Files \subseteq Nat
    BY Zenon, ImporterAssumption
  <2>2. QED
    BY <1>2, <2>1
<1>5. PassedFiles(J, dirs) \subseteq PassedFiles(K, dirs)
  BY <1>1, <1>2 DEF PassedFiles
<1>6. <<Head(J.rest), Head(J.rest)>> \notin PassedFiles(J, dirs)
  BY <1>2 DEF PassedFiles
<1>7. dirs[Head(J.rest)] = J.dir => <<Head(J.rest), Head(J.rest)>> \in PassedFiles(K, dirs)
  BY <1>1, <1>2 DEF PassedFiles
<1>8. QED
  BY <1>3, <1>4, <1>5, <1>6, <1>7

------------------------------------------------------------------------------
(***************************************************************************)
(* The steps of a job.                                                     *)
(***************************************************************************)

LEMMA JobIs ==
  ASSUME ImportInv, NEW j \in Jobs
  PROVE  /\ Exact(j, job[j], call[j], KeysIn(j, job[j].box), maildir)
         /\ IsRun(job[j]) /\ job[j].box \in Nat /\ job[j].oks \in Nat /\ job[j].errs \in Nat
         /\ call[j] = [at |-> call[j].at, msg |-> call[j].msg, done |-> call[j].done]
         /\ job[j].at \notin {"idle", "failed", "dead"} => Reads(job[j])
         /\ job[j].at # "saving" => call[j].at = "idle"
         /\ IsSeq(job[j].paths) /\ ToCome(job[j].paths)
<1>1. Exact(j, job[j], call[j], KeysIn(j, job[j].box), maildir)
  BY DEF ImportInv, JobInv
<1>2. IsSeq(job[j].paths) /\ ToCome(job[j].paths)
  BY DEF ImportInv, JobInv
<1>3. QED
  BY <1>1, <1>2 DEF Exact, IsRun

\* A step of one job leaves the others as they are.
LEMMA OneJob ==
  ASSUME ImportInv, NEW j \in Jobs, NEW K, NEW C,
         job' = [job EXCEPT ![j] = K], call' = [call EXCEPT ![j] = C],
         mail' = mail, maildir' = maildir,
         K.box \in Nat, job[j].box <= K.box, IsSeq(K.paths), ToCome(K.paths),
         Exact(j, K, C, KeysIn(j, K.box), maildir)
  PROVE  ImportInv'
<1>1. /\ job' = [i \in Jobs |-> job'[i]] /\ job'[j] = K /\ \A i \in Jobs \ {j} : job'[i] = job[i]
      /\ call' = [i \in Jobs |-> call'[i]] /\ call'[j] = C /\ \A i \in Jobs \ {j} : call'[i] = call[i]
  BY DEF ImportInv
<1>2. ASSUME NEW i, NEW b
      PROVE  [k \in {k \in DOMAIN mail' : mail'[k].from = i /\ mail'[k].box = b} |-> mail'[k].key]
               = KeysIn(i, b)
  BY DEF KeysIn
<1>3. \A i \in Jobs \ {j} : JobInv(i)'
  <2> SUFFICES ASSUME NEW i \in Jobs \ {j} PROVE JobInv(i)'
    OBVIOUS
  <2>1. JobInv(i)
    BY DEF ImportInv
  <2>2. job'[i] = job[i] /\ call'[i] = call[i]
    BY <1>1
  <2>3. KeysIn(i, job[i].box)' = KeysIn(i, job[i].box)
    BY <2>2 DEF KeysIn
  <2>4. QED
    BY <2>1, <2>2, <2>3 DEF JobInv
<1>4. JobInv(j)'
  <2>1. KeysIn(j, job[j].box)' = KeysIn(j, K.box)
    BY <1>1 DEF KeysIn
  <2>2. \A i \in DOMAIN mail : mail[i].from = j => mail[i].box \in Nat /\ mail[i].box <= job[j].box
    BY DEF ImportInv, JobInv
  <2>3. job[j].box \in Nat
    BY JobIs
  <2>4. \A i \in DOMAIN mail' : mail'[i].from = j => mail'[i].box \in Nat /\ mail'[i].box <= job'[j].box
    BY <1>1, <2>2, <2>3
  <2>5. QED
    BY <1>1, <2>1, <2>4 DEF JobInv
<1>5. QED
  BY <1>1, <1>3, <1>4 DEF ImportInv

\* Of the same mailbox, without a call.
LEMMA JobOnly ==
  ASSUME ImportInv, NEW j \in Jobs, NEW K, job' = [job EXCEPT ![j] = K],
         call' = call, mail' = mail, maildir' = maildir,
         K.box = job[j].box, IsSeq(K.paths), ToCome(K.paths),
         Exact(j, K, call[j], KeysIn(j, job[j].box), maildir)
  PROVE  ImportInv'
<1>1. call' = [call EXCEPT ![j] = call[j]]
  BY DEF ImportInv
<1>2. job[j].box \in Nat
  BY JobIs
<1>3. K.box \in Nat /\ job[j].box <= K.box
  BY <1>2
<1>4. KeysIn(j, K.box) = KeysIn(j, job[j].box)
  BY Zenon
<1>5. QED
  BY <1>1, <1>3, <1>4, OneJob

LEMMA NotStartedIs ==
  /\ NotStarted = [at |-> "idle", kind |-> Nameless, src |-> <<>>, rest |-> <<>>, buf |-> <<>>,
                   dir |-> Nameless, oks |-> 0, errs |-> 0, paths |-> <<>>, box |-> 0]
  /\ Nameless \notin {"cur", "new", "end"}
<1>1. NotStarted = [at |-> "idle", kind |-> Nameless, src |-> <<>>, rest |-> <<>>, buf |-> <<>>,
                    dir |-> Nameless, oks |-> 0, errs |-> 0, paths |-> <<>>, box |-> 0]
  BY Zenon DEF NotStarted, Nameless
<1>2. Nameless \notin {"cur", "new", "end"}
  BY Zenon DEF Nameless
<1>3. QED
  BY <1>1, <1>2

LEMMA DetectIs ==
  ASSUME NEW p, p.lines # <<>> => IsRead(p.lines) /\ p.shape = "file", AreRows(p.rows)
  PROVE  /\ DetectMailboxType(p) \in Boxes
         /\ DetectMailboxType(p) = "mbox" => IsRead(Content(p))
         /\ DetectMailboxType(p) = "database" => AreRows(Content(p))
         /\ DetectMailboxType(p) = "maildir" => Content(p) = <<>>
<1>1. \/ DetectMailboxType(p) = "maildir" /\ p.shape = "dir"
      \/ DetectMailboxType(p) = "directory"
      \/ DetectMailboxType(p) = "database"
      \/ DetectMailboxType(p) = "mbox" /\ p.lines # <<>>
      \/ DetectMailboxType(p) = "unknown"
  BY Zenon DEF DetectMailboxType
<1>2. QED
  BY <1>1 DEF Content, Boxes

LEMMA StartKeeps == ASSUME ImportInv, NEW j \in Jobs, Start(j) PROVE ImportInv'
<1> DEFINE J == job[j]
           E == KeysIn(j, J.box)
<1>1. /\ J = NotStarted /\ DOMAIN E = {} /\ call[j].at = "idle"
      /\ call[j] = [at |-> call[j].at, msg |-> call[j].msg, done |-> call[j].done]
      /\ IsSeq(J.paths) /\ ToCome(J.paths)
  BY JobIs DEF Start, Exact
<1>2. call' = call /\ mail' = mail /\ maildir' = maildir
  BY DEF Start, storeVars
<1>3. /\ IsRecord(J) /\ J.buf = <<>> /\ J.dir = Nameless /\ J.oks = 0 /\ J.errs = 0 /\ J.box = 0
  BY <1>1, NotStartedIs DEF IsRecord
<1>4. ASSUME NEW kind \in Boxes, NEW src, Starts(j, kind, src),
             kind = "mbox" => IsRead(src), kind = "database" => AreRows(src),
             kind = "maildir" => src = <<>>
      PROVE  ImportInv'
  <2> PICK K : K = [J EXCEPT !.at = "account", !.kind = kind, !.src = src, !.rest = Numbers(src)]
    OBVIOUS
  <2>1. job' = [job EXCEPT ![j] = K]
    BY <1>4, Zenon DEF Starts
  <2>2. /\ IsRecord(K) /\ K.at = "account" /\ K.kind = kind /\ K.src = src
        /\ K.rest = Numbers(src) /\ K.buf = <<>> /\ K.dir = Nameless /\ K.oks = 0 /\ K.errs = 0
        /\ K.paths = J.paths /\ K.box = 0 /\ J.box = 0
    BY <1>3 DEF IsRecord
  <2>3. IsRun(K)
    BY <2>2 DEF IsRun, Ats
  <2>4. Exact(j, K, call[j], E, maildir)
    BY <1>1, <1>4, <2>2, <2>3, JobBegins
  <2>5. K.box = J.box /\ IsSeq(K.paths) /\ ToCome(K.paths)
    BY <1>1, <2>2
  <2>6. QED
    BY <1>2, <2>1, <2>4, <2>5, JobOnly
<1>5. ASSUME NEW walk \in Walks, NEW n \in DOMAIN walk,
             Starts(j, DetectMailboxType(walk[n]), Content(walk[n]))
      PROVE  ImportInv'
  <2>1. (walk[n].lines # <<>> => IsRead(walk[n].lines) /\ walk[n].shape = "file") /\ AreRows(walk[n].rows)
    BY Zenon, ImporterAssumption
  <2>2. QED
    BY <1>4, <1>5, <2>1, DetectIs
<1>6. ASSUME NEW walk \in Walks,
             job' = [job EXCEPT ![j] = [@ EXCEPT !.at = "account", !.kind = "scan", !.paths = walk]]
      PROVE  ImportInv'
  <2> PICK K : K = [J EXCEPT !.at = "account", !.kind = "scan", !.paths = walk]
    OBVIOUS
  <2>1. job' = [job EXCEPT ![j] = K]
    BY <1>6, Zenon
  <2>2. /\ IsRecord(K) /\ K.at = "account" /\ K.kind = "scan" /\ K.buf = <<>> /\ K.dir = Nameless
        /\ K.oks = 0 /\ K.errs = 0 /\ K.paths = walk /\ K.box = 0 /\ J.box = 0
    BY <1>3 DEF IsRecord
  <2>3. IsRun(K)
    BY <2>2 DEF IsRun, Ats
  <2>4. Exact(j, K, call[j], E, maildir)
    BY <1>1, <2>2, <2>3, JobBegins
  <2>5. IsSeq(walk) /\ ToCome(walk)
    BY Zenon, ImporterAssumption DEF IsSeq, ToSet, ToCome
  <2>6. K.box = J.box /\ IsSeq(K.paths) /\ ToCome(K.paths)
    BY <2>2, <2>5
  <2>7. QED
    BY <1>2, <2>1, <2>4, <2>6, JobOnly
<1>7. /\ \A f \in Mboxes : IsRead(f)
      /\ \A d \in Databases : AreRows(d)
  BY Zenon, ImporterAssumption
<1>8. {"mbox", "database", "maildir"} \subseteq Boxes
  BY DEF Boxes
<1>9. \/ \E f \in Mboxes : Starts(j, "mbox", f)
      \/ \E d \in Databases : Starts(j, "database", d)
      \/ Starts(j, "maildir", <<>>)
      \/ \E walk \in Walks :
           \/ \E n \in DOMAIN walk : Starts(j, DetectMailboxType(walk[n]), Content(walk[n]))
           \/ job' = [job EXCEPT ![j] = [@ EXCEPT !.at = "account", !.kind = "scan", !.paths = walk]]
  BY Zenon DEF Start
<1>10. ASSUME NEW f \in Mboxes, Starts(j, "mbox", f) PROVE ImportInv'
  BY <1>4, <1>7, <1>8, <1>10
<1>11. ASSUME NEW d \in Databases, Starts(j, "database", d) PROVE ImportInv'
  BY <1>4, <1>7, <1>8, <1>11
<1>12. ASSUME Starts(j, "maildir", <<>>) PROVE ImportInv'
  BY <1>4, <1>8, <1>12
<1>13. QED
  BY <1>5, <1>6, <1>9, <1>10, <1>11, <1>12, Zenon

\* The account.
LEMMA AccountKeeps ==
  ASSUME ImportInv, NEW j \in Jobs, AccountExists(j) \/ CreateLegacyAccount(j) PROVE ImportInv'
<1> DEFINE J == job[j]
           E == KeysIn(j, J.box)
<1>1. /\ Exact(j, J, call[j], E, maildir) /\ IsRun(J) /\ IsSeq(J.paths) /\ ToCome(J.paths)
      /\ J.at \in {"account", "create"} => Reads(J)
  BY JobIs
<1>2. J.at \in {"account", "create"} /\ call' = call /\ mail' = mail /\ maildir' = maildir
  BY DEF AccountExists, CreateLegacyAccount, storeVars
<1>3. PICK a \in {AfterAccount(j), "create"} :
        /\ a = "create" => J.at = "account"
        /\ job' = [job EXCEPT ![j] = [J EXCEPT !.at = a, !.rest = J.rest]]
  <2>1. CASE AccountExists(j)
    BY <2>1 DEF AccountExists, Set
  <2>2. CASE CreateLegacyAccount(j)
    BY <2>2 DEF CreateLegacyAccount, Set, AfterAccount
  <2>3. QED
    BY <2>1, <2>2
<1> PICK K : K = [J EXCEPT !.at = a, !.rest = J.rest]
  OBVIOUS
<1>4. a \in {"run", "create", "done"} /\ (a = "done" => J.kind = "scan")
  BY <1>3 DEF AfterAccount
<1>5. /\ IsRecord(K) /\ K.at = a /\ K.kind = J.kind /\ K.src = J.src /\ K.rest = J.rest
      /\ K.buf = J.buf /\ K.dir = J.dir /\ K.oks = J.oks /\ K.errs = J.errs
      /\ K.paths = J.paths /\ K.box = J.box
  BY <1>1 DEF IsRun, IsRecord
<1>6. IsRun(K)
  BY <1>1, <1>4, <1>5 DEF IsRun, Ats
<1>7. ReadSoFar(K) = ReadSoFar(J) /\ UpTo(K) = UpTo(J) /\ K.at = a
  BY <1>5 DEF ReadSoFar, UpTo
<1>8. Passed(K, maildir) = Passed(J, maildir)
  BY <1>5, <1>7 DEF Passed, PassedFiles
<1>9. Reads(K)
  <2>1. K.kind = "mbox" => ReadsMbox(K)
    BY <1>1, <1>2, <1>4, <1>5, <1>7 DEF Reads, ReadsMbox
  <2>2. K.kind = "database" => ReadsRows(K)
    BY <1>1, <1>2, <1>4, <1>5, <1>7 DEF Reads, ReadsRows
  <2>3. K.kind = "maildir" => ReadsFiles(K)
    BY <1>1, <1>2, <1>4, <1>5 DEF Reads, ReadsFiles
  <2>4. QED
    BY <2>1, <2>2, <2>3 DEF Reads
<1>10. Goes(J, K, maildir)
  BY <1>5, <1>6, <1>8, <1>9 DEF Goes
<1>11. Exact(j, K, call[j], E, maildir)
  BY <1>1, <1>2, <1>3, <1>4, <1>5, <1>7, <1>8, <1>10, Moves, ZenonT(40)
<1>12. job' = [job EXCEPT ![j] = K]
  BY <1>3, Zenon
<1>13. K.box = J.box /\ K.paths = J.paths
  BY <1>5
<1>14. QED
  BY <1>1, <1>2, <1>11, <1>12, <1>13, JobOnly

\* The command ends.
LEMMA JobEnded ==
  ASSUME ImportInv, NEW j \in Jobs, NEW a \in {"failed", "dead"}, NEW K, NEW C,
         \/ K = [job[j] EXCEPT !.at = a, !.rest = <<>>]
         \/ K = [job[j] EXCEPT !.at = a, !.rest = <<>>, !.paths = <<>>],
         job' = [job EXCEPT ![j] = K], call' = [call EXCEPT ![j] = C],
         mail' = mail, maildir' = maildir,
         (C = call[j] /\ job[j].at # "saving") \/ C = NoCall
  PROVE  ImportInv'
<1> DEFINE J == job[j]
           E == KeysIn(j, J.box)
<1>1. /\ Exact(j, J, call[j], E, maildir) /\ IsRun(J) /\ IsSeq(J.paths) /\ ToCome(J.paths)
      /\ J.box \in Nat
  BY JobIs
<1>2. /\ IsRecord(K) /\ K.at = a /\ K.kind = J.kind /\ K.src = J.src /\ K.oks = J.oks
      /\ K.errs = J.errs /\ K.box = J.box /\ K.paths \in {J.paths, <<>>}
  <2>1. CASE K = [J EXCEPT !.at = a, !.rest = <<>>]
    BY <1>1, <2>1 DEF IsRun, IsRecord
  <2>2. CASE K = [J EXCEPT !.at = a, !.rest = <<>>, !.paths = <<>>]
    BY <1>1, <2>2 DEF IsRun, IsRecord
  <2>3. QED
    BY <2>1, <2>2
<1>3. IsRun(K)
  BY <1>1, <1>2 DEF IsRun, Ats
<1>4. Exact(j, K, C, E, maildir)
  BY <1>1, <1>2, <1>3, JobEnds
<1>5. IsSeq(K.paths) /\ ToCome(K.paths)
  <2>1. IsSeq(<<>>) /\ ToCome(<<>>)
    BY DEF IsSeq, ToCome
  <2>2. QED
    BY <1>1, <1>2, <2>1
<1>6. KeysIn(j, K.box) = E /\ K.box \in Nat /\ J.box <= K.box
  BY <1>1, <1>2
<1>7. QED
  BY <1>4, <1>5, <1>6, OneJob

LEMMA EndsKeep ==
  ASSUME ImportInv, NEW j \in Jobs, EnsureFails(j) \/ Unsupported(j) \/ InputFails(j) \/ Kill(j)
  PROVE  ImportInv'
<1>1. mail' = mail /\ maildir' = maildir /\ call = [call EXCEPT ![j] = call[j]]
  BY DEF EnsureFails, Unsupported, InputFails, Kill, storeVars, ImportInv
<1>2. CASE EnsureFails(j)
  <2> PICK K : K = [job[j] EXCEPT !.at = "failed", !.rest = <<>>, !.paths = <<>>]
    OBVIOUS
  <2>1. job' = [job EXCEPT ![j] = K]
    BY <1>2, Zenon DEF EnsureFails
  <2>2. call' = call /\ job[j].at # "saving"
    BY <1>2 DEF EnsureFails
  <2>3. QED
    BY <1>1, <2>1, <2>2, JobEnded
<1>3. CASE Unsupported(j) \/ InputFails(j)
  <2> PICK K : K = [job[j] EXCEPT !.at = "failed", !.rest = <<>>]
    OBVIOUS
  <2>1. job' = [job EXCEPT ![j] = K]
    BY <1>3, Zenon DEF Unsupported, InputFails, Set
  <2>2. call' = call /\ job[j].at # "saving"
    BY <1>3 DEF Unsupported, InputFails, Running, storeVars
  <2>3. QED
    BY <1>1, <2>1, <2>2, JobEnded
<1>4. CASE Kill(j)
  <2> PICK K : K = [job[j] EXCEPT !.at = "dead", !.rest = <<>>, !.paths = <<>>]
    OBVIOUS
  <2>1. job' = [job EXCEPT ![j] = K] /\ call' = [call EXCEPT ![j] = NoCall]
    BY <1>4, Zenon DEF Kill
  <2>2. QED
    BY <1>1, <2>1, JobEnded
<1>5. QED
  BY <1>2, <1>3, <1>4

LEMMA PathsLeft ==
  ASSUME NEW s, IsSeq(s), ToCome(s), s # <<>>
  PROVE  IsSeq(Tail(s)) /\ ToCome(Tail(s)) /\ ToCome(<<Head(s)>>)
<1> DEFINE S == {s[i] : i \in DOMAIN s}
           t == Tail(s)
<1>1. s \in Seq(S)
  BY DEF IsSeq
<1> HIDE DEF S
<1>2. /\ t \in Seq(S) /\ Len(t) = Len(s) - 1 /\ Head(s) = s[1]
      /\ \A i \in 1..Len(t) : t[i] = s[i + 1]
  BY <1>1, HeadTailProperties
<1>3. Len(s) \in Nat /\ Len(s) # 0 /\ DOMAIN s = 1..Len(s)
  BY <1>1, EmptySeq, LenProperties
<1> HIDE DEF t
<1>4. DOMAIN t = 1..Len(t) /\ Len(t) \in Nat /\ \A i \in 1..Len(t) : i + 1 \in DOMAIN s
  BY <1>2, <1>3, LenProperties
<1>5. 1 \in DOMAIN s
  BY <1>3
<1>6. IsSeq(t)
  <2> DEFINE R == {t[i] : i \in DOMAIN t}
  <2>1. t = [i \in 1..Len(t) |-> t[i]]
    BY <1>2, LenProperties
  <2>2. \A i \in 1..Len(t) : t[i] \in R
    BY <1>4
  <2> HIDE DEF R
  <2>3. t \in Seq(R)
    BY <1>4, <2>1, <2>2
  <2>4. QED
    BY <2>3 DEF R, IsSeq
<1>7. ToCome(t)
  BY <1>2, <1>4, ZenonT(40) DEF ToCome
<1>8. ToCome(<<Head(s)>>)
  BY <1>2, <1>5 DEF ToCome
<1>9. QED
  BY <1>6, <1>7, <1>8 DEF t

LEMMA PassOverKeeps == ASSUME ImportInv, NEW j \in Jobs, PassOver(j) PROVE ImportInv'
<1> DEFINE J == job[j]
<1>1. /\ Exact(j, J, call[j], KeysIn(j, J.box), maildir) /\ IsRun(J)
      /\ IsSeq(J.paths) /\ ToCome(J.paths)
  BY JobIs
<1>2. /\ J.at \in {"done", "failed"} /\ J.paths # <<>>
      /\ call' = call /\ mail' = mail /\ maildir' = maildir
      /\ job' = [job EXCEPT ![j] = [J EXCEPT !.paths = Tail(J.paths)]]
  <2>1. job' = [job EXCEPT ![j].paths = Tail(@)]
    BY DEF PassOver
  <2>2. job' = [job EXCEPT ![j] = [J EXCEPT !.paths = Tail(J.paths)]]
    BY <2>1 DEF ImportInv
  <2>3. QED
    BY <2>2 DEF PassOver, Examining, storeVars
<1> PICK K : K = [J EXCEPT !.paths = Tail(J.paths)]
  OBVIOUS
<1>3. job' = [job EXCEPT ![j] = K]
  BY <1>2, Zenon
<1>4. /\ IsRecord(K) /\ K.at = J.at /\ K.kind = J.kind /\ K.src = J.src /\ K.rest = J.rest
      /\ K.buf = J.buf /\ K.dir = J.dir /\ K.oks = J.oks /\ K.errs = J.errs
      /\ K.paths = Tail(J.paths) /\ K.box = J.box
  BY <1>1 DEF IsRun, IsRecord
<1>5. IsRun(K)
  BY <1>1, <1>4 DEF IsRun
<1>6. Exact(j, K, call[j], KeysIn(j, J.box), maildir)
  BY <1>1, <1>2, <1>4, <1>5, PathsMove
<1>7. IsSeq(K.paths) /\ ToCome(K.paths)
  BY <1>1, <1>2, <1>4, PathsLeft
<1>8. QED
  BY <1>2, <1>3, <1>4, <1>6, <1>7, JobOnly

\* The next mailbox of a scan: nothing is stored from it yet.
LEMMA ImportNextKeeps == ASSUME ImportInv, NEW j \in Jobs, ImportNext(j) PROVE ImportInv'
<1> DEFINE J == job[j]
           p == Head(J.paths)
           kind == DetectMailboxType(p)
<1>1. /\ IsRun(J) /\ IsSeq(J.paths) /\ ToCome(J.paths) /\ J.box \in Nat
      /\ J.at # "saving" => call[j].at = "idle"
      /\ call[j] = [at |-> call[j].at, msg |-> call[j].msg, done |-> call[j].done]
  BY JobIs
<1> PICK K : K = [NotStarted EXCEPT !.at = "run", !.kind = kind, !.src = Content(p),
                    !.rest = Numbers(Content(p)), !.paths = Tail(J.paths), !.box = J.box + 1]
  OBVIOUS
<1>2. /\ J.at # "saving" /\ J.paths # <<>> /\ job' = [job EXCEPT ![j] = K]
      /\ mail' = mail /\ maildir' = maildir /\ call' = call
  <2>1. J.at # "saving" /\ J.paths # <<>> /\ mail' = mail /\ maildir' = maildir /\ call' = call
    BY DEF ImportNext, Examining, storeVars
  <2>2. job' = [job EXCEPT ![j] = K]
    BY Zenon DEF ImportNext
  <2>3. QED
    BY <2>1, <2>2
<1>3. call' = [call EXCEPT ![j] = call[j]]
  BY <1>2 DEF ImportInv
<1>4. /\ kind \in Boxes
      /\ kind = "mbox" => IsRead(Content(p))
      /\ kind = "database" => AreRows(Content(p))
      /\ kind = "maildir" => Content(p) = <<>>
  <2>1. ToCome(<<p>>)
    BY <1>1, <1>2, PathsLeft
  <2>2. 1 \in DOMAIN <<p>> /\ <<p>>[1] = p
    OBVIOUS
  <2>3. (p.lines # <<>> => IsRead(p.lines) /\ p.shape = "file") /\ AreRows(p.rows)
    BY <2>1, <2>2, Zenon DEF ToCome
  <2>4. QED
    BY <2>3, DetectIs
<1> HIDE DEF p, kind
<1>5. /\ IsRecord(K) /\ K.at = "run" /\ K.kind = kind /\ K.src = Content(p)
      /\ K.rest = Numbers(Content(p)) /\ K.buf = <<>> /\ K.dir = Nameless /\ K.oks = 0 /\ K.errs = 0
      /\ K.paths = Tail(J.paths) /\ K.box = J.box + 1
  <2>1. /\ IsRecord(NotStarted) /\ NotStarted.buf = <<>> /\ NotStarted.dir = Nameless
        /\ NotStarted.oks = 0 /\ NotStarted.errs = 0
    BY NotStartedIs DEF IsRecord
  <2>2. QED
    BY <2>1 DEF IsRecord
<1>6. IsRun(K) /\ K.kind # "scan" /\ K.box \in Nat /\ J.box <= K.box
  BY <1>1, <1>4, <1>5 DEF IsRun, Ats, Boxes
<1>7. DOMAIN KeysIn(j, K.box) = {}
  <2>1. \A i \in DOMAIN mail : mail[i].from = j => mail[i].box \in Nat /\ mail[i].box <= J.box
    BY DEF ImportInv, JobInv
  <2>2. \A i \in DOMAIN mail : ~(mail[i].from = j /\ mail[i].box = K.box)
    BY <1>1, <1>5, <2>1
  <2>3. QED
    BY <2>2 DEF KeysIn
<1>8. Exact(j, K, call[j], KeysIn(j, K.box), maildir)
  BY <1>1, <1>2, <1>4, <1>5, <1>6, <1>7, JobBegins
<1>9. IsSeq(K.paths) /\ ToCome(K.paths)
  BY <1>1, <1>2, <1>5, PathsLeft, ZenonT(40)
<1>10. QED
  BY <1>2, <1>3, <1>6, <1>8, <1>9, OneJob

\* SaveMessage returns.
LEMMA SavedKeeps == ASSUME ImportInv, NEW j \in Jobs, Saved(j) PROVE ImportInv'
<1> DEFINE J == job[j]
           E == KeysIn(j, J.box)
           ok == IF call[j].at = "saved" THEN 1 ELSE 0
<1>1. /\ Exact(j, J, call[j], E, maildir) /\ IsRun(J) /\ IsSeq(J.paths) /\ ToCome(J.paths)
      /\ J.at = "saving" => Reads(J)
      /\ J.box \in Nat /\ J.oks \in Nat /\ J.errs \in Nat
  BY JobIs
<1> DEFINE a == Onward(j, J.rest)
<1> PICK K : K = [J EXCEPT !.at = a, !.oks = J.oks + ok, !.errs = J.errs + (1 - ok)]
  OBVIOUS
<1>2. /\ J.at = "saving" /\ call[j].at \in {"saved", "failed"}
      /\ mail' = mail /\ maildir' = maildir /\ call' = [call EXCEPT ![j] = NoCall]
  BY DEF Saved
<1>3. job' = [job EXCEPT ![j] = K]
  BY Zenon DEF Saved
<1>4. a \in {"run", "done"} /\ (a = "done" => J.rest = <<>>) /\ (a = "run" /\ J.kind # "maildir" => J.rest # <<>>)
      /\ (a = "done" => J.kind # "maildir")
  BY DEF Onward
<1>5. ok \in {0, 1}
  OBVIOUS
<1> HIDE DEF a
<1>6. /\ IsRecord(K) /\ K.at = a /\ K.kind = J.kind /\ K.src = J.src /\ K.rest = J.rest
      /\ K.buf = J.buf /\ K.dir = J.dir /\ K.oks = J.oks + ok /\ K.errs = J.errs + (1 - ok)
      /\ K.paths = J.paths /\ K.box = J.box
  <2> HIDE DEF ok
  <2>1. QED
    BY <1>1 DEF IsRun, IsRecord
<1>7. IsRun(K)
  BY <1>1, <1>4, <1>5, <1>6 DEF IsRun, Ats
<1>8. ReadSoFar(K) = ReadSoFar(J) /\ UpTo(K) = UpTo(J)
  BY <1>6 DEF ReadSoFar, UpTo
<1>9. Passed(K, maildir) = Passed(J, maildir)
  BY <1>6, <1>8 DEF Passed, PassedFiles
<1>10. Reads(K)
  <2>1. K.kind = "mbox" => ReadsMbox(K)
    <3> SUFFICES ASSUME K.kind = "mbox" PROVE ReadsMbox(K)
      OBVIOUS
    <3>1. ReadsMbox(J) /\ UpTo(J) = ReadSoFar(J)
      BY <1>1, <1>2, <1>6 DEF Reads, ReadsMbox
    <3>2. Len(J.src) \in Nat /\ ReadSoFar(J) \in 0..Len(J.src) /\ J.rest = Left(ReadSoFar(J), Len(J.src))
      BY <3>1, ReadIs DEF ReadsMbox
    <3>3. (ReadSoFar(J) = Len(J.src) <=> J.rest = <<>>)
      BY <3>2, LeftIs
    <3>4. /\ a = "run" => ReadSoFar(J) < Len(J.src)
          /\ a = "done" => ReadSoFar(J) = Len(J.src)
      BY <1>4, <1>6, <3>2, <3>3
    <3>5. QED
      BY <1>4, <1>6, <1>8, <3>1, <3>4 DEF ReadsMbox
  <2>2. K.kind = "database" => ReadsRows(K)
    <3> SUFFICES ASSUME K.kind = "database" PROVE ReadsRows(K)
      OBVIOUS
    <3>1. ReadsRows(J)
      BY <1>1, <1>2, <1>6 DEF Reads
    <3>2. Len(J.src) \in Nat /\ ReadSoFar(J) \in 0..Len(J.src) /\ J.rest = Left(ReadSoFar(J), Len(J.src))
      BY <3>1, LenProperties DEF ReadsRows, AreRows
    <3>3. ReadSoFar(J) = Len(J.src) <=> J.rest = <<>>
      BY <3>2, LeftIs
    <3>4. QED
      BY <1>4, <1>6, <1>8, <3>1, <3>3 DEF ReadsRows
  <2>3. K.kind = "maildir" => ReadsFiles(K)
    BY <1>1, <1>2, <1>4, <1>6 DEF Reads, ReadsFiles
  <2>4. QED
    BY <2>1, <2>2, <2>3 DEF Reads
<1>11. Goes(J, K, maildir)
  BY <1>6, <1>7, <1>9, <1>10 DEF Goes
<1>12. Exact(j, K, NoCall, E, maildir)
  <2> DEFINE C == call[j]
  <2>1. /\ Exact(j, J, C, E, maildir) /\ Goes(J, K, maildir) /\ J.at = "saving"
        /\ C.at \in {"saved", "failed"} /\ K.at \in {"run", "done"}
        /\ Passed(K, maildir) = Passed(J, maildir)
        /\ K.oks = J.oks + (IF C.at = "saved" THEN 1 ELSE 0)
        /\ K.errs = J.errs + (1 - (IF C.at = "saved" THEN 1 ELSE 0))
    BY <1>1, <1>2, <1>4, <1>6, <1>9, <1>11
  <2> HIDE DEF J, C, E
  <2>2. QED
    BY <2>1, Returns, ZenonT(40)
<1>13. KeysIn(j, K.box) = E /\ K.box \in Nat /\ J.box <= K.box /\ IsSeq(K.paths) /\ ToCome(K.paths)
  BY <1>1, <1>6
<1>14. QED
  BY <1>2, <1>3, <1>12, <1>13, OneJob

\* An entry is given to SaveMessage, or is not.
LEMMA InjectKeeps ==
  ASSUME ImportInv, NEW j \in Jobs, job[j].at = "run", maildir' = maildir,
         NEW p, NEW atts, NEW left, Inject(j, Key(p), atts, left),
         \A K : /\ IsRun(K) /\ K.kind = job[j].kind /\ K.src = job[j].src /\ K.box = job[j].box
                /\ K.dir = job[j].dir /\ K.rest = left /\ K.buf = <<>> /\ K.at = "saving"
                => Goes(job[j], K, maildir) /\ Gains(job[j], K, maildir, p)
  PROVE  ImportInv'
<1> DEFINE J == job[j]
           E == KeysIn(j, J.box)
<1>1. /\ Exact(j, J, call[j], E, maildir) /\ IsRun(J) /\ IsSeq(J.paths) /\ ToCome(J.paths)
      /\ J.box \in Nat
  BY JobIs
<1>2. PICK K : K = [J EXCEPT !.at = "saving", !.rest = left, !.buf = <<>>]
  OBVIOUS
<1>3. PICK m : m = [from |-> j, box |-> J.box, key |-> Key(p), atts |-> atts]
  OBVIOUS
<1>4. PICK D : D = [at |-> "begun", msg |-> m, done |-> {}]
  OBVIOUS
<1>5. mail' = mail /\ call' = [call EXCEPT ![j] = D] /\ job' = [job EXCEPT ![j] = K]
  BY <1>2, <1>3, <1>4, Zenon DEF Inject, SaveMessage
<1>6. /\ IsRecord(K) /\ K.at = "saving" /\ K.kind = J.kind /\ K.src = J.src /\ K.rest = left
      /\ K.buf = <<>> /\ K.dir = J.dir /\ K.oks = J.oks /\ K.errs = J.errs
      /\ K.paths = J.paths /\ K.box = J.box
  BY <1>1, <1>2 DEF IsRun, IsRecord
<1>7. IsRun(K)
  BY <1>1, <1>6 DEF IsRun, Ats
<1>8. Goes(J, K, maildir) /\ Gains(J, K, maildir, p)
  BY <1>6, <1>7
<1>9. Begun(D, j, J, p)
  BY <1>3, <1>4 DEF Begun
<1>10. Exact(j, K, D, E, maildir)
  <2> DEFINE C == call[j]
  <2>1. /\ Exact(j, J, C, E, maildir) /\ J.at = "run" /\ K.at = "saving"
        /\ K.oks = J.oks /\ K.errs = J.errs
    BY <1>1, <1>6
  <2> HIDE DEF J, C, E
  <2>2. QED
    BY <1>8, <1>9, <2>1, Injects
<1>11. KeysIn(j, K.box) = E /\ K.box \in Nat /\ J.box <= K.box /\ IsSeq(K.paths) /\ ToCome(K.paths)
  BY <1>1, <1>6
<1>12. QED
  BY <1>5, <1>10, <1>11, OneJob

LEMMA SkipKeeps ==
  ASSUME ImportInv, NEW j \in Jobs, job[j].at = "run", maildir' = maildir,
         mail' = mail, call' = call, NEW left, Skip(j, left),
         \A K : /\ IsRun(K) /\ K.kind = job[j].kind /\ K.src = job[j].src /\ K.box = job[j].box
                /\ K.dir = job[j].dir /\ K.rest = left /\ K.buf = <<>> /\ K.at = Onward(j, left)
                => /\ Goes(job[j], K, maildir)
                   /\ job[j].kind \in Counted => \E p : Gains(job[j], K, maildir, p)
  PROVE  ImportInv'
<1> DEFINE J == job[j]
           E == KeysIn(j, J.box)
<1>1. /\ Exact(j, J, call[j], E, maildir) /\ IsRun(J) /\ IsSeq(J.paths) /\ ToCome(J.paths)
      /\ J.errs \in Nat
  BY JobIs
<1> DEFINE a == Onward(j, left)
<1>2. a \in {"run", "done"}
  BY DEF Onward
<1> PICK K : K = [J EXCEPT !.at = a, !.rest = left, !.buf = <<>>, !.errs = J.errs + 1]
  OBVIOUS
<1>3. job' = [job EXCEPT ![j] = K]
  BY Zenon DEF Skip
<1> HIDE DEF a
<1>4. /\ IsRecord(K) /\ K.at = a /\ K.kind = J.kind /\ K.src = J.src /\ K.rest = left
      /\ K.buf = <<>> /\ K.dir = J.dir /\ K.oks = J.oks /\ K.errs = J.errs + 1
      /\ K.paths = J.paths /\ K.box = J.box
  BY <1>1 DEF IsRun, IsRecord
<1>5. IsRun(K)
  BY <1>1, <1>2, <1>4 DEF IsRun, Ats
<1>6. /\ Goes(J, K, maildir)
      /\ J.kind \in Counted => \E p : Gains(J, K, maildir, p)
  BY <1>4, <1>5 DEF a
<1>7. Exact(j, K, call[j], E, maildir)
  <2> DEFINE C == call[j]
  <2>1. /\ Exact(j, J, C, E, maildir) /\ J.at = "run" /\ K.at \in {"run", "done"}
        /\ K.oks = J.oks /\ K.errs = J.errs + 1
    BY <1>1, <1>2, <1>4
  <2> HIDE DEF J, E
  <2>2. Exact(j, K, C, E, maildir)
    <3> HIDE DEF C
    <3>1. QED
      BY <1>6, <2>1, Skips
  <2>3. QED
    BY <2>2
<1>8. K.box = J.box /\ IsSeq(K.paths) /\ ToCome(K.paths)
  BY <1>1, <1>4
<1>9. QED
  BY <1>3, <1>7, <1>8, JobOnly

\* The job after a line that ends what is in the buffer, or is the last one.
LEMMA MboxGoes ==
  ASSUME NEW J, NEW K, NEW dirs, J.kind = "mbox", ReadsMbox(J), J.at = "run",
         IsRun(K), K.kind = J.kind, K.src = J.src, K.box = J.box, K.rest = Tail(J.rest), K.buf = <<>>,
         K.at \in {"run", "saving", "done"},
         K.at = "run" => K.rest # <<>>, K.at = "done" => K.rest = <<>>,
         K.rest # <<>> => ~IsText(J.src, ReadSoFar(J) + 1)
  PROVE  LET n == ReadSoFar(J)
             a == UpTo(J)
         IN  /\ Goes(J, K, dirs)
             /\ ~IsText(J.src, n + 1) /\ a = n => Passed(K, dirs) = Passed(J, dirs)
             /\ ~IsText(J.src, n + 1) /\ a < n => Gains(J, K, dirs, <<a + 1, n>>)
             /\ IsText(J.src, n + 1) => n + 1 = Len(J.src) /\ Gains(J, K, dirs, <<a + 1, n + 1>>)
<1> DEFINE n == ReadSoFar(J)
           a == UpTo(J)
           was == PassedLines(J.src, a)
           now == PassedLines(J.src, n + 1)
<1>1. ReadsMbox(K) /\ UpTo(K) = n + 1
  BY MboxLine
<1>2. Passed(K, dirs) = now /\ Passed(J, dirs) = was /\ Reads(K)
  BY <1>1 DEF Passed, Reads
<1>3. /\ Len(J.src) \in Nat /\ n \in Nat /\ a \in Nat /\ a <= n /\ n < Len(J.src)
      /\ Tail(J.rest) = Left(n + 1, Len(J.src))
  BY MboxLeft
<1>4. IsText(J.src, n + 1) => n + 1 = Len(J.src)
  <2>1. n + 1 \in 0..Len(J.src)
    BY <1>3
  <2>2. n + 1 < Len(J.src) => K.rest # <<>>
    BY <1>3, <2>1, LeftIs
  <2>3. QED
    BY <1>3, <2>2
<1>5. /\ ~IsText(J.src, n + 1) /\ a = n => now = was
      /\ ~IsText(J.src, n + 1) /\ a < n => <<a + 1, n>> \notin was /\ now = was \cup {<<a + 1, n>>}
      /\ IsText(J.src, n + 1) /\ n + 1 = Len(J.src) =>
           <<a + 1, n + 1>> \notin was /\ now = was \cup {<<a + 1, n + 1>>}
  BY MboxPasses
<1> HIDE DEF n, a, was, now
<1>6. was \subseteq now
  BY <1>3, <1>4, <1>5
<1>7. Goes(J, K, dirs)
  BY <1>2, <1>6 DEF Goes
<1>8. /\ ~IsText(J.src, n + 1) /\ a < n => Gains(J, K, dirs, <<a + 1, n>>)
      /\ IsText(J.src, n + 1) => n + 1 = Len(J.src) /\ Gains(J, K, dirs, <<a + 1, n + 1>>)
  BY <1>2, <1>4, <1>5 DEF Gains
<1>9. QED
  BY <1>2, <1>5, <1>7, <1>8 DEF n, a

\* The piece p is over: it is injected, if it can be parsed.
LEMMA InjectMessageKeeps ==
  ASSUME ImportInv, NEW j \in Jobs, Running(j, "mbox"), maildir' = maildir,
         NEW p, InjectMessage(j, Key(p)),
         LET n == ReadSoFar(job[j])
             a == UpTo(job[j])
         IN  \/ ~IsText(job[j].src, n + 1) /\ a < n /\ p = <<a + 1, n>>
             \/ IsText(job[j].src, n + 1) /\ n + 1 = Len(job[j].src) /\ p = <<a + 1, n + 1>>
  PROVE  ImportInv'
<1> DEFINE J == job[j]
           left == Rest(j)
           n == ReadSoFar(J)
           a == UpTo(J)
<1>1. /\ J.kind = "mbox" /\ J.at = "run" /\ ReadsMbox(J) /\ left = Tail(J.rest)
  BY JobIs DEF Running, Reads, Rest
<1>2. /\ Len(J.src) \in Nat /\ n \in Nat /\ n < Len(J.src)
      /\ left = Left(n + 1, Len(J.src))
  BY <1>1, MboxLeft
<1>3. left # <<>> => ~IsText(J.src, n + 1)
  <2>1. n + 1 = Len(J.src) => left = <<>>
    BY <1>2, LeftIs
  <2>2. QED
    BY <2>1
<1>4. ASSUME NEW K, IsRun(K), K.kind = J.kind, K.src = J.src, K.box = J.box, K.rest = left,
             K.buf = <<>>, K.at \in {"run", "saving", "done"},
             K.at = "run" => left # <<>>, K.at = "done" => left = <<>>
      PROVE  Goes(J, K, maildir) /\ Gains(J, K, maildir, p)
  BY <1>1, <1>3, <1>4, MboxGoes
<1>5. CASE Inject(j, Key(p), {}, left)
  <2>1. \A K : /\ IsRun(K) /\ K.kind = J.kind /\ K.src = J.src /\ K.box = J.box
               /\ K.dir = J.dir /\ K.rest = left /\ K.buf = <<>> /\ K.at = "saving"
               => Goes(J, K, maildir) /\ Gains(J, K, maildir, p)
    BY <1>4
  <2>2. QED
    BY <1>1, <1>5, <2>1, InjectKeeps
<1>6. CASE Skip(j, left) /\ UNCHANGED storeVars
  <2>1. Onward(j, left) \in {"run", "done"}
        /\ (Onward(j, left) = "run" => left # <<>>) /\ (Onward(j, left) = "done" => left = <<>>)
    BY <1>1 DEF Onward
  <2>2. \A K : /\ IsRun(K) /\ K.kind = J.kind /\ K.src = J.src /\ K.box = J.box
               /\ K.dir = J.dir /\ K.rest = left /\ K.buf = <<>> /\ K.at = Onward(j, left)
               => Goes(J, K, maildir) /\ (J.kind \in Counted => \E q : Gains(J, K, maildir, q))
    <3> SUFFICES ASSUME NEW K, IsRun(K), K.kind = J.kind, K.src = J.src, K.box = J.box,
                        K.rest = left, K.buf = <<>>, K.at = Onward(j, left)
                 PROVE Goes(J, K, maildir) /\ \E q : Gains(J, K, maildir, q)
      OBVIOUS
    <3>1. Goes(J, K, maildir) /\ Gains(J, K, maildir, p)
      BY <1>4, <2>1
    <3>2. QED
      BY <3>1
  <2>3. mail' = mail /\ call' = call
    BY <1>6 DEF storeVars
  <2>4. QED
    BY <1>1, <1>6, <2>2, <2>3, SkipKeeps
<1>7. QED
  BY <1>5, <1>6 DEF InjectMessage

\* A line that changes no more than what has been read.
LEMMA LineKeeps ==
  ASSUME ImportInv, NEW j \in Jobs, job[j].at = "run", maildir' = maildir,
         mail' = mail, call' = call, NEW K, job' = [job EXCEPT ![j] = K], IsRun(K),
         Goes(job[j], K, maildir), Passed(K, maildir) = Passed(job[j], maildir),
         K.at \in {"run", "done"}, K.oks = job[j].oks, K.errs = job[j].errs, K.paths = job[j].paths
  PROVE  ImportInv'
<1> DEFINE J == job[j]
           E == KeysIn(j, J.box)
           C == call[j]
<1>1. Exact(j, J, C, E, maildir) /\ IsSeq(K.paths) /\ ToCome(K.paths) /\ K.box = J.box
  BY JobIs DEF Goes
<1>2. Exact(j, K, C, E, maildir)
  <2>1. /\ J.at = "run" /\ Goes(J, K, maildir) /\ Passed(K, maildir) = Passed(J, maildir)
        /\ K.oks = J.oks /\ K.errs = J.errs
    OBVIOUS
  <2> HIDE DEF J, C, E
  <2>2. QED
    BY <1>1, <2>1, Moves
<1>3. QED
  BY <1>1, <1>2, JobOnly

LEMMA MboxKeeps ==
  ASSUME ImportInv, NEW j \in Jobs, SkipEnvelope(j) \/ FlushAtEnvelope(j) \/ AddLine(j) \/ FlushAtEOF(j)
  PROVE  ImportInv'
<1> DEFINE J == job[j]
           n == ReadSoFar(J)
           a == UpTo(J)
           left == Tail(J.rest)
<1>1. Running(j, "mbox") /\ maildir' = maildir
  BY DEF SkipEnvelope, FlushAtEnvelope, AddLine, FlushAtEOF
<1>2. J.kind = "mbox" /\ J.at = "run" /\ ReadsMbox(J) /\ IsRun(J)
  BY <1>1, JobIs DEF Running, Reads
<1>3. /\ Len(J.src) \in Nat /\ n \in Nat /\ n < Len(J.src) /\ a \in Nat /\ a <= n
      /\ J.rest # <<>> /\ Head(J.rest) = n + 1 /\ left = Left(n + 1, Len(J.src))
      /\ Len(J.rest) = Len(J.src) - n
      /\ J.buf = <<>> <=> a = n
      /\ J.buf = Key(<<a + 1, n>>)
      /\ n + 1 < Len(J.src) => J.src[n + 1] # Nameless
  BY <1>2, MboxLeft
<1>4. Line(j) = J.src[n + 1] /\ Rest(j) = left /\ (AtEOF(j) <=> n + 1 = Len(J.src))
  <2>1. Line(j) = J.src[n + 1] /\ Rest(j) = left
    BY <1>3, Zenon DEF Line, Rest
  <2>2. Len(J.rest) = 1 <=> n + 1 = Len(J.src)
    <3> HIDE DEF n, a, left
    <3>1. QED
      BY <1>3
  <2>3. QED
    BY <2>1, <2>2, Zenon DEF AtEOF
<1>5. IsText(J.src, n + 1) <=> Line(j) # "From" /\ Line(j) # Nameless
  BY <1>4, TextIs
<1>6. n + 1 = Len(J.src) <=> left = <<>>
  <2>1. n + 1 \in 0..Len(J.src)
    BY <1>3
  <2> DEFINE b == n + 1
             l == Len(J.src)
  <2>2. b \in 0..l /\ l \in Nat /\ left = Left(b, l)
    BY <1>3, <2>1
  <2> HIDE DEF b, l, n, left
  <2>3. b = l <=> left = <<>>
    <3>1. b = l => Left(b, l) = <<>>
      BY <2>2, LeftIs
    <3>2. b < l => Left(b, l) # <<>>
      BY <2>2, LeftIs
    <3>3. b = l \/ b < l
      BY <2>2
    <3>4. QED
      BY <2>2, <3>1, <3>2, <3>3, Zenon
  <2>4. QED
    BY <2>3 DEF b, l
<1>7. ASSUME NEW at \in {"run", "done"}, at = "run" => left # <<>>, at = "done" => left = <<>>,
             ~IsText(J.src, n + 1), J.buf = <<>>, mail' = mail, call' = call,
             job' = [job EXCEPT ![j] = [J EXCEPT !.at = at, !.rest = left]]
      PROVE  ImportInv'
  <2>1. PICK K : K = [J EXCEPT !.at = at, !.rest = left]
    OBVIOUS
  <2>2. /\ IsRecord(K) /\ K.at = at /\ K.kind = J.kind /\ K.src = J.src /\ K.rest = left
        /\ K.buf = <<>> /\ K.dir = J.dir /\ K.oks = J.oks /\ K.errs = J.errs
        /\ K.paths = J.paths /\ K.box = J.box
    BY <1>2, <1>7, <2>1 DEF IsRun, IsRecord
  <2>3. IsRun(K)
    BY <1>2, <2>2 DEF IsRun, Ats
  <2>4. Goes(J, K, maildir) /\ Passed(K, maildir) = Passed(J, maildir)
    <3>1. /\ K.at \in {"run", "saving", "done"} /\ K.buf = <<>>
          /\ K.at = "run" => K.rest # <<>>
          /\ K.at = "done" => K.rest = <<>>
          /\ ~IsText(J.src, ReadSoFar(J) + 1) /\ UpTo(J) = ReadSoFar(J)
      BY <1>3, <1>7, <2>2
    <3>2. K.rest = Tail(J.rest) /\ K.kind = J.kind /\ K.src = J.src /\ K.box = J.box
      BY <2>2
    <3>3. QED
      BY <1>2, <2>3, <3>1, <3>2, MboxGoes
  <2>5. job' = [job EXCEPT ![j] = K]
    BY <1>7, <2>1, Zenon
  <2>6. QED
    BY <1>1, <1>2, <1>7, <2>2, <2>3, <2>4, <2>5, LineKeeps
<1>8. CASE SkipEnvelope(j)
  <2>1. Line(j) = "From" /\ J.buf = <<>> /\ mail' = mail /\ call' = call
    BY <1>8 DEF SkipEnvelope, storeVars
  <2>2. job' = [job EXCEPT ![j] = [J EXCEPT !.at = Onward(j, left), !.rest = left]]
    BY <1>4, <1>8, Zenon DEF SkipEnvelope, Set
  <2>3. /\ Onward(j, left) \in {"run", "done"}
        /\ Onward(j, left) = "run" => left # <<>>
        /\ Onward(j, left) = "done" => left = <<>>
    BY <1>2 DEF Onward
  <2>4. QED
    BY <1>5, <1>7, <2>1, <2>2, <2>3
<1>9. CASE FlushAtEnvelope(j)
  <2>1. Line(j) = "From" /\ a < n /\ InjectMessage(j, Key(<<a + 1, n>>))
    BY <1>3, <1>9 DEF FlushAtEnvelope
  <2>2. ~IsText(J.src, n + 1)
    BY <1>5, <2>1
  <2>3. QED
    BY <1>1, <2>1, <2>2, InjectMessageKeeps
<1>10. CASE AddLine(j)
  <2>1. Line(j) # "From" /\ n + 1 < Len(J.src) /\ mail' = mail /\ call' = call
    BY <1>3, <1>4, <1>10 DEF AddLine, storeVars
  <2>2. PICK K : K = [J EXCEPT !.rest = left, !.buf = Append(J.buf, Head(J.rest))]
    OBVIOUS
  <2>3. job' = [job EXCEPT ![j] = K]
    BY <1>4, <1>10, <2>2, Zenon DEF AddLine
  <2>4. /\ IsRecord(K) /\ K.at = "run" /\ K.kind = J.kind /\ K.src = J.src /\ K.rest = left
        /\ K.buf = Append(J.buf, Head(J.rest)) /\ K.dir = J.dir /\ K.oks = J.oks /\ K.errs = J.errs
        /\ K.paths = J.paths /\ K.box = J.box
    BY <1>2, <2>2 DEF IsRun, IsRecord
  <2>5. IsRun(K)
    BY <1>2, <2>4 DEF IsRun
  <2>6. IsText(J.src, n + 1) /\ Len(J.rest) # 1
    BY <1>3, <1>4, <1>5, <2>1
  <2>7. ReadsMbox(K) /\ UpTo(K) = UpTo(J)
    BY <1>2, <2>4, <2>6, MboxText
  <2>8. Passed(K, maildir) = Passed(J, maildir)
    BY <1>2, <2>4, <2>7 DEF Passed
  <2>9. Goes(J, K, maildir)
    BY <1>2, <2>4, <2>5, <2>7, <2>8 DEF Goes, Reads
  <2>10. QED
    BY <1>1, <1>2, <2>1, <2>3, <2>4, <2>5, <2>8, <2>9, LineKeeps
<1>11. CASE FlushAtEOF(j)
  <2> DEFINE buf == IF Line(j) = Nameless THEN J.buf ELSE Append(J.buf, Head(J.rest))
  <2>1. /\ Line(j) # "From" /\ AtEOF(j)
        /\ IF buf = <<>> THEN Set(j, "done", <<>>) /\ UNCHANGED storeVars ELSE InjectMessage(j, buf)
    BY <1>11, Zenon DEF FlushAtEOF, Nameless
  <2>2. CASE Line(j) = Nameless /\ J.buf = <<>>
    <3>1. Set(j, "done", <<>>) /\ UNCHANGED storeVars /\ left = <<>>
      BY <1>4, <1>6, <2>1, <2>2
    <3>2. job' = [job EXCEPT ![j] = [J EXCEPT !.at = "done", !.rest = left]]
      BY <3>1, Zenon DEF Set
    <3>3. mail' = mail /\ call' = call /\ ~IsText(J.src, n + 1)
      BY <1>5, <2>2, <3>1 DEF storeVars
    <3>4. QED
      BY <1>7, <2>2, <3>1, <3>2, <3>3
  <2>3. CASE Line(j) = Nameless /\ J.buf # <<>>
    <3>1. InjectMessage(j, Key(<<a + 1, n>>)) /\ a < n
      BY <1>3, <2>1, <2>3
    <3>2. ~IsText(J.src, n + 1)
      BY <1>5, <2>3
    <3>3. QED
      BY <1>1, <3>1, <3>2, InjectMessageKeeps
  <2>4. CASE Line(j) # Nameless
    <3>1. IsText(J.src, n + 1) /\ n + 1 = Len(J.src)
      BY <1>4, <1>5, <2>1, <2>4
    <3>2. buf = Key(<<a + 1, n + 1>>)
      <4>1. Append(Key(<<a + 1, n>>), n + 1) = Key(<<a + 1, n + 1>>)
        <5> HIDE DEF a, n
        <5>1. QED
          BY <1>3, KeyIs
      <4>2. QED
        BY <1>3, <2>4, <4>1
    <3>3. buf # <<>>
      <4> DEFINE b == n + 1
      <4>1. b \in Nat /\ a <= b /\ a # b
        BY <1>3
      <4> HIDE DEF a, n, b, buf
      <4>2. Key(<<a + 1, b>>) # <<>>
        BY <1>3, <4>1, KeyIs
      <4>3. QED
        BY <3>2, <4>2 DEF b
    <3>4. InjectMessage(j, Key(<<a + 1, n + 1>>))
      <4> HIDE DEF buf
      <4>1. QED
        BY <2>1, <3>2, <3>3
    <3>5. QED
      BY <1>1, <3>1, <3>4, InjectMessageKeeps
  <2>5. QED
    BY <2>2, <2>3, <2>4
<1>12. QED
  BY <1>8, <1>9, <1>10, <1>11

LEMMA RowsKeep ==
  ASSUME ImportInv, NEW j \in Jobs, ImportRow(j) \/ ScanFails(j) \/ NoRows(j) PROVE ImportInv'
<1> DEFINE J == job[j]
           left == Tail(J.rest)
           h == Head(J.rest)
<1>1. /\ J.kind = "database" /\ J.at = "run" /\ ReadsRows(J) /\ IsRun(J) /\ maildir' = maildir
      /\ Rest(j) = left
  BY JobIs DEF ImportRow, ScanFails, NoRows, Running, Reads, Rest
<1>2. ASSUME NEW K, J.rest # <<>>, IsRun(K), K.kind = J.kind, K.src = J.src, K.box = J.box,
             K.rest = left, K.at = "done" => left = <<>>
      PROVE  h \in Nat /\ Goes(J, K, maildir) /\ Gains(J, K, maildir, <<h, h>>)
  <2>1. /\ ReadsRows(K) /\ h \in Nat
        /\ <<h, h>> \notin PassedRows(ReadSoFar(J))
        /\ PassedRows(ReadSoFar(K)) = PassedRows(ReadSoFar(J)) \cup {<<h, h>>}
    BY <1>1, <1>2, RowsOnward, ZenonT(40)
  <2>2. Passed(J, maildir) = PassedRows(ReadSoFar(J)) /\ Passed(K, maildir) = PassedRows(ReadSoFar(K))
    BY <1>1, <1>2 DEF Passed
  <2>3. Reads(K)
    BY <1>1, <1>2, <2>1 DEF Reads
  <2> HIDE DEF h
  <2>4. QED
    BY <1>2, <2>1, <2>2, <2>3 DEF Goes, Gains
<1>3. CASE ImportRow(j)
  <2>1. J.rest # <<>> /\ \E atts : Inject(j, <<h>>, atts, left)
    BY <1>1, <1>3 DEF ImportRow
  <2>2. PICK atts : Inject(j, <<h>>, atts, left)
    BY <2>1
  <2>3. \A K : /\ IsRun(K) /\ K.kind = J.kind /\ K.src = J.src /\ K.box = J.box
               /\ K.dir = J.dir /\ K.rest = left /\ K.buf = <<>> /\ K.at = "saving"
               => Goes(J, K, maildir) /\ Gains(J, K, maildir, <<h, h>>)
    BY <1>2, <2>1
  <2>4. h \in Nat
    <3>1. PICK K : K = [J EXCEPT !.rest = left]
      OBVIOUS
    <3>2. /\ IsRecord(K) /\ K.at = "run" /\ K.kind = J.kind /\ K.src = J.src /\ K.rest = left
          /\ K.box = J.box /\ K.oks = J.oks /\ K.errs = J.errs
      BY <1>1, <3>1 DEF IsRun, IsRecord
    <3>3. IsRun(K)
      BY <1>1, <3>2 DEF IsRun
    <3>4. QED
      BY <1>2, <2>1, <3>2, <3>3
  <2>5. Inject(j, Key(<<h, h>>), atts, left)
    <3>1. Key(<<h, h>>) = <<h>>
      <4> HIDE DEF h
      <4>1. QED
        BY <2>4, KeyOfOne
    <3>2. QED
      BY <2>2, <3>1, Zenon
  <2>6. QED
    BY <1>1, <2>3, <2>5, InjectKeeps
<1>4. CASE ScanFails(j)
  <2>1. J.rest # <<>> /\ Skip(j, left) /\ mail' = mail /\ call' = call
    BY <1>1, <1>4 DEF ScanFails, storeVars
  <2>2. Onward(j, left) = "done" => left = <<>>
    BY DEF Onward
  <2>3. \A K : /\ IsRun(K) /\ K.kind = J.kind /\ K.src = J.src /\ K.box = J.box
               /\ K.dir = J.dir /\ K.rest = left /\ K.buf = <<>> /\ K.at = Onward(j, left)
               => Goes(J, K, maildir) /\ (J.kind \in Counted => \E q : Gains(J, K, maildir, q))
    <3> SUFFICES ASSUME NEW K, IsRun(K), K.kind = J.kind, K.src = J.src, K.box = J.box,
                        K.rest = left, K.at = Onward(j, left)
                 PROVE Goes(J, K, maildir) /\ \E q : Gains(J, K, maildir, q)
      OBVIOUS
    <3>1. Goes(J, K, maildir) /\ Gains(J, K, maildir, <<h, h>>)
      BY <1>2, <2>1, <2>2
    <3>2. QED
      BY <3>1
  <2>4. QED
    BY <1>1, <2>1, <2>3, SkipKeeps
<1>5. CASE NoRows(j)
  <2>1. J.rest = <<>> /\ mail' = mail /\ call' = call
    BY <1>5 DEF NoRows, storeVars
  <2>2. PICK K : K = [J EXCEPT !.at = "done", !.rest = <<>>]
    OBVIOUS
  <2>3. job' = [job EXCEPT ![j] = K]
    BY <1>5, <2>2, Zenon DEF NoRows, Set
  <2>4. /\ IsRecord(K) /\ K.at = "done" /\ K.kind = J.kind /\ K.src = J.src /\ K.rest = J.rest
        /\ K.buf = J.buf /\ K.dir = J.dir /\ K.oks = J.oks /\ K.errs = J.errs
        /\ K.paths = J.paths /\ K.box = J.box
    BY <1>1, <2>1, <2>2 DEF IsRun, IsRecord
  <2>5. IsRun(K)
    BY <1>1, <2>4 DEF IsRun, Ats
  <2>6. ReadSoFar(K) = ReadSoFar(J)
    BY <2>4 DEF ReadSoFar
  <2>7. ReadSoFar(J) = Len(J.src)
    <3> DEFINE n == ReadSoFar(J)
               l == Len(J.src)
    <3>1. n \in 0..l /\ J.rest = Left(n, l) /\ l \in Nat
      BY <1>1, LenProperties DEF ReadsRows, AreRows
    <3> HIDE DEF n, l
    <3>2. n < l => Left(n, l) # <<>>
      BY <3>1, LeftIs
    <3>3. n = l
      BY <2>1, <3>1, <3>2
    <3>4. QED
      BY <3>3 DEF n, l
  <2>8. ReadsRows(K) /\ Passed(K, maildir) = Passed(J, maildir)
    BY <1>1, <2>4, <2>6, <2>7 DEF ReadsRows, Passed
  <2>9. Goes(J, K, maildir)
    BY <1>1, <2>4, <2>5, <2>8 DEF Goes, Reads
  <2>10. QED
    BY <1>1, <2>1, <2>3, <2>4, <2>5, <2>8, <2>9, LineKeeps
<1>6. QED
  BY <1>3, <1>4, <1>5

\* The next directory of a Maildir, listed or left out.
LEMMA DirsKeep ==
  ASSUME ImportInv, NEW j \in Jobs, ListDir(j) \/ ListFails(j) PROVE ImportInv'
<1> DEFINE J == job[j]
           E == KeysIn(j, J.box)
           C == call[j]
           dir == NextDir(J.dir)
<1>1. /\ J.kind = "maildir" /\ J.at = "run" /\ J.rest = <<>> /\ ReadsFiles(J) /\ IsRun(J)
      /\ mail' = mail /\ call' = call /\ maildir' = maildir
  BY JobIs DEF ListDir, ListFails, Running, Reads, storeVars
<1>2. /\ Exact(j, J, C, E, maildir) /\ IsSeq(J.paths) /\ ToCome(J.paths)
      /\ maildir \in [Files -> {"cur", "new"}]
  BY JobIs DEF ImportInv
<1>3. \/ J.dir = Nameless /\ dir = "cur"
      \/ J.dir = "cur" /\ dir = "new"
      \/ J.dir = "new" /\ dir = "end"
  <2>1. J.dir \in {Nameless, "cur", "new"}
    BY <1>1 DEF ReadsFiles
  <2>2. /\ J.dir = Nameless => dir = "cur"
        /\ J.dir = "cur" => dir = "new"
        /\ J.dir = "new" => dir = "end"
    BY Zenon DEF NextDir, Nameless
  <2>3. QED
    BY <2>1, <2>2
<1> DEFINE found == {f \in Files : maildir[f] = dir}
<1>4. IsFiniteSet(found)
  <2>1. found \in SUBSET Files
    OBVIOUS
  <2>2. IsFiniteSet(Files)
    BY Zenon, ImporterAssumption
  <2>3. QED
    BY <2>1, <2>2, FS_Subset
<1>5. /\ SetToSeq(found) \in Seq(Files) /\ IsInjective(SetToSeq(found)) /\ ToSet(SetToSeq(found)) \subseteq found
      /\ found = {} => SetToSeq(found) = <<>>
  <2> DEFINE s == SetToSeq(found)
  <2>1. /\ s \in Seq(found) /\ IsInjective(s) /\ ToSet(s) \subseteq found
        /\ found = {} => s = <<>>
    BY <1>4, SetToSeqIs
  <2>2. found \subseteq Files
    OBVIOUS
  <2> HIDE DEF found, s
  <2>3. s \in Seq(Files)
    BY <2>1, <2>2, SeqMonotonic
  <2>4. QED
    BY <2>1, <2>3 DEF s
<1>6. dir = "end" => found = {}
  BY <1>2
<1>7. \A f \in found : maildir[f] = dir
  OBVIOUS
<1> HIDE DEF found
<1>8. /\ <<>> \in Seq(Files) /\ IsInjective(<<>>) /\ ToSet(<<>>) = {}
  BY DEF IsInjective, ToSet
<1>9. PICK at, files :
        /\ at \in {"run", "done"} /\ (at = "done" <=> dir = "end") /\ files \in {SetToSeq(found), <<>>}
        /\ \/ job' = [job EXCEPT ![j] = [J EXCEPT !.at = at, !.dir = dir, !.rest = files]]
           \/ job' = [job EXCEPT ![j] = [J EXCEPT !.dir = dir]] /\ at = "run" /\ files = <<>>
  <2>1. CASE ListDir(j)
    <3> DEFINE at == IF dir = "end" THEN "done" ELSE "run"
    <3>1. job' = [job EXCEPT ![j] = [J EXCEPT !.at = at, !.dir = dir, !.rest = SetToSeq(found)]]
      BY <2>1, Zenon DEF ListDir, found
    <3>2. at \in {"run", "done"} /\ (at = "done" <=> dir = "end")
      OBVIOUS
    <3> HIDE DEF at
    <3>3. QED
      BY <3>1, <3>2, Zenon
  <2>2. CASE ListFails(j)
    <3>1. job' = [job EXCEPT ![j].dir = NextDir(@)] /\ dir # "end"
      BY <2>2 DEF ListFails
    <3>2. job' = [job EXCEPT ![j] = [J EXCEPT !.dir = dir]]
      BY <3>1 DEF ImportInv
    <3>3. QED
      BY <3>1, <3>2, Zenon
  <2>3. QED
    BY <2>1, <2>2
<1>10. PICK K : /\ job' = [job EXCEPT ![j] = K]
                /\ IsRecord(K) /\ K.at = at /\ K.kind = J.kind /\ K.src = J.src /\ K.rest = files
                /\ K.buf = J.buf /\ K.dir = dir /\ K.oks = J.oks /\ K.errs = J.errs
                /\ K.paths = J.paths /\ K.box = J.box
  <2>1. CASE job' = [job EXCEPT ![j] = [J EXCEPT !.at = at, !.dir = dir, !.rest = files]]
    <3>1. PICK K : K = [J EXCEPT !.at = at, !.dir = dir, !.rest = files]
      OBVIOUS
    <3>2. /\ IsRecord(K) /\ K.at = at /\ K.kind = J.kind /\ K.src = J.src /\ K.rest = files
          /\ K.buf = J.buf /\ K.dir = dir /\ K.oks = J.oks /\ K.errs = J.errs
          /\ K.paths = J.paths /\ K.box = J.box
      BY <1>1, <3>1 DEF IsRun, IsRecord
    <3>3. job' = [job EXCEPT ![j] = K]
      BY <2>1, <3>1, Zenon
    <3>4. QED
      BY <3>2, <3>3
  <2>2. CASE job' = [job EXCEPT ![j] = [J EXCEPT !.dir = dir]] /\ at = "run" /\ files = <<>>
    <3>1. PICK K : K = [J EXCEPT !.dir = dir]
      OBVIOUS
    <3>2. /\ IsRecord(K) /\ K.at = at /\ K.kind = J.kind /\ K.src = J.src /\ K.rest = files
          /\ K.buf = J.buf /\ K.dir = dir /\ K.oks = J.oks /\ K.errs = J.errs
          /\ K.paths = J.paths /\ K.box = J.box
      BY <1>1, <2>2, <3>1 DEF IsRun, IsRecord
    <3>3. job' = [job EXCEPT ![j] = K]
      BY <2>2, <3>1, Zenon
    <3>4. QED
      BY <3>2, <3>3
  <2>3. QED
    BY <1>9, <2>1, <2>2
<1>11. IsRun(K)
  BY <1>1, <1>9, <1>10 DEF IsRun, Ats
<1>12. /\ K.rest \in Seq(Files) /\ IsInjective(K.rest)
       /\ \A f \in ToSet(K.rest) : maildir[f] = dir
       /\ dir = "end" => K.rest = <<>>
  BY <1>5, <1>6, <1>7, <1>8, <1>9, <1>10
<1> HIDE DEF dir, J, E, C
<1>13. ReadsFiles(K)
  <2>1. Nameless \notin {"cur", "new", "end"}
    BY NotStartedIs
  <2>2. QED
    BY <1>3, <1>9, <1>10, <1>12, <2>1 DEF ReadsFiles
<1>14. Passed(J, maildir) \subseteq Passed(K, maildir)
  <2>1. Passed(J, maildir) = PassedFiles(J, maildir) /\ Passed(K, maildir) = PassedFiles(K, maildir)
    BY <1>1, <1>10 DEF Passed
  <2>2. Nameless \notin {"cur", "new", "end"}
    BY NotStartedIs
  <2>3. \A f \in Files : /\ J.dir # Nameless /\ (J.dir = "cur" => maildir[f] = "cur")
                         => /\ K.dir # Nameless /\ f \notin ToSet(K.rest)
                            /\ K.dir = "cur" => maildir[f] = "cur"
    BY <1>3, <1>8, <1>10, <1>12, <2>2
  <2>4. QED
    BY <2>1, <2>3 DEF PassedFiles
<1>15. Goes(J, K, maildir)
  BY <1>1, <1>10, <1>11, <1>13, <1>14 DEF Goes, Reads
<1>16. Exact(j, K, C, E, maildir)
  <2>1. J.kind \notin Counted
    BY <1>1 DEF Counted
  <2>2. QED
    BY <1>1, <1>2, <1>9, <1>10, <1>15, <2>1, Moves
<1>17. K.box = J.box /\ IsSeq(K.paths) /\ ToCome(K.paths)
  BY <1>2, <1>10
<1>18. QED
  BY <1>1, <1>10, <1>16, <1>17, JobOnly DEF J, E, C

LEMMA FilesKeep ==
  ASSUME ImportInv, NEW j \in Jobs, ImportFile(j) \/ FileFails(j) PROVE ImportInv'
<1> DEFINE J == job[j]
           left == Tail(J.rest)
           h == Head(J.rest)
<1>1. /\ J.kind = "maildir" /\ J.at = "run" /\ J.rest # <<>> /\ ReadsFiles(J)
      /\ maildir' = maildir /\ Rest(j) = left
  BY JobIs DEF ImportFile, FileFails, Running, Reads, Rest
<1>2. ASSUME NEW K, IsRun(K), K.kind = J.kind, K.src = J.src, K.box = J.box,
             K.dir = J.dir, K.rest = left
      PROVE  /\ Goes(J, K, maildir)
             /\ maildir[h] = J.dir => Gains(J, K, maildir, <<h, h>>)
  <2>1. /\ ReadsFiles(K)
        /\ PassedFiles(J, maildir) \subseteq PassedFiles(K, maildir)
        /\ <<h, h>> \notin PassedFiles(J, maildir)
        /\ maildir[h] = J.dir => <<h, h>> \in PassedFiles(K, maildir)
    BY <1>1, <1>2, FilesOnward
  <2>2. Passed(J, maildir) = PassedFiles(J, maildir) /\ Passed(K, maildir) = PassedFiles(K, maildir)
    BY <1>1, <1>2 DEF Passed
  <2>3. Reads(K) /\ J.kind \notin Counted
    BY <1>1, <1>2, <2>1 DEF Reads, Counted
  <2> HIDE DEF h
  <2>4. QED
    BY <1>2, <2>1, <2>2, <2>3 DEF Goes, Gains
<1>3. CASE ImportFile(j)
  <2>1. maildir[h] = J.dir /\ Inject(j, <<h>>, {}, left)
    BY <1>1, <1>3 DEF ImportFile
  <2>2. \A K : /\ IsRun(K) /\ K.kind = J.kind /\ K.src = J.src /\ K.box = J.box
               /\ K.dir = J.dir /\ K.rest = left /\ K.buf = <<>> /\ K.at = "saving"
               => Goes(J, K, maildir) /\ Gains(J, K, maildir, <<h, h>>)
    BY <1>2, <2>1
  <2>3. h \in Nat
    <3>1. PICK K : K = [J EXCEPT !.rest = left]
      OBVIOUS
    <3>2. K.rest = left /\ K.dir = J.dir
      BY <3>1, JobIs DEF IsRun, IsRecord
    <3>3. QED
      BY <1>1, <3>2, FilesOnward
  <2>4. Inject(j, Key(<<h, h>>), {}, left)
    <3>1. Key(<<h, h>>) = <<h>>
      <4> HIDE DEF h
      <4>1. QED
        BY <2>3, KeyOfOne
    <3>2. QED
      BY <2>1, <3>1, Zenon
  <2>5. QED
    BY <1>1, <2>2, <2>4, InjectKeeps
<1>4. CASE FileFails(j)
  <2>1. Skip(j, left) /\ mail' = mail /\ call' = call /\ J.kind \notin Counted
    BY <1>1, <1>4 DEF FileFails, Counted
  <2>2. \A K : /\ IsRun(K) /\ K.kind = J.kind /\ K.src = J.src /\ K.box = J.box
               /\ K.dir = J.dir /\ K.rest = left /\ K.buf = <<>> /\ K.at = Onward(j, left)
               => Goes(J, K, maildir) /\ (J.kind \in Counted => \E q : Gains(J, K, maildir, q))
    BY <1>2, <2>1
  <2>3. QED
    BY <1>1, <2>1, <2>2, SkipKeeps
<1>5. QED
  BY <1>3, <1>4

\* SaveMessage goes on, and nothing is stored.
LEMMA CallKeeps ==
  ASSUME ImportInv, NEW j \in Jobs, UNCHANGED <<maildir, job>>,
         InsertMessage(j) \/ SaveFails(j) \/ \E a \in Attachments : InsertAttachment(j, a)
  PROVE  ImportInv'
<1> DEFINE J == job[j]
           E == KeysIn(j, J.box)
           C == call[j]
<1>1. /\ Exact(j, J, C, E, maildir) /\ IsSeq(J.paths) /\ ToCome(J.paths) /\ J.box \in Nat
      /\ C = [at |-> C.at, msg |-> C.msg, done |-> C.done]
  BY JobIs
<1>2. mail' = mail /\ C.at \in {"begun", "open"}
  BY DEF InsertMessage, SaveFails, InsertAttachment
<1>3. ASSUME NEW at \in {"open", "failed"}, call' = [call EXCEPT ![j].at = at]
      PROVE \E D : /\ call' = [call EXCEPT ![j] = D] /\ D.at \in {"open", "failed"}
                   /\ D = [at |-> D.at, msg |-> C.msg, done |-> D.done]
  <2>1. PICK D : D = [C EXCEPT !.at = at]
    OBVIOUS
  <2>2. D.at = at /\ D = [at |-> D.at, msg |-> C.msg, done |-> D.done]
    BY <1>1, <2>1
  <2>3. call' = [call EXCEPT ![j] = D]
    BY <1>3, <2>1 DEF ImportInv
  <2>4. QED
    BY <2>2, <2>3
<1>4. ASSUME NEW a \in Attachments, InsertAttachment(j, a)
      PROVE \E D : /\ call' = [call EXCEPT ![j] = D] /\ D.at \in {"open", "failed"}
                   /\ D = [at |-> D.at, msg |-> C.msg, done |-> D.done]
  <2>1. PICK D : D = [C EXCEPT !.done = C.done \cup {a}]
    OBVIOUS
  <2>2. D.at = C.at /\ C.at = "open" /\ D = [at |-> D.at, msg |-> C.msg, done |-> D.done]
    BY <1>1, <1>4, <2>1 DEF InsertAttachment
  <2>3. call' = [call EXCEPT ![j] = D]
    BY <1>4, <2>1 DEF ImportInv, InsertAttachment
  <2>4. QED
    BY <2>2, <2>3
<1>5. PICK D : /\ call' = [call EXCEPT ![j] = D] /\ D.at \in {"open", "failed"}
               /\ D = [at |-> D.at, msg |-> C.msg, done |-> D.done]
  BY <1>3, <1>4 DEF InsertMessage, SaveFails
<1>6. Exact(j, J, D, E, maildir)
  <2> HIDE DEF J, E, C
  <2>1. QED
    BY <1>1, <1>2, <1>5, CallGoes
<1>7. job' = [job EXCEPT ![j] = J] /\ maildir' = maildir /\ J.box <= J.box
  BY <1>1 DEF ImportInv
<1>8. QED
  BY <1>1, <1>2, <1>5, <1>6, <1>7, OneJob

\* SaveMessage commits.
LEMMA CommitIsExact ==
  ASSUME StoreInv, ImportInv, NEW j \in Jobs, Commit(j), UNCHANGED <<maildir, job>>
  PROVE  ImportInv'
<1> DEFINE J == job[j]
           E == KeysIn(j, J.box)
           C == call[j]
           n == Len(mail) + 1
<1>1. /\ Exact(j, J, C, E, maildir) /\ J.box \in Nat
      /\ C = [at |-> C.at, msg |-> C.msg, done |-> C.done]
  BY JobIs
<1>2. C.at = "open" /\ mail' = Append(mail, C.msg) /\ call' = [call EXCEPT ![j].at = "saved"]
  BY DEF Commit
<1>3. C.msg.from = j /\ C.msg.box = J.box
  BY <1>1, <1>2 DEF Exact
<1>4. /\ Len(mail) \in Nat /\ DOMAIN mail = 1..Len(mail) /\ DOMAIN mail' = 1..n
      /\ (\A i \in DOMAIN mail : mail'[i] = mail[i]) /\ mail'[n] = C.msg
  BY <1>2, SeqGrows DEF StoreInv
<1>5. n \notin DOMAIN mail /\ DOMAIN mail' = DOMAIN mail \cup {n}
  BY <1>4
<1>6. PICK D : D = [C EXCEPT !.at = "saved"]
  OBVIOUS
<1>7. D = [at |-> "saved", msg |-> C.msg, done |-> D.done]
  BY <1>1, <1>6
<1>8. /\ call' = [i \in Jobs |-> call'[i]] /\ call'[j] = D /\ \A i \in Jobs \ {j} : call'[i] = call[i]
  BY <1>2, <1>6 DEF ImportInv
<1> HIDE DEF n
<1>9. ASSUME NEW i \in Jobs \ {j}, NEW b PROVE KeysIn(i, b)' = KeysIn(i, b)
  <2> DEFINE S == {k \in DOMAIN mail : mail[k].from = i /\ mail[k].box = b}
             T == {k \in DOMAIN mail' : mail'[k].from = i /\ mail'[k].box = b'}
  <2>1. b' = b
    OBVIOUS
  <2>2. S = T /\ \A k \in S : mail'[k].key = mail[k].key
    BY <1>3, <1>4, <1>5
  <2> HIDE DEF S, T
  <2>3. [k \in T |-> mail'[k].key] = [k \in S |-> mail[k].key]
    BY <2>2
  <2>4. QED
    BY <2>3 DEF S, T, KeysIn
<1>10. \A i \in Jobs \ {j} : JobInv(i)'
  <2> SUFFICES ASSUME NEW i \in Jobs \ {j} PROVE JobInv(i)'
    OBVIOUS
  <2>1. JobInv(i)
    BY DEF ImportInv
  <2>2. KeysIn(i, job[i].box)' = KeysIn(i, job[i].box)
    BY <1>9 DEF KeysIn
  <2>3. \A k \in DOMAIN mail' : mail'[k].from = i => mail'[k].box \in Nat /\ mail'[k].box <= job[i].box
    BY <1>3, <1>4, <1>5, <2>1 DEF JobInv
  <2>4. QED
    BY <1>8, <2>1, <2>2, <2>3 DEF JobInv
<1>11. JobInv(j)'
  <2> DEFINE F == [k \in {k \in DOMAIN mail' : mail'[k].from = j /\ mail'[k].box = J.box} |-> mail'[k].key]
  <2>1. KeysIn(j, job[j].box)' = F
    BY DEF KeysIn
  <2>2. /\ DOMAIN E = {k \in DOMAIN mail : mail[k].from = j /\ mail[k].box = J.box}
        /\ \A k \in DOMAIN E : E[k] = mail[k].key
    BY DEF KeysIn
  <2>3. /\ DOMAIN F = {k \in DOMAIN mail' : mail'[k].from = j /\ mail'[k].box = J.box}
        /\ \A k \in DOMAIN F : F[k] = mail'[k].key
    OBVIOUS
  <2>4. \A k \in DOMAIN mail : mail[k].from = j => mail[k].box \in Nat /\ mail[k].box <= J.box
    BY DEF ImportInv, JobInv
  <2>5. IsSeq(J.paths) /\ ToCome(J.paths)
    BY JobIs
  <2> HIDE DEF F, E
  <2>6. /\ n \notin DOMAIN E /\ DOMAIN F = DOMAIN E \cup {n}
        /\ (\A k \in DOMAIN E : F[k] = E[k]) /\ F[n] = C.msg.key
    BY <1>3, <1>4, <1>5, <2>2, <2>3
  <2>7. Exact(j, J, D, F, maildir)
    <3> HIDE DEF J, C
    <3>1. QED
      BY <1>1, <1>2, <1>7, <2>6, CallSaves
  <2>8. \A k \in DOMAIN mail' : mail'[k].from = j => mail'[k].box \in Nat /\ mail'[k].box <= J.box
    <3>1. \A k \in DOMAIN mail : mail'[k].from = j => mail'[k].box \in Nat /\ mail'[k].box <= J.box
      BY <1>4, <2>4
    <3>2. mail'[n].box = J.box /\ J.box \in Nat
      BY <1>1, <1>3, <1>4
    <3>3. mail'[n].box \in Nat /\ mail'[n].box <= J.box
      BY <3>2
    <3>4. QED
      BY <1>5, <3>1, <3>3
  <2>9. QED
    BY <1>8, <2>1, <2>5, <2>7, <2>8 DEF JobInv
<1>12. QED
  BY <1>8, <1>10, <1>11 DEF ImportInv

\* The other mail client moves a file.
LEMMA MoveKeeps == ASSUME ImportInv, NEW f \in Files, MoveToCur(f) PROVE ImportInv'
<1>1. /\ maildir \in [Files -> {"cur", "new"}] /\ maildir' = [maildir EXCEPT ![f] = "cur"]
      /\ job' = job /\ call' = call /\ mail' = mail
  BY DEF ImportInv, MoveToCur, storeVars
<1>2. /\ maildir' \in [Files -> {"cur", "new"}]
      /\ \A g \in Files : maildir[g] = "cur" => maildir'[g] = "cur"
  BY <1>1
<1>3. ASSUME NEW j \in Jobs PROVE JobInv(j)'
  <2> DEFINE J == job[j]
             E == KeysIn(j, J.box)
             C == call[j]
  <2>1. JobInv(j)
    BY DEF ImportInv
  <2>2. Passed(J, maildir) \subseteq Passed(J, maildir')
    BY <1>2 DEF Passed, PassedFiles
  <2>3. J.kind \in Counted => Passed(J, maildir') = Passed(J, maildir)
    BY DEF Passed, Counted
  <2>4. Exact(j, J, C, E, maildir)
    BY <2>1 DEF JobInv
  <2>5. Exact(j, J, C, E, maildir')
    <3> HIDE DEF J, E, C
    <3>1. QED
      BY <2>2, <2>3, <2>4, DirsMove
  <2>6. KeysIn(j, job[j].box)' = E
    BY <1>1 DEF KeysIn
  <2>7. QED
    BY <1>1, <2>1, <2>5, <2>6 DEF JobInv
<1>4. QED
  BY <1>1, <1>2, <1>3 DEF ImportInv

LEMMA ImportStays == ASSUME ImportInv, UNCHANGED <<mail, call, maildir, job>> PROVE ImportInv'
BY DEF ImportInv, JobInv, KeysIn

LEMMA ImportInitial == Init => ImportInv
<1> SUFFICES ASSUME Init PROVE ImportInv
  OBVIOUS
<1>1. /\ job = [j \in Jobs |-> NotStarted] /\ call = [j \in Jobs |-> NoCall] /\ mail = <<>>
      /\ maildir \in [Files -> {"cur", "new"}]
  BY DEF Init, StoreInit
<1>2. ASSUME NEW j \in Jobs PROVE JobInv(j)
  <2>1. job[j] = NotStarted /\ call[j] = NoCall
    BY <1>1
  <2>2. /\ IsRecord(NotStarted) /\ NotStarted.at = "idle" /\ NotStarted.kind = Nameless
        /\ NotStarted.oks = 0 /\ NotStarted.errs = 0 /\ NotStarted.box = 0
        /\ NotStarted.paths = <<>> /\ NotStarted.dir = Nameless
    BY NotStartedIs DEF IsRecord
  <2>3. IsRun(NotStarted)
    BY <2>2 DEF IsRun, Ats
  <2>4. DOMAIN mail = {} /\ DOMAIN KeysIn(j, 0) = {}
    BY <1>1 DEF KeysIn
  <2>5. NoCall.at = "idle" /\ NoCall = [at |-> NoCall.at, msg |-> NoCall.msg, done |-> NoCall.done]
    BY DEF NoCall
  <2>6. IsFiniteSet(DOMAIN KeysIn(j, 0))
    BY <2>4, FS_EmptySet
  <2>7. Exact(j, NotStarted, NoCall, KeysIn(j, 0), maildir)
    BY <2>2, <2>3, <2>4, <2>5, <2>6 DEF Exact
  <2>8. IsSeq(<<>>) /\ ToCome(<<>>)
    BY DEF IsSeq, ToCome
  <2>9. QED
    BY <2>1, <2>2, <2>4, <2>7, <2>8 DEF JobInv
<1>3. QED
  BY <1>1, <1>2 DEF ImportInv

LEMMA ImportPreserved == ASSUME StoreInv, ImportInv, [Next]_importVars PROVE ImportInv'
<1>1. ASSUME NEW j \in Jobs, JobStep(j) PROVE ImportInv'
  <2>1. CASE Start(j) \/ AccountExists(j) \/ CreateLegacyAccount(j)
    BY <2>1, StartKeeps, AccountKeeps
  <2>2. CASE EnsureFails(j) \/ Unsupported(j) \/ InputFails(j) \/ Kill(j)
    BY <2>2, EndsKeep
  <2>3. CASE PassOver(j) \/ ImportNext(j) \/ Saved(j)
    BY <2>3, PassOverKeeps, ImportNextKeeps, SavedKeeps
  <2>4. CASE SkipEnvelope(j) \/ FlushAtEnvelope(j) \/ AddLine(j) \/ FlushAtEOF(j)
    BY <2>4, MboxKeeps
  <2>5. CASE ImportRow(j) \/ ScanFails(j) \/ NoRows(j)
    BY <2>5, RowsKeep
  <2>6. CASE ListDir(j) \/ ListFails(j) \/ ImportFile(j) \/ FileFails(j)
    BY <2>6, DirsKeep, FilesKeep
  <2>7. QED
    BY <1>1, <2>1, <2>2, <2>3, <2>4, <2>5, <2>6 DEF JobStep
<1>2. ASSUME NEW j \in Jobs, SaveStep(j), UNCHANGED <<maildir, job>> PROVE ImportInv'
  BY <1>2, CallKeeps, CommitIsExact DEF SaveStep
<1>3. ASSUME NEW r \in Readers, ReadStep(r), UNCHANGED <<maildir, job>> PROVE ImportInv'
  <2>1. UNCHANGED <<mail, call, maildir, job>>
    BY <1>3 DEF ReadStep, ReadRow, ReadAttachments, QueryFails, GetReturns
  <2>2. QED
    BY <2>1, ImportStays
<1>4. ASSUME NEW f \in Files, MoveToCur(f) PROVE ImportInv'
  BY <1>4, MoveKeeps
<1>5. CASE UNCHANGED importVars
  <2>1. UNCHANGED <<mail, call, maildir, job>>
    BY <1>5 DEF importVars, storeVars
  <2>2. QED
    BY <2>1, ImportStays
<1>6. QED
  BY <1>1, <1>2, <1>3, <1>4, <1>5 DEF Next

LEMMA ImportMeans == ImportInv => ImportIsExact
<1> SUFFICES ASSUME ImportInv, NEW j \in Jobs
             PROVE  /\ \A i \in StoredBy(j) :
                         /\ \A k \in StoredBy(j) \ {i} : ToSet(mail[i].key) \cap ToSet(mail[k].key) = {}
                         /\ job[j].kind = "mbox" =>
                              \E p \in Pieces(job[j].src) :
                                mail[i].key = [n \in 1..(p[2] - p[1] + 1) |-> p[1] + n - 1]
                    /\ job[j].at = "done" => job[j].oks = Cardinality(StoredBy(j))
                    /\ job[j].at = "done" /\ job[j].kind = "mbox" =>
                         job[j].oks + job[j].errs = Cardinality(Pieces(job[j].src))
                    /\ job[j].at = "done" /\ job[j].kind = "database" =>
                         job[j].oks + job[j].errs = Len(job[j].src)
  BY Zenon DEF ImportIsExact, EntriesOnce, CountsAddUp
<1> DEFINE J == job[j]
           E == KeysIn(j, J.box)
<1>1. Exact(j, J, call[j], E, maildir) /\ J.oks \in Nat /\ J.errs \in Nat
  BY JobIs
<1>2. DOMAIN E = StoredBy(j) /\ \A i \in StoredBy(j) : E[i] = mail[i].key
  BY DEF KeysIn, StoredBy
<1> HIDE DEF E
<1>3. ASSUME NEW i \in StoredBy(j), NEW k \in StoredBy(j) \ {i}
      PROVE  ToSet(mail[i].key) \cap ToSet(mail[k].key) = {}
  <2>1. Apart(E[i], E[k])
    BY <1>1, <1>2 DEF Exact
  <2>2. QED
    BY <1>2, <2>1 DEF Apart
<1>4. ASSUME NEW i \in StoredBy(j), J.kind = "mbox"
      PROVE  \E p \in Pieces(J.src) : mail[i].key = [n \in 1..(p[2] - p[1] + 1) |-> p[1] + n - 1]
  <2>1. \E p \in Pieces(J.src) : E[i] = Key(p)
    BY <1>1, <1>2, <1>4 DEF Exact
  <2>2. QED
    BY <1>2, <2>1 DEF Key
<1>5. ASSUME J.at = "done"
      PROVE  /\ J.oks = Cardinality(StoredBy(j)) /\ Reads(J)
             /\ J.kind \in Counted => J.oks + J.errs = Cardinality(Passed(J, maildir))
  <2>1. call[j].at = "idle"
    BY <1>1, <1>5 DEF Exact
  <2>2. J.oks + 0 = Cardinality(DOMAIN E) /\ Reads(J)
    BY <1>1, <1>5, <2>1 DEF Exact
  <2>3. J.kind \in Counted => J.oks + J.errs + 0 = Cardinality(Passed(J, maildir))
    BY <1>1, <1>5 DEF Exact, Counted
  <2>4. QED
    BY <1>1, <1>2, <2>2, <2>3
<1>6. ASSUME J.at = "done", J.kind = "mbox" PROVE J.oks + J.errs = Cardinality(Pieces(J.src))
  <2>1. UpTo(J) = Len(J.src) /\ Len(J.src) \in Nat
    BY <1>5, <1>6, ReadIs DEF Reads, ReadsMbox
  <2>2. \A p \in Pieces(J.src) : p[2] <= Len(J.src)
    BY <2>1, PiecesAre
  <2>3. Passed(J, maildir) = Pieces(J.src)
    BY <1>6, <2>1, <2>2 DEF Passed, PassedLines
  <2>4. QED
    BY <1>5, <1>6, <2>3 DEF Counted
<1>7. ASSUME J.at = "done", J.kind = "database" PROVE J.oks + J.errs = Len(J.src)
  <2>1. ReadSoFar(J) = Len(J.src) /\ Len(J.src) \in Nat
    BY <1>5, <1>7, LenProperties DEF Reads, ReadsRows, AreRows
  <2>2. Cardinality(PassedRows(Len(J.src))) = Len(J.src)
    BY <2>1, RowsAre
  <2>3. QED
    BY <1>5, <1>7, <2>1, <2>2 DEF Counted, Passed
<1>8. QED
  BY <1>3, <1>4, <1>5, <1>6, <1>7

------------------------------------------------------------------------------
(***************************************************************************)
(* The types of the stored mail and of its callers.                        *)
(***************************************************************************)

\* What has been left to read and is in the buffer are numbers of the input, also when
\* the command has failed.
JobTyped(J) ==
  J.rest \in Seq(Nat) /\ J.buf \in Seq(Nat) /\ J.dir \in {Nameless, "cur", "new", "end"}

\* A job that may store something, now or for the next path of its scan.
Placed(J) == J.at \in {"run", "saving", "done"} \/ (J.at = "failed" /\ J.paths # <<>>)

JobsTyped == \A j \in Jobs : JobTyped(job[j]) /\ (Placed(job[j]) => Account \in accounts)

StoreTyped == StoreTypeOK /\ \A j \in Jobs : call[j].done \subseteq Attachments

LEMMA OneJobTyped ==
  ASSUME ImportInv, JobsTyped, NEW j \in Jobs, NEW K, job' = [job EXCEPT ![j] = K],
         JobTyped(K), accounts \subseteq accounts', Placed(K) => Account \in accounts'
  PROVE  JobsTyped'
<1>1. job'[j] = K /\ \A i \in Jobs \ {j} : job'[i] = job[i]
  BY DEF ImportInv
<1>2. ASSUME NEW i \in Jobs
      PROVE  JobTyped(job'[i]) /\ (Placed(job'[i]) => Account \in accounts')
  <2>1. CASE i = j
    BY <1>1, <2>1
  <2>2. CASE i # j
    <3>1. job'[i] = job[i]
      BY <1>1, <2>2
    <3>2. JobTyped(job[i]) /\ (Placed(job[i]) => Account \in accounts)
      BY DEF JobsTyped
    <3>3. QED
      BY <3>1, <3>2
  <2>3. QED
    BY <2>1, <2>2
<1>3. QED
  BY <1>2 DEF JobsTyped, JobTyped, Placed

LEMMA NumbersTyped == ASSUME NEW src, Len(src) \in Nat PROVE Numbers(src) \in Seq(Nat)
<1> DEFINE n == Len(src)
<1>1. n \in Nat /\ Numbers(src) = [i \in 1..n |-> i]
  BY DEF Numbers
<1> HIDE DEF n
<1>2. QED
  BY <1>1

LEMMA ContentIs ==
  ASSUME NEW p, p.lines # <<>> => IsRead(p.lines), AreRows(p.rows)
  PROVE  Len(Content(p)) \in Nat
<1>1. Len(p.rows) \in Nat
  BY LenProperties DEF AreRows
<1>2. Len(p.lines) \in Nat
  <2>1. CASE p.lines = <<>>
    BY <2>1, EmptySeq
  <2>2. CASE p.lines # <<>>
    BY <2>2, ReadIs
  <2>3. QED
    BY <2>1, <2>2
<1>3. QED
  BY <1>1, <1>2 DEF Content

LEMMA StartTyped ==
  ASSUME ImportInv, JobsTyped, NEW j \in Jobs, Start(j) PROVE JobsTyped'
<1> DEFINE J == job[j]
<1>1. IsRecord(J) /\ JobTyped(J) /\ accounts' = accounts
  BY JobIs DEF IsRun, JobsTyped, Start, storeVars
<1>2. ASSUME NEW kind, NEW src, Starts(j, kind, src), Len(src) \in Nat PROVE JobsTyped'
  <2>1. PICK K : K = [J EXCEPT !.at = "account", !.kind = kind, !.src = src, !.rest = Numbers(src)]
    OBVIOUS
  <2>2. job' = [job EXCEPT ![j] = K]
    BY <1>2, <2>1, Zenon DEF Starts
  <2>3. K.at = "account" /\ K.rest = Numbers(src) /\ K.buf = J.buf /\ K.dir = J.dir
    BY <1>1, <2>1 DEF IsRecord
  <2>4. JobTyped(K) /\ ~Placed(K)
    BY <1>1, <1>2, <2>3, NumbersTyped DEF JobTyped, Placed
  <2>5. QED
    BY <1>1, <2>2, <2>4, OneJobTyped
<1>3. ASSUME NEW walk,
             job' = [job EXCEPT ![j] = [@ EXCEPT !.at = "account", !.kind = "scan", !.paths = walk]]
      PROVE  JobsTyped'
  <2>1. PICK K : K = [J EXCEPT !.at = "account", !.kind = "scan", !.paths = walk]
    OBVIOUS
  <2>2. job' = [job EXCEPT ![j] = K]
    BY <1>3, <2>1, Zenon
  <2>3. K.at = "account" /\ K.rest = J.rest /\ K.buf = J.buf /\ K.dir = J.dir
    BY <1>1, <2>1 DEF IsRecord
  <2>4. JobTyped(K) /\ ~Placed(K)
    BY <1>1, <2>3 DEF JobTyped, Placed
  <2>5. QED
    BY <1>1, <2>2, <2>4, OneJobTyped
<1>4. ASSUME NEW f \in Mboxes PROVE Len(f) \in Nat
  <2>1. IsRead(f)
    BY Zenon, ImporterAssumption
  <2>2. QED
    BY <2>1, ReadIs
<1>5. ASSUME NEW d \in Databases PROVE Len(d) \in Nat
  <2>1. AreRows(d)
    BY Zenon, ImporterAssumption
  <2>2. QED
    BY <2>1, LenProperties DEF AreRows
<1>6. ASSUME NEW walk \in Walks, NEW n \in DOMAIN walk PROVE Len(Content(walk[n])) \in Nat
  <2>1. (walk[n].lines # <<>> => IsRead(walk[n].lines)) /\ AreRows(walk[n].rows)
    BY Zenon, ImporterAssumption
  <2>2. QED
    BY <2>1, ContentIs
<1>7. Len(<<>>) \in Nat
  BY EmptySeq
<1>8. \/ \E f \in Mboxes : Starts(j, "mbox", f)
      \/ \E d \in Databases : Starts(j, "database", d)
      \/ Starts(j, "maildir", <<>>)
      \/ \E walk \in Walks :
           \/ \E n \in DOMAIN walk : Starts(j, DetectMailboxType(walk[n]), Content(walk[n]))
           \/ job' = [job EXCEPT ![j] = [@ EXCEPT !.at = "account", !.kind = "scan", !.paths = walk]]
  BY Zenon DEF Start
<1>9. QED
  BY <1>2, <1>3, <1>4, <1>5, <1>6, <1>7, <1>8, Zenon

LEMMA AccountTyped ==
  ASSUME ImportInv, JobsTyped, NEW j \in Jobs, AccountExists(j) \/ CreateLegacyAccount(j)
  PROVE  JobsTyped'
<1> DEFINE J == job[j]
<1>1. IsRecord(J) /\ JobTyped(J)
  BY JobIs DEF IsRun, JobsTyped
<1>2. PICK a \in {AfterAccount(j), "create"} :
        /\ a # "create" => Account \in accounts'
        /\ accounts \subseteq accounts'
        /\ job' = [job EXCEPT ![j] = [J EXCEPT !.at = a, !.rest = J.rest]]
  <2>1. CASE AccountExists(j)
    BY <2>1 DEF AccountExists, Set, storeVars
  <2>2. CASE CreateLegacyAccount(j)
    BY <2>2 DEF CreateLegacyAccount, Set
  <2>3. QED
    BY <2>1, <2>2
<1>3. PICK K : K = [J EXCEPT !.at = a, !.rest = J.rest]
  OBVIOUS
<1>4. job' = [job EXCEPT ![j] = K]
  BY <1>2, <1>3, Zenon
<1>5. K.at = a /\ K.rest = J.rest /\ K.buf = J.buf /\ K.dir = J.dir
  BY <1>1, <1>3 DEF IsRecord
<1>6. JobTyped(K)
  BY <1>1, <1>5 DEF JobTyped
<1>7. Placed(K) => Account \in accounts'
  BY <1>2, <1>5 DEF Placed
<1>8. QED
  BY <1>2, <1>4, <1>6, <1>7, OneJobTyped

\* The command fails or is killed.  A scan that fails goes on only when it had the
\* account.
LEMMA EndsTyped ==
  ASSUME ImportInv, JobsTyped, NEW j \in Jobs,
         EnsureFails(j) \/ Unsupported(j) \/ InputFails(j) \/ Kill(j)
  PROVE  JobsTyped'
<1> DEFINE J == job[j]
<1>1. IsRecord(J) /\ JobTyped(J) /\ (Placed(J) => Account \in accounts)
  BY JobIs DEF IsRun, JobsTyped
<1>2. accounts' = accounts
  BY DEF EnsureFails, Unsupported, InputFails, Kill, storeVars
<1>3. <<>> \in Seq(Nat)
  BY EmptySeq
<1>4. CASE EnsureFails(j) \/ Kill(j)
  <2>1. PICK a \in {"failed", "dead"} :
          job' = [job EXCEPT ![j] = [J EXCEPT !.at = a, !.rest = <<>>, !.paths = <<>>]]
    BY <1>4, Zenon DEF EnsureFails, Kill
  <2>2. PICK K : K = [J EXCEPT !.at = a, !.rest = <<>>, !.paths = <<>>]
    OBVIOUS
  <2>3. job' = [job EXCEPT ![j] = K]
    BY <2>1, <2>2, Zenon
  <2>4. K.at = a /\ K.rest = <<>> /\ K.paths = <<>> /\ K.buf = J.buf /\ K.dir = J.dir
    BY <1>1, <2>2 DEF IsRecord
  <2>5. JobTyped(K) /\ ~Placed(K)
    BY <1>1, <1>3, <2>1, <2>4 DEF JobTyped, Placed
  <2>6. QED
    BY <1>2, <2>3, <2>5, OneJobTyped
<1>5. CASE Unsupported(j) \/ InputFails(j)
  <2>1. J.at = "run" /\ job' = [job EXCEPT ![j] = [J EXCEPT !.at = "failed", !.rest = <<>>]]
    BY <1>5, Zenon DEF Unsupported, InputFails, Running, Set
  <2>2. PICK K : K = [J EXCEPT !.at = "failed", !.rest = <<>>]
    OBVIOUS
  <2>3. job' = [job EXCEPT ![j] = K]
    BY <2>1, <2>2, Zenon
  <2>4. K.rest = <<>> /\ K.buf = J.buf /\ K.dir = J.dir
    BY <1>1, <2>2 DEF IsRecord
  <2>5. JobTyped(K) /\ Account \in accounts
    BY <1>1, <1>3, <2>1, <2>4 DEF JobTyped, Placed
  <2>6. QED
    BY <1>2, <2>3, <2>5, OneJobTyped
<1>6. QED
  BY <1>4, <1>5

LEMMA PathsTyped ==
  ASSUME ImportInv, JobsTyped, NEW j \in Jobs, PassOver(j) \/ ImportNext(j) PROVE JobsTyped'
<1> DEFINE J == job[j]
           p == Head(J.paths)
<1>1. IsRecord(J) /\ JobTyped(J) /\ (Placed(J) => Account \in accounts)
  BY JobIs DEF IsRun, JobsTyped
<1>2. J.at \in {"done", "failed"} /\ J.paths # <<>> /\ accounts' = accounts
  BY DEF PassOver, ImportNext, Examining, storeVars
<1>3. Account \in accounts
  BY <1>1, <1>2 DEF Placed
<1>4. CASE PassOver(j)
  <2>1. job' = [job EXCEPT ![j] = [J EXCEPT !.paths = Tail(J.paths)]]
    <3>1. job' = [job EXCEPT ![j].paths = Tail(@)]
      BY <1>4 DEF PassOver
    <3>2. QED
      BY <3>1 DEF ImportInv
  <2>2. PICK K : K = [J EXCEPT !.paths = Tail(J.paths)]
    OBVIOUS
  <2>3. job' = [job EXCEPT ![j] = K]
    BY <2>1, <2>2, Zenon
  <2>4. K.rest = J.rest /\ K.buf = J.buf /\ K.dir = J.dir
    BY <1>1, <2>2 DEF IsRecord
  <2>5. JobTyped(K)
    BY <1>1, <2>4 DEF JobTyped
  <2>6. QED
    BY <1>2, <1>3, <2>3, <2>5, OneJobTyped
<1>5. CASE ImportNext(j)
  <2>1. \E kind : job' = [job EXCEPT ![j] =
          [NotStarted EXCEPT !.at = "run", !.kind = kind, !.src = Content(p),
             !.rest = Numbers(Content(p)), !.paths = Tail(J.paths), !.box = J.box + 1]]
    BY <1>5, Zenon DEF ImportNext
  <2>2. PICK kind : job' = [job EXCEPT ![j] =
          [NotStarted EXCEPT !.at = "run", !.kind = kind, !.src = Content(p),
             !.rest = Numbers(Content(p)), !.paths = Tail(J.paths), !.box = J.box + 1]]
    BY <2>1
  <2>3. PICK K : K = [NotStarted EXCEPT !.at = "run", !.kind = kind, !.src = Content(p),
                        !.rest = Numbers(Content(p)), !.paths = Tail(J.paths), !.box = J.box + 1]
    OBVIOUS
  <2>4. job' = [job EXCEPT ![j] = K]
    BY <2>2, <2>3, Zenon
  <2>5. Len(Content(p)) \in Nat
    <3>1. IsSeq(J.paths) /\ ToCome(J.paths)
      BY JobIs
    <3>2. ToCome(<<p>>)
      BY <1>2, <3>1, PathsLeft
    <3>3. 1 \in DOMAIN <<p>> /\ <<p>>[1] = p
      OBVIOUS
    <3>4. (p.lines # <<>> => IsRead(p.lines)) /\ AreRows(p.rows)
      BY <3>2, <3>3, Zenon DEF ToCome
    <3>5. QED
      BY <3>4, ContentIs
  <2> HIDE DEF p
  <2>6. K.rest = Numbers(Content(p)) /\ K.buf = <<>> /\ K.dir = Nameless
    BY <2>3, NotStartedIs
  <2>7. JobTyped(K)
    <3>1. <<>> \in Seq(Nat) /\ Numbers(Content(p)) \in Seq(Nat)
      BY <2>5, EmptySeq, NumbersTyped
    <3>2. QED
      BY <2>6, <3>1 DEF JobTyped
  <2>8. QED
    BY <1>2, <1>3, <2>4, <2>7, OneJobTyped
<1>6. QED
  BY <1>4, <1>5

\* An entry is given to SaveMessage, or is not.
LEMMA InjectTyped ==
  ASSUME ImportInv, JobsTyped, NEW j \in Jobs, job[j].at = "run", NEW left \in Seq(Nat),
         \/ \E key, atts : Inject(j, key, atts, left)
         \/ Skip(j, left) /\ accounts' = accounts
  PROVE  JobsTyped'
<1> DEFINE J == job[j]
<1>1. IsRecord(J) /\ JobTyped(J) /\ Account \in accounts
  BY JobIs DEF IsRun, JobsTyped, Placed
<1>2. accounts' = accounts
  BY DEF Inject
<1>3. PICK K : job' = [job EXCEPT ![j] = K] /\ K.rest = left /\ K.buf = <<>> /\ K.dir = J.dir
  <2>1. CASE \E key, atts : Inject(j, key, atts, left)
    <3>1. PICK K : K = [J EXCEPT !.at = "saving", !.rest = left, !.buf = <<>>]
      OBVIOUS
    <3>2. job' = [job EXCEPT ![j] = K]
      BY <2>1, <3>1, Zenon DEF Inject
    <3>3. K.rest = left /\ K.buf = <<>> /\ K.dir = J.dir
      BY <1>1, <3>1 DEF IsRecord
    <3>4. QED
      BY <3>2, <3>3
  <2>2. CASE Skip(j, left)
    <3> DEFINE a == Onward(j, left)
               e == J.errs + 1
    <3>1. job' = [job EXCEPT ![j] = [J EXCEPT !.at = a, !.rest = left, !.buf = <<>>, !.errs = e]]
      BY <2>2, Zenon DEF Skip
    <3> HIDE DEF a, e
    <3>2. PICK K : K = [J EXCEPT !.at = a, !.rest = left, !.buf = <<>>, !.errs = e]
      OBVIOUS
    <3>3. job' = [job EXCEPT ![j] = K]
      BY <3>1, <3>2, Zenon
    <3>4. K.rest = left /\ K.buf = <<>> /\ K.dir = J.dir
      BY <1>1, <3>2 DEF IsRecord
    <3>5. QED
      BY <3>3, <3>4
  <2>3. QED
    BY <2>1, <2>2
<1>4. JobTyped(K)
  BY <1>1, <1>3, EmptySeq DEF JobTyped
<1>5. QED
  BY <1>1, <1>2, <1>3, <1>4, OneJobTyped

LEMMA SavedTyped == ASSUME ImportInv, JobsTyped, NEW j \in Jobs, Saved(j) PROVE JobsTyped'
<1> DEFINE J == job[j]
           a == Onward(j, J.rest)
           ok == IF call[j].at = "saved" THEN 1 ELSE 0
           o == J.oks + ok
           e == J.errs + (1 - ok)
<1>1. IsRecord(J) /\ JobTyped(J) /\ Account \in accounts /\ accounts' = accounts
  BY JobIs DEF IsRun, JobsTyped, Placed, Saved
<1>2. job' = [job EXCEPT ![j] = [J EXCEPT !.at = a, !.oks = o, !.errs = e]]
  BY Zenon DEF Saved
<1> HIDE DEF a, o, e
<1>3. PICK K : K = [J EXCEPT !.at = a, !.oks = o, !.errs = e]
  OBVIOUS
<1>4. job' = [job EXCEPT ![j] = K]
  BY <1>2, <1>3, Zenon
<1>5. K.rest = J.rest /\ K.buf = J.buf /\ K.dir = J.dir
  BY <1>1, <1>3 DEF IsRecord
<1>6. JobTyped(K)
  BY <1>1, <1>5 DEF JobTyped
<1>7. QED
  BY <1>1, <1>4, <1>6, OneJobTyped

\* A job that changes no more than how far it is, and is not at its end without the
\* account.
LEMMA GoesTyped ==
  ASSUME ImportInv, JobsTyped, NEW j \in Jobs, job[j].at = "run", accounts' = accounts,
         NEW at, NEW left \in Seq(Nat), job' = [job EXCEPT ![j] = [job[j] EXCEPT !.at = at, !.rest = left]]
  PROVE  JobsTyped'
<1> DEFINE J == job[j]
<1>1. IsRecord(J) /\ JobTyped(J) /\ Account \in accounts
  BY JobIs DEF IsRun, JobsTyped, Placed
<1>2. PICK K : K = [J EXCEPT !.at = at, !.rest = left]
  OBVIOUS
<1>3. job' = [job EXCEPT ![j] = K]
  BY <1>2, Zenon
<1>4. K.rest = left /\ K.buf = J.buf /\ K.dir = J.dir
  BY <1>1, <1>2 DEF IsRecord
<1>5. JobTyped(K)
  BY <1>1, <1>4 DEF JobTyped
<1>6. QED
  BY <1>1, <1>3, <1>5, OneJobTyped

LEMMA RestTyped ==
  ASSUME NEW J, JobTyped(J), J.rest # <<>> PROVE Tail(J.rest) \in Seq(Nat) /\ Head(J.rest) \in Nat
BY HeadTailProperties DEF JobTyped

LEMMA MboxTyped ==
  ASSUME ImportInv, JobsTyped, NEW j \in Jobs,
         SkipEnvelope(j) \/ FlushAtEnvelope(j) \/ AddLine(j) \/ FlushAtEOF(j)
  PROVE  JobsTyped'
<1> DEFINE J == job[j]
           left == Tail(J.rest)
<1>1. Running(j, "mbox")
  BY DEF SkipEnvelope, FlushAtEnvelope, AddLine, FlushAtEOF
<1>2. J.kind = "mbox" /\ J.at = "run" /\ ReadsMbox(J)
  BY <1>1, JobIs DEF Running, Reads
<1>3. J.rest # <<>> /\ Rest(j) = left
  BY <1>2, MboxLeft DEF Rest
<1>4. IsRecord(J) /\ JobTyped(J) /\ Account \in accounts
  BY <1>2, JobIs DEF IsRun, JobsTyped, Placed
<1>5. left \in Seq(Nat) /\ Head(J.rest) \in Nat
  BY <1>3, <1>4, RestTyped
<1> HIDE DEF left
<1>6. ASSUME NEW buf, InjectMessage(j, buf) PROVE JobsTyped'
  <2>1. \/ Inject(j, buf, {}, left)
        \/ Skip(j, left) /\ UNCHANGED storeVars
    BY <1>3, <1>6, Zenon DEF InjectMessage
  <2>2. \/ \E key, atts : Inject(j, key, atts, left)
        \/ Skip(j, left) /\ accounts' = accounts
    BY <2>1 DEF storeVars
  <2>3. QED
    BY <1>2, <1>5, <2>2, InjectTyped
<1>7. CASE SkipEnvelope(j)
  <2>1. /\ accounts' = accounts
        /\ job' = [job EXCEPT ![j] = [J EXCEPT !.at = Onward(j, left), !.rest = left]]
    BY <1>3, <1>7, Zenon DEF SkipEnvelope, Set, storeVars
  <2>2. QED
    BY <1>2, <1>5, <2>1, GoesTyped
<1>8. CASE FlushAtEnvelope(j)
  BY <1>6, <1>8, Zenon DEF FlushAtEnvelope
<1>9. CASE AddLine(j)
  <2>1. PICK K : K = [J EXCEPT !.rest = left, !.buf = Append(J.buf, Head(J.rest))]
    OBVIOUS
  <2>2. job' = [job EXCEPT ![j] = K] /\ accounts' = accounts
    BY <1>3, <1>9, <2>1, Zenon DEF AddLine, storeVars
  <2>3. K.rest = left /\ K.buf = Append(J.buf, Head(J.rest)) /\ K.dir = J.dir
    BY <1>4, <2>1 DEF IsRecord
  <2>4. JobTyped(K)
    BY <1>4, <1>5, <2>3, AppendProperties DEF JobTyped
  <2>5. QED
    BY <1>4, <2>2, <2>4, OneJobTyped
<1>10. CASE FlushAtEOF(j)
  <2>1. \/ Set(j, "done", <<>>) /\ UNCHANGED storeVars
        \/ \E buf : InjectMessage(j, buf)
    BY <1>10, Zenon DEF FlushAtEOF
  <2>2. CASE Set(j, "done", <<>>) /\ UNCHANGED storeVars
    <3>1. /\ accounts' = accounts
          /\ job' = [job EXCEPT ![j] = [J EXCEPT !.at = "done", !.rest = <<>>]]
      BY <2>2, Zenon DEF Set, storeVars
    <3>2. <<>> \in Seq(Nat)
      BY EmptySeq
    <3>3. QED
      BY <1>2, <3>1, <3>2, GoesTyped
  <2>3. QED
    BY <1>6, <2>1, <2>2
<1>11. QED
  BY <1>7, <1>8, <1>9, <1>10

LEMMA RowsTyped ==
  ASSUME ImportInv, JobsTyped, NEW j \in Jobs, ImportRow(j) \/ ScanFails(j) \/ NoRows(j)
  PROVE  JobsTyped'
<1> DEFINE J == job[j]
<1>1. J.at = "run"
  BY DEF ImportRow, ScanFails, NoRows, Running
<1>2. CASE ImportRow(j) \/ ScanFails(j)
  <2>1. /\ J.rest # <<>>
        /\ \/ \E key, atts : Inject(j, key, atts, Rest(j))
           \/ Skip(j, Rest(j)) /\ accounts' = accounts
    BY <1>2, Zenon DEF ImportRow, ScanFails, storeVars
  <2>2. Rest(j) \in Seq(Nat)
    BY <2>1, RestTyped DEF JobsTyped, Rest
  <2>3. QED
    BY <1>1, <2>1, <2>2, InjectTyped
<1>3. CASE NoRows(j)
  <2>1. /\ accounts' = accounts
        /\ job' = [job EXCEPT ![j] = [J EXCEPT !.at = "done", !.rest = <<>>]]
    BY <1>3, Zenon DEF NoRows, Set, storeVars
  <2>2. <<>> \in Seq(Nat)
    BY EmptySeq
  <2>3. QED
    BY <1>1, <2>1, <2>2, GoesTyped
<1>4. QED
  BY <1>2, <1>3

LEMMA FilesTyped ==
  ASSUME ImportInv, JobsTyped, NEW j \in Jobs,
         ListDir(j) \/ ListFails(j) \/ ImportFile(j) \/ FileFails(j)
  PROVE  JobsTyped'
<1> DEFINE J == job[j]
           dir == NextDir(J.dir)
<1>1. J.at = "run" /\ J.kind = "maildir" /\ ReadsFiles(J) /\ IsRecord(J)
  BY JobIs DEF ListDir, ListFails, ImportFile, FileFails, Running, Reads, IsRun
<1>2. JobTyped(J) /\ Account \in accounts
  BY <1>1 DEF JobsTyped, Placed
<1>3. dir \in {"cur", "new", "end"}
  <2>1. J.dir \in {Nameless, "cur", "new"}
    BY <1>1 DEF ReadsFiles
  <2>2. QED
    BY <2>1, Zenon DEF NextDir, Nameless
<1>4. CASE ListDir(j)
  <2> DEFINE found == {f \in Files : maildir[f] = dir}
             at == IF dir = "end" THEN "done" ELSE "run"
  <2>1. job' = [job EXCEPT ![j] = [J EXCEPT !.at = at, !.dir = dir, !.rest = SetToSeq(found)]]
    BY <1>4, Zenon DEF ListDir
  <2>2. accounts' = accounts
    BY <1>4 DEF ListDir, storeVars
  <2>3. SetToSeq(found) \in Seq(Nat)
    <3>1. found \in SUBSET Files /\ IsFiniteSet(Files) /\ Files \subseteq Nat
      BY Zenon, ImporterAssumption
    <3>2. IsFiniteSet(found) /\ found \subseteq Nat
      BY <3>1, FS_Subset
    <3> HIDE DEF found
    <3>3. SetToSeq(found) \in Seq(found)
      BY <3>2, SetToSeqIs
    <3>4. QED
      BY <3>2, <3>3, SeqMonotonic
  <2> HIDE DEF found, at, dir
  <2>4. PICK K : K = [J EXCEPT !.at = at, !.dir = dir, !.rest = SetToSeq(found)]
    OBVIOUS
  <2>5. job' = [job EXCEPT ![j] = K]
    BY <2>1, <2>4, Zenon
  <2>6. K.rest = SetToSeq(found) /\ K.buf = J.buf /\ K.dir = dir
    BY <1>1, <2>4 DEF IsRecord
  <2>7. JobTyped(K)
    BY <1>2, <1>3, <2>3, <2>6 DEF JobTyped
  <2>8. QED
    BY <1>2, <2>2, <2>5, <2>7, OneJobTyped
<1>5. CASE ListFails(j)
  <2>1. job' = [job EXCEPT ![j].dir = NextDir(@)] /\ accounts' = accounts
    BY <1>5 DEF ListFails
  <2>2. job' = [job EXCEPT ![j] = [J EXCEPT !.dir = dir]]
    BY <2>1 DEF ImportInv
  <2> HIDE DEF dir
  <2>3. PICK K : K = [J EXCEPT !.dir = dir]
    OBVIOUS
  <2>4. job' = [job EXCEPT ![j] = K]
    BY <2>2, <2>3, Zenon
  <2>5. K.rest = J.rest /\ K.buf = J.buf /\ K.dir = dir
    BY <1>1, <2>3 DEF IsRecord
  <2>6. JobTyped(K)
    BY <1>2, <1>3, <2>5 DEF JobTyped
  <2>7. QED
    BY <1>2, <2>1, <2>4, <2>6, OneJobTyped
<1>6. CASE ImportFile(j) \/ FileFails(j)
  <2>1. /\ J.rest # <<>>
        /\ \/ \E key, atts : Inject(j, key, atts, Rest(j))
           \/ Skip(j, Rest(j)) /\ accounts' = accounts
    BY <1>6, Zenon DEF ImportFile, FileFails
  <2>2. Rest(j) \in Seq(Nat)
    BY <1>2, <2>1, RestTyped DEF Rest
  <2>3. QED
    BY <1>1, <2>1, <2>2, InjectTyped
<1>7. QED
  BY <1>4, <1>5, <1>6

LEMMA JobsStayTyped == ASSUME JobsTyped, job' = job, accounts' = accounts PROVE JobsTyped'
BY DEF JobsTyped, JobTyped, Placed

LEMMA JobsTypedPreserved == ASSUME ImportInv, JobsTyped, [Next]_importVars PROVE JobsTyped'
<1>1. ASSUME NEW j \in Jobs, JobStep(j) PROVE JobsTyped'
  <2>1. CASE Start(j) \/ AccountExists(j) \/ CreateLegacyAccount(j)
    BY <2>1, StartTyped, AccountTyped
  <2>2. CASE EnsureFails(j) \/ Unsupported(j) \/ InputFails(j) \/ Kill(j)
    BY <2>2, EndsTyped
  <2>3. CASE PassOver(j) \/ ImportNext(j) \/ Saved(j)
    BY <2>3, PathsTyped, SavedTyped
  <2>4. CASE SkipEnvelope(j) \/ FlushAtEnvelope(j) \/ AddLine(j) \/ FlushAtEOF(j)
    BY <2>4, MboxTyped
  <2>5. CASE ImportRow(j) \/ ScanFails(j) \/ NoRows(j)
    BY <2>5, RowsTyped
  <2>6. CASE ListDir(j) \/ ListFails(j) \/ ImportFile(j) \/ FileFails(j)
    BY <2>6, FilesTyped
  <2>7. QED
    BY <1>1, <2>1, <2>2, <2>3, <2>4, <2>5, <2>6 DEF JobStep
<1>2. ASSUME NEW j \in Jobs, SaveStep(j), UNCHANGED <<maildir, job>> PROVE JobsTyped'
  <2>1. accounts' = accounts
    BY <1>2 DEF SaveStep, InsertMessage, Commit, SaveFails, InsertAttachment
  <2>2. QED
    BY <1>2, <2>1, JobsStayTyped
<1>3. ASSUME NEW r \in Readers, ReadStep(r), UNCHANGED <<maildir, job>> PROVE JobsTyped'
  <2>1. accounts' = accounts
    BY <1>3 DEF ReadStep, ReadRow, ReadAttachments, QueryFails, GetReturns
  <2>2. QED
    BY <1>3, <2>1, JobsStayTyped
<1>4. ASSUME NEW f \in Files, MoveToCur(f) PROVE JobsTyped'
  BY <1>4, JobsStayTyped DEF MoveToCur, storeVars
<1>5. CASE UNCHANGED importVars
  BY <1>5, JobsStayTyped DEF importVars, storeVars
<1>6. QED
  BY <1>1, <1>2, <1>3, <1>4, <1>5 DEF Next

\* The write lock goes to the job whose transaction is open.
LEMMA OneCallTyped ==
  ASSUME ImportInv, StoreTyped, NEW j \in Jobs, NEW C, call' = [call EXCEPT ![j] = C],
         C.at \in {"idle", "begun", "open", "saved", "failed"}, C.done \subseteq Attachments,
         writer' \in Jobs \cup {None}, C.at = "open" <=> writer' = j,
         \A i \in Jobs \ {j} : writer' = i <=> writer = i,
         mail' = mail, stored' = stored, got' = got,
         accounts' = accounts, storeFaults' \in 0..MaxStoreFaults
  PROVE  StoreTyped'
<1>1. call'[j] = C /\ \A i \in Jobs \ {j} : call'[i] = call[i]
  BY DEF ImportInv
<1>2. \A i \in Jobs : /\ call'[i].at \in {"idle", "begun", "open", "saved", "failed"}
                      /\ call'[i].at = "open" <=> writer' = i
                      /\ call'[i].done \subseteq Attachments
  BY <1>1 DEF StoreTyped, StoreTypeOK
<1>3. /\ accounts' \subseteq {Account}
      /\ mail' # <<>> => Account \in accounts'
      /\ DOMAIN stored' = DOMAIN mail'
      /\ \A i \in DOMAIN stored' : stored'[i] \subseteq Attachments
      /\ \A r \in Readers : got'[r].id \in {0} \cup DOMAIN mail'
  BY DEF StoreTyped, StoreTypeOK
<1>4. QED
  BY <1>2, <1>3 DEF StoreTyped, StoreTypeOK

\* Only the accounts and the failures change.
LEMMA FaultTyped ==
  ASSUME StoreTyped, UNCHANGED <<mail, stored, writer, call, got>>,
         accounts \subseteq accounts', accounts' \subseteq {Account},
         storeFaults' \in 0..MaxStoreFaults
  PROVE  StoreTyped'
BY DEF StoreTyped, StoreTypeOK

LEMMA FaultIs ==
  ASSUME StoreTyped, Fault \/ UNCHANGED storeFaults PROVE storeFaults' \in 0..MaxStoreFaults
BY StoreAssumption DEF StoreTyped, StoreTypeOK, Fault

\* A job that has no open transaction does not hold the write lock.
LEMMA StepsWithACall ==
  ASSUME ImportInv, StoreTyped, NEW j \in Jobs,
         \/ Saved(j) \/ Kill(j)
         \/ \E key, atts, rest : job[j].at = "run" /\ Inject(j, key, atts, rest)
  PROVE  StoreTyped'
<1>1. /\ call[j].at \in {"idle", "begun", "open", "saved", "failed"}
      /\ call[j].at = "open" <=> writer = j
      /\ writer \in Jobs \cup {None} /\ None \notin Jobs
      /\ job[j].at # "saving" => call[j].at = "idle"
  BY JobIs, StoreAssumption DEF StoreTyped, StoreTypeOK
<1>2. NoCall.at = "idle" /\ NoCall.done = {}
  BY DEF NoCall
<1>3. CASE Saved(j)
  <2>1. /\ call' = [call EXCEPT ![j] = NoCall] /\ writer' = writer /\ writer # j
        /\ UNCHANGED <<accounts, mail, stored, got, storeFaults>>
    BY <1>1, <1>3 DEF Saved
  <2>2. storeFaults' \in 0..MaxStoreFaults
    BY <2>1, FaultIs
  <2>3. QED
    BY <1>1, <1>2, <2>1, <2>2, OneCallTyped
<1>4. CASE Kill(j)
  <2>1. /\ call' = [call EXCEPT ![j] = NoCall] /\ writer' = IF writer = j THEN None ELSE writer
        /\ UNCHANGED <<accounts, mail, stored, got>> /\ Fault
    BY <1>4, Zenon DEF Kill, Release
  <2>2. storeFaults' \in 0..MaxStoreFaults
    BY <2>1, FaultIs
  <2>3. writer' \in Jobs \cup {None} /\ writer' # j /\ \A i \in Jobs \ {j} : writer' = i <=> writer = i
    BY <1>1, <2>1
  <2>4. QED
    BY <1>2, <2>1, <2>2, <2>3, OneCallTyped
<1>5. CASE \E key, atts, rest : job[j].at = "run" /\ Inject(j, key, atts, rest)
  <2>1. PICK m : /\ call' = [call EXCEPT ![j] = [at |-> "begun", msg |-> m, done |-> {}]]
                 /\ job[j].at = "run" /\ UNCHANGED <<accounts, mail, stored, writer, got, storeFaults>>
    BY <1>5, Zenon DEF Inject, SaveMessage
  <2>2. PICK D : D = [at |-> "begun", msg |-> m, done |-> {}]
    OBVIOUS
  <2>3. call' = [call EXCEPT ![j] = D]
    BY <2>1, <2>2, Zenon
  <2>4. D.at = "begun" /\ D.done = {}
    BY <2>2
  <2>5. storeFaults' \in 0..MaxStoreFaults
    BY <2>1, FaultIs
  <2>6. writer' \in Jobs \cup {None} /\ writer' # j /\ writer' = writer
    BY <1>1, <2>1
  <2>7. QED
    BY <2>1, <2>3, <2>4, <2>5, <2>6, OneCallTyped
<1>6. QED
  BY <1>3, <1>4, <1>5

\* The other steps of a job.
LEMMA JobStoreTyped ==
  ASSUME ImportInv, StoreTyped, NEW j \in Jobs, JobStep(j) PROVE StoreTyped'
<1>1. ASSUME \/ UNCHANGED storeVars
             \/ UNCHANGED <<accounts, mail, stored, writer, call, got>> /\ (Fault \/ UNCHANGED storeFaults)
      PROVE  StoreTyped'
  <2>1. UNCHANGED <<accounts, mail, stored, writer, call, got>> /\ (Fault \/ UNCHANGED storeFaults)
    BY <1>1 DEF storeVars
  <2>2. storeFaults' \in 0..MaxStoreFaults
    BY <2>1, FaultIs
  <2>3. accounts' \subseteq {Account}
    BY <2>1 DEF StoreTyped, StoreTypeOK
  <2>4. QED
    BY <2>1, <2>2, <2>3, FaultTyped
<1>2. CASE Start(j) \/ AccountExists(j) \/ Unsupported(j) \/ PassOver(j) \/ ImportNext(j)
  BY <1>1, <1>2, Zenon DEF Start, AccountExists, Unsupported, PassOver, ImportNext
<1>3. CASE SkipEnvelope(j) \/ AddLine(j) \/ ScanFails(j) \/ NoRows(j) \/ ListDir(j)
  BY <1>1, <1>3, Zenon DEF SkipEnvelope, AddLine, ScanFails, NoRows, ListDir
<1>4. CASE EnsureFails(j) \/ InputFails(j) \/ ListFails(j) \/ FileFails(j)
  <2>1. /\ UNCHANGED <<accounts, mail, stored, writer, call, got>>
        /\ Fault \/ UNCHANGED storeFaults
    BY <1>4 DEF EnsureFails, InputFails, ListFails, FileFails
  <2>2. QED
    BY <1>1, <2>1
<1>5. CASE CreateLegacyAccount(j)
  <2>1. /\ UNCHANGED <<mail, stored, writer, call, got, storeFaults>>
        /\ accounts' = accounts \cup {Account}
    BY <1>5 DEF CreateLegacyAccount
  <2>2. accounts' \subseteq {Account} /\ storeFaults' \in 0..MaxStoreFaults
    BY <2>1, FaultIs DEF StoreTyped, StoreTypeOK
  <2>3. QED
    BY <2>1, <2>2, FaultTyped
<1>6. CASE Saved(j) \/ Kill(j)
  BY <1>6, StepsWithACall
<1>7. CASE FlushAtEnvelope(j) \/ FlushAtEOF(j) \/ ImportRow(j) \/ ImportFile(j)
  <2>1. \/ UNCHANGED storeVars
        \/ \E key, atts, rest : job[j].at = "run" /\ Inject(j, key, atts, rest)
    BY <1>7, Zenon DEF FlushAtEnvelope, FlushAtEOF, InjectMessage, ImportRow, ImportFile, Running
  <2>2. QED
    BY <1>1, <2>1, StepsWithACall
<1>8. QED
  BY <1>2, <1>3, <1>4, <1>5, <1>6, <1>7 DEF JobStep

\* A transaction goes on.  Its attachments are attachments, and it commits only when
\* the account is there.
LEMMA SaveStoreTyped ==
  ASSUME StoreInv, ImportInv, JobsTyped, StoreTyped, NEW j \in Jobs, SaveStep(j)
  PROVE  StoreTyped'
<1> DEFINE C == call[j]
<1>1. /\ C = [at |-> C.at, msg |-> C.msg, done |-> C.done]
      /\ job[j].at # "saving" => C.at = "idle"
  BY JobIs
<1>2. /\ writer \in Jobs \cup {None} /\ None \notin Jobs /\ C.done \subseteq Attachments
      /\ C.at = "open" <=> writer = j
      /\ accounts' = accounts /\ accounts \subseteq {Account}
  BY StoreAssumption DEF StoreTyped, StoreTypeOK, SaveStep, InsertMessage, Commit, SaveFails, InsertAttachment
<1>3. ASSUME NEW at, call' = [call EXCEPT ![j].at = at]
      PROVE  \E D : call' = [call EXCEPT ![j] = D] /\ D.at = at /\ D.done = C.done
  <2>1. PICK D : D = [C EXCEPT !.at = at]
    OBVIOUS
  <2>2. D.at = at /\ D.done = C.done
    BY <1>1, <2>1
  <2>3. call' = [call EXCEPT ![j] = D]
    BY <1>3, <2>1 DEF ImportInv
  <2>4. QED
    BY <2>2, <2>3
<1>4. CASE InsertMessage(j)
  <2>1. /\ call' = [call EXCEPT ![j].at = "open"] /\ writer = None /\ writer' = j
        /\ UNCHANGED <<accounts, mail, stored, got, storeFaults>>
    BY <1>4 DEF InsertMessage
  <2>2. PICK D : call' = [call EXCEPT ![j] = D] /\ D.at = "open" /\ D.done = C.done
    BY <1>3, <2>1
  <2>3. storeFaults' \in 0..MaxStoreFaults
    BY <2>1, FaultIs
  <2> HIDE DEF C
  <2>4. QED
    BY <1>2, <2>1, <2>2, <2>3, OneCallTyped
<1>5. CASE SaveFails(j)
  <2>1. /\ call' = [call EXCEPT ![j].at = "failed"] /\ writer' = IF writer = j THEN None ELSE writer
        /\ UNCHANGED <<accounts, mail, stored, got>> /\ Fault
    BY <1>5 DEF SaveFails, Release
  <2>2. PICK D : call' = [call EXCEPT ![j] = D] /\ D.at = "failed" /\ D.done = C.done
    BY <1>3, <2>1
  <2>3. storeFaults' \in 0..MaxStoreFaults
    BY <2>1, FaultIs
  <2>4. writer' \in Jobs \cup {None} /\ writer' # j /\ \A i \in Jobs \ {j} : writer' = i <=> writer = i
    BY <1>2, <2>1
  <2> HIDE DEF C
  <2>5. QED
    BY <1>2, <2>1, <2>2, <2>3, <2>4, OneCallTyped
<1>6. ASSUME NEW a \in Attachments, InsertAttachment(j, a) PROVE StoreTyped'
  <2>1. /\ call' = [call EXCEPT ![j].done = @ \cup {a}] /\ C.at = "open"
        /\ UNCHANGED <<accounts, mail, stored, writer, got, storeFaults>>
    BY <1>6 DEF InsertAttachment
  <2>2. PICK D : D = [C EXCEPT !.done = C.done \cup {a}]
    OBVIOUS
  <2>3. D.at = C.at /\ D.done = C.done \cup {a}
    BY <1>1, <2>2
  <2>4. call' = [call EXCEPT ![j] = D]
    BY <2>1, <2>2 DEF ImportInv
  <2>5. storeFaults' \in 0..MaxStoreFaults
    BY <2>1, FaultIs
  <2> HIDE DEF C
  <2>6. QED
    BY <1>2, <2>1, <2>3, <2>4, <2>5, OneCallTyped
<1>7. CASE Commit(j)
  <2>1. /\ C.at = "open" /\ mail' = Append(mail, C.msg) /\ stored' = Append(stored, C.done)
        /\ call' = [call EXCEPT ![j].at = "saved"] /\ writer' = None
        /\ UNCHANGED <<accounts, got, storeFaults>>
    BY <1>7 DEF Commit
  <2>2. Account \in accounts
    BY <1>1, <2>1 DEF JobsTyped, Placed
  <2>3. /\ Len(mail) \in Nat /\ DOMAIN mail = 1..Len(mail) /\ DOMAIN mail' = 1..(Len(mail) + 1)
        /\ DOMAIN stored = 1..Len(mail) /\ DOMAIN stored' = 1..(Len(mail) + 1)
        /\ \A i \in DOMAIN stored : stored'[i] = stored[i]
        /\ stored'[Len(mail) + 1] = C.done
    BY <2>1, SeqGrows DEF StoreInv
  <2>4. \A i \in DOMAIN stored' : stored'[i] \subseteq Attachments
    BY <1>2, <2>3 DEF StoreTyped, StoreTypeOK
  <2>5. \A r \in Readers : got'[r].id \in {0} \cup DOMAIN mail'
    BY <2>1, <2>3 DEF StoreTyped, StoreTypeOK
  <2>6. PICK D : call' = [call EXCEPT ![j] = D] /\ D.at = "saved" /\ D.done = C.done
    BY <1>3, <2>1
  <2>7. call'[j] = D /\ \A i \in Jobs \ {j} : call'[i] = call[i]
    BY <2>6 DEF ImportInv
  <2>8. ASSUME NEW i \in Jobs
        PROVE  /\ call'[i].at \in {"idle", "begun", "open", "saved", "failed"}
               /\ call'[i].at = "open" <=> writer' = i
               /\ call'[i].done \subseteq Attachments
    <3>1. /\ call[i].at \in {"idle", "begun", "open", "saved", "failed"}
          /\ call[i].at = "open" <=> writer = i
          /\ call[i].done \subseteq Attachments
      BY DEF StoreTyped, StoreTypeOK
    <3>2. CASE i = j
      BY <1>2, <2>1, <2>6, <2>7, <3>2
    <3>3. CASE i # j
      BY <1>2, <2>1, <2>7, <3>1, <3>3
    <3>4. QED
      BY <3>2, <3>3
  <2>9. storeFaults' \in 0..MaxStoreFaults
    BY <2>1, FaultIs
  <2>10. QED
    BY <1>2, <2>1, <2>2, <2>3, <2>4, <2>5, <2>8, <2>9 DEF StoreTyped, StoreTypeOK
<1>8. QED
  BY <1>4, <1>5, <1>6, <1>7 DEF SaveStep

LEMMA ReadStoreTyped ==
  ASSUME StoreInv, StoreTyped, NEW r \in Readers, ReadStep(r) PROVE StoreTyped'
<1>1. UNCHANGED <<accounts, mail, stored, writer, call>> /\ (Fault \/ UNCHANGED storeFaults)
  BY DEF ReadStep, ReadRow, ReadAttachments, QueryFails, GetReturns
<1>2. \A q \in Readers : got'[q].id \in {0} \cup DOMAIN mail
  <2>1. \A q \in Readers : got[q].id \in {0} \cup DOMAIN mail
    BY DEF StoreTyped, StoreTypeOK
  <2>2. got = [q \in Readers |-> got[q]] /\ got[r] = [id |-> got[r].id, done |-> got[r].done, atts |-> got[r].atts,
              missed |-> got[r].missed]
    BY DEF StoreInv, WholeRead
  <2>3. CASE \E i \in DOMAIN mail : ReadRow(r, i)
    BY <2>1, <2>2, <2>3 DEF ReadRow
  <2>4. CASE ReadAttachments(r)
    BY <2>1, <2>2, <2>4 DEF ReadAttachments
  <2>5. CASE QueryFails(r) \/ GetReturns(r)
    BY <2>1, <2>2, <2>5 DEF QueryFails, GetReturns, NotRead
  <2>6. QED
    BY <2>3, <2>4, <2>5 DEF ReadStep
<1>3. storeFaults' \in 0..MaxStoreFaults
  BY <1>1, FaultIs DEF StoreTyped, StoreTypeOK
<1>4. QED
  BY <1>1, <1>2, <1>3 DEF StoreTyped, StoreTypeOK

LEMMA StoreTypedPreserved ==
  ASSUME StoreInv, ImportInv, JobsTyped, StoreTyped, [Next]_importVars PROVE StoreTyped'
<1>1. ASSUME UNCHANGED storeVars PROVE StoreTyped'
  BY <1>1 DEF StoreTyped, StoreTypeOK, storeVars
<1>2. QED
  BY <1>1, JobStoreTyped, SaveStoreTyped, ReadStoreTyped, Zenon DEF Next, MoveToCur, importVars

LEMMA TypedInitially == Init => JobsTyped /\ StoreTyped
<1> SUFFICES ASSUME Init PROVE JobsTyped /\ StoreTyped
  OBVIOUS
<1>1. /\ accounts \in SUBSET {Account} /\ mail = <<>> /\ stored = <<>> /\ writer = None
      /\ call = [j \in Jobs |-> NoCall] /\ got = [r \in Readers |-> NotRead] /\ storeFaults = 0
      /\ job = [j \in Jobs |-> NotStarted]
  BY DEF Init, StoreInit
<1>2. ASSUME NEW j \in Jobs PROVE JobTyped(job[j]) /\ ~Placed(job[j])
  BY <1>1, NotStartedIs, EmptySeq DEF JobTyped, Placed
<1>3. NoCall.at = "idle" /\ NoCall.done = {} /\ NotRead.id = 0
  BY DEF NoCall, NotRead
<1>4. 0 \in 0..MaxStoreFaults
  BY StoreAssumption
<1>5. StoreTyped
  BY <1>1, <1>3, <1>4, StoreAssumption DEF StoreTyped, StoreTypeOK
<1>6. QED
  BY <1>2, <1>5 DEF JobsTyped

LEMMA TypesOfImporters == ImportInv /\ JobsTyped /\ StoreTyped => TypeOK
<1> SUFFICES ASSUME ImportInv, JobsTyped, StoreTyped PROVE TypeOK
  OBVIOUS
<1>1. StoreTypeOK /\ maildir \in [Files -> {"cur", "new"}]
  BY DEF StoreTyped, ImportInv
<1>2. ASSUME NEW j \in Jobs
      PROVE  /\ job[j].at \in {"idle", "account", "create", "run", "saving", "done", "failed", "dead"}
             /\ job[j].kind \in {"", "scan", "mbox", "database", "maildir", "unknown", "directory"}
             /\ job[j].dir \in {"", "cur", "new", "end"}
             /\ {job[j].rest, job[j].buf} \subseteq Seq(Nat)
             /\ {job[j].oks, job[j].errs} \subseteq Nat
  <2>1. job[j].at \in Ats /\ job[j].kind \in Boxes \cup {Nameless, "scan"}
    BY JobIs DEF IsRun
  <2>2. job[j].kind \in {Nameless, "scan", "mbox", "database", "maildir", "unknown", "directory"}
    BY <2>1 DEF Boxes
  <2>3. job[j].kind \in {"", "scan", "mbox", "database", "maildir", "unknown", "directory"}
    BY <2>2, Zenon DEF Nameless
  <2>4. JobTyped(job[j])
    BY DEF JobsTyped
  <2>5. job[j].dir \in {"", "cur", "new", "end"}
    BY <2>4, Zenon DEF JobTyped, Nameless
  <2>6. {job[j].rest, job[j].buf} \subseteq Seq(Nat)
    BY <2>4 DEF JobTyped
  <2>7. {job[j].oks, job[j].errs} \subseteq Nat
    BY JobIs
  <2>8. QED
    BY <2>1, <2>3, <2>5, <2>6, <2>7, Zenon DEF Ats
<1>3. QED
  BY <1>1, <1>2, Zenon DEF TypeOK

------------------------------------------------------------------------------
(***************************************************************************)
(* Group threads: the bytes are a field, GF(2^8).                          *)
(***************************************************************************)
\* Bytes add up to bytes.
LEMMA XorIsAByte == ASSUME NEW x \in Byte, NEW y \in Byte PROVE Xor(x, y) \in Byte
BY DEF Xor, Byte

\* A byte times 2 is a byte.
LEMMA TimesTwoIsAByte == ASSUME NEW x \in Byte PROVE TimesTwo(x) \in Byte
<1> DEFINE shifted == {k + 1 : k \in x}
<1>1. shifted \subseteq 1..8
  <2>1. x \subseteq 0..7
    BY Zenon DEF Byte
  <2>2. \A k \in x : k + 1 \in 1..8
    BY <2>1
  <2>3. QED
    BY <2>2
<1>2. TimesTwo(x) = IF 8 \in shifted THEN Xor(shifted \ {8}, {0, 1, 3, 4}) ELSE shifted
  BY DEF TimesTwo
<1> HIDE DEF shifted
<1>3. shifted \ {8} \in Byte
  BY <1>1 DEF Byte
<1>4. {0, 1, 3, 4} \in Byte
  BY DEF Byte
<1>5. 8 \notin shifted => shifted \in Byte
  BY <1>1 DEF Byte
<1>6. QED
  BY <1>2, <1>3, <1>4, <1>5, XorIsAByte

\* The rounds of GFMul.
IsRounds(f, x, y) ==
  f = [k \in 0..8 |-> IF k = 0 THEN [p |-> Zero, x |-> x]
                      ELSE [p |-> IF k - 1 \in y THEN Xor(f[k - 1].p, f[k - 1].x) ELSE f[k - 1].p,
                            x |-> TimesTwo(f[k - 1].x)]]

Pairs == [p : Byte, x : Byte]

\* Addition: a group in which every element is its own opposite.
LEMMA XorLaws ==
  ASSUME NEW x, NEW y, NEW z
  PROVE  /\ Xor(x, y) = Xor(y, x) /\ Xor(Xor(x, y), z) = Xor(x, Xor(y, z))
         /\ Xor(x, Zero) = x /\ Xor(Zero, x) = x /\ Xor(x, x) = Zero
BY DEF Xor, Zero

\* A byte is the places of its 1 bits.
LEMMA BytesEqual ==
  ASSUME NEW x \in Byte, NEW y \in Byte, \A b \in 0..7 : b \in x <=> b \in y
  PROVE  x = y
BY DEF Byte

\* The bits of a byte times 2.
LEMMA TimesTwoBits ==
  ASSUME NEW x \in Byte, NEW b \in 0..7
  PROVE  b \in TimesTwo(x) <=> ((b - 1 \in x) <=> ~(7 \in x /\ b \in {0, 1, 3, 4}))
<1> DEFINE shifted == {k + 1 : k \in x}
<1>1. x \subseteq 0..7
  BY Zenon DEF Byte
<1>2. 8 \in shifted <=> 7 \in x
  BY <1>1
<1>3. \A c \in 0..7 : c \in shifted <=> c - 1 \in x
  BY <1>1
<1>4. TimesTwo(x) = IF 8 \in shifted THEN Xor(shifted \ {8}, {0, 1, 3, 4}) ELSE shifted
  BY DEF TimesTwo
<1> HIDE DEF shifted
<1>5. QED
  BY <1>2, <1>3, <1>4 DEF Xor

\* A set of numbers that goes on goes on to the end.
LEMMA GoesOn ==
  ASSUME NEW N \in Nat, NEW S, 0 \in S, \A n \in 1..N : n - 1 \in S => n \in S
  PROVE  \A n \in 0..N : n \in S
<1> DEFINE f == [n \in 0..N |-> n]
<1>1. f[0] \in S /\ \A n \in 1..N : f[n - 1] \in S => f[n] \in S
  OBVIOUS
<1> HIDE DEF f
<1>2. \A n \in 0..N : f[n] \in S
  BY <1>1, StaysIn
<1>3. QED
  BY <1>2 DEF f

\* TimesTwo takes sums to sums.
LEMMA TimesTwoAdds ==
  ASSUME NEW x \in Byte, NEW y \in Byte
  PROVE  TimesTwo(Xor(x, y)) = Xor(TimesTwo(x), TimesTwo(y))
<1>1. Xor(x, y) \in Byte /\ TimesTwo(x) \in Byte /\ TimesTwo(y) \in Byte
  BY XorIsAByte, TimesTwoIsAByte
<1>2. TimesTwo(Xor(x, y)) \in Byte /\ Xor(TimesTwo(x), TimesTwo(y)) \in Byte
  BY <1>1, XorIsAByte, TimesTwoIsAByte
<1>3. ASSUME NEW b \in 0..7
      PROVE  b \in TimesTwo(Xor(x, y)) <=> b \in Xor(TimesTwo(x), TimesTwo(y))
  <2>1. b \in TimesTwo(Xor(x, y)) <=> ((b - 1 \in Xor(x, y)) <=> ~(7 \in Xor(x, y) /\ b \in {0, 1, 3, 4}))
    BY <1>1, TimesTwoBits
  <2>2. /\ b \in TimesTwo(x) <=> ((b - 1 \in x) <=> ~(7 \in x /\ b \in {0, 1, 3, 4}))
        /\ b \in TimesTwo(y) <=> ((b - 1 \in y) <=> ~(7 \in y /\ b \in {0, 1, 3, 4}))
    BY TimesTwoBits
  <2>3. \A c : /\ c \in Xor(x, y) <=> ~(c \in x <=> c \in y)
               /\ c \in Xor(TimesTwo(x), TimesTwo(y)) <=> ~(c \in TimesTwo(x) <=> c \in TimesTwo(y))
    BY DEF Xor
  <2>4. QED
    BY <2>1, <2>2, <2>3
<1>4. QED
  BY <1>2, <1>3, BytesEqual

\* The rounds of a product.
RoundsOf(f, x, y) ==
  /\ f[0].p = Zero /\ f[0].x = x
  /\ \A k \in 0..8 : f[k].p \in Byte /\ f[k].x \in Byte
  /\ \A k \in 1..8 : /\ f[k].x = TimesTwo(f[k - 1].x)
                     /\ f[k].p = IF k - 1 \in y THEN Xor(f[k - 1].p, f[k - 1].x) ELSE f[k - 1].p

\* What the rounds of a product are.
LEMMA ProductIs ==
  ASSUME NEW x \in Byte, NEW y
  PROVE  \E f : RoundsOf(f, x, y) /\ GFMul(x, y) = f[8].p
<1> DEFINE b == [p |-> Zero, x |-> x]
           onward(r, k) == [p |-> IF k - 1 \in y THEN Xor(r.p, r.x) ELSE r.p, x |-> TimesTwo(r.x)]
           g == [k \in 1..8 |-> [r \in Pairs |-> onward(r, k)]]
<1>1. b \in Pairs
  BY DEF Pairs, Zero, Byte
<1>2. ASSUME NEW r \in Pairs, NEW k PROVE onward(r, k) \in Pairs
  <2>1. r.p \in Byte /\ r.x \in Byte
    BY DEF Pairs
  <2>2. Xor(r.p, r.x) \in Byte /\ TimesTwo(r.x) \in Byte
    BY <2>1, XorIsAByte, TimesTwoIsAByte
  <2>3. QED
    BY <2>1, <2>2 DEF Pairs
<1>3. \E f : IsRounds(f, x, y)
  <2>1. StepsOf(g, 8, Pairs) /\ \A k \in 1..8 : \A r \in Pairs : g[k][r] = onward(r, k)
    <3> HIDE DEF onward
    <3>1. g \in [1..8 -> [Pairs -> Pairs]] /\ \A k \in 1..8 : \A r \in Pairs : g[k][r] = onward(r, k)
      BY <1>2
    <3> HIDE DEF g
    <3>2. QED
      BY <3>1, Zenon DEF StepsOf
  <2> HIDE DEF b, g
  <2>2. PICK f : RunsBy(f, 8, Pairs, b, g)
    <3> DEFINE n == 8
    <3>1. n \in Nat /\ StepsOf(g, n, Pairs)
      BY <2>1
    <3> HIDE DEF n
    <3>2. \E f : RunsBy(f, n, Pairs, b, g)
      BY <1>1, <3>1, RecursionExists, Zenon
    <3>3. QED
      BY <3>2, Zenon DEF n
  <2>3. f \in [0..8 -> Pairs] /\ f[0] = b /\ \A k \in 1..8 : f[k] = g[k][f[k - 1]]
    BY <2>2, Zenon DEF RunsBy
  <2>4. ASSUME NEW k \in 1..8 PROVE f[k] = onward(f[k - 1], k)
    <3>1. k - 1 \in 0..8
      OBVIOUS
    <3>2. f[k - 1] \in Pairs
      BY <2>3, <3>1, Zenon
    <3> HIDE DEF onward
    <3>3. QED
      BY <2>1, <2>3, <3>2, Zenon
  <2>5. \A k \in 0..8 : f[k] = IF k = 0 THEN b ELSE onward(f[k - 1], k)
    <3> HIDE DEF onward
    <3>1. QED
      BY <2>3, <2>4
  <2>6. f = [k \in 0..8 |-> IF k = 0 THEN b ELSE onward(f[k - 1], k)]
    <3> HIDE DEF onward
    <3>1. f = [k \in 0..8 |-> f[k]]
      BY <2>3, Zenon
    <3>2. QED
      BY <2>5, <3>1
  <2>7. IsRounds(f, x, y)
    BY <2>6, Zenon DEF IsRounds, b
  <2>8. QED
    BY <2>7
<1> DEFINE f == CHOOSE f : IsRounds(f, x, y)
<1>4. GFMul(x, y) = f[8].p
  BY DEF GFMul, IsRounds
<1>5. IsRounds(f, x, y)
  BY <1>3
<1> HIDE DEF f, g
<1>6. /\ f[0] = b
      /\ \A k \in 1..8 : f[k] = onward(f[k - 1], k)
  BY <1>5 DEF IsRounds
<1> HIDE DEF b, onward
<1>7. \A k \in 0..8 : f[k] \in Pairs
  <2> DEFINE n == 8
  <2>1. n \in Nat /\ f[0] \in Pairs /\ \A k \in 1..n : f[k - 1] \in Pairs => f[k] \in Pairs
    BY <1>1, <1>2, <1>6
  <2> HIDE DEF n
  <2>2. \A k \in 0..n : f[k] \in Pairs
    BY <2>1, StaysIn
  <2>3. QED
    BY <2>2, Zenon DEF n
<1>8. f[0].p = Zero /\ f[0].x = x
  BY <1>6 DEF b
<1>9. ASSUME NEW k \in 1..8
      PROVE  /\ f[k].x = TimesTwo(f[k - 1].x)
             /\ f[k].p = IF k - 1 \in y THEN Xor(f[k - 1].p, f[k - 1].x) ELSE f[k - 1].p
  <2> DEFINE r == f[k - 1]
  <2>1. f[k] = onward(r, k)
    BY <1>6
  <2> HIDE DEF r
  <2>2. f[k].x = TimesTwo(r.x) /\ f[k].p = IF k - 1 \in y THEN Xor(r.p, r.x) ELSE r.p
    BY <2>1 DEF onward
  <2>3. QED
    BY <2>2 DEF r
<1>10. \A k \in 0..8 : f[k].p \in Byte /\ f[k].x \in Byte
  BY <1>7 DEF Pairs
<1>11. RoundsOf(f, x, y)
  BY <1>8, <1>9, <1>10, Zenon DEF RoundsOf
<1>12. QED
  BY <1>4, <1>11

\* A product is a byte when the first factor is one: the second one only says which
\* multiples of the first are added.
LEMMA ProductIsAByte == ASSUME NEW x \in Byte, NEW y PROVE GFMul(x, y) \in Byte
<1>1. PICK f : RoundsOf(f, x, y) /\ GFMul(x, y) = f[8].p
  BY ProductIs
<1>2. f[8].p \in Byte
  BY <1>1 DEF RoundsOf
<1>3. QED
  BY <1>1, <1>2

------------------------------------------------------------------------------
(***************************************************************************)
(* GF(2^8) is a field.  Products are sums of multiples, so they distribute *)
(* and take TimesTwo in and out; One and Zero make every byte with sums    *)
(* and TimesTwo, so what these keep is true of every byte.                 *)
(***************************************************************************)
\* Products distribute over sums of the first factor,
LEMMA ProductAddsLeft ==
  ASSUME NEW x \in Byte, NEW z \in Byte, NEW y
  PROVE  GFMul(Xor(x, z), y) = Xor(GFMul(x, y), GFMul(z, y))
<1>1. PICK f : RoundsOf(f, x, y) /\ GFMul(x, y) = f[8].p
  BY ProductIs
<1>2. PICK g : RoundsOf(g, z, y) /\ GFMul(z, y) = g[8].p
  BY ProductIs
<1>3. PICK h : RoundsOf(h, Xor(x, z), y) /\ GFMul(Xor(x, z), y) = h[8].p
  BY XorIsAByte, ProductIs
<1> DEFINE S == {k \in 0..8 : h[k].p = Xor(f[k].p, g[k].p) /\ h[k].x = Xor(f[k].x, g[k].x)}
<1>4. 0 \in S
  <2>1. Xor(Zero, Zero) = Zero
    BY XorLaws
  <2>2. QED
    BY <1>1, <1>2, <1>3, <2>1 DEF RoundsOf
<1>5. ASSUME NEW k \in 1..8, k - 1 \in S PROVE k \in S
  <2> DEFINE j == k - 1
  <2>1. k \in 0..8 /\ j \in 0..8
    OBVIOUS
  <2>2. /\ f[j].p \in Byte /\ f[j].x \in Byte /\ g[j].p \in Byte /\ g[j].x \in Byte
        /\ f[k].x = TimesTwo(f[j].x) /\ g[k].x = TimesTwo(g[j].x) /\ h[k].x = TimesTwo(h[j].x)
        /\ f[k].p = IF j \in y THEN Xor(f[j].p, f[j].x) ELSE f[j].p
        /\ g[k].p = IF j \in y THEN Xor(g[j].p, g[j].x) ELSE g[j].p
        /\ h[k].p = IF j \in y THEN Xor(h[j].p, h[j].x) ELSE h[j].p
    BY <1>1, <1>2, <1>3, <2>1 DEF RoundsOf
  <2>3. h[j].p = Xor(f[j].p, g[j].p) /\ h[j].x = Xor(f[j].x, g[j].x)
    BY <1>5
  <2> HIDE DEF j
  <2>4. h[k].x = Xor(f[k].x, g[k].x)
    BY <2>2, <2>3, TimesTwoAdds
  <2>5. h[k].p = Xor(f[k].p, g[k].p)
    <3>1. Xor(Xor(f[j].p, g[j].p), Xor(f[j].x, g[j].x)) = Xor(Xor(f[j].p, f[j].x), Xor(g[j].p, g[j].x))
      BY DEF Xor
    <3>2. QED
      BY <2>2, <2>3, <3>1
  <2>6. QED
    BY <2>1, <2>4, <2>5
<1> HIDE DEF S
<1>6. 8 \in S
  <2> DEFINE n == 8
  <2>1. n \in Nat /\ \A k \in 1..n : k - 1 \in S => k \in S
    BY <1>5
  <2> HIDE DEF n
  <2>2. n \in S
    BY <1>4, <2>1, GoesOn
  <2>3. QED
    BY <2>2 DEF n
<1>7. QED
  BY <1>1, <1>2, <1>3, <1>6 DEF S

\* and of the second.
LEMMA ProductAddsRight ==
  ASSUME NEW x \in Byte, NEW y, NEW z
  PROVE  GFMul(x, Xor(y, z)) = Xor(GFMul(x, y), GFMul(x, z))
<1>1. PICK f : RoundsOf(f, x, y) /\ GFMul(x, y) = f[8].p
  BY ProductIs
<1>2. PICK g : RoundsOf(g, x, z) /\ GFMul(x, z) = g[8].p
  BY ProductIs
<1>3. PICK h : RoundsOf(h, x, Xor(y, z)) /\ GFMul(x, Xor(y, z)) = h[8].p
  BY ProductIs
<1> DEFINE S == {k \in 0..8 : /\ h[k].p = Xor(f[k].p, g[k].p)
                             /\ h[k].x = f[k].x /\ g[k].x = f[k].x}
<1>4. 0 \in S
  <2>1. Xor(Zero, Zero) = Zero
    BY XorLaws
  <2>2. QED
    BY <1>1, <1>2, <1>3, <2>1 DEF RoundsOf
<1>5. ASSUME NEW k \in 1..8, k - 1 \in S PROVE k \in S
  <2> DEFINE j == k - 1
  <2>1. k \in 0..8 /\ j \in 0..8
    OBVIOUS
  <2>2. /\ f[k].x = TimesTwo(f[j].x) /\ g[k].x = TimesTwo(g[j].x) /\ h[k].x = TimesTwo(h[j].x)
        /\ f[k].p = IF j \in y THEN Xor(f[j].p, f[j].x) ELSE f[j].p
        /\ g[k].p = IF j \in z THEN Xor(g[j].p, g[j].x) ELSE g[j].p
        /\ h[k].p = IF j \in Xor(y, z) THEN Xor(h[j].p, h[j].x) ELSE h[j].p
    BY <1>1, <1>2, <1>3, <2>1 DEF RoundsOf
  <2>3. h[j].p = Xor(f[j].p, g[j].p) /\ h[j].x = f[j].x /\ g[j].x = f[j].x
    BY <1>5
  <2> HIDE DEF j
  <2>4. j \in Xor(y, z) <=> ~(j \in y <=> j \in z)
    BY DEF Xor
  <2>5. h[k].p = Xor(f[k].p, g[k].p)
    <3> DEFINE a == f[j].p
               b == g[j].p
               c == f[j].x
    <3>1. /\ Xor(Xor(a, b), c) = Xor(Xor(a, c), b) /\ Xor(Xor(a, b), c) = Xor(a, Xor(b, c))
          /\ Xor(a, b) = Xor(Xor(a, c), Xor(b, c))
      BY DEF Xor
    <3>2. /\ f[k].p = IF j \in y THEN Xor(a, c) ELSE a
          /\ g[k].p = IF j \in z THEN Xor(b, c) ELSE b
          /\ h[k].p = IF j \in Xor(y, z) THEN Xor(Xor(a, b), c) ELSE Xor(a, b)
      BY <2>2, <2>3
    <3> HIDE DEF a, b, c
    <3>3. QED
      BY <2>4, <3>1, <3>2
  <2>6. QED
    BY <2>1, <2>2, <2>3, <2>5
<1> HIDE DEF S
<1>6. 8 \in S
  <2> DEFINE n == 8
  <2>1. n \in Nat /\ \A k \in 1..n : k - 1 \in S => k \in S
    BY <1>5
  <2> HIDE DEF n
  <2>2. n \in S
    BY <1>4, <2>1, GoesOn
  <2>3. QED
    BY <2>2 DEF n
<1>7. QED
  BY <1>1, <1>2, <1>3, <1>6 DEF S

\* TimesTwo can be taken out of the first factor,
LEMMA TimesTwoLeft ==
  ASSUME NEW x \in Byte, NEW y
  PROVE  GFMul(TimesTwo(x), y) = TimesTwo(GFMul(x, y))
<1>1. PICK f : RoundsOf(f, x, y) /\ GFMul(x, y) = f[8].p
  BY ProductIs
<1>2. PICK h : RoundsOf(h, TimesTwo(x), y) /\ GFMul(TimesTwo(x), y) = h[8].p
  BY TimesTwoIsAByte, ProductIs
<1> DEFINE S == {k \in 0..8 : h[k].p = TimesTwo(f[k].p) /\ h[k].x = TimesTwo(f[k].x)}
<1>3. TimesTwo(Zero) = Zero
  BY DEF TimesTwo, Zero
<1>4. 0 \in S
  BY <1>1, <1>2, <1>3 DEF RoundsOf
<1>5. ASSUME NEW k \in 1..8, k - 1 \in S PROVE k \in S
  <2> DEFINE j == k - 1
  <2>1. k \in 0..8 /\ j \in 0..8
    OBVIOUS
  <2>2. /\ f[j].p \in Byte /\ f[j].x \in Byte
        /\ f[k].x = TimesTwo(f[j].x) /\ h[k].x = TimesTwo(h[j].x)
        /\ f[k].p = IF j \in y THEN Xor(f[j].p, f[j].x) ELSE f[j].p
        /\ h[k].p = IF j \in y THEN Xor(h[j].p, h[j].x) ELSE h[j].p
    BY <1>1, <1>2, <2>1 DEF RoundsOf
  <2>3. h[j].p = TimesTwo(f[j].p) /\ h[j].x = TimesTwo(f[j].x)
    BY <1>5
  <2> HIDE DEF j
  <2>4. h[k].p = TimesTwo(f[k].p)
    <3>1. Xor(TimesTwo(f[j].p), TimesTwo(f[j].x)) = TimesTwo(Xor(f[j].p, f[j].x))
      BY <2>2, TimesTwoAdds
    <3>2. QED
      BY <2>2, <2>3, <3>1
  <2>5. QED
    BY <2>1, <2>2, <2>3, <2>4
<1> HIDE DEF S
<1>6. 8 \in S
  <2> DEFINE n == 8
  <2>1. n \in Nat /\ \A k \in 1..n : k - 1 \in S => k \in S
    BY <1>5
  <2> HIDE DEF n
  <2>2. n \in S
    BY <1>4, <2>1, GoesOn
  <2>3. QED
    BY <2>2 DEF n
<1>7. QED
  BY <1>1, <1>2, <1>6 DEF S

\* Products with Zero and One.
LEMMA ProductWithUnits ==
  ASSUME NEW x \in Byte
  PROVE  GFMul(x, Zero) = Zero /\ GFMul(x, One) = x /\ GFMul(Zero, x) = Zero
<1>1. GFMul(x, Zero) = Zero
  <2>1. Xor(Zero, Zero) = Zero
    BY XorLaws
  <2>2. GFMul(x, Zero) = Xor(GFMul(x, Zero), GFMul(x, Zero))
    BY <2>1, ProductAddsRight
  <2>3. QED
    BY <2>2, XorLaws
<1>2. GFMul(Zero, x) = Zero
  <2>1. Xor(Zero, Zero) = Zero /\ Zero \in Byte
    BY XorLaws DEF Zero, Byte
  <2>2. GFMul(Zero, x) = Xor(GFMul(Zero, x), GFMul(Zero, x))
    BY <2>1, ProductAddsLeft
  <2>3. QED
    BY <2>2, XorLaws
<1>3. GFMul(x, One) = x
  <2>1. PICK f : RoundsOf(f, x, One) /\ GFMul(x, One) = f[8].p
    BY ProductIs
  <2> DEFINE S == {k \in 0..8 : k > 0 => f[k].p = x}
  <2>2. 0 \in S
    OBVIOUS
  <2>3. ASSUME NEW k \in 1..8, k - 1 \in S PROVE k \in S
    <3>1. f[k].p = IF k - 1 \in One THEN Xor(f[k - 1].p, f[k - 1].x) ELSE f[k - 1].p
      BY <2>1 DEF RoundsOf
    <3>2. CASE k = 1
      <4>1. f[1].p = Xor(f[0].p, f[0].x)
        BY <3>1, <3>2 DEF One
      <4>2. f[1].p = x
        BY <2>1, <4>1, XorLaws DEF RoundsOf
      <4>3. QED
        BY <3>2, <4>2
    <3>3. CASE k # 1
      <4>1. k - 1 \notin One /\ k - 1 > 0
        BY <3>3 DEF One
      <4>2. QED
        BY <2>3, <3>1, <4>1
    <3>4. QED
      BY <3>2, <3>3
  <2> HIDE DEF S
  <2>4. 8 \in S
    <3> DEFINE n == 8
    <3>1. n \in Nat /\ \A k \in 1..n : k - 1 \in S => k \in S
      BY <2>3
    <3> HIDE DEF n
    <3>2. n \in S
      BY <2>2, <3>1, GoesOn
    <3>3. QED
      BY <3>2 DEF n
  <2>5. QED
    BY <2>1, <2>4 DEF S
<1>4. QED
  BY <1>1, <1>2, <1>3

\* Without its highest bit a byte is only shifted.
LEMMA ShiftRight ==
  ASSUME NEW x \in Byte, NEW y \in Byte, 7 \notin y
  PROVE  GFMul(x, TimesTwo(y)) = TimesTwo(GFMul(x, y))
<1>1. PICK f : RoundsOf(f, x, y) /\ GFMul(x, y) = f[8].p
  BY ProductIs
<1>2. PICK h : RoundsOf(h, x, TimesTwo(y)) /\ GFMul(x, TimesTwo(y)) = h[8].p
  BY ProductIs
<1>3. \A k \in 0..7 : k \in TimesTwo(y) <=> k - 1 \in y
  BY TimesTwoBits
<1>4. -1 \notin y /\ TimesTwo(Zero) = Zero
  BY DEF TimesTwo, Zero, Byte
<1> DEFINE S == {k \in 0..8 : h[k].x = f[k].x /\ (k > 0 => h[k].p = TimesTwo(f[k - 1].p))}
<1>5. 0 \in S
  BY <1>1, <1>2 DEF RoundsOf
<1>6. ASSUME NEW k \in 1..8, k - 1 \in S PROVE k \in S
  <2> DEFINE j == k - 1
             i == k - 2
  <2>1. k \in 0..8 /\ j \in 0..7 /\ j - 1 = i
    OBVIOUS
  <2>2. /\ f[k].x = TimesTwo(f[j].x) /\ h[k].x = TimesTwo(h[j].x) /\ h[j].x = f[j].x
        /\ h[k].p = IF j \in TimesTwo(y) THEN Xor(h[j].p, h[j].x) ELSE h[j].p
    BY <1>1, <1>2, <1>6 DEF RoundsOf
  <2>3. h[k].p = TimesTwo(f[j].p)
    <3>1. CASE k = 1
      <4>1. j = 0 /\ i = -1
        BY <3>1
      <4>2. j \notin TimesTwo(y)
        BY <1>3, <1>4, <2>1, <4>1
      <4>3. h[j].p = Zero /\ f[j].p = Zero
        BY <1>1, <1>2, <4>1 DEF RoundsOf
      <4>4. QED
        BY <1>4, <2>2, <4>2, <4>3
    <3>2. CASE k # 1
      <4>1. j \in 1..8 /\ i \in 0..8 /\ j > 0
        BY <3>2
      <4>2. /\ f[j].x = TimesTwo(f[i].x) /\ f[i].p \in Byte /\ f[i].x \in Byte
            /\ f[j].p = IF i \in y THEN Xor(f[i].p, f[i].x) ELSE f[i].p
        BY <1>1, <2>1, <4>1 DEF RoundsOf
      <4>3. h[j].p = TimesTwo(f[i].p)
        BY <1>6, <2>1, <4>1
      <4>4. j \in TimesTwo(y) <=> i \in y
        BY <1>3, <2>1
      <4> HIDE DEF i, j
      <4>5. TimesTwo(Xor(f[i].p, f[i].x)) = Xor(TimesTwo(f[i].p), TimesTwo(f[i].x))
        BY <4>2, TimesTwoAdds
      <4>6. QED
        BY <2>2, <4>2, <4>3, <4>4, <4>5
    <3>3. QED
      BY <3>1, <3>2
  <2>4. QED
    BY <2>1, <2>2, <2>3
<1> HIDE DEF S
<1>7. 8 \in S
  <2> DEFINE n == 8
  <2>1. n \in Nat /\ \A k \in 1..n : k - 1 \in S => k \in S
    BY <1>6
  <2> HIDE DEF n
  <2>2. n \in S
    BY <1>5, <2>1, GoesOn
  <2>3. QED
    BY <2>2 DEF n
<1>8. h[8].p = TimesTwo(f[7].p)
  BY <1>7 DEF S
<1>9. f[8].p = f[7].p
  <2>1. 8 \in 1..8 /\ 8 - 1 = 7
    OBVIOUS
  <2>2. QED
    BY <1>1, <2>1 DEF RoundsOf
<1>10. QED
  BY <1>1, <1>2, <1>8, <1>9

\* The powers of two.
LEMMA Singles ==
  /\ \A k \in 0..7 : {k} \in Byte
  /\ \A k \in 0..6 : TimesTwo({k}) = {k + 1}
  /\ TimesTwo({7}) = {0, 1, 3, 4}
<1>1. \A k \in 0..7 : {k} \in Byte
  BY DEF Byte
<1>2. ASSUME NEW k \in 0..6 PROVE TimesTwo({k}) = {k + 1}
  BY DEF TimesTwo
<1>3. TimesTwo({7}) = {0, 1, 3, 4}
  <2>1. {k + 1 : k \in {7}} = {8}
    OBVIOUS
  <2>2. Xor({8} \ {8}, {0, 1, 3, 4}) = {0, 1, 3, 4}
    BY DEF Xor
  <2>3. QED
    BY <2>1, <2>2 DEF TimesTwo
<1>4. QED
  BY <1>1, <1>2, <1>3

\* x^8 + x^4 + x^3 + x + 1 is 0 of TimesTwo.
LEMMA EightTimes ==
  ASSUME NEW t0 \in Byte, NEW t1, NEW t2, NEW t3, NEW t4, NEW t5, NEW t6, NEW t7,
         t1 = TimesTwo(t0), t2 = TimesTwo(t1), t3 = TimesTwo(t2), t4 = TimesTwo(t3),
         t5 = TimesTwo(t4), t6 = TimesTwo(t5), t7 = TimesTwo(t6)
  PROVE  TimesTwo(t7) = Xor(Xor(Xor(t0, t1), t3), t4)
<1>1. /\ t1 \in Byte /\ t2 \in Byte /\ t3 \in Byte /\ t4 \in Byte /\ t5 \in Byte
      /\ t6 \in Byte /\ t7 \in Byte /\ TimesTwo(t7) \in Byte
  BY TimesTwoIsAByte
<1>2. Xor(Xor(Xor(t0, t1), t3), t4) \in Byte
  BY <1>1, XorIsAByte
<1> DEFINE Steps(x, y) ==
             /\ 0 \in y <=> 7 \in x
             /\ 1 \in y <=> ~(0 \in x <=> 7 \in x)
             /\ 2 \in y <=> 1 \in x
             /\ 3 \in y <=> ~(2 \in x <=> 7 \in x)
             /\ 4 \in y <=> ~(3 \in x <=> 7 \in x)
             /\ 5 \in y <=> 4 \in x
             /\ 6 \in y <=> 5 \in x
             /\ 7 \in y <=> 6 \in x
<1>3. ASSUME NEW x \in Byte PROVE Steps(x, TimesTwo(x))
  <2>1. -1 \notin x
    BY DEF Byte
  <2>2. \A b \in 0..7 : b \in TimesTwo(x) <=> ((b - 1 \in x) <=> ~(7 \in x /\ b \in {0, 1, 3, 4}))
    BY TimesTwoBits
  <2>3. QED
    BY <2>1, <2>2
<1>4. /\ Steps(t0, t1) /\ Steps(t1, t2) /\ Steps(t2, t3) /\ Steps(t3, t4) /\ Steps(t4, t5)
      /\ Steps(t5, t6) /\ Steps(t6, t7) /\ Steps(t7, TimesTwo(t7))
  <2> HIDE DEF Steps
  <2>1. QED
    BY <1>1, <1>3
<1> DEFINE e == TimesTwo(t7)
           s == Xor(Xor(Xor(t0, t1), t3), t4)
<1>5. \A b : b \in s <=> ~(~(~(b \in t0 <=> b \in t1) <=> b \in t3) <=> b \in t4)
  BY DEF Xor
<1> HIDE DEF e, s
<1>6. /\ (0 \in e <=> 0 \in s) /\ (1 \in e <=> 1 \in s) /\ (2 \in e <=> 2 \in s) /\ (3 \in e <=> 3 \in s)
      /\ (4 \in e <=> 4 \in s) /\ (5 \in e <=> 5 \in s) /\ (6 \in e <=> 6 \in s) /\ (7 \in e <=> 7 \in s)
  BY <1>4, <1>5 DEF e
<1>7. \A b \in 0..7 : b \in e <=> b \in s
  BY <1>6
<1>8. e = s
  <2>1. e \in Byte /\ s \in Byte
    BY <1>1, <1>2 DEF e, s
  <2>2. QED
    BY <1>7, <2>1, BytesEqual
<1>9. QED
  BY <1>8 DEF e, s

\* and out of the second.
LEMMA TimesTwoRight ==
  ASSUME NEW x \in Byte, NEW y \in Byte
  PROVE  GFMul(x, TimesTwo(y)) = TimesTwo(GFMul(x, y))
<1> DEFINE t(k) == GFMul(x, {k})
<1>1. t(0) = x
  BY ProductWithUnits DEF One
<1>2. \A k \in 0..6 : t(k + 1) = TimesTwo(t(k))
  <2>1. ASSUME NEW k \in 0..6 PROVE t(k + 1) = TimesTwo(t(k))
    <3>0. k \in 0..7 /\ 7 \notin {k}
      OBVIOUS
    <3>1. {k} \in Byte /\ 7 \notin {k} /\ TimesTwo({k}) = {k + 1}
      BY <3>0, Singles
    <3>2. QED
      BY <3>1, ShiftRight
  <2>2. QED
    BY <2>1
<1>3. GFMul(x, {0, 1, 3, 4}) = Xor(Xor(Xor(t(0), t(1)), t(3)), t(4))
  <2>1. {0, 1, 3, 4} = Xor(Xor(Xor({0}, {1}), {3}), {4})
    BY DEF Xor
  <2>2. /\ GFMul(x, Xor({0}, {1})) = Xor(t(0), t(1))
        /\ GFMul(x, Xor(Xor({0}, {1}), {3})) = Xor(GFMul(x, Xor({0}, {1})), t(3))
        /\ GFMul(x, Xor(Xor(Xor({0}, {1}), {3}), {4})) = Xor(GFMul(x, Xor(Xor({0}, {1}), {3})), t(4))
    BY ProductAddsRight
  <2>3. QED
    BY <2>1, <2>2
<1>4. TimesTwo(t(7)) = Xor(Xor(Xor(t(0), t(1)), t(3)), t(4))
  <2>1. /\ t(1) = TimesTwo(t(0)) /\ t(2) = TimesTwo(t(1)) /\ t(3) = TimesTwo(t(2))
        /\ t(4) = TimesTwo(t(3)) /\ t(5) = TimesTwo(t(4)) /\ t(6) = TimesTwo(t(5))
        /\ t(7) = TimesTwo(t(6))
    <3> HIDE DEF t
    <3>1. 0 + 1 = 1 /\ 1 + 1 = 2 /\ 2 + 1 = 3 /\ 3 + 1 = 4 /\ 4 + 1 = 5 /\ 5 + 1 = 6 /\ 6 + 1 = 7
      OBVIOUS
    <3>2. QED
      BY <1>2, <3>1
  <2>2. t(0) \in Byte
    BY <1>1
  <2> HIDE DEF t
  <2>3. QED
    BY <2>1, <2>2, EightTimes
<1>5. GFMul(x, {0, 1, 3, 4}) = TimesTwo(t(7))
  BY <1>3, <1>4
<1>6. CASE 7 \notin y
  BY <1>6, ShiftRight
<1>7. CASE 7 \in y
  <2> DEFINE z == y \ {7}
  <2>1. z \in Byte /\ 7 \notin z /\ y = Xor(z, {7}) /\ {7} \in Byte
    BY <1>7 DEF Byte, Xor
  <2> HIDE DEF z
  <2>2. TimesTwo(y) = Xor(TimesTwo(z), {0, 1, 3, 4})
    <3>1. TimesTwo(y) = Xor(TimesTwo(z), TimesTwo({7}))
      BY <2>1, TimesTwoAdds
    <3>2. QED
      BY <3>1, Singles, Zenon
  <2>3. GFMul(x, TimesTwo(y)) = Xor(GFMul(x, TimesTwo(z)), GFMul(x, {0, 1, 3, 4}))
    BY <2>2, ProductAddsRight
  <2>4. GFMul(x, TimesTwo(z)) = TimesTwo(GFMul(x, z))
    BY <2>1, ShiftRight
  <2>5. GFMul(x, y) = Xor(GFMul(x, z), t(7))
    BY <2>1, ProductAddsRight
  <2>6. GFMul(x, z) \in Byte /\ t(7) \in Byte
    BY ProductIsAByte
  <2> HIDE DEF t
  <2>7. TimesTwo(GFMul(x, y)) = Xor(TimesTwo(GFMul(x, z)), TimesTwo(t(7)))
    BY <2>5, <2>6, TimesTwoAdds
  <2>8. QED
    BY <1>5, <2>3, <2>4, <2>7
<1>8. QED
  BY <1>6, <1>7

\* Every byte is a sum of its bits.
LEMMA BytesAreSums ==
  ASSUME NEW C \in SUBSET Byte, Zero \in C, \A k \in 0..7 : {k} \in C,
         \A x, y \in C : Xor(x, y) \in C
  PROVE  C = Byte
<1>1. ASSUME NEW x \in Byte PROVE x \in C
  <2> DEFINE part(k) == {b \in x : b < k}
             S == {k \in 0..8 : part(k) \in C}
             n == 8
  <2>0. \A b \in x : b \in Int /\ 0 <= b /\ b < 8
    <3>1. x \subseteq 0..7
      BY Zenon DEF Byte
    <3>2. QED
      BY <3>1
  <2>1. 0 \in S
    <3>1. \A b \in x : ~(b < 0)
      BY <2>0
    <3>2. part(0) = Zero
      BY <3>1, Zenon DEF Zero
    <3>3. QED
      BY <3>2
  <2>2. ASSUME NEW k \in 1..n, k - 1 \in S PROVE k \in S
    <3>1. part(k - 1) \in C /\ k - 1 \in 0..7
      BY <2>2
    <3>2. part(k) = IF k - 1 \in x THEN Xor(part(k - 1), {k - 1}) ELSE part(k - 1)
      <4>1. \A b \in x : b < k <=> b < k - 1 \/ b = k - 1
        BY <2>0
      <4>2. ~(k - 1 < k - 1)
        OBVIOUS
      <4> DEFINE a == part(k)
                 c == part(k - 1)
                 j == k - 1
      <4>3. (\A b : b \in a <=> b \in x /\ (b \in c \/ b = j)) /\ (\A b : b \in c => b \in x) /\ j \notin c
        BY <4>1, <4>2
      <4> HIDE DEF a, c, j
      <4>4. a = IF j \in x THEN Xor(c, {j}) ELSE c
        BY <4>3 DEF Xor
      <4>5. QED
        BY <4>4 DEF a, c, j
    <3> HIDE DEF part
    <3>3. part(k) \in C
      BY <3>1, <3>2
    <3>4. QED
      BY <3>3
  <2>3. n \in Nat
    OBVIOUS
  <2> HIDE DEF S, n
  <2>4. \A k \in 0..n : k \in S
    BY <2>1, <2>2, <2>3, GoesOn
  <2>5. part(8) \in C
    BY <2>4 DEF S, n
  <2>6. part(8) = x
    BY <2>0, Zenon
  <2>7. QED
    BY <2>5, <2>6
<1>2. QED
  BY <1>1

\* Zero and One make every byte.
LEMMA BytesAreMade ==
  ASSUME NEW C \in SUBSET Byte, Zero \in C, One \in C,
         \A x, y \in C : Xor(x, y) \in C, \A x \in C : TimesTwo(x) \in C
  PROVE  C = Byte
<1>1. \A k \in 0..7 : {k} \in C
  <2> DEFINE S == {k \in 0..7 : {k} \in C}
             n == 7
  <2>1. 0 \in S
    BY DEF One
  <2>2. ASSUME NEW k \in 1..n, k - 1 \in S PROVE k \in S
    <3>1. k - 1 \in 0..6 /\ (k - 1) + 1 = k /\ {k - 1} \in C
      BY <2>2
    <3>2. TimesTwo({k - 1}) = {k}
      BY <3>1, Singles
    <3>3. QED
      BY <3>1, <3>2
  <2>3. n \in Nat
    OBVIOUS
  <2> HIDE DEF S, n
  <2>4. \A k \in 0..n : k \in S
    BY <2>1, <2>2, <2>3, GoesOn
  <2>5. QED
    BY <2>4 DEF S, n
<1>2. QED
  BY <1>1, BytesAreSums

\* Zero and One are two bytes.
LEMMA Units == Zero \in Byte /\ One \in Byte /\ Zero # One /\ TimesTwo(Zero) = Zero
BY DEF Zero, One, Byte, TimesTwo

\* One times a byte is the byte.
LEMMA OneLeft == ASSUME NEW x \in Byte PROVE GFMul(One, x) = x
<1> DEFINE C == {y \in Byte : GFMul(One, y) = y}
<1>1. Zero \in C /\ One \in C
  BY Units, ProductWithUnits
<1>2. \A y, z \in C : Xor(y, z) \in C
  BY Units, XorIsAByte, ProductAddsRight
<1>3. \A y \in C : TimesTwo(y) \in C
  BY Units, TimesTwoIsAByte, TimesTwoRight
<1>4. C \in SUBSET Byte
  OBVIOUS
<1> HIDE DEF C
<1>5. C = Byte
  BY <1>1, <1>2, <1>3, <1>4, BytesAreMade
<1>6. QED
  BY <1>5 DEF C

\* The order of two factors does not matter,
LEMMA ProductCommutes ==
  ASSUME NEW x \in Byte, NEW y \in Byte
  PROVE  GFMul(x, y) = GFMul(y, x)
<1> DEFINE C == {z \in Byte : GFMul(x, z) = GFMul(z, x)}
<1>1. Zero \in C /\ One \in C
  BY Units, ProductWithUnits, OneLeft
<1>2. \A z, w \in C : Xor(z, w) \in C
  BY XorIsAByte, ProductAddsRight, ProductAddsLeft
<1>3. \A z \in C : TimesTwo(z) \in C
  BY TimesTwoIsAByte, TimesTwoRight, TimesTwoLeft
<1>4. C \in SUBSET Byte
  OBVIOUS
<1> HIDE DEF C
<1>5. C = Byte
  BY <1>1, <1>2, <1>3, <1>4, BytesAreMade
<1>6. QED
  BY <1>5 DEF C

\* nor how three are grouped,
LEMMA ProductAssociates ==
  ASSUME NEW x \in Byte, NEW y \in Byte, NEW z \in Byte
  PROVE  GFMul(GFMul(x, y), z) = GFMul(x, GFMul(y, z))
<1> DEFINE C == {w \in Byte : GFMul(GFMul(x, y), w) = GFMul(x, GFMul(y, w))}
<1>0. \A w : GFMul(y, w) \in Byte /\ GFMul(x, y) \in Byte
  BY ProductIsAByte
<1>1. Zero \in C /\ One \in C
  BY <1>0, Units, ProductWithUnits
<1>2. \A v, w \in C : Xor(v, w) \in C
  <2>1. ASSUME NEW v \in C, NEW w \in C PROVE Xor(v, w) \in C
    <3>1. Xor(v, w) \in Byte
      BY XorIsAByte
    <3>2. GFMul(GFMul(x, y), Xor(v, w)) = Xor(GFMul(GFMul(x, y), v), GFMul(GFMul(x, y), w))
      BY <1>0, ProductAddsRight
    <3>3. GFMul(x, GFMul(y, Xor(v, w))) = Xor(GFMul(x, GFMul(y, v)), GFMul(x, GFMul(y, w)))
      <4>1. GFMul(y, Xor(v, w)) = Xor(GFMul(y, v), GFMul(y, w))
        BY ProductAddsRight
      <4>2. QED
        BY <4>1, ProductAddsRight
    <3>4. QED
      BY <3>1, <3>2, <3>3
  <2>2. QED
    BY <2>1
<1>3. \A w \in C : TimesTwo(w) \in C
  <2>1. ASSUME NEW w \in C PROVE TimesTwo(w) \in C
    <3>1. TimesTwo(w) \in Byte
      BY TimesTwoIsAByte
    <3>2. GFMul(GFMul(x, y), TimesTwo(w)) = TimesTwo(GFMul(GFMul(x, y), w))
      BY <1>0, TimesTwoRight
    <3>3. GFMul(x, GFMul(y, TimesTwo(w))) = TimesTwo(GFMul(x, GFMul(y, w)))
      <4>1. GFMul(y, TimesTwo(w)) = TimesTwo(GFMul(y, w))
        BY TimesTwoRight
      <4>2. QED
        BY <1>0, <4>1, TimesTwoRight
    <3>4. QED
      BY <3>1, <3>2, <3>3
  <2>2. QED
    BY <2>1
<1>4. C \in SUBSET Byte
  OBVIOUS
<1> HIDE DEF C
<1>5. C = Byte
  BY <1>1, <1>2, <1>3, <1>4, BytesAreMade
<1>6. QED
  BY <1>5 DEF C

\* so the last two of three can change places.
LEMMA Swapped ==
  ASSUME NEW a \in Byte, NEW b \in Byte, NEW c \in Byte
  PROVE  GFMul(GFMul(a, b), c) = GFMul(GFMul(a, c), b)
<1>1. GFMul(GFMul(a, b), c) = GFMul(a, GFMul(b, c)) /\ GFMul(GFMul(a, c), b) = GFMul(a, GFMul(c, b))
  BY ProductAssociates
<1>2. GFMul(b, c) = GFMul(c, b)
  BY ProductCommutes
<1>3. QED
  BY <1>1, <1>2

Square(x) == GFMul(x, x)

\* The square of a sum is the sum of the squares.
LEMMA SquareAdds ==
  ASSUME NEW x \in Byte, NEW y \in Byte
  PROVE  Square(Xor(x, y)) = Xor(Square(x), Square(y))
<1>1. Xor(x, y) \in Byte
  BY XorIsAByte
<1>2. GFMul(Xor(x, y), Xor(x, y)) = Xor(GFMul(x, Xor(x, y)), GFMul(y, Xor(x, y)))
  BY <1>1, ProductAddsLeft
<1>3. /\ GFMul(x, Xor(x, y)) = Xor(GFMul(x, x), GFMul(x, y))
      /\ GFMul(y, Xor(x, y)) = Xor(GFMul(y, x), GFMul(y, y))
  BY ProductAddsRight
<1>4. GFMul(y, x) = GFMul(x, y)
  BY ProductCommutes
<1>5. \A a, b, c : Xor(Xor(a, b), Xor(b, c)) = Xor(a, c)
  BY DEF Xor
<1>6. QED
  BY <1>2, <1>3, <1>4, <1>5 DEF Square

\* The multiples of One by the powers of two.
LEMMA SquaresOfBits ==
  /\ Square({0}) = {0} /\ Square({1}) = {2} /\ Square({2}) = {4} /\ Square({3}) = {6}
  /\ Square({4}) = {0, 1, 3, 4} /\ Square({5}) = {2, 3, 5, 6}
  /\ Square({6}) = {0, 1, 3, 5, 7} /\ Square({7}) = {1, 3, 4, 7}
<1>1. \A x \in Byte : GFMul(x, {0}) = x
  BY ProductWithUnits DEF One
<1>2. ASSUME NEW x \in Byte, NEW k \in 0..6
      PROVE  GFMul(x, {k + 1}) = GFMul(TimesTwo(x), {k})
  <2>1. {k} \in Byte /\ TimesTwo({k}) = {k + 1}
    <3>1. k \in 0..7
      OBVIOUS
    <3>2. QED
      BY <3>1, Singles
  <2>2. GFMul(x, TimesTwo({k})) = TimesTwo(GFMul(x, {k}))
    BY <2>1, TimesTwoRight
  <2>3. QED
    BY <2>1, <2>2, TimesTwoLeft
<1>3. /\ TimesTwo({0}) = {1} /\ TimesTwo({1}) = {2} /\ TimesTwo({2}) = {3} /\ TimesTwo({3}) = {4}
      /\ TimesTwo({4}) = {5} /\ TimesTwo({5}) = {6} /\ TimesTwo({6}) = {7} /\ TimesTwo({7}) = {0, 1, 3, 4}
  <2>1. /\ 0 + 1 = 1 /\ 1 + 1 = 2 /\ 2 + 1 = 3 /\ 3 + 1 = 4 /\ 4 + 1 = 5 /\ 5 + 1 = 6 /\ 6 + 1 = 7
        /\ \A k \in {0, 1, 2, 3, 4, 5, 6} : k \in 0..6
    OBVIOUS
  <2>2. QED
    BY <2>1, Singles
<1> DEFINE p8 == {0, 1, 3, 4}
           p9 == {1, 2, 4, 5}
           p10 == {2, 3, 5, 6}
           p11 == {3, 4, 6, 7}
           p12 == {0, 1, 3, 5, 7}
           p13 == {0, 2, 3, 6}
           p14 == {1, 3, 4, 7}
<1>4. /\ p8 \in Byte /\ p9 \in Byte /\ p10 \in Byte /\ p11 \in Byte /\ p12 \in Byte
      /\ p13 \in Byte /\ p14 \in Byte
  BY DEF Byte
<1>5. TimesTwo(p8) = p9
  BY DEF TimesTwo
<1>6. TimesTwo(p9) = p10
  BY DEF TimesTwo
<1>7. TimesTwo(p10) = p11
  BY DEF TimesTwo
<1>8. TimesTwo(p11) = p12
  <2>1. {k + 1 : k \in p11} = {4, 5, 7, 8}
    OBVIOUS
  <2>2. Xor({4, 5, 7, 8} \ {8}, {0, 1, 3, 4}) = p12
    BY DEF Xor
  <2>3. QED
    BY <2>1, <2>2 DEF TimesTwo
<1>9. TimesTwo(p12) = p13
  <2>1. {k + 1 : k \in p12} = {1, 2, 4, 6, 8}
    OBVIOUS
  <2>2. Xor({1, 2, 4, 6, 8} \ {8}, {0, 1, 3, 4}) = p13
    BY DEF Xor
  <2>3. QED
    BY <2>1, <2>2 DEF TimesTwo
<1>10. TimesTwo(p13) = p14
  BY DEF TimesTwo
<1> HIDE DEF p8, p9, p10, p11, p12, p13, p14
<1> DEFINE b(k) == {k}
<1>11. \A k \in 0..7 : b(k) \in Byte
  BY Singles
<1>12. /\ TimesTwo(b(0)) = b(1) /\ TimesTwo(b(1)) = b(2) /\ TimesTwo(b(2)) = b(3)
       /\ TimesTwo(b(3)) = b(4) /\ TimesTwo(b(4)) = b(5) /\ TimesTwo(b(5)) = b(6)
       /\ TimesTwo(b(6)) = b(7) /\ TimesTwo(b(7)) = p8
  BY <1>3 DEF p8
<1>13. \A x \in Byte :
         /\ GFMul(x, b(0)) = x /\ GFMul(x, b(1)) = GFMul(TimesTwo(x), b(0))
         /\ GFMul(x, b(2)) = GFMul(TimesTwo(x), b(1)) /\ GFMul(x, b(3)) = GFMul(TimesTwo(x), b(2))
         /\ GFMul(x, b(4)) = GFMul(TimesTwo(x), b(3)) /\ GFMul(x, b(5)) = GFMul(TimesTwo(x), b(4))
         /\ GFMul(x, b(6)) = GFMul(TimesTwo(x), b(5)) /\ GFMul(x, b(7)) = GFMul(TimesTwo(x), b(6))
  <2>1. /\ 0 + 1 = 1 /\ 1 + 1 = 2 /\ 2 + 1 = 3 /\ 3 + 1 = 4 /\ 4 + 1 = 5 /\ 5 + 1 = 6 /\ 6 + 1 = 7
        /\ \A k \in {0, 1, 2, 3, 4, 5, 6} : k \in 0..6
    OBVIOUS
  <2>2. QED
    BY <1>1, <1>2, <2>1
<1>14. /\ b(0) \in Byte /\ b(1) \in Byte /\ b(2) \in Byte /\ b(3) \in Byte
       /\ b(4) \in Byte /\ b(5) \in Byte /\ b(6) \in Byte /\ b(7) \in Byte
  BY <1>11
<1> HIDE DEF b
<1>15. Square(b(0)) = b(0)
  BY <1>13, <1>14 DEF Square
<1>16. Square(b(1)) = b(2)
  BY <1>12, <1>13, <1>14 DEF Square
<1>17. Square(b(2)) = b(4)
  BY <1>12, <1>13, <1>14 DEF Square
<1>18. Square(b(3)) = b(6)
  BY <1>12, <1>13, <1>14 DEF Square
<1>19. Square(b(4)) = p8
  BY <1>12, <1>13, <1>14, <1>4 DEF Square
<1>20. Square(b(5)) = p10
  BY <1>12, <1>13, <1>14, <1>4, <1>5, <1>6 DEF Square
<1>21. Square(b(6)) = p12
  BY <1>12, <1>13, <1>14, <1>4, <1>5, <1>6, <1>7, <1>8 DEF Square
<1>22. Square(b(7)) = p14
  BY <1>12, <1>13, <1>14, <1>4, <1>5, <1>6, <1>7, <1>8, <1>9, <1>10 DEF Square
<1>23. QED
  BY <1>15, <1>16, <1>17, <1>18, <1>19, <1>20, <1>21, <1>22, Zenon DEF b, p8, p10, p12, p14

\* The bits of a square.
SquareBits(u, s) ==
  /\ 0 \in s <=> ~(~(0 \in u <=> 4 \in u) <=> 6 \in u)
  /\ 1 \in s <=> ~(~(4 \in u <=> 6 \in u) <=> 7 \in u)
  /\ 2 \in s <=> ~(1 \in u <=> 5 \in u)
  /\ 3 \in s <=> ~(~(4 \in u <=> 5 \in u) <=> ~(6 \in u <=> 7 \in u))
  /\ 4 \in s <=> ~(~(2 \in u <=> 4 \in u) <=> 7 \in u)
  /\ 5 \in s <=> ~(5 \in u <=> 6 \in u)
  /\ 6 \in s <=> ~(3 \in u <=> 5 \in u)
  /\ 7 \in s <=> ~(6 \in u <=> 7 \in u)

\* What the bits of a square are.
LEMMA SquareIs == ASSUME NEW x \in Byte PROVE Square(x) \in Byte /\ SquareBits(x, Square(x))
<1>1. \A u \in Byte : Square(u) \in Byte
  BY ProductIsAByte DEF Square
<1> DEFINE C == {u \in Byte : SquareBits(u, Square(u))}
<1>2. Zero \in C
  <2>1. Square(Zero) = Zero
    BY Units, ProductWithUnits DEF Square
  <2>2. SquareBits(Zero, Zero)
    BY DEF SquareBits, Zero
  <2>3. QED
    BY <2>1, <2>2, Units
<1>3. \A k \in 0..7 : {k} \in C
  <2>1. \A k \in 0..7 : {k} \in Byte
    BY Singles
  <2>2. SquareBits({0}, {0}) /\ SquareBits({1}, {2}) /\ SquareBits({2}, {4}) /\ SquareBits({3}, {6})
    BY DEF SquareBits
  <2>3. SquareBits({4}, {0, 1, 3, 4}) /\ SquareBits({5}, {2, 3, 5, 6})
    BY DEF SquareBits
  <2>4. SquareBits({6}, {0, 1, 3, 5, 7}) /\ SquareBits({7}, {1, 3, 4, 7})
    BY DEF SquareBits
  <2>5. ASSUME NEW k \in 0..7 PROVE SquareBits({k}, Square({k}))
    <3>1. k = 0 \/ k = 1 \/ k = 2 \/ k = 3 \/ k = 4 \/ k = 5 \/ k = 6 \/ k = 7
      OBVIOUS
    <3>2. QED
      BY <2>2, <2>3, <2>4, <3>1, SquaresOfBits, Zenon
  <2>6. QED
    BY <2>1, <2>5
<1>4. \A u, w \in C : Xor(u, w) \in C
  <2>1. ASSUME NEW u \in C, NEW w \in C PROVE Xor(u, w) \in C
    <3> DEFINE t == Xor(u, w)
               st == Square(t)
               su == Square(u)
               sw == Square(w)
    <3>1. t \in Byte /\ st = Xor(su, sw)
      BY XorIsAByte, SquareAdds
    <3>2. \A b : (b \in t <=> ~(b \in u <=> b \in w)) /\ (b \in st <=> ~(b \in su <=> b \in sw))
      BY <3>1 DEF Xor
    <3>3. SquareBits(u, su) /\ SquareBits(w, sw)
      OBVIOUS
    <3> HIDE DEF t, st, su, sw
    <3>4. SquareBits(t, st)
      BY <3>2, <3>3 DEF SquareBits
    <3>5. QED
      BY <3>1, <3>4 DEF t, st
  <2>2. QED
    BY <2>1
<1>5. C \in SUBSET Byte
  OBVIOUS
<1> HIDE DEF C
<1>6. C = Byte
  BY <1>2, <1>3, <1>4, <1>5, BytesAreSums
<1>7. QED
  BY <1>1, <1>6 DEF C

\* x^256 = x.
LEMMA EightSquares ==
  ASSUME NEW b0 \in Byte, NEW b1, NEW b2, NEW b3, NEW b4, NEW b5, NEW b6, NEW b7,
         b1 = Square(b0), b2 = Square(b1), b3 = Square(b2), b4 = Square(b3),
         b5 = Square(b4), b6 = Square(b5), b7 = Square(b6)
  PROVE  Square(b7) = b0
<1>1. /\ b1 \in Byte /\ b2 \in Byte /\ b3 \in Byte /\ b4 \in Byte /\ b5 \in Byte
      /\ b6 \in Byte /\ b7 \in Byte /\ Square(b7) \in Byte
  BY SquareIs
<1>2. /\ SquareBits(b0, b1) /\ SquareBits(b1, b2) /\ SquareBits(b2, b3) /\ SquareBits(b3, b4)
      /\ SquareBits(b4, b5) /\ SquareBits(b5, b6) /\ SquareBits(b6, b7) /\ SquareBits(b7, Square(b7))
  BY <1>1, SquareIs
<1> DEFINE e == Square(b7)
<1>3. SquareBits(b7, e) /\ e \in Byte
  BY <1>1, <1>2
<1> HIDE DEF e
<1>4. /\ (0 \in e <=> 0 \in b0) /\ (1 \in e <=> 1 \in b0) /\ (2 \in e <=> 2 \in b0)
      /\ (3 \in e <=> 3 \in b0) /\ (4 \in e <=> 4 \in b0) /\ (5 \in e <=> 5 \in b0)
      /\ (6 \in e <=> 6 \in b0) /\ (7 \in e <=> 7 \in b0)
  BY <1>2, <1>3 DEF SquareBits
<1>5. \A b \in 0..7 : b \in e <=> b \in b0
  BY <1>4
<1>6. e = b0
  BY <1>3, <1>5, BytesEqual
<1>7. QED
  BY <1>6 DEF e

\* Only Zero and One are their own squares.
LEMMA OwnSquares == ASSUME NEW u \in Byte, Square(u) = u PROVE u \in {Zero, One}
<1>1. SquareBits(u, u)
  BY SquareIs
<1>2. \A b \in 1..7 : b \notin u
  <2>1. 1 \notin u /\ 2 \notin u /\ 3 \notin u /\ 4 \notin u /\ 5 \notin u /\ 6 \notin u /\ 7 \notin u
    BY <1>1 DEF SquareBits
  <2>2. QED
    BY <2>1
<1>3. u \subseteq 0..7
  BY Zenon DEF Byte
<1>4. u \subseteq {0}
  BY <1>2, <1>3
<1>5. QED
  BY <1>4 DEF Zero, One

\* The rounds of an inverse.
IsInvRounds(f, x) ==
  f = [k \in 0..8 |-> IF k = 0 THEN [result |-> One, base |-> x]
                      ELSE [result |-> IF k > 1 THEN GFMul(f[k - 1].result, f[k - 1].base)
                                       ELSE f[k - 1].result,
                            base |-> GFMul(f[k - 1].base, f[k - 1].base)]]

InvPairs == [result : Byte, base : Byte]

InvRoundsOf(f, x) ==
  /\ f[0].result = One /\ f[0].base = x
  /\ \A k \in 0..8 : f[k].result \in Byte /\ f[k].base \in Byte
  /\ \A k \in 1..8 : /\ f[k].base = GFMul(f[k - 1].base, f[k - 1].base)
                     /\ f[k].result = IF k > 1 THEN GFMul(f[k - 1].result, f[k - 1].base)
                                      ELSE f[k - 1].result

\* What the rounds of an inverse are.
LEMMA InverseIs ==
  ASSUME NEW x \in Byte, x # Zero
  PROVE  \E f : InvRoundsOf(f, x) /\ GFInv(x) = f[8].result
<1> DEFINE b == [result |-> One, base |-> x]
           onward(r, k) == [result |-> IF k > 1 THEN GFMul(r.result, r.base) ELSE r.result,
                            base |-> GFMul(r.base, r.base)]
           g == [k \in 1..8 |-> [r \in InvPairs |-> onward(r, k)]]
<1>1. b \in InvPairs
  BY Units DEF InvPairs
<1>2. ASSUME NEW r \in InvPairs, NEW k PROVE onward(r, k) \in InvPairs
  <2>1. r.result \in Byte /\ r.base \in Byte
    BY DEF InvPairs
  <2>2. GFMul(r.result, r.base) \in Byte /\ GFMul(r.base, r.base) \in Byte
    BY <2>1, ProductIsAByte
  <2>3. QED
    BY <2>1, <2>2 DEF InvPairs
<1>3. \E f : IsInvRounds(f, x)
  <2>1. StepsOf(g, 8, InvPairs) /\ \A k \in 1..8 : \A r \in InvPairs : g[k][r] = onward(r, k)
    <3> HIDE DEF onward
    <3>1. g \in [1..8 -> [InvPairs -> InvPairs]] /\ \A k \in 1..8 : \A r \in InvPairs : g[k][r] = onward(r, k)
      BY <1>2
    <3> HIDE DEF g
    <3>2. QED
      BY <3>1, Zenon DEF StepsOf
  <2> HIDE DEF b, g
  <2>2. PICK f : RunsBy(f, 8, InvPairs, b, g)
    <3> DEFINE n == 8
    <3>1. n \in Nat /\ StepsOf(g, n, InvPairs)
      BY <2>1
    <3> HIDE DEF n
    <3>2. \E f : RunsBy(f, n, InvPairs, b, g)
      BY <1>1, <3>1, RecursionExists, Zenon
    <3>3. QED
      BY <3>2, Zenon DEF n
  <2>3. f \in [0..8 -> InvPairs] /\ f[0] = b /\ \A k \in 1..8 : f[k] = g[k][f[k - 1]]
    BY <2>2, Zenon DEF RunsBy
  <2>4. ASSUME NEW k \in 1..8 PROVE f[k] = onward(f[k - 1], k)
    <3>1. k - 1 \in 0..8
      OBVIOUS
    <3>2. f[k - 1] \in InvPairs
      BY <2>3, <3>1, Zenon
    <3> HIDE DEF onward
    <3>3. QED
      BY <2>1, <2>3, <3>2, Zenon
  <2>5. \A k \in 0..8 : f[k] = IF k = 0 THEN b ELSE onward(f[k - 1], k)
    <3> HIDE DEF onward
    <3>1. QED
      BY <2>3, <2>4
  <2>6. f = [k \in 0..8 |-> IF k = 0 THEN b ELSE onward(f[k - 1], k)]
    <3> HIDE DEF onward
    <3>1. f = [k \in 0..8 |-> f[k]]
      BY <2>3, Zenon
    <3>2. QED
      BY <2>5, <3>1
  <2>7. IsInvRounds(f, x)
    BY <2>6, Zenon DEF IsInvRounds, b
  <2>8. QED
    BY <2>7
<1> DEFINE f == CHOOSE f : IsInvRounds(f, x)
<1>4. GFInv(x) = f[8].result
  BY DEF GFInv, IsInvRounds
<1>5. IsInvRounds(f, x)
  BY <1>3
<1> HIDE DEF f, g
<1>6. /\ f[0] = b
      /\ \A k \in 1..8 : f[k] = onward(f[k - 1], k)
  BY <1>5 DEF IsInvRounds
<1> HIDE DEF b, onward
<1>7. \A k \in 0..8 : f[k] \in InvPairs
  <2> DEFINE n == 8
  <2>1. n \in Nat /\ f[0] \in InvPairs /\ \A k \in 1..n : f[k - 1] \in InvPairs => f[k] \in InvPairs
    BY <1>1, <1>2, <1>6
  <2> HIDE DEF n
  <2>2. \A k \in 0..n : f[k] \in InvPairs
    BY <2>1, StaysIn
  <2>3. QED
    BY <2>2, Zenon DEF n
<1>8. f[0].result = One /\ f[0].base = x
  BY <1>6 DEF b
<1>9. ASSUME NEW k \in 1..8
      PROVE  /\ f[k].base = GFMul(f[k - 1].base, f[k - 1].base)
             /\ f[k].result = IF k > 1 THEN GFMul(f[k - 1].result, f[k - 1].base) ELSE f[k - 1].result
  <2> DEFINE r == f[k - 1]
  <2>1. f[k] = onward(r, k)
    BY <1>6
  <2> HIDE DEF r
  <2>2. /\ f[k].base = GFMul(r.base, r.base)
        /\ f[k].result = IF k > 1 THEN GFMul(r.result, r.base) ELSE r.result
    BY <2>1 DEF onward
  <2>3. QED
    BY <2>2 DEF r
<1>10. \A k \in 0..8 : f[k].result \in Byte /\ f[k].base \in Byte
  BY <1>7 DEF InvPairs
<1>11. InvRoundsOf(f, x)
  BY <1>8, <1>9, <1>10, Zenon DEF InvRoundsOf
<1>12. QED
  BY <1>4, <1>11

\* 254 is 256 - 2: x^2 times GFInv(x) is x.
LEMMA TwiceOver ==
  ASSUME NEW x \in Byte, x # Zero
  PROVE  GFInv(x) \in Byte /\ GFMul(Square(x), GFInv(x)) = x
<1>1. PICK f : InvRoundsOf(f, x) /\ GFInv(x) = f[8].result
  BY InverseIs
<1> DEFINE S == {k \in 0..8 : k > 0 => GFMul(Square(x), f[k].result) = f[k].base}
<1>2. 0 \in S
  OBVIOUS
<1>3. ASSUME NEW k \in 1..8, k - 1 \in S PROVE k \in S
  <2> DEFINE j == k - 1
  <2>1. /\ f[j].result \in Byte /\ f[j].base \in Byte
        /\ f[k].base = GFMul(f[j].base, f[j].base)
        /\ f[k].result = IF k > 1 THEN GFMul(f[j].result, f[j].base) ELSE f[j].result
    BY <1>1 DEF InvRoundsOf
  <2>2. CASE k = 1
    <3>1. f[k].result = One /\ f[k].base = Square(x)
      BY <1>1, <2>1, <2>2 DEF InvRoundsOf, Square
    <3>2. GFMul(Square(x), One) = Square(x)
      BY SquareIs, ProductWithUnits
    <3>3. QED
      BY <3>1, <3>2
  <2>3. CASE k # 1
    <3>1. GFMul(Square(x), f[j].result) = f[j].base
      BY <1>3, <2>3
    <3>2. f[k].result = GFMul(f[j].result, f[j].base)
      BY <2>1, <2>3
    <3> HIDE DEF j
    <3>3. GFMul(Square(x), GFMul(f[j].result, f[j].base)) = GFMul(GFMul(Square(x), f[j].result), f[j].base)
      BY <2>1, SquareIs, ProductAssociates
    <3>4. GFMul(Square(x), f[k].result) = f[k].base
      BY <2>1, <3>1, <3>2, <3>3
    <3>5. QED
      BY <3>4
  <2>4. QED
    BY <2>2, <2>3
<1> HIDE DEF S
<1>4. 8 \in S
  <2> DEFINE n == 8
  <2>1. n \in Nat /\ \A k \in 1..n : k - 1 \in S => k \in S
    BY <1>3
  <2> HIDE DEF n
  <2>2. n \in S
    BY <1>2, <2>1, GoesOn
  <2>3. QED
    BY <2>2 DEF n
<1>5. f[8].base = x
  <2>1. /\ f[1].base = Square(f[0].base) /\ f[2].base = Square(f[1].base)
        /\ f[3].base = Square(f[2].base) /\ f[4].base = Square(f[3].base)
        /\ f[5].base = Square(f[4].base) /\ f[6].base = Square(f[5].base)
        /\ f[7].base = Square(f[6].base) /\ f[8].base = Square(f[7].base)
    BY <1>1 DEF InvRoundsOf, Square
  <2>2. f[0].base = x
    BY <1>1 DEF InvRoundsOf
  <2>3. f[0].base \in Byte
    BY <2>2
  <2>4. Square(f[7].base) = f[0].base
    BY <2>1, <2>3, EightSquares
  <2>5. QED
    BY <2>1, <2>2, <2>4
<1>6. f[8].result \in Byte
  BY <1>1 DEF InvRoundsOf
<1>7. QED
  BY <1>1, <1>4, <1>5, <1>6 DEF S

\* A byte times its inverse is One.
LEMMA InverseOfByte ==
  ASSUME NEW x \in Byte, x # Zero
  PROVE  GFInv(x) \in Byte /\ GFMul(x, GFInv(x)) = One
<1> DEFINE i == GFInv(x)
           u == GFMul(x, i)
<1>1. i \in Byte /\ GFMul(Square(x), i) = x
  BY TwiceOver
<1> HIDE DEF i
<1>2. u \in Byte
  BY ProductIsAByte
<1>3. GFMul(x, u) = x
  BY <1>1, ProductAssociates DEF Square
<1> HIDE DEF u
<1>4. GFMul(GFMul(x, u), i) = GFMul(GFMul(x, i), u)
  BY <1>1, <1>2, Swapped
<1>5. GFMul(GFMul(x, u), i) = Square(u)
  BY <1>4 DEF u, Square
<1>6. Square(u) = u
  <2>1. GFMul(GFMul(x, u), i) = u
    BY <1>3 DEF u
  <2>2. QED
    BY <1>5, <2>1
<1>7. u # Zero
  <2>1. GFMul(x, Zero) = Zero
    BY ProductWithUnits
  <2>2. QED
    BY <1>3, <2>1
<1>8. u = One
  BY <1>2, <1>6, <1>7, OwnSquares
<1>9. QED
  BY <1>1, <1>8 DEF u, i

\* Where there are inverses, factors cancel, and only Zero makes Zero.
LEMMA Cancels ==
  ASSUME NEW x \in Byte, x # Zero, NEW y \in Byte, NEW z \in Byte, GFMul(x, y) = GFMul(x, z)
  PROVE  y = z
<1>1. GFInv(x) \in Byte /\ GFMul(GFInv(x), x) = One
  BY InverseOfByte, ProductCommutes
<1>2. ASSUME NEW w \in Byte PROVE GFMul(GFInv(x), GFMul(x, w)) = w
  BY <1>1, ProductAssociates, OneLeft
<1>3. QED
  BY <1>2

\* Two bytes that are not Zero have a product that is not.
LEMMA NoZeroProduct ==
  ASSUME NEW x \in Byte, x # Zero, NEW y \in Byte, y # Zero
  PROVE  GFMul(x, y) # Zero
<1>1. GFMul(x, Zero) = Zero /\ Zero \in Byte
  BY ProductWithUnits, Units
<1>2. QED
  BY <1>1, Cancels

\* A factor comes out of the inverse of a product.
LEMMA InverseOfProduct ==
  ASSUME NEW u \in Byte, u # Zero, NEW v \in Byte, v # Zero
  PROVE  GFMul(u, GFInv(GFMul(u, v))) = GFInv(v)
<1> DEFINE p == GFMul(u, v)
           q == GFInv(p)
<1>1. p \in Byte /\ p # Zero
  BY ProductIsAByte, NoZeroProduct
<1>2. q \in Byte /\ GFMul(p, q) = One
  <2> HIDE DEF p
  <2>1. QED
    BY <1>1, InverseOfByte
<1>3. GFInv(v) \in Byte /\ GFMul(v, GFInv(v)) = One
  BY InverseOfByte
<1> HIDE DEF q
<1>4. GFMul(v, GFMul(u, q)) = GFMul(GFMul(v, u), q)
  BY <1>2, ProductAssociates
<1>5. GFMul(v, u) = p
  BY ProductCommutes
<1>6. GFMul(v, GFMul(u, q)) = GFMul(v, GFInv(v))
  BY <1>2, <1>3, <1>4, <1>5
<1>7. GFMul(u, q) \in Byte
  BY ProductIsAByte
<1>8. GFMul(u, q) = GFInv(v)
  BY <1>3, <1>6, <1>7, Cancels
<1>9. QED
  BY <1>8 DEF p, q

\* One is its own inverse.
LEMMA InverseOfOne == GFInv(One) = One
<1>1. One \in Byte /\ One # Zero
  BY Units
<1>2. GFInv(One) \in Byte /\ GFMul(One, GFInv(One)) = One
  BY <1>1, InverseOfByte
<1>3. QED
  BY <1>2, OneLeft

------------------------------------------------------------------------------
(***************************************************************************)
(* Sums and products of the bytes at some of the places 1 to N.            *)
(***************************************************************************)
\* An operation on bytes whose order and grouping do not matter.
Regular(op) ==
  \A x, y \in Byte :
    /\ op[x][y] \in Byte /\ op[x][y] = op[y][x]
    /\ \A z \in Byte : op[op[x][y]][z] = op[x][op[y][z]]

Plus == [x \in Byte |-> [y \in Byte |-> Xor(x, y)]]

Times == [x \in Byte |-> [y \in Byte |-> GFMul(x, y)]]

\* Plus adds, Times multiplies, and both are regular.
LEMMA PlusAndTimes ==
  /\ Regular(Plus) /\ \A x, y \in Byte : Plus[x][y] = Xor(x, y)
  /\ Regular(Times) /\ \A x, y \in Byte : Times[x][y] = GFMul(x, y)
<1>1. ASSUME NEW x \in Byte, NEW y \in Byte
      PROVE  /\ Plus[x][y] = Xor(x, y) /\ Xor(x, y) \in Byte
             /\ Times[x][y] = GFMul(x, y) /\ GFMul(x, y) \in Byte
  BY XorIsAByte, ProductIsAByte DEF Plus, Times
<1>2. Regular(Plus)
  <2>1. ASSUME NEW x \in Byte, NEW y \in Byte PROVE Plus[x][y] \in Byte /\ Plus[x][y] = Plus[y][x]
    BY <1>1, XorLaws
  <2>2. ASSUME NEW x \in Byte, NEW y \in Byte, NEW z \in Byte
        PROVE  Plus[Plus[x][y]][z] = Plus[x][Plus[y][z]]
    <3>1. Plus[Plus[x][y]][z] = Xor(Xor(x, y), z) /\ Plus[x][Plus[y][z]] = Xor(x, Xor(y, z))
      BY <1>1
    <3>2. QED
      BY <3>1, XorLaws
  <2>3. QED
    BY <2>1, <2>2 DEF Regular
<1>3. Regular(Times)
  <2>1. ASSUME NEW x \in Byte, NEW y \in Byte PROVE Times[x][y] \in Byte /\ Times[x][y] = Times[y][x]
    <3>1. GFMul(x, y) = GFMul(y, x)
      BY ProductCommutes
    <3>2. QED
      BY <1>1, <3>1
  <2>2. ASSUME NEW x \in Byte, NEW y \in Byte, NEW z \in Byte
        PROVE  Times[Times[x][y]][z] = Times[x][Times[y][z]]
    <3>1. Times[Times[x][y]][z] = GFMul(GFMul(x, y), z) /\ Times[x][Times[y][z]] = GFMul(x, GFMul(y, z))
      BY <1>1
    <3>2. QED
      BY <3>1, ProductAssociates
  <2>3. QED
    BY <2>1, <2>2 DEF Regular
<1>4. QED
  BY <1>1, <1>2, <1>3

\* f[k]: what op makes of the first k bytes of w, those at A.
TotalsOf(f, op, e, w, A, N) ==
  /\ f[0] = e
  /\ \A k \in 0..N : f[k] \in Byte
  /\ \A k \in 1..N : f[k] = IF k \in A THEN op[f[k - 1]][w[k]] ELSE f[k - 1]

Total(op, e, w, A, N) == (CHOOSE f : TotalsOf(f, op, e, w, A, N))[N]

\* Total is the last of such totals.
LEMMA TotalsExist ==
  ASSUME NEW op, Regular(op), NEW e \in Byte, NEW N \in Nat, NEW w \in [1..N -> Byte], NEW A
  PROVE  \E f : TotalsOf(f, op, e, w, A, N) /\ f[N] = Total(op, e, w, A, N)
<1> DEFINE g == [k \in 1..N |-> [b \in Byte |-> IF k \in A THEN op[b][w[k]] ELSE b]]
<1>1. StepsOf(g, N, Byte)
  <2>1. ASSUME NEW k \in 1..N, NEW b \in Byte PROVE (IF k \in A THEN op[b][w[k]] ELSE b) \in Byte
    BY DEF Regular
  <2>2. g \in [1..N -> [Byte -> Byte]]
    BY <2>1
  <2> HIDE DEF g
  <2>3. QED
    BY <2>2 DEF StepsOf
<1>2. \A k \in 1..N : \A b \in Byte : g[k][b] = IF k \in A THEN op[b][w[k]] ELSE b
  OBVIOUS
<1> HIDE DEF g
<1>3. PICK f : RunsBy(f, N, Byte, e, g)
  BY <1>1, RecursionExists
<1>4. f \in [0..N -> Byte] /\ f[0] = e /\ \A k \in 1..N : f[k] = g[k][f[k - 1]]
  BY <1>3 DEF RunsBy
<1>5. \A k \in 1..N : f[k - 1] \in Byte
  BY <1>4
<1>6. TotalsOf(f, op, e, w, A, N)
  BY <1>2, <1>4, <1>5 DEF TotalsOf
<1>7. QED
  BY <1>6 DEF Total

\* There is one total, and it depends on what is at A only.
LEMMA TotalIs ==
  ASSUME NEW op, NEW e, NEW N \in Nat, NEW w, NEW A, NEW v, NEW B,
         \A k \in 1..N : (k \in A <=> k \in B) /\ (k \in A => w[k] = v[k]),
         NEW f, TotalsOf(f, op, e, w, A, N), NEW g, TotalsOf(g, op, e, v, B, N)
  PROVE  f[N] = g[N]
<1> DEFINE S == {k \in 0..N : f[k] = g[k]}
<1>1. 0 \in S
  BY DEF TotalsOf
<1>2. ASSUME NEW k \in 1..N, k - 1 \in S PROVE k \in S
  BY <1>2 DEF TotalsOf
<1> HIDE DEF S
<1>3. N \in S
  BY <1>1, <1>2, GoesOn
<1>4. QED
  BY <1>3 DEF S

\* Total depends on what is at A only.
LEMMA TotalAgrees ==
  ASSUME NEW op, Regular(op), NEW e \in Byte, NEW N \in Nat,
         NEW w \in [1..N -> Byte], NEW A, NEW v \in [1..N -> Byte], NEW B,
         \A k \in 1..N : (k \in A <=> k \in B) /\ (k \in A => w[k] = v[k])
  PROVE  Total(op, e, w, A, N) = Total(op, e, v, B, N) /\ Total(op, e, w, A, N) \in Byte
<1>1. PICK f : TotalsOf(f, op, e, w, A, N) /\ f[N] = Total(op, e, w, A, N)
  BY TotalsExist
<1>2. PICK g : TotalsOf(g, op, e, v, B, N) /\ g[N] = Total(op, e, v, B, N)
  BY TotalsExist
<1>3. f[N] = g[N]
  BY <1>1, <1>2, TotalIs
<1>4. f[N] \in Byte
  BY <1>1 DEF TotalsOf
<1>5. QED
  BY <1>1, <1>2, <1>3, <1>4

\* One of the bytes can be taken out.
TakesOut(op, e, w, A, a, N) == Total(op, e, w, A, N) = op[w[a]][Total(op, e, w, A \ {a}, N)]

LEMMA TotalWithout ==
  ASSUME NEW op, Regular(op), NEW e \in Byte, NEW N \in Nat, NEW w \in [1..N -> Byte],
         NEW A \in SUBSET (1..N), NEW a \in A
  PROVE  TakesOut(op, e, w, A, a, N)
<1>1. PICK f : TotalsOf(f, op, e, w, A, N) /\ f[N] = Total(op, e, w, A, N)
  BY TotalsExist
<1>2. PICK g : TotalsOf(g, op, e, w, A \ {a}, N) /\ g[N] = Total(op, e, w, A \ {a}, N)
  BY TotalsExist
<1>r. \A x, y, z \in Byte : op[op[x][y]][z] = op[x][op[y][z]]
  BY ZenonT(40) DEF Regular
<1> DEFINE S == {k \in 0..N : f[k] = IF k < a THEN g[k] ELSE op[w[a]][g[k]]}
<1>3. a \in 1..N
  OBVIOUS
<1>4. 0 \in S
  BY <1>1, <1>2, <1>3 DEF TotalsOf
<1>5. ASSUME NEW k \in 1..N, k - 1 \in S PROVE k \in S
  <2> DEFINE j == k - 1
  <2>1. /\ f[j] \in Byte /\ g[j] \in Byte /\ w[k] \in Byte /\ w[a] \in Byte /\ j \in 0..N
        /\ f[k] = IF k \in A THEN op[f[j]][w[k]] ELSE f[j]
        /\ g[k] = IF k \in A \ {a} THEN op[g[j]][w[k]] ELSE g[j]
    BY <1>1, <1>2, <1>3 DEF TotalsOf
  <2>2. f[j] = IF j < a THEN g[j] ELSE op[w[a]][g[j]]
    BY <1>5
  <2>3. CASE k < a
    <3>1. f[j] = g[j] /\ (k \in A <=> k \in A \ {a})
      BY <2>2, <2>3, <1>3
    <3> HIDE DEF j
    <3>2. f[k] = g[k]
      BY <2>1, <3>1
    <3>3. QED
      BY <2>3, <3>2
  <2>4. CASE k = a
    <3>1. f[k] = op[g[j]][w[a]] /\ g[k] = g[j]
      BY <2>1, <2>2, <2>4
    <3> HIDE DEF j
    <3>2. f[k] = op[w[a]][g[k]]
      BY <2>1, <3>1, SMTT(30) DEF Regular
    <3>3. QED
      BY <2>4, <3>2
  <2>5. CASE k > a
    <3>1. f[j] = op[w[a]][g[j]] /\ (k \in A <=> k \in A \ {a})
      BY <2>2, <2>5, <1>3
    <3> HIDE DEF j
    <3>2. op[op[w[a]][g[j]]][w[k]] = op[w[a]][op[g[j]][w[k]]]
      <4>1. w[a] \in Byte /\ g[j] \in Byte /\ w[k] \in Byte
        BY <2>1
      <4>2. QED
        BY <4>1, <1>r
    <3>3. f[k] = op[w[a]][g[k]]
      BY <2>1, <3>1, <3>2
    <3>4. QED
      BY <2>5, <3>3, <1>3
  <2>6. QED
    BY <2>3, <2>4, <2>5, <1>3
<1> HIDE DEF S
<1>6. N \in S
  <2>1. \A n \in 0..N : n \in S
    BY <1>4, <1>5, GoesOn
  <2>2. QED
    BY <2>1
<1>7. QED
  BY <1>1, <1>2, <1>3, <1>6 DEF S, TakesOut

\* Nothing makes the first byte.
LEMMA TotalOfNone ==
  ASSUME NEW op, Regular(op), NEW e \in Byte, NEW N \in Nat, NEW w \in [1..N -> Byte]
  PROVE  Total(op, e, w, {}, N) = e
<1>1. PICK f : TotalsOf(f, op, e, w, {}, N) /\ f[N] = Total(op, e, w, {}, N)
  BY TotalsExist
<1> DEFINE S == {k \in 0..N : f[k] = e}
<1>2. 0 \in S
  BY <1>1 DEF TotalsOf
<1>3. ASSUME NEW k \in 1..N, k - 1 \in S PROVE k \in S
  BY <1>1, <1>3 DEF TotalsOf
<1> HIDE DEF S
<1>4. N \in S
  BY <1>2, <1>3, GoesOn
<1>5. QED
  BY <1>1, <1>4 DEF S

\* A product of bytes that are not Zero is not.
LEMMA NoZeroTotal ==
  ASSUME NEW N \in Nat, NEW w \in [1..N -> Byte], NEW A, \A k \in 1..N : k \in A => w[k] # Zero
  PROVE  Total(Times, One, w, A, N) # Zero
<1>1. PICK f : TotalsOf(f, Times, One, w, A, N) /\ f[N] = Total(Times, One, w, A, N)
  BY TotalsExist, PlusAndTimes, Units
<1> DEFINE S == {k \in 0..N : f[k] # Zero}
<1>2. 0 \in S
  BY <1>1, Units DEF TotalsOf
<1>3. ASSUME NEW k \in 1..N, k - 1 \in S PROVE k \in S
  <2> DEFINE j == k - 1
  <2>1. /\ f[j] \in Byte /\ w[k] \in Byte
        /\ f[k] = IF k \in A THEN Times[f[j]][w[k]] ELSE f[j]
    BY <1>1 DEF TotalsOf
  <2>2. f[j] # Zero
    BY <1>3
  <2> HIDE DEF j
  <2>3. f[k] # Zero
    BY <2>1, <2>2, PlusAndTimes, NoZeroProduct
  <2>4. QED
    BY <2>3
<1> HIDE DEF S
<1>4. N \in S
  BY <1>2, <1>3, GoesOn
<1>5. QED
  BY <1>1, <1>4 DEF S

\* The sum of u over A is that of w and c times that of v.
AddsUp(u, w, c, v, A, N) ==
  Total(Plus, Zero, u, A, N) =
    Xor(Total(Plus, Zero, w, A, N), GFMul(c, Total(Plus, Zero, v, A, N)))

\* Sums add up, and take a factor in.
LEMMA SumsAdd ==
  ASSUME NEW N \in Nat, NEW w \in [1..N -> Byte], NEW v \in [1..N -> Byte], NEW A, NEW c \in Byte,
         NEW u \in [1..N -> Byte],
         \A k \in 1..N : k \in A => u[k] = Xor(w[k], GFMul(c, v[k]))
  PROVE  AddsUp(u, w, c, v, A, N)
<1>1. PICK f : TotalsOf(f, Plus, Zero, w, A, N) /\ f[N] = Total(Plus, Zero, w, A, N)
  BY TotalsExist, PlusAndTimes, Units
<1>2. PICK g : TotalsOf(g, Plus, Zero, v, A, N) /\ g[N] = Total(Plus, Zero, v, A, N)
  BY TotalsExist, PlusAndTimes, Units
<1>3. PICK h : TotalsOf(h, Plus, Zero, u, A, N) /\ h[N] = Total(Plus, Zero, u, A, N)
  <2>1. Regular(Plus) /\ Zero \in Byte
    BY PlusAndTimes, Units
  <2>2. QED
    BY <2>1, TotalsExist
<1> DEFINE S == {k \in 0..N : h[k] = Xor(f[k], GFMul(c, g[k]))}
<1>4. 0 \in S
  <2>1. GFMul(c, Zero) = Zero /\ Xor(Zero, Zero) = Zero
    BY ProductWithUnits, XorLaws
  <2>2. QED
    BY <1>1, <1>2, <1>3, <2>1 DEF TotalsOf
<1>5. ASSUME NEW k \in 1..N, k - 1 \in S PROVE k \in S
  <2> DEFINE j == k - 1
  <2>1. /\ f[j] \in Byte /\ w[k] \in Byte /\ g[j] \in Byte /\ v[k] \in Byte /\ h[j] \in Byte /\ u[k] \in Byte
        /\ f[k] = IF k \in A THEN Plus[f[j]][w[k]] ELSE f[j]
        /\ g[k] = IF k \in A THEN Plus[g[j]][v[k]] ELSE g[j]
        /\ h[k] = IF k \in A THEN Plus[h[j]][u[k]] ELSE h[j]
    BY <1>1, <1>2, <1>3 DEF TotalsOf
  <2>2. h[j] = Xor(f[j], GFMul(c, g[j]))
    BY <1>5
  <2> HIDE DEF j
  <2>3. CASE k \in A
    <3>1. /\ f[k] = Xor(f[j], w[k]) /\ g[k] = Xor(g[j], v[k])
          /\ h[k] = Xor(Xor(f[j], GFMul(c, g[j])), Xor(w[k], GFMul(c, v[k])))
      BY <2>1, <2>2, <2>3, PlusAndTimes
    <3>2. GFMul(c, g[k]) = Xor(GFMul(c, g[j]), GFMul(c, v[k]))
      BY <2>1, <3>1, ProductAddsRight
    <3>3. Xor(Xor(f[j], GFMul(c, g[j])), Xor(w[k], GFMul(c, v[k]))) =
            Xor(Xor(f[j], w[k]), Xor(GFMul(c, g[j]), GFMul(c, v[k])))
      BY DEF Xor
    <3>4. QED
      BY <3>1, <3>2, <3>3
  <2>4. CASE k \notin A
    BY <2>1, <2>2, <2>4
  <2>5. QED
    BY <2>3, <2>4
<1> HIDE DEF S
<1>6. N \in S
  <2>1. \A n \in 0..N : n \in S
    BY <1>4, <1>5, GoesOn
  <2>2. QED
    BY <2>1
<1>7. QED
  BY <1>1, <1>2, <1>3, <1>6 DEF S, AddsUp

------------------------------------------------------------------------------
(***************************************************************************)
(* Lagrange.  LagrangeAt is a basis polynomial at Zero; leaving one point  *)
(* out divides it by a difference, so a sum with one more factor x comes   *)
(* down to sums over fewer points.  Hence the basis polynomials add up to  *)
(* One, weighted with powers of the points to Zero, and weighted with the  *)
(* values of a polynomial to its constant.                                 *)
(***************************************************************************)
\* Different points, none of them Zero.
Points(x, N) ==
  /\ x \in [1..N -> Byte]
  /\ \A k, l \in 1..N : x[k] # Zero /\ (k # l => x[k] # x[l])

\* Different bytes do not add up to Zero.
LEMMA SumIsZero == ASSUME NEW x \in Byte, NEW y \in Byte, Xor(x, y) = Zero PROVE x = y
BY DEF Xor, Zero

\* The distances of the k-th point from all.
Distances(x, k, N) == [j \in 1..N |-> Xor(x[k], x[j])]

\* The k-th basis polynomial of the points at A, at Zero.
LagrangeAt(x, A, k, N) ==
  GFMul(Total(Times, One, x, A \ {k}, N), GFInv(Total(Times, One, Distances(x, k, N), A \ {k}, N)))

\* Only the point itself has distance Zero.
LEMMA DistancesAre ==
  ASSUME NEW N \in Nat, NEW x, Points(x, N), NEW k \in 1..N
  PROVE  /\ Distances(x, k, N) \in [1..N -> Byte]
         /\ \A j \in 1..N : Distances(x, k, N)[j] = Xor(x[k], x[j])
         /\ \A j \in 1..N : j # k => Distances(x, k, N)[j] # Zero
<1>1. \A j \in 1..N : x[j] \in Byte
  BY DEF Points
<1>2. \A j \in 1..N : Xor(x[k], x[j]) \in Byte
  BY <1>1, XorIsAByte
<1>3. ASSUME NEW j \in 1..N, j # k PROVE Xor(x[k], x[j]) # Zero
  BY <1>1, <1>3, SumIsZero DEF Points
<1>4. QED
  BY <1>2, <1>3 DEF Distances

\* So there is something to invert.
LEMMA DenominatorIs ==
  ASSUME NEW N \in Nat, NEW x, Points(x, N), NEW k \in 1..N, NEW A \in SUBSET (1..N)
  PROVE  /\ Total(Times, One, Distances(x, k, N), A \ {k}, N) \in Byte
         /\ Total(Times, One, Distances(x, k, N), A \ {k}, N) # Zero
<1> DEFINE w == Distances(x, k, N)
           B == A \ {k}
<1>1. w \in [1..N -> Byte] /\ \A j \in 1..N : j \in B => w[j] # Zero
  BY DistancesAre
<1> HIDE DEF w, B
<1>2. Total(Times, One, w, B, N) # Zero
  BY <1>1, NoZeroTotal
<1>3. Total(Times, One, w, B, N) \in Byte
  BY <1>1, TotalAgrees, PlusAndTimes, Units
<1>4. QED
  BY <1>2, <1>3 DEF w, B

\* LagrangeAt is a byte.
LEMMA LagrangeIsAByte ==
  ASSUME NEW N \in Nat, NEW x, Points(x, N), NEW k \in 1..N, NEW A \in SUBSET (1..N)
  PROVE  LagrangeAt(x, A, k, N) \in Byte
<1> DEFINE B == A \ {k}
           p == Total(Times, One, x, B, N)
<1>1. p \in Byte
  <2> HIDE DEF B
  <2>1. x \in [1..N -> Byte]
    BY DEF Points
  <2>2. QED
    BY <2>1, TotalAgrees, PlusAndTimes, Units
<1> HIDE DEF p
<1>2. \A i : GFMul(p, i) \in Byte
  BY <1>1, ProductIsAByte
<1>3. QED
  BY <1>2 DEF LagrangeAt, p, B

\* Without the a-th point.
LEMMA LagrangeWithout ==
  ASSUME NEW N \in Nat, NEW x, Points(x, N), NEW A \in SUBSET (1..N), NEW a \in A, NEW k \in A \ {a}
  PROVE  GFMul(Xor(x[k], x[a]), LagrangeAt(x, A, k, N)) = GFMul(x[a], LagrangeAt(x, A \ {a}, k, N))
<1> DEFINE w == Distances(x, k, N)
           B == A \ {k}
           C == B \ {a}
           u == Xor(x[k], x[a])
           P == Total(Times, One, x, B, N)
           p == Total(Times, One, x, C, N)
           D == Total(Times, One, w, B, N)
           d == Total(Times, One, w, C, N)
<1>1. k \in 1..N /\ a \in 1..N /\ k # a /\ B \in SUBSET (1..N) /\ a \in B /\ (A \ {a}) \ {k} = C
  OBVIOUS
<1>2. x \in [1..N -> Byte] /\ x[a] \in Byte /\ x[k] \in Byte
  BY <1>1 DEF Points
<1>3. w \in [1..N -> Byte] /\ w[a] = u /\ u \in Byte /\ u # Zero
  BY <1>1, DistancesAre
<1>4. D \in Byte /\ D # Zero
  BY <1>1, DenominatorIs
<1>5. d \in Byte /\ d # Zero
  <2>1. Total(Times, One, w, (A \ {a}) \ {k}, N) \in Byte /\ Total(Times, One, w, (A \ {a}) \ {k}, N) # Zero
    BY <1>1, DenominatorIs
  <2>2. QED
    BY <1>1, <2>1
<1>6. LagrangeAt(x, A, k, N) = GFMul(P, GFInv(D)) /\ LagrangeAt(x, A \ {a}, k, N) = GFMul(p, GFInv(d))
  BY <1>1 DEF LagrangeAt
<1> HIDE DEF w, B, u
<1>7. P \in Byte /\ p \in Byte
  BY <1>2, TotalAgrees, PlusAndTimes, Units
<1>8. P = Times[x[a]][p] /\ D = Times[w[a]][d]
  <2>1. Regular(Times) /\ One \in Byte
    BY PlusAndTimes, Units
  <2>2. ASSUME NEW v \in [1..N -> Byte]
        PROVE  Total(Times, One, v, B, N) = Times[v[a]][Total(Times, One, v, B \ {a}, N)]
    <3> DEFINE op == Times
               e == One
    <3>1. Regular(op) /\ e \in Byte /\ B \in SUBSET (1..N) /\ a \in B
      BY <1>1, <2>1
    <3> HIDE DEF op, e
    <3>2. TakesOut(op, e, v, B, a, N)
      BY <3>1, TotalWithout
    <3>3. QED
      BY <3>2 DEF op, e, TakesOut
  <2>3. QED
    BY <1>2, <1>3, <2>2
<1>9. P = GFMul(x[a], p) /\ D = GFMul(u, d)
  <2>1. \A y, z \in Byte : Times[y][z] = GFMul(y, z)
    BY PlusAndTimes
  <2> HIDE DEF P, p, D, d
  <2>2. QED
    BY <1>2, <1>3, <1>5, <1>7, <1>8, <2>1
<1> DEFINE i == GFInv(D)
           j == GFInv(d)
<1> HIDE DEF P, p, D, d
<1>10. i \in Byte /\ j \in Byte /\ GFMul(u, i) = j
  <2>1. GFMul(u, GFInv(GFMul(u, d))) = GFInv(d)
    BY <1>3, <1>5, InverseOfProduct
  <2>2. QED
    BY <1>4, <1>5, <1>9, <2>1, InverseOfByte
<1> HIDE DEF i, j
<1>11. GFMul(u, GFMul(P, i)) = GFMul(GFMul(u, i), P)
  <2>1. GFMul(GFMul(u, P), i) = GFMul(GFMul(u, i), P)
    BY <1>3, <1>7, <1>10, Swapped
  <2>2. QED
    BY <1>3, <1>7, <1>10, <2>1, ProductAssociates
<1>12. GFMul(j, P) = GFMul(x[a], GFMul(p, j))
  <2>1. GFMul(j, P) = GFMul(P, j)
    BY <1>7, <1>10, ProductCommutes
  <2>2. QED
    BY <1>2, <1>7, <1>9, <1>10, <2>1, ProductAssociates
<1>13. QED
  BY <1>6, <1>10, <1>11, <1>12 DEF i, j, u

\* The sum of the basis polynomials of the points at A at Zero, each times its c.
Parts(x, A, c, N) == [k \in 1..N |-> GFMul(c[k], LagrangeAt(x, A, k, N))]

Weighted(x, A, c, N) == Total(Plus, Zero, Parts(x, A, c, N), A, N)

\* Parts and their sum are bytes.
LEMMA PartsAre ==
  ASSUME NEW N \in Nat, NEW x, NEW A, NEW c \in [1..N -> Byte]
  PROVE  /\ Parts(x, A, c, N) \in [1..N -> Byte]
         /\ \A k \in 1..N : Parts(x, A, c, N)[k] = GFMul(c[k], LagrangeAt(x, A, k, N))
         /\ Weighted(x, A, c, N) \in Byte
<1>1. \A y \in Byte : \A z : GFMul(y, z) \in Byte
  BY ProductIsAByte
<1>2. \A k \in 1..N : GFMul(c[k], LagrangeAt(x, A, k, N)) \in Byte
  BY <1>1
<1>3. /\ Parts(x, A, c, N) \in [1..N -> Byte]
      /\ \A k \in 1..N : Parts(x, A, c, N)[k] = GFMul(c[k], LagrangeAt(x, A, k, N))
  BY <1>2 DEF Parts
<1>4. Weighted(x, A, c, N) \in Byte
  BY <1>3, TotalAgrees, PlusAndTimes, Units DEF Weighted
<1>5. QED
  BY <1>3, <1>4

\* Sums take a factor in.
LEMMA SumsScale ==
  ASSUME NEW N \in Nat, NEW v \in [1..N -> Byte], NEW A, NEW c \in Byte,
         NEW u \in [1..N -> Byte], \A k \in 1..N : k \in A => u[k] = GFMul(c, v[k])
  PROVE  Total(Plus, Zero, u, A, N) = GFMul(c, Total(Plus, Zero, v, A, N))
<1> DEFINE z == [k \in 1..N |-> Zero]
           T(w) == Total(Plus, Zero, w, A, N)
<1>1. z \in [1..N -> Byte] /\ \A k \in 1..N : z[k] = Zero
  BY Units
<1> HIDE DEF z
<1>2. T(z) \in Byte /\ T(u) \in Byte /\ T(v) \in Byte
  BY <1>1, TotalAgrees, PlusAndTimes, Units
<1>3. T(z) = Zero
  <2>1. GFMul(One, Zero) = Zero /\ Xor(Zero, Zero) = Zero
    BY Units, ProductWithUnits, XorLaws
  <2>2. T(z) = Xor(T(z), GFMul(One, T(z)))
    <3> DEFINE one == One
    <3>1. one \in Byte /\ \A k \in 1..N : k \in A => z[k] = Xor(z[k], GFMul(one, z[k]))
      BY <1>1, <2>1, Units
    <3> HIDE DEF one
    <3>2. AddsUp(z, z, one, z, A, N)
      BY <1>1, <3>1, SumsAdd
    <3>3. QED
      BY <3>2 DEF AddsUp, one
  <2>3. GFMul(One, T(z)) = T(z) /\ Xor(T(z), T(z)) = Zero
    BY <1>2, OneLeft, XorLaws
  <2>4. QED
    BY <2>2, <2>3
<1>4. T(z) = Xor(T(u), GFMul(c, T(v)))
  <2>1. \A k \in 1..N : k \in A => z[k] = Xor(u[k], GFMul(c, v[k]))
    BY <1>1, XorLaws
  <2>2. AddsUp(z, u, c, v, A, N)
    BY <1>1, <2>1, SumsAdd
  <2>3. QED
    BY <2>2 DEF AddsUp
<1>5. GFMul(c, T(v)) \in Byte
  BY ProductIsAByte
<1>6. QED
  BY <1>2, <1>3, <1>4, <1>5, SumIsZero

TimesPoints(x, c, N) == [k \in 1..N |-> GFMul(c[k], x[k])]

\* Sums weighted with one factor x[k] more come down to sums over fewer points.
LEMMA WeightedWithout ==
  ASSUME NEW N \in Nat, NEW x, Points(x, N), NEW A \in SUBSET (1..N), NEW a \in A,
         NEW c \in [1..N -> Byte]
  PROVE  /\ TimesPoints(x, c, N) \in [1..N -> Byte]
         /\ Weighted(x, A, TimesPoints(x, c, N), N) =
              GFMul(x[a], Xor(Weighted(x, A, c, N), Weighted(x, A \ {a}, c, N)))
<1> DEFINE B == A \ {a}
           e == TimesPoints(x, c, N)
           u == Parts(x, A, e, N)
           w == Parts(x, A, c, N)
           v == Parts(x, B, c, N)
           z == [k \in 1..N |-> Xor(w[k], v[k])]
           T(f, S) == Total(Plus, Zero, f, S, N)
<1>1. a \in 1..N /\ \A k \in 1..N : x[k] \in Byte /\ c[k] \in Byte
  BY DEF Points
<1>2. e \in [1..N -> Byte] /\ \A k \in 1..N : e[k] = GFMul(c[k], x[k])
  <2>1. \A k \in 1..N : GFMul(c[k], x[k]) \in Byte
    BY <1>1, ProductIsAByte
  <2>2. QED
    BY <2>1 DEF TimesPoints
<1> HIDE DEF e
<1>3. /\ u \in [1..N -> Byte] /\ w \in [1..N -> Byte] /\ v \in [1..N -> Byte]
      /\ \A k \in 1..N : /\ u[k] = GFMul(e[k], LagrangeAt(x, A, k, N))
                         /\ w[k] = GFMul(c[k], LagrangeAt(x, A, k, N))
                         /\ v[k] = GFMul(c[k], LagrangeAt(x, B, k, N))
  BY <1>2, PartsAre
<1> HIDE DEF u, w, v
<1>4. z \in [1..N -> Byte] /\ \A k \in 1..N : z[k] = Xor(w[k], v[k])
  <2>1. \A k \in 1..N : Xor(w[k], v[k]) \in Byte
    BY <1>3, XorIsAByte
  <2>2. QED
    BY <2>1
<1> HIDE DEF z
<1>5. ASSUME NEW k \in 1..N, k \in B PROVE u[k] = GFMul(x[a], z[k])
  <2> DEFINE m == LagrangeAt(x, A, k, N)
             n == LagrangeAt(x, B, k, N)
             p == c[k]
             q == x[k]
             r == x[a]
  <2>1. GFMul(Xor(q, r), m) = GFMul(r, n)
    BY <1>5, LagrangeWithout
  <2>2. m \in Byte /\ n \in Byte /\ p \in Byte /\ q \in Byte /\ r \in Byte
    BY <1>1, LagrangeIsAByte
  <2>3. u[k] = GFMul(GFMul(p, q), m) /\ z[k] = Xor(GFMul(p, m), GFMul(p, n))
    BY <1>2, <1>3, <1>4
  <2> HIDE DEF m, n, p, q, r
  <2>4. GFMul(q, m) = GFMul(r, Xor(m, n))
    <3>1. Xor(GFMul(q, m), GFMul(r, m)) = GFMul(r, n)
      BY <2>1, <2>2, ProductAddsLeft
    <3>2. GFMul(r, Xor(m, n)) = Xor(GFMul(r, m), GFMul(r, n))
      BY <2>2, ProductAddsRight
    <3>3. \A s, t : Xor(t, Xor(s, t)) = s
      BY DEF Xor
    <3>4. QED
      BY <3>1, <3>2, <3>3
  <2>5. z[k] = GFMul(p, Xor(m, n))
    BY <2>2, <2>3, ProductAddsRight
  <2>6. Xor(m, n) \in Byte
    BY <2>2, XorIsAByte
  <2>7. GFMul(p, GFMul(r, Xor(m, n))) = GFMul(r, GFMul(p, Xor(m, n)))
    <3>1. GFMul(GFMul(p, r), Xor(m, n)) = GFMul(GFMul(r, p), Xor(m, n))
      BY <2>2, ProductCommutes
    <3>2. QED
      BY <2>2, <2>6, <3>1, ProductAssociates
  <2>8. GFMul(GFMul(p, q), m) = GFMul(p, GFMul(q, m))
    BY <2>2, ProductAssociates
  <2>9. u[k] = GFMul(r, z[k])
    BY <2>3, <2>4, <2>5, <2>7, <2>8
  <2>10. QED
    BY <2>9 DEF r
<1> HIDE DEF B
<1>6. /\ T(u, A) \in Byte /\ T(u, B) \in Byte /\ T(w, A) \in Byte /\ T(w, B) \in Byte
      /\ T(v, B) \in Byte /\ T(z, B) \in Byte
  BY <1>3, <1>4, TotalAgrees, PlusAndTimes, Units
<1>7. T(u, B) = GFMul(x[a], T(z, B))
  BY <1>1, <1>3, <1>4, <1>5, SumsScale
<1>8. T(z, B) = Xor(T(w, B), T(v, B))
  <2>1. \A k \in 1..N : k \in B => z[k] = Xor(w[k], GFMul(One, v[k]))
    BY <1>3, <1>4, OneLeft
  <2>2. T(z, B) = Xor(T(w, B), GFMul(One, T(v, B)))
    <3> DEFINE one == One
    <3>1. one \in Byte /\ w \in [1..N -> Byte] /\ v \in [1..N -> Byte] /\ z \in [1..N -> Byte]
      BY <1>3, <1>4, Units
    <3>2. \A k \in 1..N : k \in B => z[k] = Xor(w[k], GFMul(one, v[k]))
      BY <2>1
    <3> HIDE DEF one
    <3>3. AddsUp(z, w, one, v, B, N)
      BY <3>1, <3>2, SumsAdd
    <3>4. QED
      BY <3>3 DEF AddsUp, one
  <2>3. QED
    BY <1>6, <2>2, OneLeft
<1>9. \A f \in [1..N -> Byte] : T(f, A) = Xor(f[a], T(f, B))
  <2>1. ASSUME NEW f \in [1..N -> Byte] PROVE T(f, A) = Xor(f[a], T(f, B))
    <3>1. Regular(Plus) /\ Zero \in Byte
      BY PlusAndTimes, Units
    <3>2. TakesOut(Plus, Zero, f, A, a, N)
      BY <3>1, TotalWithout
    <3>3. T(f, A) = Plus[f[a]][T(f, B)]
      BY <3>2 DEF TakesOut, B
    <3>4. T(f, B) \in Byte /\ f[a] \in Byte
      BY <1>1, <3>1, TotalAgrees
    <3> HIDE DEF T
    <3>5. QED
      BY <3>3, <3>4, PlusAndTimes
  <2>2. QED
    BY <2>1
<1>10. u[a] = GFMul(x[a], w[a]) /\ w[a] \in Byte
  <2> DEFINE m == LagrangeAt(x, A, a, N)
  <2>1. m \in Byte
    BY <1>1, LagrangeIsAByte
  <2>2. u[a] = GFMul(GFMul(c[a], x[a]), m) /\ w[a] = GFMul(c[a], m) /\ w[a] \in Byte
    BY <1>1, <1>2, <1>3
  <2> HIDE DEF m
  <2>3. GFMul(GFMul(c[a], x[a]), m) = GFMul(x[a], GFMul(c[a], m))
    <3>1. GFMul(c[a], x[a]) = GFMul(x[a], c[a])
      BY <1>1, ProductCommutes
    <3>2. QED
      BY <1>1, <2>1, <3>1, ProductAssociates
  <2>4. QED
    BY <2>2, <2>3
<1>11. T(u, A) = GFMul(x[a], Xor(T(w, A), T(v, B)))
  <2>1. T(u, A) = Xor(u[a], T(u, B)) /\ T(w, A) = Xor(w[a], T(w, B))
    BY <1>3, <1>9
  <2> HIDE DEF T
  <2>2. T(u, A) = Xor(GFMul(x[a], w[a]), GFMul(x[a], Xor(T(w, B), T(v, B))))
    BY <1>7, <1>8, <1>10, <2>1
  <2>3. GFMul(x[a], Xor(w[a], Xor(T(w, B), T(v, B)))) = T(u, A)
    BY <1>1, <2>2, ProductAddsRight
  <2>4. Xor(w[a], Xor(T(w, B), T(v, B))) = Xor(T(w, A), T(v, B))
    BY <2>1, XorLaws
  <2>5. QED
    BY <2>3, <2>4
<1>12. QED
  BY <1>2, <1>11 DEF Weighted, u, w, v, e, B

Ones(N) == [k \in 1..N |-> One]

\* The basis polynomials of any points add up to One.
LEMMA BasisAddsUp ==
  ASSUME NEW N \in Nat, NEW x, Points(x, N)
  PROVE  \A A \in SUBSET (1..N) : A # {} => Weighted(x, A, Ones(N), N) = One
<1> DEFINE c == Ones(N)
           W(A) == Weighted(x, A, c, N)
           size(A) == Cardinality(A)
           S == {n \in 0..N : \A A \in SUBSET (1..N) : size(A) = n /\ A # {} => W(A) = One}
<1>1. c \in [1..N -> Byte] /\ \A k \in 1..N : c[k] = One
  BY Units DEF Ones
<1> HIDE DEF c
<1>2. \A A \in SUBSET (1..N) : IsFiniteSet(A) /\ size(A) \in 0..N /\ (size(A) = 0 <=> A = {})
  <2>1. IsFiniteSet(1..N) /\ Cardinality(1..N) = N
    BY FS_Interval
  <2>2. ASSUME NEW A \in SUBSET (1..N)
        PROVE  IsFiniteSet(A) /\ size(A) \in 0..N /\ (size(A) = 0 <=> A = {})
    <3>1. IsFiniteSet(A) /\ Cardinality(A) <= N
      BY <2>1, FS_Subset
    <3>2. Cardinality(A) \in Nat /\ (Cardinality(A) = 0 <=> A = {})
      BY <3>1, FS_CardinalityType, FS_EmptySet
    <3>3. QED
      BY <3>1, <3>2
  <2>3. QED
    BY <2>2
<1>3. \A A \in SUBSET (1..N) : \A a \in A : size(A \ {a}) = size(A) - 1
  BY <1>2, FS_RemoveElement
<1> HIDE DEF size
<1>4. \A A \in SUBSET (1..N) : W(A) \in Byte
  BY <1>1, PartsAre
<1> HIDE DEF W
<1>5. 0 \in S
  BY <1>2
<1>6. ASSUME NEW n \in 1..N, n - 1 \in S PROVE n \in S
  <2> SUFFICES ASSUME NEW A \in SUBSET (1..N), size(A) = n, A # {} PROVE W(A) = One
    OBVIOUS
  <2>1. PICK a \in A : TRUE
    OBVIOUS
  <2>2. \A b \in A : A \ {b} \in SUBSET (1..N) /\ size(A \ {b}) = n - 1
    BY <1>3
  <2>3. CASE A = {a}
    <3>1. W(A) = LagrangeAt(x, A, a, N)
      <4> DEFINE f == Parts(x, A, c, N)
                 op == Plus
                 z == Zero
      <4>1. f \in [1..N -> Byte] /\ f[a] = GFMul(c[a], LagrangeAt(x, A, a, N))
        BY <1>1, PartsAre
      <4>2. LagrangeAt(x, A, a, N) \in Byte
        BY LagrangeIsAByte
      <4> HIDE DEF f, op, z
      <4>3. Regular(op) /\ z \in Byte
        BY PlusAndTimes, Units DEF op, z
      <4>4. TakesOut(op, z, f, A, a, N)
        BY <4>1, <4>3, TotalWithout
      <4>5. Total(op, z, f, {}, N) = z
        BY <4>1, <4>3, TotalOfNone
      <4>6. A \ {a} = {}
        BY <2>3
      <4>7. Total(op, z, f, A, N) = op[f[a]][z]
        BY <4>4, <4>5, <4>6 DEF TakesOut
      <4>8. f[a] = LagrangeAt(x, A, a, N)
        BY <1>1, <4>1, <4>2, OneLeft
      <4>9. op[f[a]][z] = Xor(f[a], Zero)
        <5>1. f[a] \in Byte
          BY <4>1
        <5>2. QED
          BY <5>1, PlusAndTimes, Units DEF op, z
      <4>10. W(A) = Total(op, z, f, A, N)
        BY DEF W, Weighted, op, z, f
      <4>11. QED
        BY <4>7, <4>8, <4>9, <4>10, XorLaws
    <3>2. A \ {a} = {}
      BY <2>3
    <3>3. \A w \in [1..N -> Byte] : Total(Times, One, w, {}, N) = One
      BY TotalOfNone, PlusAndTimes, Units
    <3>4. x \in [1..N -> Byte] /\ Distances(x, a, N) \in [1..N -> Byte]
      BY DistancesAre DEF Points
    <3>5. LagrangeAt(x, A, a, N) = GFMul(One, GFInv(One))
      BY <3>2, <3>3, <3>4 DEF LagrangeAt
    <3>6. QED
      BY <3>1, <3>5, InverseOfOne, OneLeft, Units
  <2>4. CASE A # {a}
    <3>1. PICK b \in A : b # a
      BY <2>4
    <3>2. W(A \ {a}) = One /\ W(A \ {b}) = One
      <4>1. A \ {a} # {} /\ A \ {b} # {}
        BY <3>1
      <4>2. QED
        BY <1>6, <2>2, <4>1
    <3> DEFINE s == Xor(W(A), One)
               e == TimesPoints(x, c, N)
    <3>3. Weighted(x, A, e, N) = GFMul(x[a], s) /\ Weighted(x, A, e, N) = GFMul(x[b], s)
      <4>1. \A d \in A : Weighted(x, A, e, N) = GFMul(x[d], Xor(W(A), W(A \ {d})))
        BY <1>1, WeightedWithout, SMTT(30) DEF W
      <4>2. QED
        BY <3>2, <4>1
    <3>4. s \in Byte /\ x[a] \in Byte /\ x[b] \in Byte
      BY <1>4, XorIsAByte, Units DEF Points
    <3>5. x[a] # x[b]
      BY <3>1 DEF Points
    <3> HIDE DEF s, e
    <3>6. s = Zero
      <4>1. GFMul(s, x[a]) = GFMul(s, x[b])
        BY <3>3, <3>4, ProductCommutes
      <4>2. QED
        BY <3>4, <3>5, <4>1, Cancels
    <3>7. QED
      BY <1>4, <3>6, SumIsZero, Units DEF s
  <2>5. QED
    BY <2>3, <2>4
<1> HIDE DEF S
<1>7. \A n \in 0..N : n \in S
  BY <1>5, <1>6, GoesOn
<1>8. QED
  BY <1>2, <1>7 DEF S, W, c

\* The powers of the points, up to the D-th.
PowersOf(p, x, N, D) ==
  /\ p[0] = Ones(N)
  /\ \A d \in 1..D : p[d] = TimesPoints(x, p[d - 1], N)

\* Weighted with powers, less of them than there are points, they add up to Zero.
LEMMA PowersAddUp ==
  ASSUME NEW N \in Nat, NEW x, Points(x, N), NEW D \in Nat, NEW p, PowersOf(p, x, N, D)
  PROVE  \A d \in 0..D :
           /\ p[d] \in [1..N -> Byte]
           /\ \A A \in SUBSET (1..N) :
                d < Cardinality(A) => Weighted(x, A, p[d], N) = IF d = 0 THEN One ELSE Zero
<1> DEFINE size(A) == Cardinality(A)
           W(A, d) == Weighted(x, A, p[d], N)
           S == {d \in 0..D :
                   /\ p[d] \in [1..N -> Byte]
                   /\ \A A \in SUBSET (1..N) : d < size(A) => W(A, d) = IF d = 0 THEN One ELSE Zero}
<1>1. \A A \in SUBSET (1..N) : size(A) \in Nat /\ (A = {} => size(A) = 0)
  <2>1. IsFiniteSet(1..N)
    BY FS_Interval
  <2>2. \A A \in SUBSET (1..N) : IsFiniteSet(A)
    BY <2>1, FS_Subset
  <2>3. QED
    BY <2>2, FS_CardinalityType, FS_EmptySet
<1>2. \A A \in SUBSET (1..N) : \A a \in A : size(A \ {a}) = size(A) - 1
  <2>1. IsFiniteSet(1..N)
    BY FS_Interval
  <2>2. \A A \in SUBSET (1..N) : IsFiniteSet(A)
    BY <2>1, FS_Subset
  <2>3. QED
    BY <2>2, FS_RemoveElement
<1> HIDE DEF size
<1>3. 0 \in S
  <2>1. Ones(N) \in [1..N -> Byte]
    BY Units DEF Ones
  <2>2. \A A \in SUBSET (1..N) : 0 < size(A) => W(A, 0) = One
    <3>1. \A A \in SUBSET (1..N) : 0 < size(A) => A # {}
      BY <1>1
    <3>2. QED
      BY <3>1, BasisAddsUp DEF PowersOf
  <2> HIDE DEF W
  <2>3. QED
    BY <2>1, <2>2 DEF PowersOf
<1>4. ASSUME NEW d \in 1..D, d - 1 \in S PROVE d \in S
  <2> DEFINE e == d - 1
  <2>1. /\ p[e] \in [1..N -> Byte] /\ p[d] = TimesPoints(x, p[e], N) /\ d = e + 1 /\ e \in Nat
        /\ \A A \in SUBSET (1..N) : e < size(A) => W(A, e) = IF e = 0 THEN One ELSE Zero
    <3> HIDE DEF W
    <3>1. QED
      BY <1>4 DEF PowersOf
  <2> HIDE DEF e
  <2>2. p[d] \in [1..N -> Byte]
    <3>1. \A k \in 1..N : GFMul(p[e][k], x[k]) \in Byte
      BY <2>1, ProductIsAByte
    <3>2. QED
      BY <2>1, <3>1 DEF TimesPoints
  <2>3. ASSUME NEW A \in SUBSET (1..N), d < size(A) PROVE W(A, d) = Zero
    <3>1. A # {} /\ size(A) \in Nat
      BY <1>1, <2>1, <2>3
    <3>2. PICK a \in A : TRUE
      BY <3>1
    <3>3. A \ {a} \in SUBSET (1..N) /\ size(A \ {a}) = size(A) - 1
      BY <1>2
    <3>4. W(A, d) = GFMul(x[a], Xor(W(A, e), W(A \ {a}, e)))
      BY <2>1, WeightedWithout, SMTT(30)
    <3>5. e < size(A) /\ e < size(A \ {a})
      BY <2>1, <2>3, <3>1, <3>3
    <3> HIDE DEF W
    <3>6. W(A, e) = W(A \ {a}, e)
      BY <2>1, <3>3, <3>5
    <3>7. x[a] \in Byte
      BY DEF Points
    <3>8. QED
      BY <3>4, <3>6, <3>7, XorLaws, ProductWithUnits
  <2> HIDE DEF W
  <2>4. QED
    BY <2>1, <2>2, <2>3
<1> HIDE DEF S
<1>5. \A d \in 0..D : d \in S
  BY <1>3, <1>4, GoesOn
<1>6. QED
  BY <1>5 DEF S, W, size

------------------------------------------------------------------------------
(***************************************************************************)
(* The types of the ledgers, of the reputation and of the stakes.          *)
(***************************************************************************)
LEMMA TypesOfReputation == RepInv => RepTypeOK
<1> SUFFICES ASSUME RepInv PROVE RepTypeOK
  OBVIOUS
<1>1. repClock \in 0..MaxRepClock /\ MaxRepClock \in Nat /\ profile \in Profiles
  BY ReputationAssumption DEF RepInv
<1>2. profile.receipts \in Seq(0..repClock)
  BY <1>1 DEF Profiles
<1>3. 0..repClock \subseteq 0..MaxRepClock
  BY <1>1
<1>4. profile.receipts \in Seq(0..MaxRepClock)
  BY <1>2, <1>3, SeqMonotonic, Zenon
<1>5. QED
  BY <1>1, <1>4 DEF RepTypeOK, Profiles

\* The clock stays below its bound.
StakeClockFits == stakeClock \in 0..MaxStakeClock

LEMMA StakeClockPreserved == ASSUME StakeClockFits, [StakeNext]_stakeVars PROVE StakeClockFits'
<1>1. CASE StakeTick
  BY <1>1, StakeAssumption DEF StakeTick, StakeClockFits
<1>2. CASE UNCHANGED stakeClock
  BY <1>2 DEF StakeClockFits
<1>3. QED
  BY <1>1, <1>2, Zenon DEF StakeNext, stakeVars, Stake, ReleaseStake, Slash, ExpireStale

LEMMA TypesOfStakes == StakeInv /\ StakeClockFits => StakeTypeOK
<1> SUFFICES ASSUME StakeInv, StakeClockFits PROVE StakeTypeOK
  OBVIOUS
<1>1. DOMAIN chain = 1..Len(chain)
  BY SeqGrows DEF StakeInv
<1>2. \A n \in DOMAIN chain : chain[n].op \in {"lock", "release", "slash"}
  BY <1>1 DEF StakeInv, Ops
<1>3. ASSUME NEW id \in MsgIds
      PROVE  /\ stakes[id].status \in Statuses
             /\ Known(id) => stakes[id].amount \in Amounts /\ stakes[id].policy \in Policies
  BY DEF StakeInv, Records, NoStake, Statuses, Known
<1>4. QED
  BY <1>2, <1>3 DEF StakeTypeOK, StakeClockFits

\* What is pinned is an entry that was returned, as it was before it had an address.
Bare(e) == [e EXCEPT !.cid = Nowhere, !.tx = Nowhere]

LEMMA BareIs ==
  ASSUME NEW letter, NEW key, NEW sig, NEW c, NEW t, NEW r,
         r = [letter |-> letter, key |-> key, signature |-> sig, cid |-> c, tx |-> t]
  PROVE  /\ r.letter = letter /\ r.key = key
         /\ Bare(r) = [letter |-> letter, key |-> key, signature |-> sig, cid |-> Nowhere, tx |-> Nowhere]
<1>1. PICK q : q = [r EXCEPT !.cid = Nowhere]
  OBVIOUS
<1>2. q = [letter |-> letter, key |-> key, signature |-> sig, cid |-> Nowhere, tx |-> t]
  BY <1>1
<1>3. PICK b : b = [q EXCEPT !.tx = Nowhere]
  OBVIOUS
<1>4. b = [letter |-> letter, key |-> key, signature |-> sig, cid |-> Nowhere, tx |-> Nowhere]
  BY <1>2, <1>3
<1>5. Bare(r) = b
  BY <1>1, <1>3 DEF Bare
<1>6. QED
  BY <1>4, <1>5

LEMMA SealTypesPreserved == ASSUME SealInv, SealTypeOK, [SealNext]_sealVars PROVE SealTypeOK'
<1>1. ASSUME NEW letter \in Letters, NEW key \in SealKeys, Seal(letter, key) PROVE SealTypeOK'
  <2> DEFINE signature == <<key, [letter |-> letter, key |-> key]>>
             entry == [letter |-> letter, key |-> key, signature |-> signature, cid |-> Nowhere, tx |-> Nowhere]
             draft == Unsigned(letter, key)
             known(cid) == [entry EXCEPT !.cid = cid]
             anchored(cid) == [known(cid) EXCEPT !.tx = <<"tx", cid>>]
  <2>1. [draft EXCEPT !.signature = Signature(draft)] = entry
    BY DEF Unsigned, Signature, Signable
  <2>2. PICK cid \in {CID(entry), Unavailable} :
          /\ pinned' = IF cid = Unavailable THEN pinned ELSE pinned \cup {entry}
          /\ \/ sealed' = sealed \cup {known(cid)}
             \/ MayAnchor(known(cid)) /\ sealed' = sealed \cup {anchored(cid)}
    <3> HIDE DEF entry
    <3>1. QED
      BY <1>1, <2>1 DEF Seal
  <2>3. PICK e \in {known(cid), anchored(cid)} : sealed' = sealed \cup {e}
    <3> HIDE DEF known, anchored
    <3>1. QED
      BY <2>2
  <2>4. known(cid) = [letter |-> letter, key |-> key, signature |-> signature, cid |-> cid, tx |-> Nowhere]
    OBVIOUS
  <2>5. anchored(cid) = [letter |-> letter, key |-> key, signature |-> signature, cid |-> cid, tx |-> <<"tx", cid>>]
    <3> HIDE DEF known, signature
    <3>1. QED
      BY <2>4
  <2>6. e.letter = letter /\ e.key = key /\ Bare(e) = entry
    <3> HIDE DEF signature
    <3>1. \/ e = [letter |-> letter, key |-> key, signature |-> signature, cid |-> cid, tx |-> Nowhere]
          \/ e = [letter |-> letter, key |-> key, signature |-> signature, cid |-> cid, tx |-> <<"tx", cid>>]
      <4> HIDE DEF known, anchored
      <4>1. QED
        BY <2>3, <2>4, <2>5
    <3> HIDE DEF known, anchored
    <3>2. PICK t : e = [letter |-> letter, key |-> key, signature |-> signature, cid |-> cid, tx |-> t]
      BY <3>1, Zenon
    <3>3. QED
      BY <3>2, BareIs
  <2>7. entry.letter = letter /\ entry.key = key
    OBVIOUS
  <2> HIDE DEF entry, known, anchored
  <2>8. pinned \subseteq {Bare(x) : x \in sealed}
    BY Zenon DEF SealTypeOK, Bare
  <2>9. pinned' \subseteq {Bare(x) : x \in sealed'}
    <3> HIDE DEF draft
    <3>1. pinned' \subseteq pinned \cup {entry}
      BY <2>2
    <3>2. QED
      BY <2>3, <2>6, <2>8, <3>1
  <2>10. \A x \in sealed' \cup pinned' : x.letter \in Letters /\ x.key \in SealKeys
    BY <2>2, <2>3, <2>6, <2>7 DEF SealTypeOK
  <2>11. QED
    BY <2>9, <2>10, Zenon DEF SealTypeOK, Bare
<1>2. ASSUME NEW e \in sealed \cup pinned, NEW letter \in Letters, NEW key \in SealKeys,
             Show(e, letter, key)
      PROVE  SealTypeOK'
  <2>1. sealed' = sealed /\ pinned' = pinned
    BY <1>2, Zenon DEF Show
  <2>2. QED
    BY <2>1, Zenon DEF SealTypeOK
<1>3. CASE UNCHANGED sealVars
  <2>1. sealed' = sealed /\ pinned' = pinned
    BY <1>3, Zenon DEF sealVars
  <2>2. QED
    BY <2>1, Zenon DEF SealTypeOK
<1>4. QED
  BY <1>1, <1>2, <1>3, Zenon DEF SealNext

------------------------------------------------------------------------------
(***************************************************************************)
(* The types of the MCP server.                                            *)
(***************************************************************************)
SwitchesTyped ==
  /\ manager \in BOOLEAN /\ trouble \in 0..MaxTrouble
  /\ switches \in [SwitchIds -> {"none", "armed", "fired"}]
  /\ \A id \in SwitchIds : switches[id] # "none" => manager

ServerTyped ==
  /\ SwitchesTyped
  /\ written \in 0..MaxLines /\ closed \in BOOLEAN /\ cancelled \in BOOLEAN
  /\ \A n \in DOMAIN sent : sent[n].kind \in {"result", "failure", "error"}

\* The tools that leave the switches alone.
Quiet == SwitchesStay /\ (NoTrouble \/ Trouble)

LEMMA QuietTools ==
  ASSUME NEW args, NEW kind, CallTool(args, kind)
  PROVE  Quiet \/ ArmDeadman(args, kind) \/ CheckinDeadman(args, kind)
<1> USE DEF Ends, Queried, Quiet
<1>1. CASE ListInbox(args, kind) \/ GetMessage(args, kind) \/ SearchMessages(args, kind)
  BY <1>1, Zenon DEF ListInbox, GetMessage, SearchMessages
<1>2. CASE ListAccounts(args, kind) \/ GetStats(args, kind) \/ DaemonStatus(args, kind)
  BY <1>2, Zenon DEF ListAccounts, GetStats, DaemonStatus
<1>3. CASE RunMailScript(args, kind) \/ ListCommitments(args, kind) \/ AnalyzeSender(args, kind)
  BY <1>3, Zenon DEF RunMailScript, ListCommitments, AnalyzeSender
<1>4. CASE GetReputation(args, kind) \/ ListMarketplace(args, kind) \/ CreateGroupThread(args, kind)
  BY <1>4, Zenon DEF GetReputation, ListMarketplace, CreateGroupThread
<1>5. CASE DecryptGroupThread(args, kind) \/ StakeMessage(args, kind) \/ UnknownTool(args, kind)
  BY <1>5, Zenon DEF DecryptGroupThread, StakeMessage, UnknownTool
<1>6. QED
  BY <1>1, <1>2, <1>3, <1>4, <1>5, Zenon DEF CallTool

LEMMA TroubleTyped ==
  ASSUME trouble \in 0..MaxTrouble, NoTrouble \/ Trouble
  PROVE  trouble' \in 0..MaxTrouble
BY ToolServerAssumption DEF NoTrouble, Trouble

LEMMA ToolsTyped ==
  ASSUME SwitchesTyped, NEW args, NEW kind, CallTool(args, kind)
  PROVE  SwitchesTyped'
<1>1. CASE Quiet
  <2>1. manager' = manager /\ switches' = switches
    BY <1>1 DEF Quiet, SwitchesStay
  <2>2. trouble' \in 0..MaxTrouble
    BY <1>1, TroubleTyped DEF Quiet, SwitchesTyped
  <2>3. QED
    BY <2>1, <2>2 DEF SwitchesTyped
<1>2. CASE ArmDeadman(args, kind) /\ ~Quiet
  <2>1. trouble' \in 0..MaxTrouble
    <3>1. NoTrouble \/ Trouble
      BY <1>2, Zenon DEF ArmDeadman, Ends, Manager
    <3>2. QED
      BY <3>1, TroubleTyped DEF SwitchesTyped
  <2>2. \/ switches' = switches /\ manager' = manager
        \/ switches' = [switches EXCEPT ![args.id] = "armed"] /\ manager' = TRUE
    BY <1>2, Zenon DEF ArmDeadman, Ends, Manager, SwitchesStay
  <2>3. CASE switches' = switches /\ manager' = manager
    BY <2>1, <2>3 DEF SwitchesTyped
  <2>4. CASE switches' = [switches EXCEPT ![args.id] = "armed"] /\ manager' = TRUE
    BY <2>1, <2>4 DEF SwitchesTyped
  <2>5. QED
    BY <2>2, <2>3, <2>4
<1>3. CASE CheckinDeadman(args, kind)
  <2>1. trouble' \in 0..MaxTrouble
    <3>1. NoTrouble \/ Trouble
      BY <1>3, Zenon DEF CheckinDeadman, Manager
    <3>2. QED
      BY <3>1, TroubleTyped DEF SwitchesTyped
  <2>2. switches' = switches /\ (manager' = manager \/ manager' = TRUE)
    BY <1>3, Zenon DEF CheckinDeadman, Manager
  <2>3. QED
    BY <2>1, <2>2 DEF SwitchesTyped
<1>4. QED
  BY <1>1, <1>2, <1>3, QuietTools

LEMMA ServerTypedPreserved ==
  ASSUME ServerInv, ServerTyped, [ServerNext]_serverVars
  PROVE  ServerTyped'
<1>0. IsSeq(sent)
  BY DEF ServerInv
<1>1. ASSUME UNCHANGED <<manager, switches, trouble>> PROVE SwitchesTyped'
  BY <1>1 DEF ServerTyped, SwitchesTyped
<1>2. CASE CheckContext \/ ScanEOF \/ CloseInput \/ Signal \/ UNCHANGED serverVars
  <2>1. UNCHANGED <<written, sent, manager, switches, trouble>>
    BY <1>2 DEF CheckContext, ScanEOF, CloseInput, Signal, serverVars, HandsOff
  <2>2. closed' \in {closed, TRUE} /\ cancelled' \in {cancelled, TRUE}
    BY <1>2 DEF CheckContext, ScanEOF, CloseInput, Signal, serverVars, HandsOff
  <2>3. QED
    BY <1>1, <2>1, <2>2 DEF ServerTyped
<1>3. CASE Scan
  <2>1. UNCHANGED <<written, closed, cancelled, manager, switches, trouble>>
    BY <1>3 DEF Scan
  <2>2. sent' = sent \/ sent' = Append(sent, Answer(NoId, "error"))
    BY <1>3 DEF Scan, ReplyToGarbage, Send
  <2>3. \A n \in DOMAIN sent' : sent'[n].kind \in {"result", "failure", "error"}
    <3> DEFINE a == Answer(NoId, "error")
    <3>1. a.kind = "error"
      BY DEF Answer
    <3>2. sent' = sent \/ sent' = Append(sent, a)
      BY <2>2
    <3> HIDE DEF a
    <3>3. QED
      BY <1>0, <3>1, <3>2, SeqGrows DEF ServerTyped
  <2>4. QED
    BY <1>1, <2>1, <2>3 DEF ServerTyped
<1>4. ASSUME NEW kind \in Kinds, Dispatch(kind) PROVE ServerTyped'
  <2>1. UNCHANGED <<written, closed, cancelled>>
    BY <1>4 DEF Dispatch, HandsOff
  <2>2. SwitchesTyped'
    <3>1. CASE CallTool(line.args, kind)
      BY <3>1, ToolsTyped DEF ServerTyped
    <3>2. CASE NoTrouble /\ SwitchesStay
      BY <1>1, <3>2, Zenon DEF NoTrouble, SwitchesStay
    <3>3. QED
      BY <1>4, <3>1, <3>2, Zenon DEF Dispatch
  <2>3. \A n \in DOMAIN sent' : sent'[n].kind \in {"result", "failure", "error"}
    <3> DEFINE a == Answer(line.id, kind)
    <3>1. a.kind = kind
      BY DEF Answer
    <3>2. sent' = IF kind = "panic" THEN sent ELSE Append(sent, a)
      BY <1>4 DEF Dispatch, Send
    <3> HIDE DEF a
    <3>3. QED
      BY <1>0, <3>1, <3>2, SeqGrows DEF ServerTyped, Kinds
  <2>4. QED
    BY <2>1, <2>2, <2>3 DEF ServerTyped
<1>5. ASSUME NEW l \in Lines, WriteLine(l) PROVE ServerTyped'
  <2>1. UNCHANGED <<closed, cancelled, sent, manager, switches, trouble>>
    BY <1>5 DEF WriteLine
  <2>2. written' \in 0..MaxLines
    BY <1>5, ToolServerAssumption DEF WriteLine, ServerTyped
  <2>3. QED
    BY <1>1, <2>1, <2>2 DEF ServerTyped
<1>6. ASSUME NEW id \in SwitchIds, MonitorFires(id) PROVE ServerTyped'
  <2>1. UNCHANGED <<written, closed, cancelled, sent, manager, trouble>>
    BY <1>6 DEF MonitorFires
  <2>2. manager /\ switches' = [switches EXCEPT ![id] = "fired"]
    BY <1>6 DEF MonitorFires
  <2>3. SwitchesTyped'
    BY <2>1, <2>2 DEF ServerTyped, SwitchesTyped
  <2>4. QED
    BY <2>1, <2>3 DEF ServerTyped
<1>7. QED
  BY <1>2, <1>3, <1>4, <1>5, <1>6 DEF ServerNext, Kinds

LEMMA TypesOfServer == ServerInv /\ ServerTyped => ServerTypeOK
BY DEF ServerInv, ServerTyped, SwitchesTyped, ServerTypeOK

\* At the start everything has its type.
LEMMA TypedAtFirst ==
  ASSUME StakeInit, ServerInit, SealInit
  PROVE  StakeClockFits /\ ServerTyped /\ SealTypeOK
<1>1. StakeClockFits
  BY StakeAssumption DEF StakeInit, StakeClockFits
<1>2. ServerTyped
  <2>1. DOMAIN sent = {}
    BY DEF ServerInit
  <2>2. MaxTrouble \in Nat /\ MaxLines \in Nat
    BY ToolServerAssumption, Zenon
  <2>3. /\ written = 0 /\ closed = FALSE /\ cancelled = FALSE /\ manager = FALSE /\ trouble = 0
        /\ switches = [id \in SwitchIds |-> "none"]
    BY Zenon DEF ServerInit
  <2>4. trouble \in 0..MaxTrouble /\ written \in 0..MaxLines
    BY <2>2, <2>3
  <2>5. closed \in BOOLEAN /\ cancelled \in BOOLEAN /\ manager \in BOOLEAN
    BY <2>3
  <2>6. switches \in [SwitchIds -> {"none", "armed", "fired"}] /\ \A id \in SwitchIds : switches[id] = "none"
    BY <2>3
  <2>7. QED
    BY <2>1, <2>4, <2>5, <2>6, Zenon DEF ServerTyped, SwitchesTyped
<1>3. SealTypeOK
  BY DEF SealInit, SealTypeOK
<1>4. QED
  BY <1>1, <1>2, <1>3

------------------------------------------------------------------------------
(***************************************************************************)
(* Group threads: what Split, Combine and Decrypt give.                    *)
(***************************************************************************)

\* The terms of a polynomial, added up one after the other.
IsTerms(f, coefs, x) ==
  f = [k \in 0..Len(coefs) |->
         IF k = 0 THEN [y |-> Zero, power |-> One]
         ELSE [y |-> Xor(f[k - 1].y, GFMul(coefs[k], f[k - 1].power)),
               power |-> GFMul(f[k - 1].power, x)]]

Terms == [y : Byte, power : Byte]

TermsOf(f, coefs, x) ==
  /\ f[0].y = Zero /\ f[0].power = One
  /\ \A k \in 0..Len(coefs) : f[k].y \in Byte /\ f[k].power \in Byte
  /\ \A k \in 1..Len(coefs) : /\ f[k].y = Xor(f[k - 1].y, GFMul(coefs[k], f[k - 1].power))
                               /\ f[k].power = GFMul(f[k - 1].power, x)

\* What the terms of a value are.
LEMMA ValueIs ==
  ASSUME NEW coefs \in Seq(Byte), NEW x
  PROVE  \E f : TermsOf(f, coefs, x) /\ EvaluateAt(coefs, x) = f[Len(coefs)].y
<1> DEFINE N == Len(coefs)
           b == [y |-> Zero, power |-> One]
           onward(t, k) == [y |-> Xor(t.y, GFMul(coefs[k], t.power)), power |-> GFMul(t.power, x)]
           g == [k \in 1..N |-> [t \in Terms |-> onward(t, k)]]
<1>0. N \in Nat /\ \A k \in 1..N : coefs[k] \in Byte
  BY LenProperties, ElementOfSeq
<1>1. b \in Terms
  BY DEF Terms, Zero, One, Byte
<1> HIDE DEF N
<1>2. ASSUME NEW t \in Terms, NEW k \in 1..N PROVE onward(t, k) \in Terms
  <2>1. t.y \in Byte /\ t.power \in Byte /\ coefs[k] \in Byte
    BY <1>0 DEF Terms
  <2>2. GFMul(coefs[k], t.power) \in Byte /\ GFMul(t.power, x) \in Byte
    BY <2>1, ProductIsAByte
  <2>3. Xor(t.y, GFMul(coefs[k], t.power)) \in Byte
    BY <2>1, <2>2, XorIsAByte
  <2>4. QED
    BY <2>2, <2>3 DEF Terms
<1>3. \E f : IsTerms(f, coefs, x)
  <2>1. StepsOf(g, N, Terms) /\ \A k \in 1..N : \A t \in Terms : g[k][t] = onward(t, k)
    <3> HIDE DEF onward
    <3>1. g \in [1..N -> [Terms -> Terms]] /\ \A k \in 1..N : \A t \in Terms : g[k][t] = onward(t, k)
      BY <1>2
    <3> HIDE DEF g
    <3>2. QED
      BY <3>1, Zenon DEF StepsOf
  <2> HIDE DEF b, g
  <2>2. PICK f : RunsBy(f, N, Terms, b, g)
    BY <1>0, <1>1, <2>1, RecursionExists, Zenon
  <2>3. f \in [0..N -> Terms] /\ f[0] = b /\ \A k \in 1..N : f[k] = g[k][f[k - 1]]
    BY <2>2, Zenon DEF RunsBy
  <2>4. ASSUME NEW k \in 1..N PROVE f[k] = onward(f[k - 1], k)
    <3>1. k - 1 \in 0..N
      BY <1>0
    <3>2. f[k - 1] \in Terms
      BY <2>3, <3>1, Zenon
    <3> HIDE DEF onward
    <3>3. QED
      BY <2>1, <2>3, <3>2, Zenon
  <2>5. \A k \in 0..N : f[k] = IF k = 0 THEN b ELSE onward(f[k - 1], k)
    <3> HIDE DEF onward
    <3>1. QED
      BY <1>0, <2>3, <2>4
  <2>6. f = [k \in 0..N |-> IF k = 0 THEN b ELSE onward(f[k - 1], k)]
    <3> HIDE DEF onward
    <3>1. f = [k \in 0..N |-> f[k]]
      BY <2>3, Zenon
    <3>2. QED
      BY <2>5, <3>1
  <2>7. IsTerms(f, coefs, x)
    BY <2>6, Zenon DEF IsTerms, b, N
  <2>8. QED
    BY <2>7
<1> DEFINE f == CHOOSE f : IsTerms(f, coefs, x)
<1>4. EvaluateAt(coefs, x) = f[N].y
  BY DEF EvaluateAt, IsTerms, N
<1>5. IsTerms(f, coefs, x)
  BY <1>3
<1> HIDE DEF f, g
<1>6. /\ f[0] = b
      /\ \A k \in 1..N : f[k] = onward(f[k - 1], k)
  <2>1. f = [k \in 0..N |-> IF k = 0 THEN b ELSE onward(f[k - 1], k)]
    BY <1>5, Zenon DEF IsTerms, N
  <2> HIDE DEF b, onward
  <2>2. QED
    BY <1>0, <2>1
<1> HIDE DEF b, onward
<1>7. \A k \in 0..N : f[k] \in Terms
  <2>1. f[0] \in Terms /\ \A k \in 1..N : f[k - 1] \in Terms => f[k] \in Terms
    BY <1>1, <1>2, <1>6
  <2>2. QED
    BY <1>0, <2>1, StaysIn
<1>8. f[0].y = Zero /\ f[0].power = One
  BY <1>6 DEF b
<1>9. ASSUME NEW k \in 1..N
      PROVE  /\ f[k].y = Xor(f[k - 1].y, GFMul(coefs[k], f[k - 1].power))
             /\ f[k].power = GFMul(f[k - 1].power, x)
  <2> DEFINE t == f[k - 1]
  <2>1. f[k] = onward(t, k)
    BY <1>6
  <2> HIDE DEF t
  <2>2. f[k].y = Xor(t.y, GFMul(coefs[k], t.power)) /\ f[k].power = GFMul(t.power, x)
    BY <2>1 DEF onward
  <2>3. QED
    BY <2>2 DEF t
<1>10. \A k \in 0..N : f[k].y \in Byte /\ f[k].power \in Byte
  BY <1>7 DEF Terms
<1>11. TermsOf(f, coefs, x)
  BY <1>8, <1>9, <1>10, Zenon DEF TermsOf, N
<1>12. QED
  BY <1>4, <1>11 DEF N

\* The value of a polynomial with bytes as coefficients is a byte.
LEMMA ValueIsAByte == ASSUME NEW coefs \in Seq(Byte), NEW x PROVE EvaluateAt(coefs, x) \in Byte
<1>1. PICK f : TermsOf(f, coefs, x) /\ EvaluateAt(coefs, x) = f[Len(coefs)].y
  BY ValueIs
<1>2. Len(coefs) \in 0..Len(coefs)
  BY LenProperties
<1>3. f[Len(coefs)].y \in Byte
  BY <1>1, <1>2 DEF TermsOf
<1>4. QED
  BY <1>1, <1>3

\* The values of a polynomial at the points, weighted, are its first coefficient, when
\* there are as many points as coefficients.
LEMMA Interpolates ==
  ASSUME NEW N \in Nat, NEW x, Points(x, N), NEW A \in SUBSET (1..N),
         NEW coefs \in Seq(Byte), 1 <= Len(coefs), Len(coefs) <= Cardinality(A),
         NEW v \in [1..N -> Byte], \A k \in 1..N : v[k] = EvaluateAt(coefs, x[k])
  PROVE  Weighted(x, A, v, N) = coefs[1]
<1> DEFINE m == Len(coefs)
<1>1. m \in Nat /\ 1 <= m /\ \A d \in 1..m : coefs[d] \in Byte
  BY LenProperties, ElementOfSeq
<1>2. Cardinality(A) \in Nat /\ m <= Cardinality(A)
  <2>1. IsFiniteSet(1..N)
    BY FS_Interval
  <2>2. IsFiniteSet(A)
    BY <2>1, FS_Subset
  <2>3. QED
    BY <2>2, FS_CardinalityType
<1>3. PICK G : \A k \in 1..N : TermsOf(G[k], coefs, x[k]) /\ v[k] = G[k][m].y
  <2> DEFINE F(k) == CHOOSE f : TermsOf(f, coefs, x[k]) /\ EvaluateAt(coefs, x[k]) = f[m].y
             H == [k \in 1..N |-> F(k)]
  <2>1. ASSUME NEW k \in 1..N PROVE TermsOf(F(k), coefs, x[k]) /\ EvaluateAt(coefs, x[k]) = F(k)[m].y
    <3>1. \E f : TermsOf(f, coefs, x[k]) /\ EvaluateAt(coefs, x[k]) = f[m].y
      BY ValueIs
    <3>2. QED
      BY <3>1, Zenon
  <2>2. \A k \in 1..N : H[k] = F(k)
    OBVIOUS
  <2> HIDE DEF F, H
  <2>3. \A k \in 1..N : TermsOf(H[k], coefs, x[k]) /\ v[k] = H[k][m].y
    BY <2>1, <2>2
  <2>4. QED
    BY <2>3
<1> DEFINE p == [d \in 0..m |-> [k \in 1..N |-> G[k][d].power]]
           y == [d \in 0..m |-> [k \in 1..N |-> G[k][d].y]]
           W(c) == Weighted(x, A, c, N)
<1> HIDE DEF m
<1>4. ASSUME NEW k \in 1..N
      PROVE  /\ G[k][0].y = Zero /\ G[k][0].power = One
             /\ \A d \in 0..m : G[k][d].y \in Byte /\ G[k][d].power \in Byte
             /\ \A d \in 1..m : /\ G[k][d].y = Xor(G[k][d - 1].y, GFMul(coefs[d], G[k][d - 1].power))
                                /\ G[k][d].power = GFMul(G[k][d - 1].power, x[k])
  BY <1>3 DEF TermsOf, m
<1>p. \A d \in 0..m : p[d] = [k \in 1..N |-> G[k][d].power] /\ y[d] = [k \in 1..N |-> G[k][d].y]
  OBVIOUS
<1> HIDE DEF p, y
<1>q. \A d \in 0..m : \A k \in 1..N : p[d][k] = G[k][d].power /\ y[d][k] = G[k][d].y
  <2>1. ASSUME NEW d \in 0..m, NEW k \in 1..N PROVE p[d][k] = G[k][d].power /\ y[d][k] = G[k][d].y
    <3>1. p[d] = [j \in 1..N |-> G[j][d].power] /\ y[d] = [j \in 1..N |-> G[j][d].y]
      BY <1>p
    <3>2. p[d][k] = G[k][d].power
      BY <3>1, Zenon
    <3>3. y[d][k] = G[k][d].y
      BY <3>1, Zenon
    <3>4. QED
      BY <3>2, <3>3
  <2>2. QED
    BY <2>1
<1>5. \A d \in 0..m : y[d] \in [1..N -> Byte]
  <2>1. ASSUME NEW d \in 0..m PROVE y[d] \in [1..N -> Byte]
    <3>1. \A k \in 1..N : G[k][d].y \in Byte
      BY <1>4
    <3>2. y[d] = [k \in 1..N |-> G[k][d].y]
      BY <1>p
    <3>3. QED
      BY <3>1, <3>2
  <2>2. QED
    BY <2>1
<1>6. PowersOf(p, x, N, m)
  <2>1. p[0] = Ones(N)
    <3>1. 0 \in 0..m
      BY <1>1
    <3>2. p[0] = [k \in 1..N |-> G[k][0].power]
      BY <1>p, <3>1
    <3>3. \A k \in 1..N : G[k][0].power = One
      BY <1>4
    <3>4. QED
      BY <3>2, <3>3 DEF Ones
  <2>2. ASSUME NEW d \in 1..m PROVE p[d] = TimesPoints(x, p[d - 1], N)
    <3>1. d \in 0..m /\ d - 1 \in 0..m
      BY <1>1
    <3>2. \A k \in 1..N : G[k][d].power = GFMul(p[d - 1][k], x[k])
      <4>1. ASSUME NEW k \in 1..N PROVE G[k][d].power = GFMul(p[d - 1][k], x[k])
        <5>1. p[d - 1][k] = G[k][d - 1].power
          BY <1>q, <3>1
        <5>2. QED
          BY <1>4, <5>1
      <4>2. QED
        BY <4>1
    <3>3. p[d] = [k \in 1..N |-> G[k][d].power]
      BY <1>p, <3>1
    <3>4. QED
      BY <3>2, <3>3 DEF TimesPoints
  <2>3. QED
    BY <2>1, <2>2 DEF PowersOf
<1>7. \A d \in 0..m : p[d] \in [1..N -> Byte] /\ (d < Cardinality(A) => W(p[d]) = IF d = 0 THEN One ELSE Zero)
  BY <1>1, <1>6, PowersAddUp
<1> DEFINE S == {d \in 0..m : W(y[d]) = IF d = 0 THEN Zero ELSE coefs[1]}
<1>8. 0 \in S
  <2> DEFINE u == Parts(x, A, y[0], N)
             o == Ones(N)
  <2>1. y[0] \in [1..N -> Byte] /\ \A k \in 1..N : y[0][k] = Zero
    <3>1. 0 \in 0..m
      BY <1>1
    <3>2. \A k \in 1..N : y[0][k] = G[k][0].y
      BY <1>q, <3>1
    <3>3. QED
      BY <1>4, <1>5, <3>1, <3>2
  <2>2. /\ u \in [1..N -> Byte]
        /\ \A k \in 1..N : u[k] = GFMul(Zero, LagrangeAt(x, A, k, N))
    BY <2>1, PartsAre
  <2>3. o \in [1..N -> Byte]
    BY Units DEF Ones
  <2>4. \A k \in 1..N : LagrangeAt(x, A, k, N) \in Byte
    BY LagrangeIsAByte
  <2>5. W(y[0]) = Total(Plus, Zero, u, A, N)
    BY DEF Weighted
  <2> HIDE DEF u, o, W
  <2>6. \A k \in 1..N : u[k] = GFMul(Zero, o[k])
    BY <2>2, <2>3, <2>4, ProductWithUnits
  <2>7. Total(Plus, Zero, u, A, N) = GFMul(Zero, Total(Plus, Zero, o, A, N))
    BY <2>2, <2>3, <2>6, Units, SumsScale
  <2>8. Total(Plus, Zero, o, A, N) \in Byte
    BY <2>3, TotalAgrees, PlusAndTimes, Units
  <2>9. W(y[0]) = Zero
    BY <2>5, <2>7, <2>8, ProductWithUnits
  <2>10. QED
    BY <1>1, <2>9
<1>9. ASSUME NEW d \in 1..m, d - 1 \in S PROVE d \in S
  <2> DEFINE e == d - 1
             c == coefs[d]
             u == Parts(x, A, y[d], N)
             w == Parts(x, A, y[e], N)
             q == Parts(x, A, p[e], N)
  <2>1. d \in 0..m /\ e \in 0..m /\ e < m /\ c \in Byte
    BY <1>1
  <2>2. \A k \in 1..N : /\ y[d][k] = Xor(y[e][k], GFMul(c, p[e][k]))
                        /\ y[e][k] \in Byte /\ p[e][k] \in Byte
    <3>1. ASSUME NEW k \in 1..N
          PROVE  /\ y[d][k] = Xor(y[e][k], GFMul(c, p[e][k]))
                 /\ y[e][k] \in Byte /\ p[e][k] \in Byte
      <4>1. /\ p[e][k] = G[k][e].power /\ y[e][k] = G[k][e].y /\ y[d][k] = G[k][d].y
        BY <1>q, <2>1
      <4>2. G[k][d].y = Xor(G[k][e].y, GFMul(c, G[k][e].power)) /\ G[k][e].y \in Byte /\ G[k][e].power \in Byte
        BY <1>4, <2>1
      <4>3. QED
        BY <4>1, <4>2
    <3>2. QED
      BY <3>1
  <2>3. W(y[e]) = IF e = 0 THEN Zero ELSE coefs[1]
    BY <1>9
  <2>4. W(p[e]) = IF e = 0 THEN One ELSE Zero
    <3>1. e < Cardinality(A)
      BY <1>1, <1>2, <2>1
    <3> HIDE DEF e, W
    <3>2. QED
      BY <1>7, <2>1, <3>1
  <2>5. e = 0 => c = coefs[1]
    OBVIOUS
  <2> HIDE DEF e, c
  <2>6. /\ u \in [1..N -> Byte] /\ w \in [1..N -> Byte] /\ q \in [1..N -> Byte]
        /\ \A k \in 1..N : /\ u[k] = GFMul(y[d][k], LagrangeAt(x, A, k, N))
                           /\ w[k] = GFMul(y[e][k], LagrangeAt(x, A, k, N))
                           /\ q[k] = GFMul(p[e][k], LagrangeAt(x, A, k, N))
    <3>1. y[d] \in [1..N -> Byte] /\ y[e] \in [1..N -> Byte] /\ p[e] \in [1..N -> Byte]
      BY <1>5, <1>7, <2>1
    <3>2. QED
      BY <3>1, PartsAre
  <2>7. /\ W(y[d]) = Total(Plus, Zero, u, A, N) /\ W(y[e]) = Total(Plus, Zero, w, A, N)
        /\ W(p[e]) = Total(Plus, Zero, q, A, N)
    BY DEF Weighted
  <2> HIDE DEF u, w, q, W
  <2>8. ASSUME NEW k \in 1..N PROVE u[k] = Xor(w[k], GFMul(c, q[k]))
    <3> DEFINE b == LagrangeAt(x, A, k, N)
    <3>1. b \in Byte
      BY LagrangeIsAByte
    <3>2. /\ u[k] = GFMul(Xor(y[e][k], GFMul(c, p[e][k])), b)
          /\ w[k] = GFMul(y[e][k], b) /\ q[k] = GFMul(p[e][k], b)
      BY <2>2, <2>6
    <3> HIDE DEF b
    <3>3. GFMul(c, p[e][k]) \in Byte
      BY <2>1, ProductIsAByte
    <3>4. u[k] = Xor(GFMul(y[e][k], b), GFMul(GFMul(c, p[e][k]), b))
      BY <2>2, <3>1, <3>2, <3>3, ProductAddsLeft
    <3>5. GFMul(GFMul(c, p[e][k]), b) = GFMul(c, GFMul(p[e][k], b))
      BY <2>1, <2>2, <3>1, ProductAssociates
    <3>6. QED
      BY <3>2, <3>4, <3>5
  <2>9. Total(Plus, Zero, u, A, N) = Xor(Total(Plus, Zero, w, A, N), GFMul(c, Total(Plus, Zero, q, A, N)))
    <3>1. AddsUp(u, w, c, q, A, N)
      BY <2>1, <2>6, <2>8, SumsAdd
    <3>2. QED
      BY <3>1 DEF AddsUp
  <2>10. W(y[d]) = Xor(IF e = 0 THEN Zero ELSE coefs[1], GFMul(c, IF e = 0 THEN One ELSE Zero))
    BY <2>3, <2>4, <2>7, <2>9
  <2>11. W(y[d]) = coefs[1]
    <3>1. GFMul(c, One) = c /\ GFMul(c, Zero) = Zero
      BY <2>1, ProductWithUnits
    <3>2. QED
      BY <2>5, <2>10, <3>1, XorLaws
  <2>12. QED
    BY <2>1, <2>11
<1> HIDE DEF S
<1>10. m \in S
  <2>1. \A d \in 0..m : d \in S
    BY <1>1, <1>8, <1>9, GoesOn
  <2>2. QED
    BY <1>1, <2>1
<1>11. v = y[m]
  <2>1. m \in 0..m
    BY <1>1
  <2>2. y[m] \in [1..N -> Byte] /\ \A k \in 1..N : y[m][k] = v[k]
    BY <1>3, <1>5, <1>q, <2>1
  <2>3. QED
    BY <2>2
<1>12. QED
  BY <1>1, <1>10, <1>11 DEF S

\* A share carries one byte, or has been cut off.
IsShare(s) == s.value = <<>> \/ \E b \in Byte : s.value = <<b>>

LEMMA SharesAre ==
  ASSUME NEW key \in KeyBytes, NEW m \in Nat, NEW random \in [1..m -> Coefficients], NEW n,
         NEW s \in Split(key, random, n)
  PROVE  IsShare(s)
<1>1. key \in Byte /\ Coefficients \subseteq Byte
  BY GroupKeyAssumption
<1>2. <<key>> \in Seq(Byte)
  BY <1>1
<1>3. random \in Seq(Byte)
  <2>1. random \in Seq(Coefficients)
    BY SeqDef, Zenon
  <2>2. QED
    BY <1>1, <2>1, SeqMonotonic
<1>4. <<key>> \o random \in Seq(Byte)
  BY <1>2, <1>3, ConcatProperties
<1> DEFINE coefs == <<key>> \o random
<1>5. PICK i \in 1..n : s = [index |-> i, value |-> <<EvaluateAt(coefs, Bits(i))>>]
  BY DEF Split
<1> HIDE DEF coefs
<1>6. EvaluateAt(coefs, Bits(i)) \in Byte
  BY <1>4, ValueIsAByte DEF coefs
<1>7. s.value = <<EvaluateAt(coefs, Bits(i))>>
  BY <1>5
<1>8. QED
  BY <1>6, <1>7, Zenon DEF IsShare

\* The sum of the terms that the shares contribute.
IsSums(f, shares) ==
  f = [k \in 0..Len(shares) |->
         IF k = 0 THEN Zero
         ELSE Xor(f[k - 1], GFMul(shares[k].value[1], Basis(shares, k)))]

LEMMA SumIsAByte ==
  ASSUME NEW shares, Len(shares) \in Nat, \A k \in 1..Len(shares) : shares[k].value[1] \in Byte
  PROVE  /\ \E f : IsSums(f, shares)
         /\ \A f : IsSums(f, shares) => f[Len(shares)] \in Byte
<1> DEFINE N == Len(shares)
           w(k) == GFMul(shares[k].value[1], Basis(shares, k))
           g == [k \in 1..N |-> [y \in Byte |-> Xor(y, w(k))]]
<1>1. \A k \in 1..N : w(k) \in Byte
  <2>1. ASSUME NEW k \in 1..N PROVE w(k) \in Byte
    <3> DEFINE basis == Basis(shares, k)
    <3>1. shares[k].value[1] \in Byte
      OBVIOUS
    <3> HIDE DEF basis
    <3>2. GFMul(shares[k].value[1], basis) \in Byte
      BY <3>1, ProductIsAByte
    <3>3. QED
      BY <3>2 DEF basis
  <2> HIDE DEF w
  <2>2. QED
    BY <2>1
<1> HIDE DEF w
<1>2. \A k \in 1..N : \A y \in Byte : Xor(y, w(k)) \in Byte
  BY <1>1, XorIsAByte
<1>3. N \in Nat
  OBVIOUS
<1>4. Zero \in Byte
  BY DEF Zero, Byte
<1> HIDE DEF N
<1>5. \E f : IsSums(f, shares)
  <2>1. StepsOf(g, N, Byte) /\ \A k \in 1..N : \A y \in Byte : g[k][y] = Xor(y, w(k))
    <3>1. g \in [1..N -> [Byte -> Byte]] /\ \A k \in 1..N : \A y \in Byte : g[k][y] = Xor(y, w(k))
      BY <1>2
    <3> HIDE DEF g
    <3>2. QED
      BY <3>1, Zenon DEF StepsOf
  <2> HIDE DEF g
  <2>2. PICK f : RunsBy(f, N, Byte, Zero, g)
    BY <1>3, <1>4, <2>1, RecursionExists, Zenon
  <2>3. f \in [0..N -> Byte] /\ f[0] = Zero /\ \A k \in 1..N : f[k] = g[k][f[k - 1]]
    BY <2>2, Zenon DEF RunsBy
  <2>4. ASSUME NEW k \in 1..N PROVE f[k] = Xor(f[k - 1], w(k))
    <3>1. k - 1 \in 0..N
      BY <1>3
    <3>2. f[k - 1] \in Byte
      BY <2>3, <3>1, Zenon
    <3>3. QED
      BY <2>1, <2>3, <3>2, Zenon
  <2>5. \A k \in 0..N : f[k] = IF k = 0 THEN Zero ELSE Xor(f[k - 1], w(k))
    BY <1>3, <2>3, <2>4
  <2>6. f = [k \in 0..N |-> IF k = 0 THEN Zero ELSE Xor(f[k - 1], w(k))]
    <3>1. f = [k \in 0..N |-> f[k]]
      BY <2>3, Zenon
    <3>2. QED
      BY <2>5, <3>1
  <2>7. IsSums(f, shares)
    BY <2>6, Zenon DEF IsSums, N, w
  <2>8. QED
    BY <2>7
<1>6. ASSUME NEW f, IsSums(f, shares) PROVE f[N] \in Byte
  <2>1. f = [k \in 0..N |-> IF k = 0 THEN Zero ELSE Xor(f[k - 1], w(k))]
    BY <1>6, Zenon DEF IsSums, N, w
  <2>2. f[0] = Zero /\ \A k \in 1..N : f[k] = Xor(f[k - 1], w(k))
    <3>1. \A k \in 0..N : f[k] = IF k = 0 THEN Zero ELSE Xor(f[k - 1], w(k))
      BY <2>1, Zenon
    <3>2. 0 \in 0..N /\ \A k \in 1..N : k \in 0..N /\ k # 0
      BY <1>3
    <3>3. QED
      BY <3>1, <3>2, Zenon
  <2>3. f[0] \in Byte /\ \A k \in 1..N : f[k - 1] \in Byte => f[k] \in Byte
    BY <1>2, <1>4, <2>2
  <2>4. \A k \in 0..N : f[k] \in Byte
    BY <1>3, <2>3, StaysIn
  <2>5. QED
    BY <1>3, <2>4
<1>7. QED
  BY <1>5, <1>6 DEF N

\* The bits of a number.
NumberBits(s, n) ==
  /\ 0 \in s <=> n % 2 = 1
  /\ 1 \in s <=> (n \div 2) % 2 = 1
  /\ 2 \in s <=> (n \div 4) % 2 = 1
  /\ 3 \in s <=> (n \div 8) % 2 = 1
  /\ 4 \in s <=> (n \div 16) % 2 = 1
  /\ 5 \in s <=> (n \div 32) % 2 = 1
  /\ 6 \in s <=> (n \div 64) % 2 = 1
  /\ 7 \in s <=> (n \div 128) % 2 = 1

\* Bits is the byte of a number below 256.
LEMMA BitsAre == ASSUME NEW n \in 0..255 PROVE Bits(n) \in Byte /\ NumberBits(Bits(n), n)
<1>1. 2^0 = 1 /\ 2^1 = 2 /\ 2^2 = 4 /\ 2^3 = 8 /\ 2^4 = 16 /\ 2^5 = 32 /\ 2^6 = 64 /\ 2^7 = 128
  OBVIOUS
<1>2. \A k \in 0..7 : k \in Bits(n) <=> (n \div 2^k) % 2 = 1
  BY DEF Bits
<1>3. /\ 0 \in Bits(n) <=> (n \div 2^0) % 2 = 1
      /\ 1 \in Bits(n) <=> (n \div 2^1) % 2 = 1
      /\ 2 \in Bits(n) <=> (n \div 2^2) % 2 = 1
      /\ 3 \in Bits(n) <=> (n \div 2^3) % 2 = 1
      /\ 4 \in Bits(n) <=> (n \div 2^4) % 2 = 1
      /\ 5 \in Bits(n) <=> (n \div 2^5) % 2 = 1
      /\ 6 \in Bits(n) <=> (n \div 2^6) % 2 = 1
      /\ 7 \in Bits(n) <=> (n \div 2^7) % 2 = 1
  BY <1>2
<1>4. n \div 1 = n
  OBVIOUS
<1>5. Bits(n) \in Byte
  BY DEF Bits, Byte
<1>6. QED
  BY <1>1, <1>3, <1>4, <1>5 DEF NumberBits

\* Numbers are the same whose halves are and whose lowest bits are.
LEMMA HalvesApart ==
  ASSUME NEW a \in Nat, NEW b \in Nat, a \div 2 = b \div 2, a % 2 = 1 <=> b % 2 = 1
  PROVE  a = b
<1>1. (a % 2 = 0 \/ a % 2 = 1) /\ (b % 2 = 0 \/ b % 2 = 1)
  OBVIOUS
<1>2. a % 2 = b % 2
  BY <1>1
<1>3. QED
  BY <1>2

\* Numbers below 256 have different bits.
LEMMA BitsApart == ASSUME NEW n \in 0..255, NEW m \in 0..255, Bits(n) = Bits(m) PROVE n = m
<1> DEFINE s == Bits(n)
<1>1. NumberBits(s, n) /\ NumberBits(s, m)
  BY BitsAre
<1> HIDE DEF s
<1>2. ASSUME NEW a \in 0..255
      PROVE  /\ (a \div 128) \div 2 = 0 /\ (a \div 64) \div 2 = a \div 128
             /\ (a \div 32) \div 2 = a \div 64 /\ (a \div 16) \div 2 = a \div 32
             /\ (a \div 8) \div 2 = a \div 16 /\ (a \div 4) \div 2 = a \div 8
             /\ (a \div 2) \div 2 = a \div 4
             /\ a \div 2 \in Nat /\ a \div 4 \in Nat /\ a \div 8 \in Nat /\ a \div 16 \in Nat
             /\ a \div 32 \in Nat /\ a \div 64 \in Nat /\ a \div 128 \in Nat
  OBVIOUS
<1>3. n \div 128 = m \div 128
  <2>1. n \div 128 \in Nat /\ m \div 128 \in Nat /\ (n \div 128) \div 2 = (m \div 128) \div 2
    BY <1>2
  <2>2. (n \div 128) % 2 = 1 <=> (m \div 128) % 2 = 1
    BY <1>1 DEF NumberBits
  <2>3. QED
    BY <2>1, <2>2, HalvesApart
<1>4. n \div 64 = m \div 64
  <2>1. n \div 64 \in Nat /\ m \div 64 \in Nat /\ (n \div 64) \div 2 = (m \div 64) \div 2
    BY <1>2, <1>3
  <2>2. (n \div 64) % 2 = 1 <=> (m \div 64) % 2 = 1
    BY <1>1 DEF NumberBits
  <2>3. QED
    BY <2>1, <2>2, HalvesApart
<1>5. n \div 32 = m \div 32
  <2>1. n \div 32 \in Nat /\ m \div 32 \in Nat /\ (n \div 32) \div 2 = (m \div 32) \div 2
    BY <1>2, <1>4
  <2>2. (n \div 32) % 2 = 1 <=> (m \div 32) % 2 = 1
    BY <1>1 DEF NumberBits
  <2>3. QED
    BY <2>1, <2>2, HalvesApart
<1>6. n \div 16 = m \div 16
  <2>1. n \div 16 \in Nat /\ m \div 16 \in Nat /\ (n \div 16) \div 2 = (m \div 16) \div 2
    BY <1>2, <1>5
  <2>2. (n \div 16) % 2 = 1 <=> (m \div 16) % 2 = 1
    BY <1>1 DEF NumberBits
  <2>3. QED
    BY <2>1, <2>2, HalvesApart
<1>7. n \div 8 = m \div 8
  <2>1. n \div 8 \in Nat /\ m \div 8 \in Nat /\ (n \div 8) \div 2 = (m \div 8) \div 2
    BY <1>2, <1>6
  <2>2. (n \div 8) % 2 = 1 <=> (m \div 8) % 2 = 1
    BY <1>1 DEF NumberBits
  <2>3. QED
    BY <2>1, <2>2, HalvesApart
<1>8. n \div 4 = m \div 4
  <2>1. n \div 4 \in Nat /\ m \div 4 \in Nat /\ (n \div 4) \div 2 = (m \div 4) \div 2
    BY <1>2, <1>7
  <2>2. (n \div 4) % 2 = 1 <=> (m \div 4) % 2 = 1
    BY <1>1 DEF NumberBits
  <2>3. QED
    BY <2>1, <2>2, HalvesApart
<1>9. n \div 2 = m \div 2
  <2>1. n \div 2 \in Nat /\ m \div 2 \in Nat /\ (n \div 2) \div 2 = (m \div 2) \div 2
    BY <1>2, <1>8
  <2>2. (n \div 2) % 2 = 1 <=> (m \div 2) % 2 = 1
    BY <1>1 DEF NumberBits
  <2>3. QED
    BY <2>1, <2>2, HalvesApart
<1>10. QED
  <2>1. n \in Nat /\ m \in Nat /\ n \div 2 = m \div 2
    BY <1>2, <1>9
  <2>2. n % 2 = 1 <=> m % 2 = 1
    BY <1>1 DEF NumberBits
  <2>3. QED
    BY <2>1, <2>2, HalvesApart

\* No index has the bits of Zero.
LEMMA NoZeroIndex == ASSUME NEW n \in 1..255 PROVE Bits(n) # Zero
<1>1. NumberBits(Zero, 0)
  BY DEF NumberBits, Zero
<1>2. Bits(0) = Zero
  <2>1. 0 \in 0..255 /\ Zero \in Byte
    BY Units
  <2>2. NumberBits(Bits(0), 0) /\ Bits(0) \in Byte
    BY <2>1, BitsAre
  <2>3. /\ 0 \in Bits(0) <=> 0 \in Zero
        /\ 1 \in Bits(0) <=> 1 \in Zero
        /\ 2 \in Bits(0) <=> 2 \in Zero
        /\ 3 \in Bits(0) <=> 3 \in Zero
        /\ 4 \in Bits(0) <=> 4 \in Zero
        /\ 5 \in Bits(0) <=> 5 \in Zero
        /\ 6 \in Bits(0) <=> 6 \in Zero
        /\ 7 \in Bits(0) <=> 7 \in Zero
    BY <1>1, <2>2 DEF NumberBits
  <2>4. \A b \in 0..7 : b \in Bits(0) <=> b \in Zero
    BY <2>3
  <2>5. QED
    BY <2>1, <2>2, <2>4, BytesEqual
<1>3. n \in 0..255 /\ 0 \in 0..255 /\ n # 0
  OBVIOUS
<1>4. QED
  BY <1>2, <1>3, BitsApart

\* Such totals end in Total.
LEMMA TotalUnique ==
  ASSUME NEW op, Regular(op), NEW e \in Byte, NEW N \in Nat, NEW w \in [1..N -> Byte], NEW A,
         NEW f, TotalsOf(f, op, e, w, A, N)
  PROVE  f[N] = Total(op, e, w, A, N)
<1>1. PICK g : TotalsOf(g, op, e, w, A, N) /\ g[N] = Total(op, e, w, A, N)
  BY TotalsExist
<1>2. f[N] = g[N]
  BY <1>1, TotalIs
<1>3. QED
  BY <1>1, <1>2

\* The numerators and denominators of a basis polynomial.
IsFractions(f, x, i, N) ==
  f = [k \in 0..N |->
         IF k = 0 THEN [num |-> One, den |-> One]
         ELSE IF k = i THEN f[k - 1]
         ELSE [num |-> GFMul(f[k - 1].num, x[k]), den |-> GFMul(f[k - 1].den, Xor(x[i], x[k]))]]

Fractions == [num : Byte, den : Byte]

FractionsOf(f, x, i, N) ==
  /\ f[0].num = One /\ f[0].den = One
  /\ \A k \in 0..N : f[k].num \in Byte /\ f[k].den \in Byte
  /\ \A k \in 1..N :
       /\ f[k].num = IF k = i THEN f[k - 1].num ELSE GFMul(f[k - 1].num, x[k])
       /\ f[k].den = IF k = i THEN f[k - 1].den ELSE GFMul(f[k - 1].den, Xor(x[i], x[k]))

\* What the rounds of Basis are.
LEMMA FractionsAre ==
  ASSUME NEW N \in Nat, NEW x \in [1..N -> Byte], NEW i
  PROVE  /\ \E f : IsFractions(f, x, i, N)
         /\ \A f : IsFractions(f, x, i, N) => FractionsOf(f, x, i, N)
<1> DEFINE b == [num |-> One, den |-> One]
           onward(r, k) == IF k = i THEN r
                           ELSE [num |-> GFMul(r.num, x[k]), den |-> GFMul(r.den, Xor(x[i], x[k]))]
           g == [k \in 1..N |-> [r \in Fractions |-> onward(r, k)]]
<1>1. b \in Fractions
  BY Units DEF Fractions
<1>2. ASSUME NEW r \in Fractions, NEW k PROVE onward(r, k) \in Fractions
  <2>1. r.num \in Byte /\ r.den \in Byte
    BY DEF Fractions
  <2>2. GFMul(r.num, x[k]) \in Byte /\ GFMul(r.den, Xor(x[i], x[k])) \in Byte
    BY <2>1, ProductIsAByte
  <2>3. QED
    BY <2>1, <2>2 DEF Fractions
<1>3. \E f : IsFractions(f, x, i, N)
  <2>1. StepsOf(g, N, Fractions) /\ \A k \in 1..N : \A r \in Fractions : g[k][r] = onward(r, k)
    <3> HIDE DEF onward
    <3>1. g \in [1..N -> [Fractions -> Fractions]] /\ \A k \in 1..N : \A r \in Fractions : g[k][r] = onward(r, k)
      BY <1>2
    <3> HIDE DEF g
    <3>2. QED
      BY <3>1, Zenon DEF StepsOf
  <2> HIDE DEF b, g
  <2>2. PICK f : RunsBy(f, N, Fractions, b, g)
    BY <1>1, <2>1, RecursionExists, Zenon
  <2>3. f \in [0..N -> Fractions] /\ f[0] = b /\ \A k \in 1..N : f[k] = g[k][f[k - 1]]
    BY <2>2, Zenon DEF RunsBy
  <2>4. ASSUME NEW k \in 1..N PROVE f[k] = onward(f[k - 1], k)
    <3>1. k - 1 \in 0..N
      OBVIOUS
    <3>2. f[k - 1] \in Fractions
      BY <2>3, <3>1, Zenon
    <3> HIDE DEF onward
    <3>3. QED
      BY <2>1, <2>3, <3>2, Zenon
  <2>5. \A k \in 0..N : f[k] = IF k = 0 THEN b ELSE onward(f[k - 1], k)
    <3> HIDE DEF onward
    <3>1. QED
      BY <2>3, <2>4
  <2>6. f = [k \in 0..N |-> IF k = 0 THEN b ELSE onward(f[k - 1], k)]
    <3> HIDE DEF onward
    <3>1. f = [k \in 0..N |-> f[k]]
      BY <2>3, Zenon
    <3>2. QED
      BY <2>5, <3>1
  <2>7. IsFractions(f, x, i, N)
    BY <2>6, Zenon DEF IsFractions, b
  <2>8. QED
    BY <2>7
<1>4. ASSUME NEW f, IsFractions(f, x, i, N)
      PROVE  FractionsOf(f, x, i, N)
  <2>1. f = [k \in 0..N |-> IF k = 0 THEN b ELSE onward(f[k - 1], k)]
    BY <1>4, Zenon DEF IsFractions
  <2> HIDE DEF b, onward, g
  <2>2. f[0] = b /\ \A k \in 1..N : f[k] = onward(f[k - 1], k)
    BY <2>1
  <2>3. \A k \in 0..N : f[k] \in Fractions
    <3>1. \A k \in 1..N : f[k - 1] \in Fractions => f[k] \in Fractions
      BY <1>2, <2>2
    <3>2. QED
      BY <1>1, <2>2, <3>1, StaysIn
  <2>4. ASSUME NEW k \in 1..N
        PROVE  /\ f[k].num = IF k = i THEN f[k - 1].num ELSE GFMul(f[k - 1].num, x[k])
               /\ f[k].den = IF k = i THEN f[k - 1].den ELSE GFMul(f[k - 1].den, Xor(x[i], x[k]))
    <3> DEFINE r == f[k - 1]
    <3>1. f[k] = onward(r, k)
      BY <2>2
    <3> HIDE DEF r
    <3>2. /\ f[k].num = IF k = i THEN r.num ELSE GFMul(r.num, x[k])
          /\ f[k].den = IF k = i THEN r.den ELSE GFMul(r.den, Xor(x[i], x[k]))
      BY <3>1 DEF onward
    <3>3. QED
      BY <3>2 DEF r
  <2>5. \A k \in 0..N : f[k].num \in Byte /\ f[k].den \in Byte
    BY <2>3 DEF Fractions
  <2>6. f[0].num = One /\ f[0].den = One
    BY <2>2 DEF b
  <2>7. QED
    BY <2>4, <2>5, <2>6 DEF FractionsOf
<1>5. QED
  BY <1>3, <1>4

\* Their end is the basis polynomial at Zero.
LEMMA FractionsGive ==
  ASSUME NEW N \in Nat, NEW x, Points(x, N), NEW i \in 1..N, NEW f, FractionsOf(f, x, i, N)
  PROVE  GFMul(f[N].num, GFInv(f[N].den)) = LagrangeAt(x, 1..N, i, N)
<1> DEFINE A == (1..N) \ {i}
           w == Distances(x, i, N)
           num == [k \in 0..N |-> f[k].num]
           den == [k \in 0..N |-> f[k].den]
<1>1. x \in [1..N -> Byte] /\ \A k \in 1..N : x[k] \in Byte
  BY DEF Points
<1>2. w \in [1..N -> Byte] /\ \A k \in 1..N : w[k] = Xor(x[i], x[k])
  BY DistancesAre
<1> HIDE DEF w
<1>3. /\ \A k \in 0..N : num[k] = f[k].num
      /\ \A k \in 0..N : den[k] = f[k].den
  OBVIOUS
<1> HIDE DEF num, den
<1>4. /\ num[0] = One /\ den[0] = One
      /\ \A k \in 0..N : num[k] \in Byte /\ den[k] \in Byte
  <2>1. 0 \in 0..N
    OBVIOUS
  <2>2. QED
    BY <1>3, <2>1 DEF FractionsOf
<1>5. ASSUME NEW k \in 1..N
      PROVE  /\ num[k] = IF k \in A THEN Times[num[k - 1]][x[k]] ELSE num[k - 1]
             /\ den[k] = IF k \in A THEN Times[den[k - 1]][w[k]] ELSE den[k - 1]
  <2>1. k \in 0..N /\ k - 1 \in 0..N /\ (k \in A <=> k # i)
    OBVIOUS
  <2> HIDE DEF A
  <2>2. /\ num[k] = IF k = i THEN num[k - 1] ELSE GFMul(num[k - 1], x[k])
        /\ den[k] = IF k = i THEN den[k - 1] ELSE GFMul(den[k - 1], w[k])
    BY <1>2, <1>3, <2>1 DEF FractionsOf
  <2>3. \A y, z \in Byte : Times[y][z] = GFMul(y, z)
    BY PlusAndTimes
  <2>4. num[k - 1] \in Byte /\ den[k - 1] \in Byte /\ x[k] \in Byte /\ w[k] \in Byte
    BY <1>1, <1>2, <1>4, <2>1
  <2>5. QED
    BY <2>1, <2>2, <2>3, <2>4
<1> HIDE DEF A
<1>6. TotalsOf(num, Times, One, x, A, N) /\ TotalsOf(den, Times, One, w, A, N)
  BY <1>4, <1>5 DEF TotalsOf
<1>7. num[N] = Total(Times, One, x, A, N) /\ den[N] = Total(Times, One, w, A, N)
  <2>1. Regular(Times) /\ One \in Byte
    BY PlusAndTimes, Units
  <2>2. QED
    BY <1>1, <1>2, <1>6, <2>1, TotalUnique
<1>8. f[N].num = num[N] /\ f[N].den = den[N]
  BY <1>3
<1>9. QED
  BY <1>7, <1>8 DEF LagrangeAt, w, A

\* What Basis finds is the basis polynomial at Zero.
LEMMA BasisIs ==
  ASSUME NEW N \in Nat, NEW shares, Len(shares) = N, NEW x, Points(x, N), NEW i \in 1..N,
         x = [k \in DOMAIN shares |-> Bits(shares[k].index)]
  PROVE  Basis(shares, i) = LagrangeAt(x, 1..N, i, N)
<1> DEFINE f == CHOOSE f : IsFractions(f, x, i, N)
<1>1. Basis(shares, i) = GFMul(f[N].num, GFInv(f[N].den))
  BY DEF Basis, IsFractions
<1>2. x \in [1..N -> Byte]
  BY Zenon DEF Points
<1>3. FractionsOf(f, x, i, N)
  <2>1. \E h : IsFractions(h, x, i, N)
    BY <1>2, FractionsAre, Zenon
  <2>2. IsFractions(f, x, i, N)
    BY <2>1, Zenon
  <2> HIDE DEF f
  <2>3. QED
    BY <1>2, <2>2, FractionsAre, Zenon
<1> HIDE DEF f
<1>4. QED
  BY <1>1, <1>3, FractionsGive, Zenon

\* What is found from shares is a key of one byte, or of none.
IsFound(r) == r \in {Failed, Panic, Secret(<<>>)} \/ \E b \in Byte : r = Secret(<<b>>)

LEMMA CombineIs ==
  ASSUME NEW shares, IsSeq(shares), \A k \in DOMAIN shares : IsShare(shares[k])
  PROVE  IsFound(Combine(shares))
<1>1. Len(shares) \in Nat /\ DOMAIN shares = 1..Len(shares)
  BY SeqGrows
<1> DEFINE short == \E k \in DOMAIN shares : Len(shares[k].value) < Len(shares[1].value)
           sum == CHOOSE f : IsSums(f, shares)
<1>2. Combine(shares)
      = IF Len(shares) < 2 THEN Failed
        ELSE IF short THEN Panic
        ELSE IF shares[1].value = <<>> THEN Secret(<<>>) ELSE Secret(<<sum[Len(shares)]>>)
  BY DEF Combine, IsSums
<1>3. CASE Len(shares) < 2 \/ short \/ shares[1].value = <<>>
  <2> HIDE DEF short, sum
  <2>1. Combine(shares) \in {Failed, Panic, Secret(<<>>)}
    BY <1>2, <1>3
  <2>2. QED
    BY <2>1, Zenon DEF IsFound
<1>4. CASE ~(Len(shares) < 2 \/ short \/ shares[1].value = <<>>)
  <2>1. 1 \in DOMAIN shares /\ ~(Len(shares) < 2) /\ ~short /\ shares[1].value # <<>>
    BY <1>1, <1>4
  <2>2. \A b : Len(<<b>>) = 1 /\ <<b>>[1] = b
    OBVIOUS
  <2>3. Len(<<>>) = 0
    BY EmptySeq
  <2>4. Len(shares[1].value) = 1
    BY <2>1, <2>2 DEF IsShare
  <2>5. ASSUME NEW k \in 1..Len(shares) PROVE shares[k].value[1] \in Byte
    <3>1. IsShare(shares[k]) /\ ~(Len(shares[k].value) < 1)
      BY <1>1, <2>1, <2>4
    <3>2. shares[k].value # <<>>
      BY <2>3, <3>1
    <3>3. PICK b \in Byte : shares[k].value = <<b>>
      BY <3>1, <3>2, Zenon DEF IsShare
    <3>4. QED
      BY <2>2, <3>3
  <2>6. (\E f : IsSums(f, shares)) /\ \A f : IsSums(f, shares) => f[Len(shares)] \in Byte
    BY <1>1, <2>5, SumIsAByte, Zenon
  <2>7. sum[Len(shares)] \in Byte
    BY <2>6, Zenon
  <2> HIDE DEF sum, short
  <2>8. Combine(shares) = Secret(<<sum[Len(shares)]>>)
    BY <1>2, <2>1, Zenon
  <2>9. QED
    BY <2>7, <2>8, Zenon DEF IsFound
<1>5. QED
  BY <1>3, <1>4

\* Decrypt gives the body of the thread, or what Combine has failed with.
LEMMA DecryptIs ==
  ASSUME NEW shares, IsSeq(shares), \A k \in DOMAIN shares : IsShare(shares[k]),
         NEW thread, NEW threshold
  PROVE  DecryptResult(thread, threshold, shares) \in {Failed, Panic, Body(thread)}
<1> DEFINE key == Combine(shares)
<1>1. IsFound(key)
  BY CombineIs
<1>2. DecryptResult(thread, threshold, shares)
      = IF Len(shares) < threshold THEN Failed
        ELSE IF key.is # "key" THEN key
        ELSE IF key.bytes # <<thread.key>> THEN Failed
        ELSE Body(thread)
  BY DEF DecryptResult
<1> HIDE DEF key
<1>3. key.is # "key" => key \in {Failed, Panic}
  BY <1>1 DEF IsFound, Secret
<1>4. QED
  BY <1>2, <1>3

\* A share of a thread carries a byte, what somebody has collected are shares, and an
\* answer is about a thread that there is.
GroupInv ==
  /\ IsSeq(threads) /\ IsSeq(hand) /\ Len(hand) <= MaxHand
  /\ \A t \in DOMAIN threads :
       /\ threads[t].key \in KeyBytes /\ threads[t].m >= 2
       /\ \A s \in threads[t].shares : IsShare(s)
  /\ \A k \in DOMAIN hand : IsShare(hand[k])
  /\ answer.of \in 0..Len(threads) /\ IsResult(answer.got)

LEMMA FoundIsResult == ASSUME NEW r, IsFound(r) PROVE IsResult(r)
<1>1. CASE r \in {Failed, Panic, Secret(<<>>)}
  BY <1>1, Zenon DEF IsResult
<1>2. CASE \E b \in Byte : r = Secret(<<b>>)
  <2>1. PICK b \in Byte : r = Secret(<<b>>)
    BY <1>2
  <2>2. r.is = "key" /\ r.bytes = <<b>>
    BY <2>1 DEF Secret
  <2>3. r.bytes[1] = b
    BY <2>2
  <2>4. QED
    BY <2>1, <2>2, <2>3, Zenon DEF IsResult
<1>3. QED
  BY <1>1, <1>2, Zenon DEF IsFound

LEMMA BodyIsResult == ASSUME NEW t \in DOMAIN threads PROVE IsResult(Body(threads[t]))
<1>1. Body(threads[t]).is = "body"
  BY DEF Body
<1>2. QED
  BY <1>1, Zenon DEF IsResult

LEMMA GroupInitial == GroupInit => GroupInv
<1> SUFFICES ASSUME GroupInit PROVE GroupInv
  OBVIOUS
<1>1. threads = <<>> /\ hand = <<>> /\ answer = [of |-> 0, got |-> Failed]
  BY Zenon DEF GroupInit, NoAnswer
<1>2. IsSeq(<<>>) /\ Len(<<>>) = 0 /\ DOMAIN <<>> = {}
  BY EmptySeq DEF IsSeq
<1>3. IsFound(Failed)
  BY Zenon DEF IsFound
<1>4. answer.of = 0 /\ answer.got = Failed
  BY <1>1
<1>5. IsResult(answer.got)
  BY <1>3, <1>4, FoundIsResult
<1>6. MaxHand \in Nat
  BY GroupKeyAssumption
<1>7. QED
  BY <1>1, <1>2, <1>4, <1>5, <1>6 DEF GroupInv

\* A thread more is a thread to answer about more.
LEMMA NewThreadKeeps ==
  ASSUME GroupInv, NEW n, NEW m \in Nat, NewGroupThread(n, m)
  PROVE  GroupInv'
<1>1. ~SplitRefuses(n, m) /\ hand' = hand /\ answer' = answer
  BY DEF NewGroupThread
<1>2. PICK key \in KeyBytes : \E random \in [1..(m - 1) -> Coefficients] :
        threads' = Append(threads, MakeThread(key, random, n, m))
  BY DEF NewGroupThread
<1>3. PICK random \in [1..(m - 1) -> Coefficients] :
        threads' = Append(threads, MakeThread(key, random, n, m))
  BY <1>2
<1>4. m >= 2 /\ m - 1 \in Nat
  BY <1>1 DEF SplitRefuses
<1> DEFINE thread == MakeThread(key, random, n, m)
<1>5. thread.key = key /\ thread.m = m /\ thread.shares = Split(key, random, n)
  BY DEF MakeThread
<1>6. \A s \in thread.shares : IsShare(s)
  BY <1>4, <1>5, SharesAre
<1> HIDE DEF thread
<1>7. threads' = Append(threads, thread)
  BY <1>3 DEF thread
<1>8. /\ Len(threads) \in Nat /\ DOMAIN threads = 1..Len(threads)
      /\ IsSeq(threads') /\ Len(threads') = Len(threads) + 1
      /\ DOMAIN threads' = 1..(Len(threads) + 1)
      /\ \A t \in DOMAIN threads : threads'[t] = threads[t]
      /\ threads'[Len(threads) + 1] = thread
  BY <1>7, SeqGrows DEF GroupInv
<1>9. ASSUME NEW t \in DOMAIN threads'
      PROVE  /\ threads'[t].key \in KeyBytes /\ threads'[t].m >= 2
             /\ \A s \in threads'[t].shares : IsShare(s)
  <2>1. t \in DOMAIN threads \/ t = Len(threads) + 1
    BY <1>8
  <2>2. QED
    BY <1>4, <1>5, <1>6, <1>8, <2>1 DEF GroupInv
<1>10. IsResult(answer.got)'
  <2>1. \A t \in DOMAIN threads : t \in DOMAIN threads' /\ threads'[t] = threads[t]
    BY <1>8
  <2>2. IsResult(answer.got)
    BY DEF GroupInv
  <2>3. QED
    BY <1>1, <2>1, <2>2, Zenon DEF IsResult
<1>11. answer'.of \in 0..Len(threads')
  BY <1>1, <1>8 DEF GroupInv
<1>12. QED
  BY <1>1, <1>8, <1>9, <1>10, <1>11 DEF GroupInv

\* An answer about a thread, or none.
LEMMA AnswersKeep ==
  ASSUME GroupInv, UNCHANGED <<threads, hand>>, NEW t \in 0..Len(threads), NEW r, IsResult(r),
         answer' = [of |-> t, got |-> r]
  PROVE  GroupInv'
<1>1. answer'.of = t /\ answer'.got = r
  OBVIOUS
<1>2. IsResult(answer.got)'
  BY <1>1, Zenon DEF IsResult
<1>3. answer'.of \in 0..Len(threads')
  BY <1>1
<1>4. QED
  BY <1>2, <1>3 DEF GroupInv

LEMMA DeliveredAre == ASSUME GroupInv, NEW share \in Delivered PROVE IsShare(share)
<1>1. CASE \E t \in DOMAIN threads : share \in threads[t].shares
  BY <1>1 DEF GroupInv
<1>2. CASE share \in {EmptyShare, [index |-> 1, value |-> <<>>]}
  <2>1. share.value = <<>>
    BY <1>2 DEF EmptyShare
  <2>2. QED
    BY <2>1, Zenon DEF IsShare
<1>3. \/ \E S \in {threads[t].shares : t \in DOMAIN threads} : share \in S
      \/ share \in {EmptyShare, [index |-> 1, value |-> <<>>]}
  BY DEF Delivered
<1>4. QED
  BY <1>1, <1>2, <1>3, Zenon

LEMMA SubmitKeeps == ASSUME GroupInv, NEW share \in Delivered, SubmitShare(share) PROVE GroupInv'
<1>1. /\ Len(hand) < MaxHand /\ hand' = Append(hand, share)
      /\ answer' = [of |-> 0, got |-> Failed] /\ threads' = threads
  BY Zenon DEF SubmitShare, NoAnswer
<1>2. /\ Len(hand) \in Nat /\ DOMAIN hand = 1..Len(hand)
      /\ IsSeq(hand') /\ Len(hand') = Len(hand) + 1
      /\ DOMAIN hand' = 1..(Len(hand) + 1)
      /\ \A k \in DOMAIN hand : hand'[k] = hand[k]
      /\ hand'[Len(hand) + 1] = share
  BY <1>1, SeqGrows DEF GroupInv
<1>3. ASSUME NEW k \in DOMAIN hand' PROVE IsShare(hand'[k])
  <2>1. k \in DOMAIN hand \/ k = Len(hand) + 1
    BY <1>2
  <2>2. QED
    BY <1>2, <2>1, DeliveredAre DEF GroupInv
<1>4. answer'.of = 0 /\ answer'.got = Failed
  BY <1>1
<1>5. IsResult(answer.got)'
  BY <1>4, Zenon DEF IsResult
<1>6. Len(threads) \in Nat /\ MaxHand \in Nat
  BY GroupKeyAssumption, SeqGrows DEF GroupInv
<1>7. Len(hand') <= MaxHand /\ answer'.of \in 0..Len(threads')
  BY <1>1, <1>2, <1>4, <1>6
<1>8. QED
  BY <1>1, <1>2, <1>3, <1>5, <1>7 DEF GroupInv

LEMMA GroupPreserved == ASSUME GroupInv, [GroupNext]_groupVars PROVE GroupInv'
<1>1. ASSUME NEW g \in Groups, NewGroupThread(g[1], g[2]) PROVE GroupInv'
  <2>1. g[2] \in Nat
    BY GroupKeyAssumption
  <2>2. QED
    BY <1>1, <2>1, NewThreadKeeps
<1>2. ASSUME NEW share \in Delivered, SubmitShare(share) PROVE GroupInv'
  BY <1>2, SubmitKeeps
<1>3. ASSUME NEW t \in DOMAIN threads, Decrypt(t) \/ \E threshold \in Thresholds : Reconstruct(t, threshold)
      PROVE  GroupInv'
  <2> DEFINE d == DecryptResult(threads[t], threads[t].m, hand)
             c == Combine(hand)
  <2>1. /\ UNCHANGED <<threads, hand>>
        /\ answer' \in {[of |-> t, got |-> d], [of |-> t, got |-> c], [of |-> 0, got |-> Failed]}
    BY <1>3, Zenon DEF Decrypt, Reconstruct, NoAnswer
  <2>2. IsSeq(hand) /\ \A k \in DOMAIN hand : IsShare(hand[k])
    BY DEF GroupInv
  <2>3. IsResult(d)
    <3>1. d \in {Failed, Panic, Body(threads[t])}
      BY <2>2, DecryptIs
    <3>2. QED
      BY <3>1, FoundIsResult, BodyIsResult, Zenon DEF IsFound
  <2>4. IsResult(c)
    <3>1. IsFound(Combine(hand))
      BY <2>2, CombineIs, Zenon DEF IsFound
    <3>2. QED
      BY <3>1, FoundIsResult
  <2>5. t \in 0..Len(threads)
    BY SeqGrows DEF GroupInv
  <2> HIDE DEF d, c
  <2>6. 0 \in 0..Len(threads) /\ IsResult(Failed)
    BY <2>5, FoundIsResult, SeqGrows DEF GroupInv, IsFound
  <2>7. CASE answer' = [of |-> t, got |-> d]
    BY <2>1, <2>3, <2>5, <2>7, AnswersKeep
  <2>8. CASE answer' = [of |-> t, got |-> c]
    BY <2>1, <2>4, <2>5, <2>8, AnswersKeep
  <2>9. CASE answer' = [of |-> 0, got |-> Failed]
    BY <2>1, <2>6, <2>9, AnswersKeep
  <2>10. QED
    BY <2>1, <2>7, <2>8, <2>9
<1>4. CASE UNCHANGED groupVars
  <2>1. UNCHANGED <<threads, hand>> /\ answer' = answer
    BY <1>4, Zenon DEF groupVars
  <2>2. IsResult(answer.got)'
    BY <2>1, Zenon DEF GroupInv, IsResult
  <2>3. QED
    BY <2>1, <2>2 DEF GroupInv
<1>5. QED
  BY <1>1, <1>2, <1>3, <1>4, Zenon DEF GroupNext

\* The share with an index of a polynomial.
ShareAt(coefs, i) == [index |-> i, value |-> <<EvaluateAt(coefs, Bits(i))>>]

\* The shares of the thread are of one polynomial with as many coefficients as shares are
\* needed, the key being its constant.
IsShared(thread) ==
  \E coefs \in Seq(Byte), n \in 0..255 :
    /\ Len(coefs) = thread.m /\ coefs[1] = thread.key
    /\ \A s \in thread.shares : \E i \in 1..n : s = ShareAt(coefs, i)

\* NewGroupThread makes such threads.
LEMMA ThreadIsShared ==
  ASSUME NEW key \in KeyBytes, NEW m \in Nat, m >= 2, NEW random \in [1..(m - 1) -> Coefficients],
         NEW n \in 0..255
  PROVE  IsShared(MakeThread(key, random, n, m))
<1> DEFINE coefs == <<key>> \o random
           thread == MakeThread(key, random, n, m)
<1>1. key \in Byte /\ Coefficients \subseteq Byte
  BY GroupKeyAssumption
<1>2. <<key>> \in Seq(Byte) /\ Len(<<key>>) = 1 /\ <<key>>[1] = key
  BY <1>1
<1>3. random \in Seq(Byte) /\ Len(random) = m - 1
  <2> DEFINE q == m - 1
  <2>1. q \in Nat /\ random \in [1..q -> Coefficients]
    OBVIOUS
  <2> HIDE DEF q
  <2>2. random \in Seq(Coefficients)
    BY <2>1
  <2>3. random \in Seq(Byte)
    BY <1>1, <2>2, SeqMonotonic
  <2>4. Len(random) = q
    BY <2>1
  <2>5. QED
    BY <2>3, <2>4 DEF q
<1>4. coefs \in Seq(Byte) /\ Len(coefs) = m /\ coefs[1] = key
  <2> DEFINE k == <<key>>
  <2>1. k \in Seq(Byte) /\ Len(k) = 1 /\ k[1] = key
    BY <1>2
  <2> HIDE DEF k
  <2>2. k \o random \in Seq(Byte) /\ Len(k \o random) = m
    <3>1. k \o random \in Seq(Byte) /\ Len(k \o random) = Len(k) + Len(random)
      BY <1>3, <2>1, ConcatProperties
    <3>2. QED
      BY <1>3, <2>1, <3>1
  <2>3. (k \o random)[1] = key
    BY <1>3, <2>1, ConcatProperties
  <2>4. QED
    BY <2>2, <2>3 DEF k
<1>5. thread.m = m /\ thread.key = key /\ thread.shares = {ShareAt(coefs, i) : i \in 1..n}
  BY DEF MakeThread, Split, ShareAt
<1> HIDE DEF coefs, thread
<1>6. IsShared(thread)
  BY <1>4, <1>5 DEF IsShared
<1>7. QED
  BY <1>6 DEF thread

\* As many different shares of a thread as its threshold says, or more, give its key.
LEMMA CombineGivesKey ==
  ASSUME NEW thread, IsShared(thread), thread.m >= 2,
         NEW shares, IsSeq(shares), Len(shares) >= thread.m,
         \A k \in DOMAIN shares : shares[k] \in thread.shares,
         \A k, l \in DOMAIN shares : k # l => shares[k] # shares[l]
  PROVE  Combine(shares) = Secret(<<thread.key>>)
<1> DEFINE N == Len(shares)
           x == [k \in DOMAIN shares |-> Bits(shares[k].index)]
           v == [k \in 1..N |-> shares[k].value[1]]
<1>1. N \in Nat /\ DOMAIN shares = 1..N
  BY SeqGrows
<1>2. PICK coefs \in Seq(Byte), n \in 0..255 :
        /\ Len(coefs) = thread.m /\ coefs[1] = thread.key
        /\ \A s \in thread.shares : \E i \in 1..n : s = ShareAt(coefs, i)
  BY DEF IsShared
<1>3. Len(coefs) \in Nat /\ 2 <= Len(coefs) /\ Len(coefs) <= N
  BY <1>2, LenProperties
<1>4. ASSUME NEW k \in 1..N
      PROVE  \E i \in 1..n : /\ shares[k] = ShareAt(coefs, i)
                             /\ shares[k].index = i
                             /\ shares[k].value = <<EvaluateAt(coefs, Bits(i))>>
  <2>1. PICK i \in 1..n : shares[k] = ShareAt(coefs, i)
    BY <1>1, <1>2
  <2>2. shares[k].index = i /\ shares[k].value = <<EvaluateAt(coefs, Bits(i))>>
    BY <2>1 DEF ShareAt
  <2>3. QED
    BY <2>1, <2>2
<1>5. \A k \in 1..N : shares[k].index \in 1..255
  <2>1. ASSUME NEW k \in 1..N PROVE shares[k].index \in 1..255
    <3>1. PICK i \in 1..n : shares[k].index = i
      BY <1>4
    <3>2. i \in 1..255
      OBVIOUS
    <3>3. QED
      BY <3>1, <3>2
  <2>2. QED
    BY <2>1
<1>6. \A k \in 1..N : /\ shares[k].value = <<EvaluateAt(coefs, Bits(shares[k].index))>>
                      /\ shares[k] = ShareAt(coefs, shares[k].index)
  BY <1>4, Zenon
<1> HIDE DEF N
<1>7. x = [k \in 1..N |-> Bits(shares[k].index)]
  BY <1>1
<1> HIDE DEF x
<1>8. Points(x, N)
  <2>1. ASSUME NEW k \in 1..N PROVE x[k] \in Byte /\ x[k] # Zero
    <3>1. x[k] = Bits(shares[k].index)
      BY <1>7
    <3>2. shares[k].index \in 0..255 /\ shares[k].index \in 1..255
      BY <1>5
    <3>3. QED
      BY <3>1, <3>2, BitsAre, NoZeroIndex
  <2>2. ASSUME NEW k \in 1..N, NEW l \in 1..N, x[k] = x[l] PROVE k = l
    <3> DEFINE i == shares[k].index
               j == shares[l].index
    <3>1. Bits(i) = Bits(j)
      BY <1>7, <2>2
    <3>2. i \in 0..255 /\ j \in 0..255
      <4>1. i \in 1..255 /\ j \in 1..255
        BY <1>5
      <4> HIDE DEF i, j
      <4>2. QED
        BY <4>1
    <3>3. shares[k] = ShareAt(coefs, i) /\ shares[l] = ShareAt(coefs, j)
      BY <1>6
    <3> HIDE DEF i, j
    <3>4. i = j
      BY <3>1, <3>2, BitsApart
    <3>5. QED
      BY <1>1, <3>3, <3>4
  <2>3. x \in [1..N -> Byte]
    BY <1>7, <2>1
  <2>4. QED
    BY <2>1, <2>2, <2>3 DEF Points
<1>9. \A k \in 1..N : x[k] = Bits(shares[k].index)
  BY <1>7
<1>10. ASSUME NEW k \in 1..N
       PROVE  /\ Len(shares[k].value) = 1 /\ shares[k].value # <<>>
              /\ v[k] = shares[k].value[1] /\ v[k] = EvaluateAt(coefs, x[k]) /\ v[k] \in Byte
  <2> DEFINE b == EvaluateAt(coefs, x[k])
  <2>1. shares[k].value = <<b>>
    BY <1>6, <1>9
  <2>2. b \in Byte
    BY ValueIsAByte
  <2> HIDE DEF b
  <2>3. Len(shares[k].value) = 1 /\ shares[k].value # <<>> /\ shares[k].value[1] = b
    BY <2>1
  <2>4. v[k] = shares[k].value[1]
    OBVIOUS
  <2>5. QED
    BY <2>2, <2>3, <2>4 DEF b
<1>11. v \in [1..N -> Byte]
  BY <1>10
<1> HIDE DEF v
<1>12. Weighted(x, 1..N, v, N) = coefs[1]
  <2>1. Cardinality(1..N) = N
    BY <1>1, FS_Interval
  <2>2. 1 <= Len(coefs) /\ Len(coefs) <= Cardinality(1..N)
    BY <1>1, <1>3, <2>1
  <2>3. \A k \in 1..N : v[k] = EvaluateAt(coefs, x[k])
    BY <1>10
  <2>4. 1..N \in SUBSET (1..N)
    OBVIOUS
  <2>5. QED
    BY <1>1, <1>8, <1>11, <2>2, <2>3, <2>4, Interpolates
<1>13. \A f : IsSums(f, shares) => f[N] = coefs[1]
  <2> SUFFICES ASSUME NEW f, IsSums(f, shares) PROVE f[N] = coefs[1]
    OBVIOUS
  <2> DEFINE w == Parts(x, 1..N, v, N)
  <2>1. /\ w \in [1..N -> Byte]
        /\ \A k \in 1..N : w[k] = GFMul(v[k], LagrangeAt(x, 1..N, k, N))
    BY <1>1, <1>11, PartsAre
  <2> HIDE DEF w
  <2>2. ASSUME NEW k \in 1..N PROVE w[k] = GFMul(shares[k].value[1], Basis(shares, k))
    <3>1. Basis(shares, k) = LagrangeAt(x, 1..N, k, N)
      <4>1. x = [i \in DOMAIN shares |-> Bits(shares[i].index)] /\ Len(shares) = N
        BY DEF x, N
      <4>2. QED
        BY <1>1, <1>8, <4>1, BasisIs, Zenon
    <3>2. QED
      BY <1>10, <2>1, <3>1
  <2>3. f = [k \in 0..N |->
               IF k = 0 THEN Zero
               ELSE Xor(f[k - 1], GFMul(shares[k].value[1], Basis(shares, k)))]
    BY Zenon DEF IsSums, N
  <2>4. f[0] = Zero /\ \A k \in 1..N : f[k] = Xor(f[k - 1], GFMul(shares[k].value[1], Basis(shares, k)))
    <3>1. \A k \in 0..N : f[k] = IF k = 0 THEN Zero
                                 ELSE Xor(f[k - 1], GFMul(shares[k].value[1], Basis(shares, k)))
      BY <2>3, Zenon
    <3>2. 0 \in 0..N /\ \A k \in 1..N : k \in 0..N /\ k # 0
      BY <1>1
    <3>3. QED
      BY <3>1, <3>2, Zenon
  <2>5. f[0] = Zero /\ \A k \in 1..N : f[k] = Xor(f[k - 1], w[k])
    BY <2>2, <2>4
  <2>6. \A k \in 0..N : f[k] \in Byte
    <3>1. \A k \in 1..N : f[k - 1] \in Byte => f[k] \in Byte
      BY <2>1, <2>5, XorIsAByte
    <3>2. f[0] \in Byte
      BY <2>5, Units
    <3>3. QED
      BY <1>1, <3>1, <3>2, StaysIn
  <2>7. TotalsOf(f, Plus, Zero, w, 1..N, N)
    <3>1. ASSUME NEW k \in 1..N PROVE f[k] = Plus[f[k - 1]][w[k]]
      <4>1. k - 1 \in 0..N
        BY <1>1
      <4>2. f[k - 1] \in Byte /\ w[k] \in Byte
        BY <2>1, <2>6, <4>1
      <4>3. QED
        BY <2>5, <4>2, PlusAndTimes
    <3>2. QED
      BY <2>5, <2>6, <3>1 DEF TotalsOf
  <2>8. f[N] = Total(Plus, Zero, w, 1..N, N)
    <3>1. Regular(Plus) /\ Zero \in Byte
      BY PlusAndTimes, Units
    <3>2. QED
      BY <1>1, <2>1, <2>7, <3>1, TotalUnique
  <2>9. QED
    BY <1>12, <2>8 DEF Weighted, w
<1>14. (CHOOSE f : IsSums(f, shares))[N] = coefs[1]
  <2>1. \A k \in 1..N : shares[k].value[1] \in Byte
    BY <1>10
  <2>2. \E f : IsSums(f, shares)
    BY <1>1, <2>1, SumIsAByte DEF N
  <2>3. QED
    BY <1>13, <2>2, Zenon
<1>15. Combine(shares) = Secret(<<(CHOOSE f : IsSums(f, shares))[N]>>)
  <2> DEFINE short == \E k \in DOMAIN shares : Len(shares[k].value) < Len(shares[1].value)
             sum == CHOOSE f : IsSums(f, shares)
  <2>1. Combine(shares)
        = IF N < 2 THEN Failed
          ELSE IF short THEN Panic
          ELSE IF shares[1].value = <<>> THEN Secret(<<>>) ELSE Secret(<<sum[N]>>)
    BY DEF Combine, IsSums, N
  <2>2. 1 \in 1..N /\ ~(N < 2)
    BY <1>1, <1>3
  <2>3. ~short /\ shares[1].value # <<>>
    BY <1>1, <1>10, <2>2
  <2> HIDE DEF short, sum
  <2>4. Combine(shares) = Secret(<<sum[N]>>)
    BY <2>1, <2>2, <2>3, Zenon
  <2>5. QED
    BY <2>4 DEF sum
<1>16. QED
  BY <1>2, <1>14, <1>15, Zenon

\* Every thread is shared out, and what Suffices says of the last answer holds.
SharingInv == (\A t \in DOMAIN threads : IsShared(threads[t])) /\ AnyMSharesSuffice

\* It holds when there is no thread.
LEMMA SharingInitial == GroupInit => SharingInv
<1> SUFFICES ASSUME GroupInit PROVE SharingInv
  OBVIOUS
<1>1. threads = <<>> /\ answer = [of |-> 0, got |-> Failed]
  BY Zenon DEF GroupInit, NoAnswer
<1>2. answer.of = 0 /\ DOMAIN threads = {}
  BY <1>1
<1>3. QED
  BY <1>2 DEF SharingInv, AnyMSharesSuffice

\* Another thread changes nothing about those that there are.
LEMMA NewThreadIsShared ==
  ASSUME GroupInv, SharingInv, NEW n, NEW m \in Nat, NewGroupThread(n, m)
  PROVE  SharingInv'
<1>1. ~SplitRefuses(n, m) /\ hand' = hand /\ answer' = answer
  BY DEF NewGroupThread
<1>2. PICK key \in KeyBytes : \E random \in [1..(m - 1) -> Coefficients] :
        threads' = Append(threads, MakeThread(key, random, n, m))
  BY DEF NewGroupThread
<1>3. PICK random \in [1..(m - 1) -> Coefficients] :
        threads' = Append(threads, MakeThread(key, random, n, m))
  BY <1>2
<1> DEFINE thread == MakeThread(key, random, n, m)
<1>4. IsShared(thread)
  <2>1. m >= 2 /\ n \in 0..255
    BY <1>1 DEF SplitRefuses
  <2>2. QED
    BY <2>1, ThreadIsShared
<1>5. threads' = Append(threads, thread)
  BY <1>3
<1> HIDE DEF thread
<1>6. /\ Len(threads) \in Nat /\ DOMAIN threads = 1..Len(threads)
      /\ DOMAIN threads' = 1..(Len(threads) + 1)
      /\ \A t \in DOMAIN threads : threads'[t] = threads[t]
      /\ threads'[Len(threads) + 1] = thread
  BY <1>5, SeqGrows DEF GroupInv
<1>7. \A t \in DOMAIN threads' : IsShared(threads'[t])
  <2>1. \A t \in DOMAIN threads' : t \in DOMAIN threads \/ t = Len(threads) + 1
    BY <1>6
  <2>2. QED
    BY <1>4, <1>6, <2>1 DEF SharingInv
<1>8. AnyMSharesSuffice'
  <2>1. answer.of = 0 \/ answer.of \in DOMAIN threads
    BY <1>6 DEF GroupInv
  <2>2. CASE answer.of = 0
    BY <1>1, <2>2 DEF AnyMSharesSuffice
  <2>3. CASE answer.of \in DOMAIN threads
    <3>1. threads'[answer.of] = threads[answer.of]
      BY <1>6, <2>3
    <3>2. Suffices(answer.of)' <=> Suffices(answer.of)
      BY <1>1, <3>1 DEF Suffices
    <3>3. QED
      BY <1>1, <3>1, <3>2 DEF SharingInv, AnyMSharesSuffice
  <2>4. QED
    BY <2>1, <2>2, <2>3
<1>9. QED
  BY <1>7, <1>8 DEF SharingInv

\* What is found from enough shares of a thread.
LEMMA EnoughGive ==
  ASSUME GroupInv, SharingInv, NEW t \in DOMAIN threads, Suffices(t)
  PROVE  /\ DecryptResult(threads[t], threads[t].m, hand) = Body(threads[t])
         /\ Combine(hand) = Secret(<<threads[t].key>>)
<1> DEFINE key == Combine(hand)
           thread == threads[t]
<1>1. key = Secret(<<thread.key>>)
  <2>1. IsShared(thread) /\ thread.m >= 2 /\ IsSeq(hand)
    BY DEF SharingInv, GroupInv
  <2>2. /\ Len(hand) >= thread.m
        /\ \A k \in DOMAIN hand : hand[k] \in thread.shares
        /\ \A k, l \in DOMAIN hand : k # l => hand[k] # hand[l]
    BY DEF Suffices
  <2> HIDE DEF thread
  <2>3. QED
    BY <2>1, <2>2, CombineGivesKey
<1>2. ~(Len(hand) < thread.m)
  <2>1. Len(hand) >= thread.m /\ Len(hand) \in Nat
    BY SeqGrows DEF Suffices, GroupInv
  <2>2. thread.m \in Nat
    <3>1. IsShared(thread)
      BY DEF SharingInv
    <3> HIDE DEF thread
    <3>2. PICK coefs \in Seq(Byte) : Len(coefs) = thread.m
      BY <3>1 DEF IsShared
    <3>3. QED
      BY <3>2, LenProperties
  <2>3. QED
    BY <2>1, <2>2
<1>3. DecryptResult(thread, thread.m, hand)
      = IF Len(hand) < thread.m THEN Failed
        ELSE IF key.is # "key" THEN key
        ELSE IF key.bytes # <<thread.key>> THEN Failed
        ELSE Body(thread)
  BY DEF DecryptResult
<1> HIDE DEF key, thread
<1>4. key.is = "key" /\ key.bytes = <<thread.key>>
  BY <1>1 DEF Secret
<1>5. DecryptResult(thread, thread.m, hand) = Body(thread)
  BY <1>2, <1>3, <1>4, Zenon
<1>6. QED
  BY <1>1, <1>2, <1>5 DEF key, thread

\* An answer about a thread, or a key.
LEMMA AnswersSuffice ==
  ASSUME GroupInv, SharingInv, NEW t \in DOMAIN threads,
         Decrypt(t) \/ \E threshold \in Thresholds : Reconstruct(t, threshold)
  PROVE  SharingInv'
<1> DEFINE d == DecryptResult(threads[t], threads[t].m, hand)
           c == Combine(hand)
<1>1. /\ threads' = threads /\ hand' = hand
      /\ answer' \in {[of |-> t, got |-> d], [of |-> t, got |-> c], [of |-> 0, got |-> Failed]}
  BY Zenon DEF Decrypt, Reconstruct, NoAnswer
<1>2. answer'.of = 0 \/ (answer'.of = t /\ answer'.got \in {d, c})
  <2> HIDE DEF d, c
  <2>1. QED
    BY <1>1
<1>3. Suffices(t) => d = Body(threads[t]) /\ c = Secret(<<threads[t].key>>)
  BY EnoughGive, Zenon
<1> HIDE DEF d, c
<1>4. AnyMSharesSuffice'
  <2>1. Suffices(t)' <=> Suffices(t)
    BY <1>1 DEF Suffices
  <2>2. QED
    BY <1>1, <1>2, <1>3, <2>1 DEF AnyMSharesSuffice
<1>5. QED
  BY <1>1, <1>4 DEF SharingInv

\* Every step of the group threads keeps it.
LEMMA SharingPreserved == ASSUME GroupInv, SharingInv, [GroupNext]_groupVars PROVE SharingInv'
<1>1. ASSUME NEW g \in Groups, NewGroupThread(g[1], g[2]) PROVE SharingInv'
  <2>1. g[2] \in Nat
    BY GroupKeyAssumption
  <2>2. QED
    BY <1>1, <2>1, NewThreadIsShared
<1>2. ASSUME NEW share \in Delivered, SubmitShare(share) PROVE SharingInv'
  <2>1. answer' = [of |-> 0, got |-> Failed] /\ threads' = threads
    BY <1>2, Zenon DEF SubmitShare, NoAnswer
  <2>2. answer'.of = 0
    BY <2>1
  <2>3. QED
    BY <2>1, <2>2 DEF SharingInv, AnyMSharesSuffice
<1>3. ASSUME NEW t \in DOMAIN threads,
             Decrypt(t) \/ \E threshold \in Thresholds : Reconstruct(t, threshold)
      PROVE  SharingInv'
  BY <1>3, AnswersSuffice
<1>4. CASE UNCHANGED groupVars
  <2>1. threads' = threads /\ hand' = hand /\ answer' = answer
    BY <1>4, Zenon DEF groupVars
  <2>2. QED
    BY <2>1, Zenon DEF SharingInv, AnyMSharesSuffice, Suffices
<1>5. QED
  BY <1>1, <1>2, <1>3, <1>4, Zenon DEF GroupNext

LEMMA TypesOfGroups == GroupInv => GroupTypeOK
BY Zenon DEF GroupInv, GroupTypeOK

------------------------------------------------------------------------------
(***************************************************************************)
(* The services.  A step is a step of one of them.                         *)
(***************************************************************************)
ServicesInv ==
  /\ StoreInv /\ ImportInv /\ GroupInv /\ SharingInv /\ StakeInv /\ ServerInv /\ SealInv /\ RepInv
  /\ JobsTyped /\ StoreTyped /\ StakeClockFits /\ ServerTyped /\ SealTypeOK

LEMMA StepsOfServices ==
  ASSUME [ServicesNext]_serviceVars
  PROVE  /\ [Next]_importVars /\ [GroupNext]_groupVars /\ [StakeNext]_stakeVars
         /\ [ServerNext]_serverVars /\ [SealNext]_sealVars /\ [RepNext]_repVars
<1>1. CASE ImportSide
  BY <1>1, Zenon DEF ImportSide
<1>2. CASE GroupSide
  BY <1>2, Zenon DEF GroupSide
<1>3. CASE StakeSide
  BY <1>3, Zenon DEF StakeSide
<1>4. CASE ServerSide
  BY <1>4, Zenon DEF ServerSide
<1>5. CASE RepSide
  BY <1>5, Zenon DEF RepSide
<1>6. CASE SealSide
  BY <1>6, Zenon DEF SealSide
<1>7. CASE UNCHANGED serviceVars
  BY <1>7, Zenon DEF serviceVars
<1>8. QED
  BY <1>1, <1>2, <1>3, <1>4, <1>5, <1>6, <1>7 DEF ServicesNext

LEMMA ServicesHold == ServicesSpec => []ServicesInv
<1>1. ServicesInit => ServicesInv
  <2> SUFFICES ASSUME ServicesInit PROVE ServicesInv
    OBVIOUS
  <2>1. Init /\ GroupInit /\ StakeInit /\ ServerInit /\ RepInit /\ SealInit
    BY DEF ServicesInit
  <2>2. StoreInv /\ ImportInv
    BY <2>1, StoreInitial, ImportInitial DEF Init
  <2>3. GroupInv /\ SharingInv /\ StakeInv /\ ServerInv /\ SealInv /\ RepInv
    BY <2>1, GroupInitial, SharingInitial, StakeInitial, ServerInitial, SealInitial, RepInitial
  <2>4. JobsTyped /\ StoreTyped /\ StakeClockFits /\ ServerTyped /\ SealTypeOK
    BY <2>1, TypedInitially, TypedAtFirst
  <2>5. QED
    BY <2>2, <2>3, <2>4 DEF ServicesInv
<1>2. ServicesInv /\ [ServicesNext]_serviceVars => ServicesInv'
  <2> SUFFICES ASSUME ServicesInv, [ServicesNext]_serviceVars PROVE ServicesInv'
    OBVIOUS
  <2>1. StoreInv' /\ ImportInv' /\ StakeInv'
    BY StepsOfServices, StorePreserved, ImportPreserved, StakePreserved DEF ServicesInv
  <2>2. GroupInv' /\ SharingInv'
    BY StepsOfServices, GroupPreserved, SharingPreserved DEF ServicesInv
  <2>3. ServerInv' /\ SealInv' /\ RepInv'
    BY StepsOfServices, ServerPreserved, SealPreserved, RepPreserved DEF ServicesInv
  <2>4. JobsTyped' /\ StoreTyped' /\ StakeClockFits'
    BY StepsOfServices, JobsTypedPreserved, StoreTypedPreserved, StakeClockPreserved DEF ServicesInv
  <2>5. ServerTyped' /\ SealTypeOK'
    BY StepsOfServices, ServerTypedPreserved, SealTypesPreserved DEF ServicesInv
  <2>6. QED
    BY <2>1, <2>2, <2>3, <2>4, <2>5 DEF ServicesInv
<1>3. QED
  BY <1>1, <1>2, PTL DEF ServicesSpec

\* What each of the parts keeps has its type, in every state that any order of their steps,
\* of lost writes and of failures leads to: a job, the statement it waits for and what is
\* stored go together, shares and what is found from them are bytes, the monitor has
\* switches only when there is a manager, and what is pinned is an entry that was returned.
THEOREM ServicesAreTyped == ServicesSpec => []ServicesTypeOK
<1>1. ServicesInv => ServicesTypeOK
  <2> SUFFICES ASSUME ServicesInv PROVE ServicesTypeOK
    OBVIOUS
  <2>1. TypeOK /\ GroupTypeOK /\ StakeTypeOK
    BY TypesOfImporters, TypesOfGroups, TypesOfStakes DEF ServicesInv
  <2>2. ServerTypeOK /\ RepTypeOK /\ SealTypeOK
    BY TypesOfServer, TypesOfReputation DEF ServicesInv
  <2>3. QED
    BY <2>1, <2>2 DEF ServicesTypeOK
<1>2. QED
  BY <1>1, ServicesHold, PTL

\* SaveMessage stores a message with all of its attachments or not at all, whatever fails
\* or dies, and GetMessage returns no message without some of them, for any number of
\* processes: a row and its attachments are committed together, and nothing changes them.
THEOREM MessagesAreWhole == ServicesSpec => []WholeMessages
<1>1. ServicesInv => WholeMessages
  BY StoreMeans DEF ServicesInv
<1>2. QED
  BY <1>1, ServicesHold, PTL

\* A run of `aftermail legacy' stores no entry of a mailbox twice, whatever files the other
\* mail client moves meanwhile and whatever else runs, a message from an mbox file is one
\* whole piece of it, and the two numbers at the end are right: every piece of an mbox file
\* and every row of a database is counted in one of them, as the message that was stored or
\* as an error.  For any files, databases, Maildirs and scans, any number of runs at once,
\* and any failures.
THEOREM ImportsAreExact == ServicesSpec => []ImportIsExact
<1>1. ServicesInv => ImportIsExact
  BY ImportMeans DEF ServicesInv
<1>2. QED
  BY <1>1, ServicesHold, PTL

\* "Any m of which can reconstruct it": any m or more different shares of a group thread,
\* in any order and whatever was tried before, give its body to Decrypt and its key to the
\* coordinator.  For any number of threads, recipients up to the 255 that Split takes,
\* thresholds, keys and random coefficients, and with the multiplication and the inverse of
\* the code.
THEOREM AnySharesSuffice == ServicesSpec => []AnyMSharesSuffice
<1>1. ServicesInv => AnyMSharesSuffice
  BY DEF ServicesInv, SharingInv
<1>2. QED
  BY <1>1, ServicesHold, PTL

\* A stake is returned or forfeited once at most, in the amount that was locked last:
\* each payment follows its lock at once among the transactions of its message.
THEOREM StakesPayOnce == ServicesSpec => []PaidOutOnce
<1>1. ServicesInv => PaidOutOnce
  BY StakeMeans DEF ServicesInv
<1>2. QED
  BY <1>1, ServicesHold, PTL

\* The server answers each line that is not blank once and in order, whatever tools are
\* called and however they fail, and takes at most one line after the signal.
THEOREM LinesAreAnswered == ServicesSpec => []OneAnswerEach
<1>1. ServicesInv => OneAnswerEach
  BY ServerMeans DEF ServicesInv
<1>2. QED
  BY <1>1, ServicesHold, PTL

\* A sealed entry verifies as it was returned and as it was pinned, not with another
\* letter or key, and an anchored one is pinned, whichever of the two transfers failed.
THEOREM SealsAreHonest == ServicesSpec => []SealsHold
<1>1. ServicesInv => SealsHold
  BY SealMeans DEF ServicesInv
<1>2. QED
  BY <1>1, ServicesHold, PTL

\* As long as no more commitments are kept than were recorded, the score of a profile and
\* each of its parts is between 0 and 1, for any number of receipts of any age, of
\* commitments and of stakes, in any order.
THEOREM ScoresAreShares == ServicesSpec => []ScoreIsAShare
<1>1. ServicesInv => ScoreIsAShare
  BY RepMeans DEF ServicesInv
<1>2. QED
  BY <1>1, ServicesHold, PTL

==============================================================================
