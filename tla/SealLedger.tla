------------------------------ MODULE SealLedger ------------------------------
(***************************************************************************)
(* The message ledger, pkg/ledger: Seal signs an entry for a sent message, *)
(* pins it to IPFS and anchors the pin on a chain; either may fail without *)
(* failing the send.  Anybody verifies an entry with the key it names.     *)
(*                                                                         *)
(* Anchoring is a stub in the code: it asks the chain for a nonce and a    *)
(* price, builds a transaction and drops it, and returns an ID computed    *)
(* from the pin.  So `tx' says what an entry claims, not what a chain has. *)
(*                                                                         *)
(* A signature is the pair of the key and what was signed.  Of the fields  *)
(* of a message one stands for all.                                        *)
(***************************************************************************)
EXTENDS Integers, FiniteSets

CONSTANTS
  SealKeys, \* the keys of the ledgers
  Letters,  \* what the signed fields of messages say
  Chained,  \* whether the ledgers have a chain to anchor to
  MaxSeals  \* bound on the entries sealed

ASSUME SealAssumption == Chained \in BOOLEAN /\ MaxSeals \in Nat

VARIABLES
  sealed,  \* the entries that Seal has returned
  pinned,  \* what IPFS holds
  copies   \* the entries other people show, with what Verify says of each

sealVars == <<sealed, pinned, copies>>

Nowhere == <<>>

Unavailable == <<"ipfs-unavailable">>

SealInit == sealed = {} /\ pinned = {} /\ copies = {}

\* canonicalJSON: the fields that are signed.
Signable(e) == [letter |-> e.letter, key |-> e.key]

Signature(e) == <<e.key, Signable(e)>>

Unsigned(letter, key) ==
  [letter |-> letter, key |-> key, signature |-> Nowhere, cid |-> Nowhere, tx |-> Nowhere]

\* The content address of what is pinned.
CID(e) == <<"cid", e.letter, e.key, e.signature>>

AnchorAnyway(e) == Chained

\* The CID is anchored if there is one; the transaction may fail.
MayAnchor(e) == Chained /\ e.cid # Unavailable

\* Seal.  The entry is pinned before it has a CID and a transaction.
Seal(letter, key) ==
  LET draft == Unsigned(letter, key)
      entry == [draft EXCEPT !.signature = Signature(draft)]
  IN
  /\ Cardinality(sealed) < MaxSeals
  /\ \E cid \in {CID(entry), Unavailable} :
       LET known == [entry EXCEPT !.cid = cid] IN
       /\ pinned' = IF cid = Unavailable THEN pinned ELSE pinned \cup {entry}
       /\ \/ sealed' = sealed \cup {known}
          \/ MayAnchor(known) /\ sealed' = sealed \cup {[known EXCEPT !.tx = <<"tx", cid>>]}
  /\ UNCHANGED copies

\* Verify: the signature is that of the signed fields, without what came later.
VerifyAsItIs(e) == e.signature = <<e.key, [letter |-> e.letter, key |-> e.key, cid |-> e.cid]>>

Verify(e) == e.signature = <<e.key, Signable(e)>>

\* An entry that comes from somebody else, with any field changed.
Show(e, letter, key) ==
  /\ Cardinality(copies) < 1
  /\ LET copy == [e EXCEPT !.letter = letter, !.key = key] IN
     copies' = copies \cup {[copy |-> copy, of |-> e, valid |-> Verify(copy)]}
  /\ UNCHANGED <<sealed, pinned>>

SealNext ==
  \/ \E letter \in Letters, key \in SealKeys : Seal(letter, key)
  \/ \E e \in sealed \cup pinned, letter \in Letters, key \in SealKeys : Show(e, letter, key)

------------------------------------------------------------------------------
(***************************************************************************)
(* Properties                                                              *)
(***************************************************************************)
SealTypeOK ==
  /\ \A e \in sealed \cup pinned : e.letter \in Letters /\ e.key \in SealKeys
  /\ pinned \subseteq {[e EXCEPT !.cid = Nowhere, !.tx = Nowhere] : e \in sealed}

\* Whatever failed while it was sealed, an entry verifies as it was returned and
\* as it was pinned, and not when a signed field has changed; and an anchored one
\* is pinned: what the chain points to can be fetched and is this message's.
SealsHold ==
  /\ \A c \in copies : c.valid <=> Signable(c.copy) = Signable(c.of)
  /\ \A e \in sealed :
       e.tx # Nowhere => \E p \in pinned : e.tx = <<"tx", CID(p)>> /\ Signable(p) = Signable(e)

==============================================================================
