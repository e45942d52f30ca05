------------------------------- MODULE GroupKey -------------------------------
(***************************************************************************)
(* Group threads, pkg/send/mpc.go: a message encrypted with a key of which *)
(* every recipient gets a share, such that any m of the n shares give the  *)
(* key back (Shamir), and the older coordinator that collects shares.      *)
(*                                                                         *)
(* A byte is the set of the places of its 1 bits.  The bytes of a key do   *)
(* not meet each other, so a key has one of them here instead of 32.       *)
(* SHA-256 tells keys apart, and a ciphertext opens with its key only.     *)
(***************************************************************************)
EXTENDS Integers, FiniteSets, Sequences

CONSTANTS
  KeyBytes,     \* the bytes the random keys have
  Coefficients, \* the bytes the random polynomials have
  Groups,       \* pairs <<recipients, threshold>> asked for
  Thresholds,   \* the numbers of shares that callers of the coordinator ask for
  MaxThreads,   \* bound on the threads
  MaxHand       \* bound on the shares somebody has collected

Byte == SUBSET (0..7)

ASSUME GroupKeyAssumption ==
  /\ KeyBytes \subseteq Byte /\ Coefficients \subseteq Byte
  /\ Groups \subseteq Nat \X Nat /\ Thresholds \subseteq Nat
  /\ MaxThreads \in Nat /\ MaxHand \in Nat

VARIABLES
  threads, \* the threads created: [key, m, shares]
  hand,    \* ActiveShares: the shares somebody has collected, in their order
  answer   \* what the last Decrypt or Reconstruct returned

groupVars == <<threads, hand, answer>>

------------------------------------------------------------------------------
(***************************************************************************)
(* GF(2^8).                                                                *)
(***************************************************************************)
Zero == {}

One == {0}

Xor(x, y) == (x \ y) \cup (y \ x)

\* The byte of a number below 256: an index.
Bits(n) == {k \in 0..7 : (n \div 2^k) % 2 = 1}

\* x times 2: shifted, and reduced by x^8 + x^4 + x^3 + x + 1.
TimesTwo(x) ==
  LET shifted == {k + 1 : k \in x} IN
  IF 8 \in shifted THEN Xor(shifted \ {8}, {0, 1, 3, 4}) ELSE shifted

\* The product so far and the multiple of x, after so many of the bits of y.
GFMul(x, y) ==
  LET round[k \in 0..8] ==
        IF k = 0 THEN [p |-> Zero, x |-> x]
        ELSE LET r == round[k - 1] IN
             [p |-> IF k - 1 \in y THEN Xor(r.p, r.x) ELSE r.p, x |-> TimesTwo(r.x)]
  IN  round[8].p

\* Square and multiply: every bit of the exponent 254 but the lowest is 1.
GFInv(x) ==
  LET round[k \in 0..8] ==
        IF k = 0 THEN [result |-> One, base |-> x]
        ELSE LET r == round[k - 1] IN
             [result |-> IF k > 1 THEN GFMul(r.result, r.base) ELSE r.result,
              base |-> GFMul(r.base, r.base)]
  IN  IF x = Zero THEN Zero ELSE round[8].result

------------------------------------------------------------------------------
(***************************************************************************)
(* Split and Combine.  The values are sequences of bytes.                  *)
(***************************************************************************)
SplitRefuses(n, m) == n \notin 2..255 \/ m \notin 2..n

\* The polynomial with these coefficients at x, coefs[1] being the constant.
EvaluateAt(coefs, x) ==
  LET term[k \in 0..Len(coefs)] ==
        IF k = 0 THEN [y |-> Zero, power |-> One]
        ELSE LET t == term[k - 1] IN
             [y |-> Xor(t.y, GFMul(coefs[k], t.power)), power |-> GFMul(t.power, x)]
  IN  term[Len(coefs)].y

Split(key, random, n) ==
  {[index |-> i, value |-> <<EvaluateAt(<<key>> \o random, Bits(i))>>] : i \in 1..n}

Others(shares, i) == DOMAIN shares \ {i}

BasisAtIndex(shares, i) ==
  LET x == [k \in DOMAIN shares |-> Bits(shares[k].index)]
      upTo[k \in 0..Len(shares)] ==
        IF k = 0 THEN [num |-> One, den |-> One]
        ELSE IF k = i THEN upTo[k - 1]
        ELSE LET b == upTo[k - 1] IN
             [num |-> GFMul(b.num, x[i]), den |-> GFMul(b.den, Xor(x[i], x[k]))]
      last == upTo[Len(shares)]
  IN  GFMul(last.num, GFInv(last.den))

\* What a Lagrange basis polynomial is at 0: numerator times inverted denominator.
\* Two shares with one index make the denominator 0, of which 0 is the "inverse".
Basis(shares, i) ==
  LET x == [k \in DOMAIN shares |-> Bits(shares[k].index)]
      upTo[k \in 0..Len(shares)] ==
        IF k = 0 THEN [num |-> One, den |-> One]
        ELSE IF k = i THEN upTo[k - 1]
        ELSE LET b == upTo[k - 1] IN
             [num |-> GFMul(b.num, x[k]), den |-> GFMul(b.den, Xor(x[i], x[k]))]
      last == upTo[Len(shares)]
  IN  GFMul(last.num, GFInv(last.den))

Failed == [is |-> "error"]

Panic == [is |-> "panic"]

Secret(bytes) == [is |-> "key", bytes |-> bytes]

Body(thread) == [is |-> "body", thread |-> thread]

\* The first share says how long the secret is; another that is shorter is read
\* past its end.
Combine(shares) ==
  IF Len(shares) < 2 THEN Failed
  ELSE IF \E k \in DOMAIN shares : Len(shares[k].value) < Len(shares[1].value) THEN Panic
  ELSE LET sum[k \in 0..Len(shares)] ==
             IF k = 0 THEN Zero
             ELSE Xor(sum[k - 1], GFMul(shares[k].value[1], Basis(shares, k)))
       IN  IF shares[1].value = <<>> THEN Secret(<<>>) ELSE Secret(<<sum[Len(shares)]>>)

------------------------------------------------------------------------------
(***************************************************************************)
(* NewGroupThread, Decrypt, and the coordinator.                           *)
(***************************************************************************)
NoAnswer == [of |-> 0, got |-> Failed]

GroupInit == threads = <<>> /\ hand = <<>> /\ answer = NoAnswer

MakeThread(key, random, n, m) == [key |-> key, m |-> m, shares |-> Split(key, random, n)]

NewGroupThread(n, m) ==
  /\ Len(threads) < MaxThreads
  /\ ~SplitRefuses(n, m)
  /\ \E key \in KeyBytes : \E random \in [1..(m - 1) -> Coefficients] :
       threads' = Append(threads, MakeThread(key, random, n, m))
  /\ UNCHANGED <<hand, answer>>

\* The thread's body, or an error: "threshold" is what the thread says, and in a
\* call over MCP what the caller says.
DecryptResult(thread, threshold, shares) ==
  LET key == Combine(shares) IN
  IF Len(shares) < threshold THEN Failed
  ELSE IF key.is # "key" THEN key
  ELSE IF key.bytes # <<thread.key>> THEN Failed
  ELSE Body(thread)

\* SubmitShare: shares arrive in any order and any number of times, of one thread
\* or several, whole, cut off or empty.
SubmitShare(share) ==
  /\ Len(hand) < MaxHand
  /\ hand' = Append(hand, share)
  /\ answer' = NoAnswer
  /\ UNCHANGED threads

Decrypt(t) ==
  /\ answer' = [of |-> t, got |-> DecryptResult(threads[t], threads[t].m, hand)]
  /\ UNCHANGED <<threads, hand>>

\* A share without so much as an index.
EmptyShare == [index |-> 0, value |-> <<>>]

\* The threshold is the caller's.  Nothing compares the key with a digest here.
Reconstruct(t, threshold) ==
  /\ answer' = IF Len(hand) < threshold \/ \E k \in DOMAIN hand : hand[k] = EmptyShare
               THEN NoAnswer ELSE [of |-> t, got |-> Combine(hand)]
  /\ UNCHANGED <<threads, hand>>

Delivered ==
  (UNION {threads[t].shares : t \in DOMAIN threads})
    \cup {EmptyShare, [index |-> 1, value |-> <<>>]}

GroupNext ==
  \/ \E g \in Groups : NewGroupThread(g[1], g[2])
  \/ \E share \in Delivered : SubmitShare(share)
  \/ \E t \in DOMAIN threads :
       Decrypt(t) \/ \E threshold \in Thresholds : Reconstruct(t, threshold)

------------------------------------------------------------------------------
(***************************************************************************)
(* Properties                                                              *)
(***************************************************************************)
IsResult(r) ==
  \/ r \in {Failed, Panic, Secret(<<>>)}
  \/ r.is = "key" /\ r = Secret(<<r.bytes[1]>>) /\ r.bytes[1] \in Byte
  \/ r.is = "body" /\ \E t \in DOMAIN threads : r = Body(threads[t])

GroupTypeOK ==
  /\ \A t \in DOMAIN threads : threads[t].key \in KeyBytes /\ threads[t].m >= 2
  /\ Len(hand) <= MaxHand
  /\ answer.of \in 0..Len(threads) /\ IsResult(answer.got)

\* m or more shares of the thread, no two of them the same.
Suffices(t) ==
  /\ Len(hand) >= threads[t].m
  /\ \A k \in DOMAIN hand : hand[k] \in threads[t].shares
  /\ \A k, l \in DOMAIN hand : k # l => hand[k] # hand[l]

\* "any m of which can reconstruct it": any m or more different shares of a
\* thread, in any order, give its body, and to the coordinator its key (unless its
\* caller asks for more shares than there are).
AnyMSharesSuffice ==
  answer.of # 0 /\ Suffices(answer.of) =>
    answer.got \in {Body(threads[answer.of]), Secret(<<threads[answer.of].key>>)}

==============================================================================
