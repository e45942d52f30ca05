-------------------------------- MODULE Slices --------------------------------
(***************************************************************************)
(* What the program's loops over slices and its ORDER BY clauses compute,  *)
(* for slices that may be of any length, and the lemmas about it.          *)
(***************************************************************************)
EXTENDS Integers, Sequences, FiniteSets, FiniteSetTheorems, FunctionTheorems, SequenceTheorems,
        TLAPS

\* How many elements of S precede x by R, a set of pairs <<earlier, later>>.
Rank(x, S, R) == Cardinality({y \in S : <<y, x>> \in R})

\* The elements of S from the first to the last by R: the n-th is the one that n - 1
\* others precede.
InOrder(S, R) ==
  [n \in 1..Cardinality(S) |-> CHOOSE x \in S : Rank(x, S, R) = n - 1]

\* The places of s that hold an element of K.
PlacesOf(s, K) == {i \in DOMAIN s : s[i] \in K}

\* "kept = append(kept, x)" for every x of s that is in K.
Only(s, K) ==
  LET order == InOrder(PlacesOf(s, K), {p \in PlacesOf(s, K) \X PlacesOf(s, K) : p[1] < p[2]})
  IN  [n \in 1..Cardinality(PlacesOf(s, K)) |-> s[order[n]]]

------------------------------------------------------------------------------
(***************************************************************************)
(* Lemmas about these, and about the numbers that proofs by induction need *)
(* (in the form of a least counterexample, which is first-order).          *)
(***************************************************************************)
\* Every set of naturals has a least element.
LEMMA NatLeast ==
  ASSUME NEW S \in SUBSET Nat, S # {}
  PROVE  \E n \in S : \A m \in S : n <= m
<1> DEFINE T == {0..n : n \in S}
<1>1. T \subseteq FiniteSubsetsOf(Nat) /\ T # {}
  <2>1. \A n \in S : 0..n \subseteq Nat /\ IsFiniteSet(0..n)
    BY FS_Interval
  <2>2. QED
    BY <2>1 DEF FiniteSubsetsOf
<1>2. IsWellFoundedOn(StrictSubsetOrdering(Nat), FiniteSubsetsOf(Nat))
  BY FS_StrictSubsetOrderingWellFounded
<1>3. PICK x \in T : \A y \in T : ~ (<<y, x>> \in StrictSubsetOrdering(Nat))
  BY <1>1, <1>2, WFMin
<1>4. PICK n \in S : x = 0..n
  OBVIOUS
<1>5. ASSUME NEW m \in S, m < n PROVE FALSE
  <2>1. 0..m \in T
    OBVIOUS
  <2>2. 0..m \subseteq 0..n /\ 0..m # 0..n
    BY <1>5
  <2>3. <<0..m, x>> \in StrictSubsetOrdering(Nat)
    BY <2>2, <1>4 DEF StrictSubsetOrdering
  <2>4. QED
    BY <2>1, <2>3, <1>3
<1>6. QED
  BY <1>5

\* Induction along an interval, for a set of values that each step keeps.
LEMMA StaysIn ==
  ASSUME NEW N \in Nat, NEW V, NEW f, f[0] \in V, \A n \in 1..N : f[n - 1] \in V => f[n] \in V
  PROVE  \A n \in 0..N : f[n] \in V
<1> DEFINE bad == {n \in 0..N : f[n] \notin V}
<1>1. SUFFICES ASSUME bad # {} PROVE FALSE
  BY <1>1
<1>2. PICK n \in bad : \A m \in bad : n <= m
  <2>1. bad \in SUBSET Nat
    OBVIOUS
  <2> HIDE DEF bad
  <2>2. QED
    BY <1>1, <2>1, NatLeast
<1>3. n \in 1..N /\ n - 1 \in 0..N /\ n - 1 \notin bad
  BY <1>2
<1>4. QED
  BY <1>2, <1>3

\* What each of N steps does to a value of V, and the values that they go through.
StepsOf(g, N, V) == g \in [1..N -> [V -> V]]

RunsBy(f, N, V, b, g) ==
  f \in [0..N -> V] /\ f[0] = b /\ \A n \in 1..N : f[n] = g[n][f[n - 1]]

\* A recursive function over an interval exists.
LEMMA RecursionExists ==
  ASSUME NEW N \in Nat, NEW V, NEW b \in V, NEW g, StepsOf(g, N, V)
  PROVE  \E f : RunsBy(f, N, V, b, g)
<1> USE DEF StepsOf, RunsBy
<1> DEFINE Upto(k, f) == f \in [0..k -> V] /\ f[0] = b /\ \A n \in 1..k : f[n] = g[n][f[n - 1]]
           bad == {k \in 0..N : ~ \E f : Upto(k, f)}
<1>1. ASSUME bad # {} PROVE FALSE
  <2>1. PICK k \in bad : \A m \in bad : k <= m
    <3>1. bad \in SUBSET Nat
      OBVIOUS
    <3> HIDE DEF bad
    <3>2. QED
      BY <1>1, <3>1, NatLeast
  <2>2. k \in 0..N /\ ~ \E f : Upto(k, f)
    BY <2>1
  <2>3. k # 0
    <3>1. Upto(0, [n \in 0..0 |-> b])
      OBVIOUS
    <3>2. QED
      BY <2>2, <3>1
  <2>4. k - 1 \in 0..N /\ k - 1 \notin bad
    <3>1. k - 1 \in 0..N /\ ~(k <= k - 1)
      BY <2>2, <2>3
    <3> HIDE DEF bad
    <3>2. QED
      BY <2>1, <3>1
  <2>5. PICK f : Upto(k - 1, f)
    BY <2>4
  <2> DEFINE h == [n \in 0..k |-> IF n < k THEN f[n] ELSE g[k][f[k - 1]]]
  <2>6. f[k - 1] \in V /\ g[k] \in [V -> V]
    BY <2>2, <2>3, <2>5
  <2>7. h \in [0..k -> V] /\ h[0] = b
    BY <2>2, <2>3, <2>5, <2>6
  <2>8. ASSUME NEW n \in 1..k PROVE h[n] = g[n][h[n - 1]]
    <3>1. h[n - 1] = f[n - 1]
      BY <2>2, <2>8
    <3>2. CASE n = k
      BY <2>2, <3>1, <3>2
    <3>3. CASE n # k
      <4>1. n \in 1..(k - 1) /\ h[n] = f[n]
        BY <2>2, <2>8, <3>3
      <4>2. QED
        BY <2>5, <3>1, <4>1
    <3>4. QED
      BY <3>2, <3>3
  <2> HIDE DEF h
  <2>9. QED
    BY <2>2, <2>7, <2>8
<1>2. N \in 0..N /\ N \notin bad
  BY <1>1
<1>3. QED
  BY <1>2

\* A quotient of naturals is as large as its bound says.
LEMMA QuotientIs ==
  ASSUME NEW x \in Nat, NEW d \in Nat \ {0}
  PROVE  /\ x \div d \in Nat
         /\ \A b \in Nat : x <= b * d => x \div d <= b
<1> DEFINE q == x \div d
           r == x % d
<1>1. q \in Int /\ r \in 0..(d - 1) /\ x = d * q + r
  OBVIOUS
<1> HIDE DEF q, r
<1>2. ASSUME q <= -1 PROVE FALSE
  <2>1. d * q <= d * (-1)
    BY <1>1, <1>2
  <2>2. QED
    BY <1>1, <2>1
<1>3. ASSUME NEW b \in Nat, x <= b * d, q >= b + 1 PROVE FALSE
  <2>1. d * (b + 1) <= d * q
    BY <1>1, <1>3
  <2>2. d * (b + 1) = b * d + d /\ b * d \in Nat
    OBVIOUS
  <2>3. d * q <= x /\ d * q \in Int
    BY <1>1
  <2>4. QED
    BY <1>3, <2>1, <2>2, <2>3
<1>4. QED
  BY <1>1, <1>2, <1>3 DEF q

\* R is a strict total order on S.
Orders(R, S) ==
  /\ \A x \in S : <<x, x>> \notin R
  /\ \A x, y \in S : x # y => <<x, y>> \in R \/ <<y, x>> \in R
  /\ \A x, y, z \in S : <<x, y>> \in R /\ <<y, z>> \in R => <<x, z>> \in R

\* As many elements precede no two elements of a finite order, and every number of
\* them below the size of the order precedes one.
LEMMA Ranks ==
  ASSUME NEW S, IsFiniteSet(S), NEW R, Orders(R, S)
  PROVE  /\ \A x \in S : Rank(x, S, R) \in 0..(Cardinality(S) - 1)
         /\ \A x, y \in S : <<x, y>> \in R => Rank(x, S, R) < Rank(y, S, R)
         /\ \A n \in 0..(Cardinality(S) - 1) : \E x \in S : Rank(x, S, R) = n
<1> DEFINE below(x) == {y \in S : <<y, x>> \in R}
           rank(x) == Cardinality(below(x))
           T == 0..(Cardinality(S) - 1)
<1> USE DEF Orders, Rank
<1>0. Cardinality(S) \in Nat
  BY FS_CardinalityType
<1>1. ASSUME NEW x \in S PROVE IsFiniteSet(below(x)) /\ rank(x) \in T
  <2>1. IsFiniteSet(S \ {x}) /\ Cardinality(S \ {x}) = Cardinality(S) - 1
    BY FS_RemoveElement
  <2>2. below(x) \in SUBSET (S \ {x})
    OBVIOUS
  <2> HIDE DEF below
  <2>3. IsFiniteSet(below(x)) /\ Cardinality(below(x)) <= Cardinality(S) - 1
    <3>1. IsFiniteSet(below(x)) /\ Cardinality(below(x)) <= Cardinality(S \ {x})
      BY <2>1, <2>2, FS_Subset
    <3>2. QED
      BY <3>1, <2>1
  <2>4. rank(x) \in Nat
    BY <2>3, FS_CardinalityType
  <2>5. QED
    BY <1>0, <2>3, <2>4
<1>2. ASSUME NEW x \in S, NEW y \in S, <<x, y>> \in R PROVE rank(x) < rank(y)
  <2>1. below(x) \in SUBSET below(y) /\ x \in below(y) /\ x \notin below(x)
    BY <1>2
  <2>2. rank(x) <= rank(y) /\ rank(x) # rank(y)
    BY <2>1, <1>1, FS_Subset
  <2>3. QED
    BY <2>2, <1>1, <1>0
<1>3. \A n \in T : \E x \in S : rank(x) = n
  <2> DEFINE f == [x \in S |-> rank(x)]
  <2>1. f \in [S -> T]
    BY <1>1
  <2>2. \A x, y \in S : f[x] = f[y] => x = y
    <3> SUFFICES ASSUME NEW x \in S, NEW y \in S, f[x] = f[y], x # y PROVE FALSE
      OBVIOUS
    <3>1. rank(x) < rank(y) \/ rank(y) < rank(x)
      BY <1>2
    <3>2. rank(x) \in T /\ rank(y) \in T
      BY <1>1
    <3> HIDE DEF rank
    <3>3. rank(x) = rank(y)
      OBVIOUS
    <3>4. QED
      BY <3>1, <3>2, <3>3
  <2>3. f \in Injection(S, T)
    BY <2>1, <2>2 DEF Injection, IsInjective
  <2>4. IsFiniteSet(T) /\ Cardinality(T) = Cardinality(S)
    <3> DEFINE m == Cardinality(S)
    <3>1. m \in Nat
      BY <1>0
    <3> HIDE DEF m
    <3>2. IsFiniteSet(0..(m - 1)) /\ Cardinality(0..(m - 1)) = m
      BY <3>1, FS_Interval
    <3>3. QED
      BY <3>2 DEF m
  <2>5. f \in Surjection(S, T)
    BY <2>3, <2>4, FS_Injection
  <2>6. QED
    BY <2>5 DEF Surjection
<1>4. QED
  BY <1>1, <1>2, <1>3

\* InOrder lists every element of a finite order, once and in order.
LEMMA InOrderProperties ==
  ASSUME NEW S, IsFiniteSet(S), NEW R, Orders(R, S)
  PROVE  /\ Cardinality(S) \in Nat
         /\ InOrder(S, R) \in [1..Cardinality(S) -> S]
         /\ \A i, j \in 1..Cardinality(S) : i < j => <<InOrder(S, R)[i], InOrder(S, R)[j]>> \in R
         /\ \A i \in 1..Cardinality(S) : Rank(InOrder(S, R)[i], S, R) = i - 1
         /\ \A x \in S : /\ Rank(x, S, R) + 1 \in 1..Cardinality(S)
                         /\ InOrder(S, R)[Rank(x, S, R) + 1] = x
<1> DEFINE rank(x) == Rank(x, S, R)
           N == Cardinality(S)
           s == InOrder(S, R)
<1>0. N \in Nat
  BY FS_CardinalityType
<1>r. /\ \A x \in S : rank(x) \in 0..(N - 1)
      /\ \A x, y \in S : <<x, y>> \in R => rank(x) < rank(y)
      /\ \A n \in 0..(N - 1) : \E x \in S : rank(x) = n
  BY Ranks
<1>1. \A n \in 1..N : s[n] = CHOOSE x \in S : rank(x) = n - 1
  BY DEF InOrder
<1> HIDE DEF rank, s
<1>2. \A n \in 1..N : s[n] \in S /\ rank(s[n]) = n - 1
  <2> SUFFICES ASSUME NEW n \in 1..N PROVE s[n] \in S /\ rank(s[n]) = n - 1
    OBVIOUS
  <2>1. n - 1 \in 0..(N - 1)
    BY <1>0
  <2>2. \E x \in S : rank(x) = n - 1
    BY <2>1, <1>r
  <2>3. QED
    BY <1>1, <2>2
<1>3. s \in [1..N -> S]
  <2>1. DOMAIN s = 1..N /\ s = [n \in 1..N |-> s[n]]
    BY DEF s, InOrder
  <2>2. QED
    BY <1>2, <2>1
<1>4. ASSUME NEW i \in 1..N, NEW j \in 1..N, i < j PROVE <<s[i], s[j]>> \in R
  <2>1. s[i] # s[j]
    BY <1>2, <1>4, <1>0
  <2>2. <<s[i], s[j]>> \in R \/ <<s[j], s[i]>> \in R
    BY <2>1, <1>2 DEF Orders
  <2>3. ~ (rank(s[j]) < rank(s[i]))
    BY <1>2, <1>4, <1>0
  <2>4. QED
    BY <2>2, <2>3, <1>r, <1>2
<1>5. ASSUME NEW x \in S PROVE rank(x) + 1 \in 1..N /\ s[rank(x) + 1] = x
  <2> DEFINE i == rank(x) + 1
  <2>1. i \in 1..N /\ rank(s[i]) = rank(x) /\ s[i] \in S
    BY <1>r, <1>2, <1>0
  <2>2. s[i] = x
    <3>1. ~ (rank(x) < rank(s[i])) /\ ~ (rank(s[i]) < rank(x))
      BY <2>1, <1>r, <1>0
    <3>2. QED
      BY <3>1, <2>1, <1>r DEF Orders
  <2>3. QED
    BY <2>1, <2>2
<1>6. QED
  BY <1>0, <1>2, <1>3, <1>4, <1>5 DEF s, rank

\* What a query with ORDER BY returns: the rows found, each once.
LEMMA InOrderLists ==
  ASSUME NEW S, IsFiniteSet(S), NEW R, Orders(R, S)
  PROVE  /\ InOrder(S, R) \in Seq(S) /\ Len(InOrder(S, R)) = Cardinality(S)
         /\ \A i \in DOMAIN InOrder(S, R) : InOrder(S, R)[i] \in S
         /\ \A i, j \in DOMAIN InOrder(S, R) : i # j => InOrder(S, R)[i] # InOrder(S, R)[j]
<1> DEFINE s == InOrder(S, R)
           n == Cardinality(S)
<1>1. /\ n \in Nat /\ s \in [1..n -> S]
      /\ \A i, j \in 1..n : i < j => <<s[i], s[j]>> \in R
  BY InOrderProperties
<1>2. \A x \in S : <<x, x>> \notin R
  BY DEF Orders
<1> HIDE DEF s, n
<1>3. s \in Seq(S) /\ Len(s) = n /\ DOMAIN s = 1..n
  BY <1>1
<1>4. ASSUME NEW i \in 1..n, NEW j \in 1..n, i # j PROVE s[i] # s[j]
  <2>1. s[i] \in S /\ (i < j \/ j < i)
    BY <1>1, <1>4
  <2>2. <<s[i], s[j]>> \in R \/ <<s[j], s[i]>> \in R
    BY <1>1, <2>1
  <2>3. QED
    BY <1>2, <2>1, <2>2
<1>5. QED
  BY <1>1, <1>3, <1>4 DEF s, n

------------------------------------------------------------------------------
(***************************************************************************)
(* Only.                                                                   *)
(***************************************************************************)
PlaceOrder(s, K) == {p \in PlacesOf(s, K) \X PlacesOf(s, K) : p[1] < p[2]}

\* The places of a slice are in the order of the numbers.
LEMMA PlacesOrdered ==
  ASSUME NEW S, NEW s \in Seq(S), NEW K
  PROVE  /\ PlacesOf(s, K) \subseteq 1..Len(s)
         /\ IsFiniteSet(PlacesOf(s, K))
         /\ Orders(PlaceOrder(s, K), PlacesOf(s, K))
<1>1. DOMAIN s = 1..Len(s) /\ Len(s) \in Nat
  BY LenProperties
<1>2. PlacesOf(s, K) \subseteq 1..Len(s)
  BY <1>1 DEF PlacesOf
<1>3. IsFiniteSet(PlacesOf(s, K))
  <2>1. IsFiniteSet(1..Len(s))
    BY <1>1, FS_Interval
  <2>2. QED
    BY <1>2, <2>1, FS_Subset
<1>4. Orders(PlaceOrder(s, K), PlacesOf(s, K))
  BY <1>1, <1>2 DEF Orders, PlaceOrder
<1>5. QED
  BY <1>2, <1>3, <1>4

\* Where the elements that Only keeps come from.
KeptFrom(s, K) == InOrder(PlacesOf(s, K), PlaceOrder(s, K))

\* Only keeps the elements of K, each as often as it was there, in their order: they
\* come from ever later places, and from every place with an element of K.
LEMMA OnlyProperties ==
  ASSUME NEW S, NEW s \in Seq(S), NEW K
  PROVE  /\ Only(s, K) \in Seq(S \cap K) /\ Only(s, K) \in Seq(S)
         /\ Len(Only(s, K)) \in Nat
         /\ KeptFrom(s, K) \in [1..Len(Only(s, K)) -> 1..Len(s)]
         /\ \A i \in 1..Len(Only(s, K)) :
              Only(s, K)[i] = s[KeptFrom(s, K)[i]] /\ s[KeptFrom(s, K)[i]] \in K
         /\ \A i, j \in 1..Len(Only(s, K)) : i < j => KeptFrom(s, K)[i] < KeptFrom(s, K)[j]
         /\ \A k \in 1..Len(s) :
              s[k] \in K => \E i \in 1..Len(Only(s, K)) : KeptFrom(s, K)[i] = k
<1> DEFINE P == PlacesOf(s, K)
           n == Cardinality(P)
           f == InOrder(P, PlaceOrder(s, K))
<1>1. P \subseteq 1..Len(s) /\ IsFiniteSet(P) /\ Orders(PlaceOrder(s, K), P)
  BY PlacesOrdered
<1>2. /\ n \in Nat /\ f \in [1..n -> P]
      /\ \A i, j \in 1..n : i < j => <<f[i], f[j]>> \in PlaceOrder(s, K)
      /\ \A x \in P : \E i \in 1..n : f[i] = x
  <2> HIDE DEF P
  <2>1. QED
    BY <1>1, InOrderProperties
<1>3. Only(s, K) = [i \in 1..n |-> s[f[i]]]
  BY DEF Only, PlaceOrder
<1>4. /\ DOMAIN s = 1..Len(s) /\ s \in [1..Len(s) -> S] /\ Len(s) \in Nat
  BY LenProperties
<1>5. P = {i \in 1..Len(s) : s[i] \in K}
  BY <1>4 DEF PlacesOf
<1>6. \A i, j \in 1..n : i < j => f[i] < f[j]
  BY <1>2 DEF PlaceOrder
<1> HIDE DEF P, f, n
<1>7. \A i \in 1..n : s[f[i]] \in S \cap K /\ f[i] \in 1..Len(s)
  BY <1>2, <1>4, <1>5
<1>8. /\ Only(s, K) \in Seq(S \cap K) /\ Only(s, K) \in Seq(S)
      /\ Len(Only(s, K)) = n
  BY <1>2, <1>3, <1>7
<1>9. f \in [1..n -> 1..Len(s)]
  BY <1>1, <1>2
<1>10. \A k \in 1..Len(s) : s[k] \in K => \E i \in 1..n : f[i] = k
  BY <1>2, <1>5
<1>11. \A i \in 1..n : Only(s, K)[i] = s[f[i]]
  BY <1>3
<1>12. QED
  <2>1. KeptFrom(s, K) = f
    BY DEF KeptFrom, f, P
  <2>2. QED
    BY <2>1, <1>2, <1>6, <1>7, <1>8, <1>9, <1>10, <1>11

\* No element of K is dropped.
LEMMA OnlyComplete ==
  ASSUME NEW S, NEW s \in Seq(S), NEW K, NEW k \in 1..Len(s), s[k] \in K
  PROVE  \E i \in 1..Len(Only(s, K)) : KeptFrom(s, K)[i] = k /\ Only(s, K)[i] = s[k]
<1> DEFINE P == PlacesOf(s, K)
           n == Cardinality(P)
           f == InOrder(P, PlaceOrder(s, K))
<1>1. IsFiniteSet(P) /\ Orders(PlaceOrder(s, K), P)
  BY PlacesOrdered
<1>2. k \in P
  BY LenProperties DEF PlacesOf
<1>3. n \in Nat /\ \A x \in P : \E i \in 1..n : f[i] = x
  <2> HIDE DEF P
  <2>1. QED
    BY <1>1, InOrderProperties
<1>4. Only(s, K) = [i \in 1..n |-> s[f[i]]]
  BY DEF Only, PlaceOrder
<1>5. Len(Only(s, K)) = n
  BY <1>3, <1>4
<1>6. f = KeptFrom(s, K)
  BY DEF KeptFrom
<1> HIDE DEF P, f, n
<1>7. QED
  BY <1>2, <1>3, <1>4, <1>5, <1>6

\* Nothing is kept of nothing.
LEMMA OnlyEmpty ==
  ASSUME NEW K
  PROVE  Only(<<>>, K) = <<>>
<1>1. PlacesOf(<<>>, K) = {} /\ Cardinality({}) = 0
  BY FS_EmptySet DEF PlacesOf
<1>2. Only(<<>>, K) = [n \in 1..Cardinality(PlacesOf(<<>>, K)) |-> <<>>[KeptFrom(<<>>, K)[n]]]
  BY Zenon DEF Only, KeptFrom, PlaceOrder
<1>3. Only(<<>>, K) = [n \in 1..0 |-> <<>>[KeptFrom(<<>>, K)[n]]]
  BY <1>1, <1>2
<1>4. QED
  BY <1>3

\* One more element is kept, at the end, or is not.
LEMMA OnlyAppend ==
  ASSUME NEW S, NEW s \in Seq(S), NEW e \in S, NEW K
  PROVE  Only(Append(s, e), K) = IF e \in K THEN Append(Only(s, K), e) ELSE Only(s, K)
<1> DEFINE t == Append(s, e)
           N == Len(s)
           P == PlacesOf(s, K)
           Q == PlacesOf(t, K)
           f == InOrder(P, PlaceOrder(s, K))
           g == InOrder(Q, PlaceOrder(t, K))
           n == Cardinality(P)
<1>1. /\ N \in Nat /\ DOMAIN s = 1..N /\ t \in Seq(S) /\ DOMAIN t = 1..(N + 1)
      /\ \A i \in 1..N : t[i] = s[i]
      /\ t[N + 1] = e
  BY AppendProperties, LenProperties
<1>2. P \subseteq 1..N /\ IsFiniteSet(P) /\ Orders(PlaceOrder(s, K), P)
  BY PlacesOrdered
<1>3. Q = IF e \in K THEN P \cup {N + 1} ELSE P
  BY <1>1 DEF PlacesOf
<1>4. IsFiniteSet(Q) /\ Orders(PlaceOrder(t, K), Q)
  BY <1>1, PlacesOrdered
<1>5. Only(s, K) = [i \in 1..n |-> s[f[i]]] /\ Only(t, K) = [i \in 1..Cardinality(Q) |-> t[g[i]]]
  BY DEF Only, PlaceOrder
<1>6. /\ n \in Nat /\ f \in [1..n -> P]
      /\ \A i \in 1..n : Rank(f[i], P, PlaceOrder(s, K)) = i - 1
  <2> HIDE DEF P
  <2>1. QED
    BY <1>2, InOrderProperties
<1>7. \A x \in Q : g[Rank(x, Q, PlaceOrder(t, K)) + 1] = x
  <2> HIDE DEF Q
  <2>1. QED
    BY <1>4, InOrderProperties
<1>8. CASE e \notin K
  <2>1. PlaceOrder(t, K) = PlaceOrder(s, K) /\ Q = P
    BY <1>3, <1>8 DEF PlaceOrder
  <2>2. Only(t, K) = [i \in 1..n |-> t[f[i]]]
    BY <2>1, <1>5
  <2>3. \A i \in 1..n : t[f[i]] = s[f[i]]
    BY <1>1, <1>2, <1>6
  <2> HIDE DEF P, Q, n, f, g, t
  <2>4. Only(t, K) = Only(s, K)
    BY <2>2, <2>3, <1>5
  <2>5. QED
    BY <2>4, <1>8 DEF t
<1>9. CASE e \in K
  <2>1. Q = P \cup {N + 1} /\ N + 1 \notin P
    BY <1>1, <1>2, <1>3, <1>9
  <2>2. Cardinality(Q) = n + 1
    BY <2>1, <1>2, FS_AddElement
  <2>3. ASSUME NEW x \in P PROVE Rank(x, Q, PlaceOrder(t, K)) = Rank(x, P, PlaceOrder(s, K))
    <3>1. {y \in Q : <<y, x>> \in PlaceOrder(t, K)} = {y \in P : <<y, x>> \in PlaceOrder(s, K)}
      BY <2>1, <1>1, <1>2 DEF PlaceOrder
    <3>2. QED
      BY <3>1 DEF Rank
  <2>4. Rank(N + 1, Q, PlaceOrder(t, K)) = n
    <3>1. {y \in Q : <<y, N + 1>> \in PlaceOrder(t, K)} = P
      BY <2>1, <1>1, <1>2 DEF PlaceOrder
    <3>2. QED
      BY <3>1 DEF Rank
  <2> HIDE DEF P, Q, n, f, g, t, N
  <2>5. \A i \in 1..n : g[i] = f[i]
    <3> SUFFICES ASSUME NEW i \in 1..n PROVE g[i] = f[i]
      OBVIOUS
    <3>1. f[i] \in P /\ f[i] \in Q /\ Rank(f[i], Q, PlaceOrder(t, K)) = i - 1
      BY <1>6, <2>1, <2>3
    <3>2. g[(i - 1) + 1] = f[i]
      BY <3>1, <1>7
    <3>3. QED
      BY <3>2, <1>6
  <2>6. g[n + 1] = N + 1
    BY <2>1, <2>4, <1>7
  <2>7. \A i \in 1..n : t[g[i]] = s[f[i]]
    BY <2>5, <1>1, <1>2, <1>6
  <2>8. t[g[n + 1]] = e
    BY <2>6, <1>1
  <2>9. Only(t, K) = Append(Only(s, K), e)
    <3>1. Only(t, K) = [i \in 1..(n + 1) |-> t[g[i]]]
      BY <1>5, <2>2
    <3>2. \A i \in 1..n : s[f[i]] \in S
      <4>1. \A k \in 1..N : s[k] \in S
        BY ElementOfSeq DEF N
      <4>2. QED
        BY <4>1, <1>2, <1>6
    <3>3. Only(s, K) \in Seq(S) /\ Len(Only(s, K)) = n
      BY <1>5, <1>6, <3>2
    <3>4. \A i \in 1..n : Only(s, K)[i] = s[f[i]]
      BY <1>5
    <3>5. Only(t, K) \in Seq(S) /\ Len(Only(t, K)) = n + 1
      <4>1. \A i \in 1..(n + 1) : t[g[i]] \in S
        BY <2>7, <2>8, <3>2, <1>6
      <4>2. QED
        BY <3>1, <4>1, <1>6
    <3>6. \A i \in 1..(n + 1) : Only(t, K)[i] = Append(Only(s, K), e)[i]
      BY <3>1, <3>3, <3>4, <2>7, <2>8, <1>6
    <3>7. QED
      BY <3>3, <3>5, <3>6, AppendProperties, SeqEqual
  <2>10. QED
    BY <2>9, <1>9 DEF t
<1>10. QED
  BY <1>8, <1>9

\* A slice without repetitions has as many elements as its set.
LEMMA AllDifferent ==
  ASSUME NEW T, NEW n \in Nat, NEW f \in [1..n -> T],
         \A i, j \in 1..n : f[i] = f[j] => i = j
  PROVE  Cardinality({f[i] : i \in 1..n}) = n
<1> DEFINE S == {f[i] : i \in 1..n}
<1>1. f \in [1..n -> S] /\ \A t \in S : \E i \in 1..n : f[i] = t
  OBVIOUS
<1> HIDE DEF S
<1>2. f \in Bijection(1..n, S)
  BY <1>1, Fun_IsBij
<1>3. ExistsBijection(1..n, S)
  BY <1>2, Fun_ExistsBij
<1>4. IsFiniteSet(1..n) /\ Cardinality(1..n) = n
  BY FS_Interval
<1>5. Cardinality(S) = Cardinality(1..n)
  BY <1>3, <1>4, FS_Bijection
<1>6. QED
  BY <1>4, <1>5 DEF S

==============================================================================
