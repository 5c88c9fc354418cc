---------------------------- MODULE CacheKeyProofs ----------------------------
(* makeCacheKey tells calls apart, for any number of parameters and any values of   *)
(* theirs, as long as none is left out and no text contains the byte that ends a     *)
(* value. The proof decodes the bytes from the left: the first value that differs    *)
(* shows. What is said of all lists is proved from the least counterexample.         *)
EXTENDS CacheKey, SequenceTheorems, WellFoundedInduction, TLAPS

\* A set of natural numbers has a least one.
LEMMA Least ==
  ASSUME NEW T \in SUBSET Nat, T # {}
  PROVE  \E x \in T : \A y \in T : x <= y
<1> DEFINE R == OpToRel(<, Nat)
<1>1. IsWellFoundedOn(R, Nat)
  BY NatLessThanWellFounded, Zenon
<1>2. \E x \in T : \A y \in T : ~(<<y, x>> \in R)
  <2> HIDE DEF R
  <2> QED
    BY <1>1, WFMin, Zenon
<1>3. \A x, y \in Nat : <<y, x>> \in R <=> y < x
  BY DEF OpToRel
<1> HIDE DEF R
<1>4. PICK x \in T : \A y \in T : ~(<<y, x>> \in R)
  BY <1>2
<1>5. \A y \in T : x \in Nat /\ y \in Nat
  OBVIOUS
<1>6. \A y \in T : ~(y < x)
  BY <1>3, <1>4, <1>5, Zenon
<1>7. \A y \in T : x <= y
  BY <1>5, <1>6
<1> QED
  BY <1>7

\* Induction: what holds of 0, and with n of n + 1, holds of all numbers up to N.
LEMMA Inductive ==
  ASSUME NEW G, NEW N \in Nat, 0 \in G, \A n \in 0..(N - 1) : n \in G => n + 1 \in G
  PROVE  \A n \in 0..N : n \in G
<1> DEFINE T == {n \in 0..N : n \notin G}
<1> SUFFICES ASSUME T # {} PROVE FALSE
  OBVIOUS
<1>1. T \in SUBSET Nat
  OBVIOUS
<1>2. PICK n \in T : \A m \in T : n <= m
  <2> HIDE DEF T
  <2> QED
    BY <1>1, Least
<1>3. n # 0 /\ n \in 0..N /\ n \notin G
  OBVIOUS
<1>4. n - 1 \in 0..(N - 1) /\ (n - 1) + 1 = n /\ ~(n <= n - 1)
  BY <1>3
<1>5. n - 1 \in G
  <2>1. n - 1 \notin T /\ n - 1 \in 0..N
    BY <1>2, <1>4
  <2> QED
    BY <2>1
<1> QED
  BY <1>3, <1>4, <1>5

\* Concatenation, as a function of which only the following is used.
Cat(a, b) == a \o b

LEMMA CatType ==
  ASSUME NEW S, NEW a \in Seq(S), NEW b \in Seq(S)
  PROVE  Cat(a, b) \in Seq(S) /\ Len(Cat(a, b)) = Len(a) + Len(b)
BY DEF Cat

LEMMA CatAt ==
  ASSUME NEW S, NEW a \in Seq(S), NEW b \in Seq(S), NEW i \in 1..(Len(a) + Len(b))
  PROVE  Cat(a, b)[i] = IF i <= Len(a) THEN a[i] ELSE b[i - Len(a)]
BY DEF Cat

LEMMA CatFirst ==
  ASSUME NEW S, NEW a \in Seq(S), NEW b \in Seq(S), a # <<>>
  PROVE  Cat(a, b)[1] = a[1]
<1>1. Len(a) \in Nat /\ Len(b) \in Nat /\ Len(a) >= 1
  BY EmptySeq
<1> QED
  BY <1>1, CatAt

LEMMA CatRegroups ==
  ASSUME NEW S, NEW a \in Seq(S), NEW b \in Seq(S), NEW c \in Seq(S)
  PROVE  Cat(Cat(a, b), c) = Cat(a, Cat(b, c))
BY DEF Cat

LEMMA CatCancels ==
  ASSUME NEW S, NEW a \in Seq(S), NEW b \in Seq(S), NEW c \in Seq(S), Cat(a, b) = Cat(a, c)
  PROVE  b = c
BY ConcatSimplifications, Zenon DEF Cat

\* g are the concatenations of the first sequences of s.
IsPieces(S, s, g) ==
    /\ g \in [0..Len(s) -> Seq(S)]
    /\ g[0] = <<>>
    /\ \A i \in 1..Len(s) : g[i] = g[i - 1] \o s[i]

\* They exist, up to any number of them.
LEMMA PiecesExist ==
  ASSUME NEW S, NEW s \in Seq(Seq(S))
  PROVE  \E g : IsPieces(S, s, g)
<1> DEFINE Up(n) == \E g \in [0..n -> Seq(S)] :
                       /\ g[0] = <<>>
                       /\ \A i \in 1..n : g[i] = g[i - 1] \o s[i]
           G == {n \in 0..Len(s) : Up(n)}
<1>1. Len(s) \in Nat
  OBVIOUS
<1>2. Up(0)
  <2> DEFINE g == [i \in 0..0 |-> <<>>]
  <2>1. g \in [0..0 -> Seq(S)] /\ g[0] = <<>> /\ \A i \in 1..0 : g[i] = g[i - 1] \o s[i]
    OBVIOUS
  <2> HIDE DEF g
  <2> QED
    BY <2>1
<1>3. ASSUME NEW m \in 0..(Len(s) - 1), Up(m) PROVE Up(m + 1)
  <2>1. PICK g \in [0..m -> Seq(S)] : g[0] = <<>> /\ \A i \in 1..m : g[i] = g[i - 1] \o s[i]
    BY <1>3, Zenon
  <2> DEFINE n == m + 1
             h == [i \in 0..n |-> IF i = n THEN g[m] \o s[n] ELSE g[i]]
  <2>2. n \in 1..Len(s) /\ m \in 0..m /\ m \in Nat
    BY <1>1
  <2>3. s[n] \in Seq(S) /\ g[m] \in Seq(S)
    BY <2>1, <2>2, ElementOfSeq
  <2>4. h \in [0..n -> Seq(S)]
    <3>1. g[m] \o s[n] \in Seq(S)
      BY <2>3, ConcatProperties
    <3>2. \A i \in 0..n : i # n => g[i] \in Seq(S)
      BY <2>1, <2>2
    <3> QED
      BY <3>1, <3>2
  <2>5. h[0] = <<>>
    BY <2>1, <2>2
  <2>6. ASSUME NEW i \in 1..n PROVE h[i] = h[i - 1] \o s[i]
    <3>1. i - 1 \in 0..n /\ i - 1 # n /\ i \in 0..n
      BY <2>2
    <3>2. h[i - 1] = g[i - 1]
      BY <3>1
    <3>3. CASE i = n
      <4>1. i - 1 = m
        BY <3>3, <2>2
      <4> QED
        BY <3>1, <3>2, <3>3, <4>1
    <3>4. CASE i # n
      <4>1. i \in 1..m
        BY <3>4, <2>2
      <4> QED
        BY <3>1, <3>2, <3>4, <4>1, <2>1, Zenon
    <3> QED
      BY <3>3, <3>4, Zenon
  <2> HIDE DEF h
  <2> QED
    BY <2>4, <2>5, <2>6, Zenon
<1>4. Up(Len(s))
  <2> HIDE DEF Up
  <2>1. 0 \in G /\ \A m \in 0..(Len(s) - 1) : m \in G => m + 1 \in G
    BY <1>1, <1>2, <1>3
  <2>2. \A m \in 0..Len(s) : m \in G
    <3> HIDE DEF G
    <3> QED
      BY <1>1, <2>1, Inductive, Zenon
  <2> QED
    BY <1>1, <2>2
<1> QED
  BY <1>4, SMTT(30) DEF IsPieces


\* FlattenSeq, defined by recursion, is the last of them.
LEMMA FlattenPieces ==
  ASSUME NEW S, NEW s \in Seq(Seq(S))
  PROVE  \E g : IsPieces(S, s, g) /\ FlattenSeq(s) = g[Len(s)]
<1>1. PICK g : IsPieces(S, s, g)
  BY PiecesExist
<1>2. Len(s) \in Nat
  OBVIOUS
<1>3. CASE Len(s) = 0
  <2>1. s = <<>> /\ FlattenSeq(s) = s
    BY <1>3 DEF FlattenSeq
  <2> QED
    BY <1>1, <1>3, <2>1 DEF IsPieces
<1>4. CASE Len(s) # 0
  <2> DEFINE f[i \in 1..Len(s)] == IF i = 1 THEN s[i] ELSE f[i - 1] \o s[i]
             k == [i \in 1..Len(s) |-> g[i]]
             h == [i \in 0..Len(s) |-> IF i = 0 THEN <<>> ELSE f[i]]
  <2>1. f = CHOOSE u : u = [i \in 1..Len(s) |-> IF i = 1 THEN s[i] ELSE u[i - 1] \o s[i]]
    BY DEF f
  <2>2. FlattenSeq(s) = f[Len(s)]
    BY <1>4 DEF FlattenSeq
  <2> HIDE DEF f
  <2>3. k = [i \in 1..Len(s) |-> IF i = 1 THEN s[i] ELSE k[i - 1] \o s[i]]
    <3>1. ASSUME NEW i \in 1..Len(s) PROVE g[i] = IF i = 1 THEN s[i] ELSE k[i - 1] \o s[i]
      <4>1. g[i] = g[i - 1] \o s[i] /\ g[0] = <<>> /\ s[i] \in Seq(S)
        BY <1>1, ElementOfSeq, Zenon DEF IsPieces
      <4>2. CASE i = 1
        <5>1. i - 1 = 0
          BY <4>2
        <5>2. g[i] = <<>> \o s[i]
          BY <4>1, <5>1, Zenon
        <5> QED
          BY <4>1, <4>2, <5>2, ConcatEmptySeq, Zenon
      <4>3. CASE i # 1
        <5>1. i - 1 \in 1..Len(s)
          BY <1>2, <4>3
        <5> QED
          BY <4>1, <4>3, <5>1, Zenon
      <4> QED
        BY <4>2, <4>3
    <3> QED
      BY <3>1, Zenon
  <2> HIDE DEF k
  <2>4. f = [i \in 1..Len(s) |-> IF i = 1 THEN s[i] ELSE f[i - 1] \o s[i]]
    BY <2>1, <2>3, Zenon
  <2>5. \A i \in 1..Len(s) : f[i] = g[i]
    <3> DEFINE G == {n \in 0..Len(s) : n # 0 => f[n] = g[n]}
    <3>1. 0 \in G
      BY <1>2
    <3>2. ASSUME NEW n \in 0..(Len(s) - 1), n \in G PROVE n + 1 \in G
      <4>1. n + 1 \in 1..Len(s) /\ (n + 1) - 1 = n
        BY <1>2
      <4>2. /\ f[n + 1] = IF n + 1 = 1 THEN s[n + 1] ELSE f[n] \o s[n + 1]
            /\ g[n + 1] = g[n] \o s[n + 1] /\ g[0] = <<>> /\ s[n + 1] \in Seq(S)
        BY <1>1, <2>4, <4>1, ElementOfSeq, Zenon DEF IsPieces
      <4>3. f[n + 1] = g[n + 1]
        <5>1. CASE n = 0
          <6>1. <<>> \o s[n + 1] = s[n + 1]
            BY <4>2, ConcatEmptySeq
          <6>2. n + 1 = 1 /\ g[n] = <<>>
            BY <4>2, <5>1
          <6> QED
            BY <4>2, <6>1, <6>2
        <5>2. CASE n # 0
          <6>1. n + 1 # 1 /\ f[n] = g[n]
            BY <3>2, <5>2
          <6> QED
            BY <4>2, <6>1, Zenon
        <5> QED
          BY <5>1, <5>2
      <4> QED
        BY <4>1, <4>3
    <3>3. \A n \in 0..Len(s) : n \in G
      <4> HIDE DEF G
      <4> QED
        BY <1>2, <3>1, <3>2, Inductive, Zenon
    <3> QED
      BY <3>3
  <2> QED
    BY <1>1, <1>2, <1>4, <2>2, <2>5
<1> QED
  BY <1>3, <1>4

\* The whole goes on after each of its pieces.
LEMMA PieceIsPrefix ==
  ASSUME NEW S, NEW s \in Seq(Seq(S)), NEW g, IsPieces(S, s, g), NEW k \in 0..Len(s)
  PROVE  \E r \in Seq(S) : g[Len(s)] = Cat(g[k], r)
<1> DEFINE N == Len(s)
           Goes(m) == \E r \in Seq(S) : g[N] = Cat(g[N - m], r)
           G == {m \in 0..N : Goes(m)}
<1>1. N \in Nat
  OBVIOUS
<1>2. Goes(0)
  <2>1. g[N] \in Seq(S) /\ N - 0 = N /\ <<>> \in Seq(S)
    BY <1>1 DEF IsPieces
  <2>2. g[N] = Cat(g[N], <<>>)
    BY <2>1, ConcatEmptySeq DEF Cat
  <2> QED
    BY <2>1, <2>2, Zenon
<1>3. ASSUME NEW m \in 0..(N - 1), Goes(m) PROVE Goes(m + 1)
  <2>1. PICK r \in Seq(S) : g[N] = Cat(g[N - m], r)
    BY <1>3
  <2> DEFINE i == N - m
  <2>2. i \in 1..N /\ N - (m + 1) = i - 1 /\ i - 1 \in 0..N
    BY <1>1
  <2>3. g[N] = Cat(g[i], r)
    BY <2>1
  <2> HIDE DEF i
  <2>4. g[i] = Cat(g[i - 1], s[i]) /\ g[i - 1] \in Seq(S) /\ s[i] \in Seq(S)
    BY <2>2, ElementOfSeq, Zenon DEF IsPieces, Cat
  <2>5. g[N] = Cat(g[i - 1], Cat(s[i], r)) /\ Cat(s[i], r) \in Seq(S)
    <3>1. Cat(Cat(g[i - 1], s[i]), r) = Cat(g[i - 1], Cat(s[i], r))
      BY <2>4, CatRegroups
    <3>2. Cat(s[i], r) \in Seq(S)
      BY <2>4, CatType, Zenon
    <3> QED
      BY <2>3, <2>4, <3>1, <3>2, Zenon
  <2> QED
    BY <2>2, <2>5, Zenon
<1>4. \A m \in 0..N : Goes(m)
  <2> HIDE DEF Goes, N
  <2>1. 0 \in G /\ \A m \in 0..(N - 1) : m \in G => m + 1 \in G
    BY <1>1, <1>2, <1>3
  <2>2. \A m \in 0..N : m \in G
    <3> HIDE DEF G
    <3> QED
      BY <1>1, <2>1, Inductive
  <2> QED
    BY <2>2
<1>5. N - k \in 0..N /\ N - (N - k) = k
  BY <1>1
<1>6. Goes(N - k)
  <2> HIDE DEF Goes
  <2> QED
    BY <1>4, <1>5
<1> QED
  BY <1>5, <1>6

\* Lists that begin alike have the same first pieces.
LEMMA SamePieces ==
  ASSUME NEW S, NEW s \in Seq(Seq(S)), NEW t \in Seq(Seq(S)), NEW g, IsPieces(S, s, g),
         NEW h, IsPieces(S, t, h), NEW k \in Nat, k <= Len(s), k <= Len(t),
         \A i \in 1..k : s[i] = t[i]
  PROVE  g[k] = h[k]
<1> DEFINE G == {n \in 0..k : g[n] = h[n]}
<1>1. 0 \in G
  BY DEF IsPieces
<1>2. ASSUME NEW n \in 0..(k - 1), n \in G PROVE n + 1 \in G
  <2>1. n + 1 \in 1..k /\ n + 1 \in 1..Len(s) /\ n + 1 \in 1..Len(t) /\ (n + 1) - 1 = n
    OBVIOUS
  <2>2. g[n + 1] = g[n] \o s[n + 1] /\ h[n + 1] = h[n] \o t[n + 1]
    BY <2>1, Zenon DEF IsPieces
  <2>3. n + 1 \in 0..k /\ g[n] = h[n] /\ s[n + 1] = t[n + 1]
    BY <1>2, <2>1
  <2>4. g[n + 1] = h[n + 1]
    BY <2>2, <2>3
  <2> QED
    BY <2>3, <2>4
<1>3. \A n \in 0..k : n \in G
  <2> HIDE DEF G
  <2> QED
    BY <1>1, <1>2, Inductive, Zenon
<1> QED
  BY <1>3


\* From any of its sequences on, a whole is what came before, the sequence, and the rest.
LEMMA Splits ==
  ASSUME NEW S, NEW s \in Seq(Seq(S)), NEW g, IsPieces(S, s, g), NEW x \in Seq(S),
         NEW k \in Nat, k < Len(s)
  PROVE  /\ g[k] \in Seq(S) /\ s[k + 1] \in Seq(S)
         /\ \E q \in Seq(S) : Cat(g[Len(s)], x) = Cat(g[k], Cat(s[k + 1], q))
<1> DEFINE n == k + 1
<1>1. n \in 1..Len(s) /\ n \in 0..Len(s) /\ n - 1 = k /\ k \in 0..Len(s)
  OBVIOUS
<1> HIDE DEF n
<1>2. g[n] = Cat(g[k], s[n]) /\ g[k] \in Seq(S) /\ g[n] \in Seq(S)
  BY <1>1, Zenon DEF IsPieces, Cat
<1>3. s[n] \in Seq(S)
  BY <1>1, ElementOfSeq
<1>4. PICK r \in Seq(S) : g[Len(s)] = Cat(g[n], r)
  BY <1>1, PieceIsPrefix
<1>5. Cat(r, x) \in Seq(S) /\ Cat(s[n], Cat(r, x)) = Cat(Cat(s[n], r), x) /\ Cat(s[n], r) \in Seq(S)
  <2>1. Cat(r, x) \in Seq(S)
    BY CatType
  <2>2. Cat(s[n], r) \in Seq(S)
    BY <1>3, CatType, Zenon
  <2>3. Cat(Cat(s[n], r), x) = Cat(s[n], Cat(r, x))
    BY <1>3, CatRegroups
  <2> QED
    BY <2>1, <2>2, <2>3
<1>6. Cat(Cat(g[k], s[n]), r) = Cat(g[k], Cat(s[n], r))
  BY <1>2, <1>3, CatRegroups
<1>7. Cat(Cat(g[k], Cat(s[n], r)), x) = Cat(g[k], Cat(Cat(s[n], r), x))
  BY <1>2, <1>5, CatRegroups
<1>8. Cat(g[Len(s)], x) = Cat(g[k], Cat(s[n], Cat(r, x)))
  BY <1>2, <1>4, <1>5, <1>6, <1>7, Zenon
<1> QED
  BY <1>2, <1>3, <1>5, <1>8 DEF n

\* The two lists agree up to n; and none of their sequences up to n can be taken for the
\* one at the same place in the other list, whatever follows. e begins no sequence.
Agree(A, B, n) == \A i \in 1..n : A[i] = B[i]
Apart(S, A, B, n) ==
    \A i \in 1..n : \A r, q \in Seq(S) : Cat(A[i], r) = Cat(B[i], q) => A[i] = B[i]
NeverBegins(A, e) == \A i \in 1..Len(A) : A[i] # <<>> /\ A[i][1] # e

\* Two lists whose concatenations begin a common sequence agree as far as both go, if
\* none of their sequences can be taken for the other at the same place.
LEMMA SameValues ==
  ASSUME NEW S, NEW A \in Seq(Seq(S)), NEW B \in Seq(Seq(S)), NEW x \in Seq(S), NEW y \in Seq(S),
         Cat(FlattenSeq(A), x) = Cat(FlattenSeq(B), y),
         NEW N \in Nat, N <= Len(A), N <= Len(B), Apart(S, A, B, N)
  PROVE  Agree(A, B, N)
<1>0. PICK g, h : IsPieces(S, A, g) /\ IsPieces(S, B, h) /\ Cat(g[Len(A)], x) = Cat(h[Len(B)], y)
  BY FlattenPieces, Zenon
<1> DEFINE Alike(n) == \A i \in 1..n : A[i] = B[i]
           G == {n \in 0..N : Alike(n)}
<1>1. 0 \in G
  OBVIOUS
<1>2. ASSUME NEW n \in 0..(N - 1), n \in G PROVE n + 1 \in G
  <2>1. n \in Nat /\ n < Len(A) /\ n < Len(B) /\ n <= Len(A) /\ n <= Len(B) /\ n + 1 \in 1..N /\ n + 1 \in 0..N
    OBVIOUS
  <2>2. Alike(n)
    BY <1>2
  <2>3. g[n] = h[n]
    BY <1>0, <2>1, <2>2, SamePieces
  <2>4. /\ g[n] \in Seq(S) /\ A[n + 1] \in Seq(S) /\ B[n + 1] \in Seq(S)
        /\ \E q \in Seq(S) : Cat(g[Len(A)], x) = Cat(g[n], Cat(A[n + 1], q))
        /\ \E q \in Seq(S) : Cat(h[Len(B)], y) = Cat(h[n], Cat(B[n + 1], q))
    <3>1. /\ g[n] \in Seq(S) /\ A[n + 1] \in Seq(S)
          /\ \E q \in Seq(S) : Cat(g[Len(A)], x) = Cat(g[n], Cat(A[n + 1], q))
      BY <1>0, <2>1, Splits, SMTT(30)
    <3>2. /\ B[n + 1] \in Seq(S)
          /\ \E q \in Seq(S) : Cat(h[Len(B)], y) = Cat(h[n], Cat(B[n + 1], q))
      BY <1>0, <2>1, Splits
    <3> QED
      BY <3>1, <3>2
  <2>5. PICK q \in Seq(S), r \in Seq(S) :
             Cat(g[n], Cat(A[n + 1], q)) = Cat(g[n], Cat(B[n + 1], r))
    BY <1>0, <2>3, <2>4, Zenon
  <2>6. Cat(A[n + 1], q) \in Seq(S) /\ Cat(B[n + 1], r) \in Seq(S)
    BY <2>4, CatType, Zenon
  <2>7. Cat(A[n + 1], q) = Cat(B[n + 1], r)
    BY <2>4, <2>5, <2>6, CatCancels, SMTT(30)
  <2>8. A[n + 1] = B[n + 1]
    BY <2>1, <2>7 DEF Apart
  <2>9. Alike(n + 1)
    <3> SUFFICES ASSUME NEW i \in 1..(n + 1) PROVE A[i] = B[i]
      OBVIOUS
    <3>1. i = n + 1 \/ i \in 1..n
      BY <2>1
    <3> QED
      BY <2>2, <2>8, <3>1, SMTT(30)
  <2> HIDE DEF Alike
  <2> QED
    BY <2>1, <2>9
<1>3. \A n \in 0..N : n \in G
  <2> HIDE DEF G
  <2> QED
    BY <1>1, <1>2, Inductive, Zenon
<1>4. N \in G
  <2> HIDE DEF G
  <2> QED
    BY <1>3
<1> QED
  BY <1>4 DEF Agree

\* A mark that begins none of its sequences ends the list.
LEMMA EndsThere ==
  ASSUME NEW S, NEW A \in Seq(Seq(S)), NEW B \in Seq(Seq(S)), NEW x \in Seq(S), NEW y \in Seq(S),
         NEW e \in S, Cat(FlattenSeq(A), Cat(<<e>>, x)) = Cat(FlattenSeq(B), y),
         NeverBegins(B, e), Len(A) < Len(B), Agree(A, B, Len(A))
  PROVE  FALSE
<1>0. PICK g, h : IsPieces(S, A, g) /\ IsPieces(S, B, h)
                  /\ Cat(g[Len(A)], Cat(<<e>>, x)) = Cat(h[Len(B)], y)
  BY FlattenPieces, SMTT(30)
<1> DEFINE n == Len(A)
<1>1. n \in Nat /\ n < Len(B) /\ n <= Len(B) /\ n <= Len(A) /\ n + 1 \in 1..Len(B) /\ n \in 0..Len(A)
  OBVIOUS
<1>2. g[n] = h[n]
  <2> HIDE DEF n
  <2>1. \A i \in 1..n : A[i] = B[i]
    BY DEF n, Agree
  <2> QED
    BY <1>0, <1>1, <2>1, SamePieces
<1> HIDE DEF n
<1>3. PICK q \in Seq(S) : Cat(h[Len(B)], y) = Cat(h[n], Cat(B[n + 1], q))
  BY <1>0, <1>1, Splits
<1>4. h[n] \in Seq(S) /\ B[n + 1] \in Seq(S)
  BY <1>0, <1>1, Splits, Zenon
<1>5. <<e>> \in Seq(S) /\ <<e>> # <<>> /\ <<e>>[1] = e
  OBVIOUS
<1>6. Cat(<<e>>, x) \in Seq(S) /\ Cat(B[n + 1], q) \in Seq(S)
  BY <1>4, <1>5, CatType, Zenon
<1>7. Cat(h[n], Cat(<<e>>, x)) = Cat(h[n], Cat(B[n + 1], q))
  BY <1>0, <1>2, <1>3 DEF n
<1>8. Cat(<<e>>, x) = Cat(B[n + 1], q)
  BY <1>4, <1>6, <1>7, CatCancels
<1> DEFINE b == B[n + 1]
<1>9. b \in Seq(S) /\ b # <<>> /\ b[1] # e
  BY <1>1, <1>4 DEF NeverBegins
<1> HIDE DEF b
<1>10. Cat(<<e>>, x)[1] = <<e>>[1]
  BY <1>5, CatFirst, Zenon
<1>11. Cat(b, q)[1] = b[1]
  BY <1>9, CatFirst
<1> QED
  BY <1>5, <1>8, <1>9, <1>10, <1>11 DEF b


\* What comes first can be read off, and after it the mark.
LEMMA CatBegins ==
  ASSUME NEW S, NEW a \in Seq(S), NEW x \in Seq(S), NEW i \in 1..Len(a)
  PROVE  Cat(a, x)[i] = a[i]
<1>1. Len(a) \in Nat /\ Len(x) \in Nat
  OBVIOUS
<1>2. i \in 1..(Len(a) + Len(x)) /\ i <= Len(a)
  BY <1>1
<1> QED
  BY <1>2, CatAt

LEMMA MarkFollows ==
  ASSUME NEW S, NEW a \in Seq(S), NEW e \in S, NEW x \in Seq(S)
  PROVE  Cat(a, Cat(<<e>>, x))[Len(a) + 1] = e
<1>1. <<e>> \in Seq(S) /\ Len(<<e>>) = 1 /\ <<e>>[1] = e /\ <<e>> # <<>>
  OBVIOUS
<1> DEFINE z == Cat(<<e>>, x)
           n == Len(a) + 1
<1>2. z \in Seq(S) /\ Len(z) = 1 + Len(x)
  BY <1>1, CatType, Zenon
<1>3. z[1] = <<e>>[1]
  BY <1>1, CatFirst, Zenon
<1> HIDE DEF z
<1>4. Len(a) \in Nat /\ Len(x) \in Nat
  OBVIOUS
<1>5. n \in 1..(Len(a) + Len(z)) /\ ~(n <= Len(a)) /\ n - Len(a) = 1
  BY <1>2, <1>4
<1> HIDE DEF n
<1>6. Cat(a, z)[n] = z[n - Len(a)]
  BY <1>2, <1>5, CatAt
<1>7. Cat(a, z)[n] = e
  BY <1>1, <1>3, <1>5, <1>6
<1> QED
  BY <1>7 DEF z, n

\* Sequences of one length are told apart by what they begin.
LEMMA ToldByLength ==
  ASSUME NEW S, NEW a \in Seq(S), NEW b \in Seq(S), NEW x \in Seq(S), NEW y \in Seq(S),
         Len(a) = Len(b), Cat(a, x) = Cat(b, y)
  PROVE  a = b
<1>1. ASSUME NEW i \in 1..Len(a) PROVE a[i] = b[i]
  <2>1. Cat(a, x)[i] = a[i]
    BY CatBegins
  <2>2. i \in 1..Len(b)
    OBVIOUS
  <2>3. Cat(b, y)[i] = b[i]
    BY <2>2, CatBegins
  <2> QED
    BY <2>1, <2>3
<1> QED
  BY <1>1, SeqEqual

\* Sequences without the mark that follows them are told apart as well.
LEMMA NoLonger ==
  ASSUME NEW S, NEW a \in Seq(S), NEW b \in Seq(S), NEW x \in Seq(S), NEW y \in Seq(S), NEW e \in S,
         \A i \in 1..Len(b) : b[i] # e, Cat(a, Cat(<<e>>, x)) = Cat(b, y)
  PROVE  ~(Len(a) < Len(b))
<1> SUFFICES ASSUME Len(a) < Len(b) PROVE FALSE
  OBVIOUS
<1> DEFINE n == Len(a) + 1
<1>1. n \in 1..Len(b)
  OBVIOUS
<1>2. Cat(a, Cat(<<e>>, x))[n] = e
  BY MarkFollows
<1> HIDE DEF n
<1>3. Cat(b, y)[n] = b[n] /\ b[n] # e
  BY <1>1, CatBegins
<1> QED
  BY <1>2, <1>3

LEMMA ToldByMark ==
  ASSUME NEW S, NEW a \in Seq(S), NEW b \in Seq(S), NEW x \in Seq(S), NEW y \in Seq(S), NEW e \in S,
         \A i \in 1..Len(a) : a[i] # e, \A i \in 1..Len(b) : b[i] # e,
         Cat(a, Cat(<<e>>, x)) = Cat(b, Cat(<<e>>, y))
  PROVE  a = b
<1>1. <<e>> \in Seq(S) /\ Len(a) \in Nat /\ Len(b) \in Nat
  OBVIOUS
<1> DEFINE z == Cat(<<e>>, x)
           w == Cat(<<e>>, y)
<1>2. z \in Seq(S) /\ w \in Seq(S)
  BY <1>1, CatType, Zenon
<1>3. ~(Len(a) < Len(b))
  <2>1. Cat(a, Cat(<<e>>, x)) = Cat(b, w)
    OBVIOUS
  <2> HIDE DEF w
  <2> QED
    BY <1>2, <2>1, NoLonger
<1>4. ~(Len(b) < Len(a))
  <2>1. Cat(b, Cat(<<e>>, y)) = Cat(a, z)
    OBVIOUS
  <2> HIDE DEF z
  <2> QED
    BY <1>2, <2>1, NoLonger, SMTT(30)
<1>5. Len(a) = Len(b) /\ Cat(a, z) = Cat(b, w)
  BY <1>1, <1>3, <1>4
<1> HIDE DEF z, w
<1> QED
  BY <1>2, <1>5, ToldByLength


\* A list is told apart from another by the mark that follows it.
LEMMA ListTold ==
  ASSUME NEW S, NEW A \in Seq(Seq(S)), NEW B \in Seq(Seq(S)), NEW x \in Seq(S), NEW y \in Seq(S), NEW e \in S,
         NeverBegins(A, e), NeverBegins(B, e),
         NEW N \in Nat, N <= Len(A), N <= Len(B), N = Len(A) \/ N = Len(B), Apart(S, A, B, N),
         Cat(FlattenSeq(A), Cat(<<e>>, x)) = Cat(FlattenSeq(B), Cat(<<e>>, y))
  PROVE  A = B
<1>1. <<e>> \in Seq(S) /\ Len(A) \in Nat /\ Len(B) \in Nat
  OBVIOUS
<1> DEFINE z == Cat(<<e>>, x)
           w == Cat(<<e>>, y)
<1>2. z \in Seq(S) /\ w \in Seq(S)
  BY <1>1, CatType, Zenon
<1>3. Cat(FlattenSeq(A), z) = Cat(FlattenSeq(B), w)
  OBVIOUS
<1>4. Agree(A, B, N)
  <2> HIDE DEF z, w
  <2> QED
    BY <1>2, <1>3, SameValues
<1>5. ~(Len(A) < Len(B))
  <2> SUFFICES ASSUME Len(A) < Len(B) PROVE FALSE
    OBVIOUS
  <2>1. N = Len(A) /\ Agree(A, B, Len(A))
    BY <1>1, <1>4
  <2>2. Cat(FlattenSeq(A), Cat(<<e>>, x)) = Cat(FlattenSeq(B), w)
    OBVIOUS
  <2> HIDE DEF w, z
  <2> QED
    BY <1>2, <2>1, <2>2, EndsThere
<1>6. ~(Len(B) < Len(A))
  <2> SUFFICES ASSUME Len(B) < Len(A) PROVE FALSE
    OBVIOUS
  <2>1. N = Len(B) /\ Agree(B, A, Len(B))
    BY <1>1, <1>4 DEF Agree
  <2>2. Cat(FlattenSeq(B), Cat(<<e>>, y)) = Cat(FlattenSeq(A), z)
    OBVIOUS
  <2> HIDE DEF w, z
  <2> QED
    BY <1>2, <2>1, <2>2, EndsThere
<1>7. Len(A) = Len(B) /\ \A i \in 1..Len(A) : A[i] = B[i]
  BY <1>1, <1>4, <1>5, <1>6 DEF Agree
<1> QED
  BY <1>7, SeqEqual

\* A frame: its first byte, and what it is followed by.
LEMMA FrameParts ==
  ASSUME NEW a \in Seq(Bytes), NEW r \in Seq(Bytes)
  PROVE  /\ Frame(a) \in Seq(Bytes) /\ Frame(a) # <<>> /\ Frame(a)[1] = 2
         /\ Cat(Frame(a), r) = Cat(<< 2 >>, Cat(a, Cat(<< 3 >>, r)))
         /\ Cat(a, Cat(<< 3 >>, r)) \in Seq(Bytes)
<1> DEFINE b == << 2 >>
           e == << 3 >>
           d == Cat(b, a)
<1>1. b \in Seq(Bytes) /\ e \in Seq(Bytes) /\ b # <<>> /\ b[1] = 2 /\ Len(b) = 1
  BY DEF Bytes
<1>2. Frame(a) = Cat(d, e)
  BY DEF Frame, Cat, startOfValue, endOfValue
<1> HIDE DEF b, e
<1>3. d \in Seq(Bytes) /\ Len(d) = Len(b) + Len(a)
  BY <1>1, CatType, Zenon
<1>4. d[1] = 2
  BY <1>1, CatFirst
<1>5. d # <<>>
  BY <1>1, <1>3, EmptySeq
<1>6. Cat(e, r) \in Seq(Bytes)
  BY <1>1, CatType
<1>7. Cat(a, Cat(e, r)) \in Seq(Bytes)
  BY <1>6, CatType
<1>8. Cat(d, Cat(e, r)) = Cat(b, Cat(a, Cat(e, r)))
  BY <1>1, <1>6, CatRegroups
<1> HIDE DEF d
<1>9. Cat(d, e) \in Seq(Bytes) /\ Len(Cat(d, e)) = Len(d) + Len(e)
  BY <1>1, <1>3, CatType, Zenon
<1>10. Cat(d, e)[1] = 2
  BY <1>1, <1>3, <1>4, <1>5, CatFirst
<1>11. Cat(Cat(d, e), r) = Cat(d, Cat(e, r))
  BY <1>1, <1>3, CatRegroups
<1>12. Cat(d, e) # <<>>
  <2>1. Len(a) \in Nat /\ Len(e) \in Nat
    BY <1>1
  <2>2. Len(Cat(d, e)) # 0
    BY <1>1, <1>3, <1>9, <2>1
  <2> QED
    BY <2>2, EmptySeq
<1>13. /\ Frame(a) \in Seq(Bytes) /\ Frame(a) # <<>> /\ Frame(a)[1] = 2
       /\ Cat(Frame(a), r) = Cat(b, Cat(a, Cat(e, r)))
       /\ Cat(a, Cat(e, r)) \in Seq(Bytes)
  BY <1>2, <1>7, <1>8, <1>9, <1>10, <1>11, <1>12, Zenon
<1> QED
  BY <1>13 DEF b, e

LEMMA FrameOpens ==
  ASSUME NEW a \in Seq(Bytes), NEW b \in Seq(Bytes), NEW r \in Seq(Bytes), NEW q \in Seq(Bytes),
         Cat(Frame(a), r) = Cat(Frame(b), q)
  PROVE  Cat(a, Cat(<< 3 >>, r)) = Cat(b, Cat(<< 3 >>, q))
<1>1. << 2 >> \in Seq(Bytes)
  BY DEF Bytes
<1> DEFINE x == Cat(a, Cat(<< 3 >>, r))
           y == Cat(b, Cat(<< 3 >>, q))
<1>2. x \in Seq(Bytes) /\ y \in Seq(Bytes) /\ Cat(<< 2 >>, x) = Cat(<< 2 >>, y)
  BY FrameParts
<1> HIDE DEF x, y
<1>3. x = y
  BY <1>1, <1>2, CatCancels, Zenon
<1> QED
  BY <1>3 DEF x, y


-----------------------------------------------------------------------------
\* No text contains the byte that ends a value.
NoMark(s) == \A i \in 1..Len(s) : s[i] # 3
PlainText ==
    /\ \A s \in URIs \cup KeyStrings : NoMark(s)
    /\ \A l \in KeyLists : \A i \in 1..Len(l) : NoMark(l[i])

\* The two loops of makeCacheKey over the elements of a list.
Framed(l) == [i \in DOMAIN l |-> Frame(l[i])]
Numbers(l) == [i \in DOMAIN l |-> BigEndian(l[i])]

\* A framed text is told apart by what it begins.
LEMMA TextTold ==
  ASSUME NEW a \in Seq(Bytes), NEW b \in Seq(Bytes), NoMark(a), NoMark(b),
         NEW r \in Seq(Bytes), NEW q \in Seq(Bytes), Cat(Frame(a), r) = Cat(Frame(b), q)
  PROVE  a = b
<1> DEFINE e == 3
<1>1. Cat(a, Cat(<<e>>, r)) = Cat(b, Cat(<<e>>, q))
  BY FrameOpens
<1>2. e \in Bytes
  BY DEF Bytes
<1>3. (\A i \in 1..Len(a) : a[i] # e) /\ (\A i \in 1..Len(b) : b[i] # e)
  BY DEF NoMark
<1> HIDE DEF e
<1> QED
  BY <1>1, <1>2, <1>3, ToldByMark

\* The bytes of one number: eight, of which the first is never the mark that ends a list.
LEMMA NumberParts ==
  ASSUME NEW n \in Bytes
  PROVE  /\ BigEndian(n) \in Seq(Bytes) /\ Len(BigEndian(n)) = 8
         /\ BigEndian(n)[1] = 0 /\ BigEndian(n)[8] = n /\ BigEndian(n) # <<>>
<1>1. 0 \in Bytes
  BY DEF Bytes
<1> QED
  BY <1>1 DEF BigEndian

LEMMA NumberTold ==
  ASSUME NEW m \in Bytes, NEW n \in Bytes, NEW r \in Seq(Bytes), NEW q \in Seq(Bytes),
         Cat(BigEndian(m), r) = Cat(BigEndian(n), q)
  PROVE  m = n
<1>1. BigEndian(m) = BigEndian(n)
  BY NumberParts, ToldByLength
<1> QED
  BY <1>1, NumberParts

LEMMA FramedSeq ==
  ASSUME NEW l \in Seq(Seq(Bytes))
  PROVE  /\ Framed(l) \in Seq(Seq(Bytes)) /\ Len(Framed(l)) = Len(l)
         /\ \A i \in 1..Len(l) : l[i] \in Seq(Bytes) /\ Framed(l)[i] = Frame(l[i])
         /\ NeverBegins(Framed(l), 3)
<1>1. DOMAIN l = 1..Len(l) /\ Len(l) \in Nat /\ \A i \in 1..Len(l) : l[i] \in Seq(Bytes)
  BY ElementOfSeq
<1>2. <<>> \in Seq(Bytes)
  OBVIOUS
<1>3. \A i \in 1..Len(l) : Frame(l[i]) \in Seq(Bytes) /\ Frame(l[i]) # <<>> /\ Frame(l[i])[1] = 2
  BY <1>1, <1>2, FrameParts, Zenon
<1>4. Framed(l) \in [1..Len(l) -> Seq(Bytes)]
  BY <1>1, <1>3 DEF Framed
<1>5. Framed(l) \in Seq(Seq(Bytes)) /\ Len(Framed(l)) = Len(l)
  BY <1>1, <1>4, SMTT(30)
<1>6. \A i \in 1..Len(l) : Framed(l)[i] = Frame(l[i])
  BY <1>1 DEF Framed
<1> QED
  BY <1>1, <1>3, <1>5, <1>6, SMTT(30) DEF NeverBegins

LEMMA NumbersSeq ==
  ASSUME NEW l \in Seq(Bytes)
  PROVE  /\ Numbers(l) \in Seq(Seq(Bytes)) /\ Len(Numbers(l)) = Len(l)
         /\ \A i \in 1..Len(l) : l[i] \in Bytes /\ Numbers(l)[i] = BigEndian(l[i])
         /\ NeverBegins(Numbers(l), 3)
<1>1. DOMAIN l = 1..Len(l) /\ Len(l) \in Nat /\ \A i \in 1..Len(l) : l[i] \in Bytes
  BY ElementOfSeq
<1>2. \A i \in 1..Len(l) : BigEndian(l[i]) \in Seq(Bytes) /\ BigEndian(l[i]) # <<>> /\ BigEndian(l[i])[1] = 0
  BY <1>1, NumberParts
<1>3. Numbers(l) \in [1..Len(l) -> Seq(Bytes)]
  BY <1>1, <1>2 DEF Numbers
<1>4. Numbers(l) \in Seq(Seq(Bytes)) /\ Len(Numbers(l)) = Len(l)
  BY <1>1, <1>3
<1>5. \A i \in 1..Len(l) : Numbers(l)[i] = BigEndian(l[i])
  BY <1>1 DEF Numbers
<1> QED
  BY <1>1, <1>2, <1>4, <1>5 DEF NeverBegins

\* The smaller of two lengths.
LEMMA Shorter ==
  ASSUME NEW m \in Nat, NEW n \in Nat
  PROVE  \E k \in Nat : k <= m /\ k <= n /\ (k = m \/ k = n)
OBVIOUS


\* The bytes of a list of texts, and of a list of numbers, ended by the mark.
LEMMA TextsTold ==
  ASSUME NEW k \in Seq(Seq(Bytes)), NEW l \in Seq(Seq(Bytes)),
         \A i \in 1..Len(k) : NoMark(k[i]), \A i \in 1..Len(l) : NoMark(l[i]),
         NEW r \in Seq(Bytes), NEW q \in Seq(Bytes),
         Cat(FlattenSeq(Framed(k)), Cat(<< 3 >>, r)) = Cat(FlattenSeq(Framed(l)), Cat(<< 3 >>, q))
  PROVE  k = l
<1> DEFINE e == 3
           A == Framed(k)
           B == Framed(l)
<1>1. /\ A \in Seq(Seq(Bytes)) /\ Len(A) = Len(k) /\ NeverBegins(A, e)
      /\ \A i \in 1..Len(k) : k[i] \in Seq(Bytes) /\ A[i] = Frame(k[i])
  BY FramedSeq
<1>2. /\ B \in Seq(Seq(Bytes)) /\ Len(B) = Len(l) /\ NeverBegins(B, e)
      /\ \A i \in 1..Len(l) : l[i] \in Seq(Bytes) /\ B[i] = Frame(l[i])
  BY FramedSeq
<1>3. e \in Bytes /\ Len(k) \in Nat /\ Len(l) \in Nat /\ <<>> \in Seq(Bytes)
  BY DEF Bytes
<1>4. Cat(FlattenSeq(A), Cat(<<e>>, r)) = Cat(FlattenSeq(B), Cat(<<e>>, q))
  OBVIOUS
<1> HIDE DEF e, A, B
<1>5. PICK N \in Nat : N <= Len(k) /\ N <= Len(l) /\ (N = Len(k) \/ N = Len(l))
  BY <1>3, Shorter, Zenon
<1>6. ASSUME NEW i \in 1..Len(k), i \in 1..Len(l), NEW u \in Seq(Bytes), NEW v \in Seq(Bytes),
             Cat(A[i], u) = Cat(B[i], v)
      PROVE  k[i] = l[i]
  <2>1. Cat(Frame(k[i]), u) = Cat(Frame(l[i]), v) /\ k[i] \in Seq(Bytes) /\ l[i] \in Seq(Bytes)
    BY <1>1, <1>2, <1>6
  <2> QED
    BY <1>6, <2>1, TextTold, SMTT(30)
<1>7. Apart(Bytes, A, B, N)
  <2> SUFFICES ASSUME NEW i \in 1..N, NEW u \in Seq(Bytes), NEW v \in Seq(Bytes), Cat(A[i], u) = Cat(B[i], v)
               PROVE  A[i] = B[i]
    BY DEF Apart
  <2>1. i \in 1..Len(k) /\ i \in 1..Len(l)
    BY <1>3, <1>5, SMTT(30)
  <2>2. k[i] = l[i]
    BY <1>6, <2>1
  <2> QED
    BY <1>1, <1>2, <2>1, <2>2, Zenon
<1>8. A = B
  BY <1>1, <1>2, <1>3, <1>4, <1>5, <1>7, ListTold, SMTT(30)
<1>9. Len(k) = Len(l) /\ \A i \in 1..Len(k) : k[i] = l[i]
  BY <1>1, <1>2, <1>3, <1>6, <1>8
<1> QED
  BY <1>9, SeqEqual

LEMMA NumbersTold ==
  ASSUME NEW k \in Seq(Bytes), NEW l \in Seq(Bytes), NEW r \in Seq(Bytes), NEW q \in Seq(Bytes),
         Cat(FlattenSeq(Numbers(k)), Cat(<< 3 >>, r)) = Cat(FlattenSeq(Numbers(l)), Cat(<< 3 >>, q))
  PROVE  k = l
<1> DEFINE e == 3
           A == Numbers(k)
           B == Numbers(l)
<1>1. /\ A \in Seq(Seq(Bytes)) /\ Len(A) = Len(k) /\ NeverBegins(A, e)
      /\ \A i \in 1..Len(k) : k[i] \in Bytes /\ A[i] = BigEndian(k[i])
  BY NumbersSeq
<1>2. /\ B \in Seq(Seq(Bytes)) /\ Len(B) = Len(l) /\ NeverBegins(B, e)
      /\ \A i \in 1..Len(l) : l[i] \in Bytes /\ B[i] = BigEndian(l[i])
  BY NumbersSeq
<1>3. e \in Bytes /\ Len(k) \in Nat /\ Len(l) \in Nat /\ <<>> \in Seq(Bytes)
  BY DEF Bytes
<1>4. Cat(FlattenSeq(A), Cat(<<e>>, r)) = Cat(FlattenSeq(B), Cat(<<e>>, q))
  OBVIOUS
<1> HIDE DEF e, A, B
<1>5. PICK N \in Nat : N <= Len(k) /\ N <= Len(l) /\ (N = Len(k) \/ N = Len(l))
  BY <1>3, Shorter
<1>6. ASSUME NEW i \in 1..Len(k), i \in 1..Len(l), NEW u \in Seq(Bytes), NEW v \in Seq(Bytes),
             Cat(A[i], u) = Cat(B[i], v)
      PROVE  k[i] = l[i]
  <2>1. Cat(BigEndian(k[i]), u) = Cat(BigEndian(l[i]), v) /\ k[i] \in Bytes /\ l[i] \in Bytes
    BY <1>1, <1>2, <1>6
  <2> QED
    BY <2>1, NumberTold
<1>7. Apart(Bytes, A, B, N)
  <2> SUFFICES ASSUME NEW i \in 1..N, NEW u \in Seq(Bytes), NEW v \in Seq(Bytes), Cat(A[i], u) = Cat(B[i], v)
               PROVE  A[i] = B[i]
    BY DEF Apart
  <2>1. i \in 1..Len(k) /\ i \in 1..Len(l)
    BY <1>3, <1>5
  <2>2. k[i] = l[i]
    BY <1>6, <2>1
  <2> QED
    BY <1>1, <1>2, <2>1, <2>2, SMTT(30)
<1>8. A = B
  BY <1>1, <1>2, <1>3, <1>4, <1>5, <1>7, ListTold
<1>9. Len(k) = Len(l) /\ \A i \in 1..Len(k) : k[i] = l[i]
  BY <1>1, <1>2, <1>3, <1>6, <1>8
<1> QED
  BY <1>9, SeqEqual


-----------------------------------------------------------------------------
\* What is written for an argument that was given.
LEMMA Given ==
  ASSUME ~Optional, NEW t \in Types, NEW a \in Values(t)
  PROVE  /\ a = [type |-> t, val |-> a.val]
         /\ t = "string"   => a.val \in KeyStrings /\ Data(a) = a.val
         /\ t = "[]string" => a.val \in KeyLists /\ Data(a) = FlattenSeq(Framed(a.val))
         /\ t = "int64"    => a.val \in Ints /\ Data(a) = BigEndian(a.val)
         /\ t = "[]int64"  => a.val \in IntLists /\ Data(a) = FlattenSeq(Numbers(a.val))
         /\ t = "bool"     => a.val \in BOOLEAN /\ Data(a) = Byte(a.val)
<1> DEFINE V == CASE t = "string"   -> KeyStrings
                  [] t = "[]string" -> KeyLists
                  [] t = "int64"    -> Ints
                  [] t = "[]int64"  -> IntLists
                  [] t = "bool"     -> BOOLEAN
<1>1. Values(t) = {[type |-> t, val |-> v] : v \in V}
  BY Zenon DEF Values
<1>2. /\ t = "string" => V = KeyStrings
      /\ t = "[]string" => V = KeyLists
      /\ t = "int64" => V = Ints
      /\ t = "[]int64" => V = IntLists
      /\ t = "bool" => V = BOOLEAN
  OBVIOUS
<1> HIDE DEF V
<1>3. a = [type |-> t, val |-> a.val] /\ a.val \in V
  BY <1>1
<1>4. a.type = t
  BY <1>3
<1>5. t = "string" => Data(a) = a.val
  BY <1>4 DEF Data
<1>6. t = "[]string" => Data(a) = FlattenSeq(Framed(a.val))
  BY <1>4 DEF Data, Framed
<1>7. t = "int64" => Data(a) = BigEndian(a.val)
  BY <1>4 DEF Data
<1>8. t = "[]int64" => Data(a) = FlattenSeq(Numbers(a.val))
  BY <1>4 DEF Data, Numbers
<1>9. t = "bool" => Data(a) = Byte(a.val)
  BY <1>4 DEF Data
<1> QED
  BY <1>2, <1>3, <1>5, <1>6, <1>7, <1>8, <1>9

LEMMA FlattenType ==
  ASSUME NEW S, NEW s \in Seq(Seq(S))
  PROVE  FlattenSeq(s) \in Seq(S)
<1>1. PICK g : IsPieces(S, s, g) /\ FlattenSeq(s) = g[Len(s)]
  BY FlattenPieces
<1>2. Len(s) \in 0..Len(s)
  OBVIOUS
<1> QED
  BY <1>1, <1>2 DEF IsPieces

LEMMA ByteParts ==
  ASSUME NEW b \in BOOLEAN
  PROVE  Byte(b) \in Seq(Bytes) /\ Len(Byte(b)) = 1 /\ Byte(b)[1] = IF b THEN 1 ELSE 0
BY DEF Byte, Bytes

LEMMA DataType ==
  ASSUME ~Optional, NEW t \in Types, NEW a \in Values(t)
  PROVE  Data(a) \in Seq(Bytes)
<1>1. CASE t = "string"
  BY <1>1, Given, ParamsAssumption
<1>2. CASE t = "[]string"
  <2>1. a.val \in Seq(Seq(Bytes)) /\ Data(a) = FlattenSeq(Framed(a.val))
    BY <1>2, Given, ParamsAssumption
  <2> QED
    BY <2>1, FramedSeq, FlattenType
<1>3. CASE t = "int64"
  <2>1. a.val \in Bytes /\ Data(a) = BigEndian(a.val)
    BY <1>3, Given, ParamsAssumption
  <2> QED
    BY <2>1, NumberParts
<1>4. CASE t = "[]int64"
  <2>1. a.val \in Seq(Bytes) /\ Data(a) = FlattenSeq(Numbers(a.val))
    BY <1>4, Given, ParamsAssumption
  <2> QED
    BY <2>1, NumbersSeq, FlattenType
<1>5. CASE t = "bool"
  <2>1. a.val \in BOOLEAN /\ Data(a) = Byte(a.val)
    BY <1>5, Given
  <2> QED
    BY <2>1, ByteParts
<1> QED
  BY <1>1, <1>2, <1>3, <1>4, <1>5 DEF Types

\* The value of a parameter is told apart from any other of its type by its frame.
LEMMA ValueTold ==
  ASSUME ~Optional, PlainText, NEW t \in Types, NEW a \in Values(t), NEW b \in Values(t),
         NEW r \in Seq(Bytes), NEW q \in Seq(Bytes), Cat(Frame(Data(a)), r) = Cat(Frame(Data(b)), q)
  PROVE  a = b
<1>1. a = [type |-> t, val |-> a.val] /\ b = [type |-> t, val |-> b.val]
  BY Given
<1> SUFFICES a.val = b.val
  BY <1>1
<1> DEFINE e == << 3 >>
           x == Data(a)
           y == Data(b)
<1>2. x \in Seq(Bytes) /\ y \in Seq(Bytes)
  BY DataType
<1>3. Cat(x, Cat(e, r)) = Cat(y, Cat(e, q))
  BY <1>2, FrameOpens
<1>4. Cat(e, r) \in Seq(Bytes) /\ Cat(e, q) \in Seq(Bytes)
  <2>1. e \in Seq(Bytes)
    BY DEF Bytes
  <2> HIDE DEF e
  <2> QED
    BY <2>1, CatType
<1>5. CASE t = "string"
  <2>1. /\ a.val \in Seq(Bytes) /\ b.val \in Seq(Bytes) /\ NoMark(a.val) /\ NoMark(b.val)
        /\ Data(a) = a.val /\ Data(b) = b.val
    BY <1>5, Given, ParamsAssumption DEF PlainText
  <2>2. Cat(Frame(a.val), r) = Cat(Frame(b.val), q)
    BY <2>1
  <2> HIDE DEF e, x, y
  <2> QED
    BY <2>1, <2>2, TextTold
<1>6. CASE t = "[]string"
  <2>1. /\ a.val \in KeyLists /\ b.val \in KeyLists
        /\ Data(a) = FlattenSeq(Framed(a.val)) /\ Data(b) = FlattenSeq(Framed(b.val))
    BY <1>6, Given
  <2>2. /\ a.val \in Seq(Seq(Bytes)) /\ b.val \in Seq(Seq(Bytes))
        /\ \A i \in 1..Len(a.val) : NoMark(a.val[i])
        /\ \A i \in 1..Len(b.val) : NoMark(b.val[i])
    BY <2>1, ParamsAssumption DEF PlainText
  <2>3. Cat(FlattenSeq(Framed(a.val)), Cat(<< 3 >>, r)) = Cat(FlattenSeq(Framed(b.val)), Cat(<< 3 >>, q))
    BY <1>3, <2>1
  <2> HIDE DEF e, x, y
  <2> QED
    BY <2>2, <2>3, TextsTold, Zenon
<1>7. CASE t = "int64"
  <2>1. a.val \in Bytes /\ b.val \in Bytes /\ x = BigEndian(a.val) /\ y = BigEndian(b.val)
    BY <1>7, Given, ParamsAssumption
  <2> HIDE DEF e, x, y
  <2> QED
    BY <1>3, <1>4, <2>1, NumberTold
<1>8. CASE t = "[]int64"
  <2>1. /\ a.val \in Seq(Bytes) /\ b.val \in Seq(Bytes)
        /\ Data(a) = FlattenSeq(Numbers(a.val)) /\ Data(b) = FlattenSeq(Numbers(b.val))
    BY <1>8, Given, ParamsAssumption
  <2>2. Cat(FlattenSeq(Numbers(a.val)), Cat(<< 3 >>, r)) = Cat(FlattenSeq(Numbers(b.val)), Cat(<< 3 >>, q))
    BY <1>3, <2>1
  <2> HIDE DEF e, x, y
  <2> QED
    BY <2>1, <2>2, NumbersTold
<1>9. CASE t = "bool"
  <2>1. a.val \in BOOLEAN /\ b.val \in BOOLEAN /\ x = Byte(a.val) /\ y = Byte(b.val)
    BY <1>9, Given
  <2>2. Len(x) = 1 /\ Len(y) = 1 /\ x[1] = (IF a.val THEN 1 ELSE 0) /\ y[1] = (IF b.val THEN 1 ELSE 0)
    BY <2>1, ByteParts
  <2>3. x = y
    <3> HIDE DEF e, x, y
    <3> QED
      BY <1>2, <1>3, <1>4, <2>2, ToldByLength
  <2> HIDE DEF e, x, y
  <2>4. (IF a.val THEN 1 ELSE 0) = (IF b.val THEN 1 ELSE 0)
    BY <2>2, <2>3
  <2> QED
    BY <2>1, <2>4
<1> QED
  BY <1>5, <1>6, <1>7, <1>8, <1>9 DEF Types


-----------------------------------------------------------------------------
\* The arguments of the two calls: as many, and of the same types if the URI is the same.
AnyValue == UNION {Values(t) : t \in Types}
KeyInv ==
    /\ uri \in [1..2 -> URIs]
    /\ call \in [1..2 -> Seq(AnyValue)]
    /\ Len(call[1]) = Len(call[2])
    /\ uri[1] = uri[2] => \A i \in 1..Len(call[1]) :
           \E t \in Types : call[1][i] \in Values(t) /\ call[2][i] \in Values(t)

LEMMA KeyInvInit == KeyInit => KeyInv
BY DEF KeyInit, KeyInv

LEMMA KeyInvNext == KeyInv /\ [AddParam]_keyVars => KeyInv'
<1> SUFFICES ASSUME KeyInv, [AddParam]_keyVars PROVE KeyInv'
  OBVIOUS
<1>1. CASE UNCHANGED keyVars
  BY <1>1 DEF KeyInv, keyVars
<1>2. CASE AddParam
  <2>0. PICK t \in Types, u \in Types :
          /\ uri[1] = uri[2] => t = u
          /\ \E v \in Values(t), w \in Values(u) :
               call' = [i \in 1..2 |-> Append(call[i], IF i = 1 THEN v ELSE w)]
          /\ uri' = uri
    BY <1>2 DEF AddParam
  <2>1. PICK v \in Values(t), w \in Values(u) :
          call' = [i \in 1..2 |-> Append(call[i], IF i = 1 THEN v ELSE w)]
    BY <2>0
  <2>2. v \in AnyValue /\ w \in AnyValue
    BY DEF AnyValue
  <2> DEFINE a == call[1]
             b == call[2]
  <2>3. a \in Seq(AnyValue) /\ b \in Seq(AnyValue) /\ Len(a) = Len(b) /\ Len(a) \in Nat
    BY DEF KeyInv
  <2>4. call' = [i \in 1..2 |-> IF i = 1 THEN Append(a, v) ELSE Append(b, w)]
    BY <2>1
  <2>5. uri[1] = uri[2] => \A i \in 1..Len(a) : \E s \in Types : a[i] \in Values(s) /\ b[i] \in Values(s)
    BY DEF KeyInv
  <2>6. uri \in [1..2 -> URIs] /\ uri' = uri
    BY <2>0 DEF KeyInv
  <2>7. call'[1] = Append(a, v) /\ call'[2] = Append(b, w)
    BY <2>4
  <2> HIDE DEF a, b
  <2>8. /\ Append(a, v) \in Seq(AnyValue) /\ Append(b, w) \in Seq(AnyValue)
        /\ Len(Append(a, v)) = Len(a) + 1 /\ Len(Append(b, w)) = Len(b) + 1
        /\ \A i \in 1..Len(a) : Append(a, v)[i] = a[i] /\ Append(b, w)[i] = b[i]
        /\ Append(a, v)[Len(a) + 1] = v /\ Append(b, w)[Len(a) + 1] = w
    BY <2>2, <2>3
  <2>9. call' \in [1..2 -> Seq(AnyValue)]
    BY <2>4, <2>8
  <2>10. ASSUME uri[1] = uri[2], NEW i \in 1..(Len(a) + 1)
         PROVE  \E s \in Types : Append(a, v)[i] \in Values(s) /\ Append(b, w)[i] \in Values(s)
    <3>1. CASE i = Len(a) + 1
      <4>1. Append(a, v)[i] = v /\ Append(b, w)[i] = w /\ t = u
        BY <2>0, <2>8, <2>10, <3>1, Zenon
      <4> QED
        BY <4>1
    <3>2. CASE i # Len(a) + 1
      <4>1. i \in 1..Len(a)
        BY <2>3, <3>2
      <4> QED
        BY <2>5, <2>8, <2>10, <4>1, Zenon
    <3> QED
      BY <3>1, <3>2, Zenon
  <2> QED
    BY <2>3, <2>6, <2>7, <2>8, <2>9, <2>10 DEF KeyInv
<1> QED
  BY <1>1, <1>2

\* The list of frames of the arguments of a call.
Frames(args) == [i \in DOMAIN args |-> Frame(Data(args[i]))]

LEMMA FramesSeq ==
  ASSUME ~Optional, NEW args \in Seq(AnyValue)
  PROVE  /\ Frames(args) \in Seq(Seq(Bytes)) /\ Len(Frames(args)) = Len(args)
         /\ \A i \in 1..Len(args) : Frames(args)[i] = Frame(Data(args[i]))
<1>1. DOMAIN args = 1..Len(args) /\ Len(args) \in Nat /\ \A i \in 1..Len(args) : args[i] \in AnyValue
  BY ElementOfSeq
<1>2. <<>> \in Seq(Bytes)
  OBVIOUS
<1>3. \A i \in 1..Len(args) : Frame(Data(args[i])) \in Seq(Bytes)
  <2> SUFFICES ASSUME NEW i \in 1..Len(args) PROVE Frame(Data(args[i])) \in Seq(Bytes)
    OBVIOUS
  <2>1. PICK t \in Types : args[i] \in Values(t)
    BY <1>1 DEF AnyValue
  <2>2. Data(args[i]) \in Seq(Bytes)
    BY <2>1, DataType
  <2> QED
    BY <1>2, <2>2, FrameParts, Zenon
<1>4. Frames(args) \in [1..Len(args) -> Seq(Bytes)]
  BY <1>1, <1>3 DEF Frames
<1> QED
  BY <1>1, <1>4 DEF Frames

LEMMA KeyTells ==
  ASSUME ~Optional, PlainText, KeyInv, Stream(uri[1], call[1]) = Stream(uri[2], call[2])
  PROVE  uri[1] = uri[2] /\ call[1] = call[2]
<1> DEFINE a == call[1]
           b == call[2]
           A == Frames(a)
           B == Frames(b)
<1>1. /\ a \in Seq(AnyValue) /\ b \in Seq(AnyValue) /\ Len(a) = Len(b) /\ Len(a) \in Nat
      /\ uri[1] \in URIs /\ uri[2] \in URIs
      /\ uri[1] = uri[2] => \A i \in 1..Len(a) : \E t \in Types : a[i] \in Values(t) /\ b[i] \in Values(t)
  BY DEF KeyInv
<1>2. /\ Stream(uri[1], a) = Cat(Frame(uri[1]), FlattenSeq(A))
      /\ Stream(uri[2], b) = Cat(Frame(uri[2]), FlattenSeq(B))
  BY DEF Stream, Cat, Frames
<1>3. Cat(Frame(uri[1]), FlattenSeq(A)) = Cat(Frame(uri[2]), FlattenSeq(B))
  BY <1>2, Zenon
<1> HIDE DEF a, b
<1>4. /\ A \in Seq(Seq(Bytes)) /\ Len(A) = Len(a) /\ \A i \in 1..Len(a) : A[i] = Frame(Data(a[i]))
      /\ B \in Seq(Seq(Bytes)) /\ Len(B) = Len(b) /\ \A i \in 1..Len(b) : B[i] = Frame(Data(b[i]))
  BY <1>1, FramesSeq
<1> HIDE DEF A, B
<1>5. FlattenSeq(A) \in Seq(Bytes) /\ FlattenSeq(B) \in Seq(Bytes) /\ <<>> \in Seq(Bytes)
  BY <1>4, FlattenType
<1>6. /\ uri[1] \in Seq(Bytes) /\ uri[2] \in Seq(Bytes) /\ NoMark(uri[1]) /\ NoMark(uri[2])
  BY <1>1, ParamsAssumption DEF PlainText
<1>7. uri[1] = uri[2]
  BY <1>3, <1>5, <1>6, TextTold
<1>8. FlattenSeq(A) = FlattenSeq(B)
  <2>1. Frame(uri[1]) \in Seq(Bytes)
    BY <1>5, <1>6, FrameParts, Zenon
  <2> QED
    BY <1>3, <1>5, <1>7, <2>1, CatCancels
<1>9. ASSUME NEW i \in 1..Len(a), NEW r \in Seq(Bytes), NEW q \in Seq(Bytes), Cat(A[i], r) = Cat(B[i], q)
      PROVE  a[i] = b[i]
  <2>1. PICK t \in Types : a[i] \in Values(t) /\ b[i] \in Values(t)
    BY <1>1, <1>7
  <2>2. Cat(Frame(Data(a[i])), r) = Cat(Frame(Data(b[i])), q)
    BY <1>1, <1>4, <1>9
  <2> QED
    BY <2>1, <2>2, ValueTold
<1>10. Apart(Bytes, A, B, Len(a))
  <2> SUFFICES ASSUME NEW i \in 1..Len(a), NEW r \in Seq(Bytes), NEW q \in Seq(Bytes),
                      Cat(A[i], r) = Cat(B[i], q)
               PROVE  A[i] = B[i]
    BY DEF Apart
  <2> QED
    BY <1>1, <1>4, <1>9
<1>11. Agree(A, B, Len(a))
  <2>1. Len(a) <= Len(A) /\ Len(a) <= Len(B) /\ Cat(FlattenSeq(A), <<>>) = Cat(FlattenSeq(B), <<>>)
    BY <1>1, <1>4, <1>8
  <2> DEFINE n == Len(a)
             z == <<>>
  <2>2. n \in Nat /\ n <= Len(A) /\ n <= Len(B) /\ Apart(Bytes, A, B, n) /\ z \in Seq(Bytes)
        /\ Cat(FlattenSeq(A), z) = Cat(FlattenSeq(B), z)
    BY <1>1, <1>5, <1>10, <2>1
  <2> HIDE DEF n, z
  <2>3. Agree(A, B, n)
    BY <1>4, <2>2, SameValues
  <2> QED
    BY <2>3 DEF n
<1>12. \A i \in 1..Len(a) : a[i] = b[i]
  BY <1>5, <1>9, <1>11 DEF Agree
<1>13. a = b
  BY <1>1, <1>12, SeqEqual
<1> QED
  BY <1>7, <1>13 DEF a, b

\* makeCacheKey gives two calls the same key only if they are to the same URI with the
\* same arguments, whatever the URIs, the values and the number of parameters, as long
\* as no parameter is left out and no text contains the end mark.
THEOREM KeysAreExact == ~Optional /\ PlainText => (KeySpec => []ExactKey)
<1> SUFFICES ASSUME ~Optional, PlainText PROVE KeySpec => []ExactKey
  OBVIOUS
<1>1. KeyInv => ExactKey
  BY KeyTells DEF ExactKey
<1> QED
  BY KeyInvInit, KeyInvNext, <1>1, PTL DEF KeySpec
====
