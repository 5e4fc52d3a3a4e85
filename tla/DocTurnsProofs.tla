--------------------------- MODULE DocTurnsProofs ---------------------------
(***************************************************************************)
(* Proofs about DocTurns: for any number of documents, sends, peer messages*)
(* and open drains, every turn that was started has one end to come and    *)
(* Stop has its scope until then, and no peer message is lost, doubled,    *)
(* overtaken or forgotten.                                                 *)
(***************************************************************************)
EXTENDS DocTurns, SequencesExt, SequenceTheorems,
        FiniteSetTheorems, WellFoundedInduction, TLAPS

-----------------------------------------------------------------------------
(* Lists: what the operations on them keep.                                *)

\* Every non-empty set of natural numbers has a least element: < on Nat is
\* well-founded, which the library states without an operator parameter.
LEMMA LeastNat ==
  ASSUME NEW T \in SUBSET Nat, T # {}
  PROVE  \E n \in T : \A m \in T : n <= m
<1> DEFINE R == {ss \in Nat \X Nat : ss[1] < ss[2]}
<1>1. IsWellFoundedOn(R, Nat)
  BY NatLessThanWellFounded, Zenon DEF OpToRel
<1>2. PICK x \in T : \A y \in T : <<y, x>> \notin R
  <2> HIDE DEF R
  <2> QED BY <1>1, WFMin
<1>3. \A y \in T : ~(y < x)
  BY <1>2
<1> QED BY <1>2, <1>3

\* Induction up to a bound: a set that has 0 and, with every n below the
\* bound, n + 1.
LEMMA BoundedInduction ==
  ASSUME NEW N \in Nat, NEW G,
         0 \in G, \A n \in 1 .. N : n - 1 \in G => n \in G
  PROVE  0 .. N \subseteq G
<1> DEFINE Bad == (0 .. N) \ G
<1> SUFFICES ASSUME Bad # {} PROVE FALSE
  OBVIOUS
<1>1. Bad \in SUBSET Nat
  OBVIOUS
<1>2. PICK m \in Bad : \A k \in Bad : m <= k
  <2> HIDE DEF Bad
  <2> QED BY <1>1, LeastNat
<1>3. m \in 1 .. N /\ m - 1 \in 0 .. N
  OBVIOUS
<1>4. m - 1 \in G
  <2> SUFFICES ASSUME m - 1 \notin G PROVE FALSE
    OBVIOUS
  <2>1. m - 1 \in Bad
    BY <1>3
  <2>2. m <= m - 1
    BY <2>1, <1>2
  <2> QED BY <2>2, <1>3
<1> QED BY <1>3, <1>4

\* The recursive function in Without exists.
LEMMA WithoutExists ==
  ASSUME NEW X, NEW q \in Seq(X), NEW S
  PROVE  \E f : f = [n \in 0 .. Len(q) |-> WithoutStep(q, S, f, n)]
<1> DEFINE Solves(f, m) == /\ f \in [0 .. m -> Seq(X)]
                           /\ \A n \in 0 .. m : f[n] = WithoutStep(q, S, f, n)
           G == {m \in 0 .. Len(q) : \E f : Solves(f, m)}
<1>0. Len(q) \in Nat
  BY LenProperties
<1>1. 0 \in G
  <2> DEFINE g == [n \in 0 .. 0 |-> <<>>]
  <2>1. Solves(g, 0)
    BY EmptySeq DEF WithoutStep
  <2>2. 0 \in 0 .. Len(q)
    BY <1>0
  <2> QED BY <2>1, <2>2
<1>2. ASSUME NEW m \in 1 .. Len(q), m - 1 \in G PROVE m \in G
  <2>1. PICK f : Solves(f, m - 1)
    BY <1>2
  <2> DEFINE g == [n \in 0 .. m |-> IF n < m THEN f[n] ELSE WithoutStep(q, S, f, m)]
  <2>2. m \in Nat /\ m # 0 /\ m - 1 \in 0 .. m - 1
    BY <1>0
  <2>3. q[m] \in X /\ f[m - 1] \in Seq(X)
    BY <2>1, <2>2, ElementOfSeq
  <2>4. WithoutStep(q, S, f, m) \in Seq(X)
    BY <2>2, <2>3, AppendProperties DEF WithoutStep
  <2>5. \A n \in 0 .. m : n < m => n \in 0 .. m - 1
    BY <2>2
  <2>6. g \in [0 .. m -> Seq(X)]
    BY <2>1, <2>4, <2>5
  <2>7. ASSUME NEW n \in 0 .. m PROVE g[n] = WithoutStep(q, S, g, n)
    <3>1. n = 0 \/ (n - 1 \in 0 .. m - 1 /\ n - 1 \in 0 .. m /\ n - 1 < m)
      BY <2>2
    <3>2. g[n] = WithoutStep(q, S, f, n)
      BY <2>1, <2>5, <2>2
    <3>3. n # 0 => g[n - 1] = f[n - 1]
      BY <3>1
    <3> HIDE DEF g
    <3> QED BY <3>2, <3>3 DEF WithoutStep
  <2>8. Solves(g, m)
    BY <2>6, <2>7
  <2> HIDE DEF Solves
  <2> QED BY <2>8, <1>0
<1>3. Len(q) \in G
  <2> HIDE DEF G
  <2>1. 0 .. Len(q) \subseteq G
    BY <1>0, <1>1, <1>2, BoundedInduction
  <2> QED BY <2>1, <1>0
<1>4. PICK f : Solves(f, Len(q))
  BY <1>3
<1>5. f = [n \in 0 .. Len(q) |-> WithoutStep(q, S, f, n)]
  BY <1>4
<1> QED BY <1>5

\* What is left is a sequence of the elements of q that are not in S, and none
\* comes more often than before.
LEMMA WithoutProperties ==
  ASSUME NEW X, NEW q \in Seq(X), NEW S
  PROVE  /\ Without(q, S) \in Seq(X)
         /\ \A x : Contains(Without(q, S), x) <=> Contains(q, x) /\ x \notin S
         /\ IsDistinct(q) => IsDistinct(Without(q, S))
<1> DEFINE f == CHOOSE f : f = [n \in 0 .. Len(q) |-> WithoutStep(q, S, f, n)]
<1>0. Len(q) \in Nat /\ \A n \in 1 .. Len(q) : q[n] \in X
  BY LenProperties, ElementOfSeq
<1>1. f = [n \in 0 .. Len(q) |-> WithoutStep(q, S, f, n)]
  BY WithoutExists
<1>2. Without(q, S) = f[Len(q)]
  BY DEF Without
<1> HIDE DEF f
<1> DEFINE Has(n, x) == \E i \in 1 .. n : q[i] = x
           Good(n) == /\ f[n] \in Seq(X)
                      /\ \A x : Contains(f[n], x) <=> Has(n, x) /\ x \notin S
                      /\ IsDistinct(q) => IsDistinct(f[n])
           G == {n \in 0 .. Len(q) : Good(n)}
<1>3. 0 \in G
  <2>1. f[0] = <<>> /\ 0 \in 0 .. Len(q)
    BY <1>0, <1>1 DEF WithoutStep
  <2>2. <<>> \in Seq(X) /\ Len(<<>>) = 0
    BY EmptySeq
  <2>3. \A x : ~Contains(<<>>, x) /\ ~Has(0, x)
    BY <2>2 DEF Contains
  <2>4. IsDistinct(<<>>)
    BY <2>2 DEF IsDistinct
  <2> HIDE DEF Has
  <2> QED BY <2>1, <2>2, <2>3, <2>4
<1>4. ASSUME NEW n \in 1 .. Len(q), n - 1 \in G PROVE n \in G
  <2>1. Good(n - 1) /\ n \in 0 .. Len(q) /\ n - 1 \in Nat
    BY <1>4, <1>0
  <2>2. f[n] = IF q[n] \in S THEN f[n - 1] ELSE Append(f[n - 1], q[n])
    <3>1. n \in 0 .. Len(q) /\ n # 0
      BY <1>0
    <3>2. f[n] = WithoutStep(q, S, f, n)
      BY <1>1, <3>1
    <3> QED BY <3>1, <3>2 DEF WithoutStep
  <2>3. \A x : Has(n, x) <=> Has(n - 1, x) \/ q[n] = x
    BY <2>1
  <2>4. CASE q[n] \in S
    <3>1. f[n] = f[n - 1]
      BY <2>2, <2>4
    <3>2. \A x : Contains(f[n], x) <=> Has(n, x) /\ x \notin S
      BY <3>1, <2>1, <2>3, <2>4
    <3> HIDE DEF Has
    <3> QED BY <3>1, <3>2, <2>1
  <2>5. CASE q[n] \notin S
    <3> DEFINE p == f[n - 1]
    <3>1. p \in Seq(X) /\ Len(p) \in Nat /\ f[n] = Append(p, q[n]) /\ q[n] \in X
      BY <2>1, <2>2, <2>5, <1>0, LenProperties
    <3>2. /\ f[n] \in Seq(X) /\ Len(f[n]) = Len(p) + 1
          /\ f[n][Len(p) + 1] = q[n]
          /\ \A i \in 1 .. Len(p) : f[n][i] = p[i]
      BY <3>1, AppendProperties
    <3>3. \A x : Contains(f[n], x) <=> Contains(p, x) \/ x = q[n]
      BY <3>1, <3>2 DEF Contains
    <3>4. \A x : Contains(f[n], x) <=> Has(n, x) /\ x \notin S
      <4> HIDE DEF Has
      <4> QED BY <3>3, <2>1, <2>3, <2>5
    <3>5. ASSUME IsDistinct(q) PROVE IsDistinct(f[n])
      <4>1. ~Has(n - 1, q[n])
        BY <3>5, <2>1, <1>0 DEF IsDistinct
      <4>2. \A i \in 1 .. Len(p) : p[i] # q[n]
        <5> HIDE DEF Has
        <5> QED BY <4>1, <2>1 DEF Contains
      <4>3. IsDistinct(p)
        BY <3>5, <2>1
      <4>4. \A i \in 1 .. Len(f[n]) : i \in 1 .. Len(p) \/ i = Len(p) + 1
        BY <3>1, <3>2
      <4> HIDE DEF p
      <4> QED BY <4>2, <4>3, <4>4, <3>1, <3>2 DEF IsDistinct
    <3> HIDE DEF Has
    <3> QED BY <3>2, <3>4, <3>5, <2>1
  <2> QED BY <2>4, <2>5
<1>5. Len(q) \in G
  <2> HIDE DEF G
  <2>1. 0 .. Len(q) \subseteq G
    BY <1>0, <1>3, <1>4, BoundedInduction
  <2> QED BY <2>1, <1>0
<1>6. \A x : Has(Len(q), x) <=> Contains(q, x)
  BY DEF Contains
<1> HIDE DEF Has
<1> QED BY <1>2, <1>5, <1>6

\* What is left keeps its order.
LEMMA WithoutOrder ==
  ASSUME NEW X, NEW q \in Seq(X), NEW S, NEW x, NEW y, Precedes(Without(q, S), x, y)
  PROVE  Precedes(q, x, y)
<1> DEFINE f == CHOOSE f : f = [n \in 0 .. Len(q) |-> WithoutStep(q, S, f, n)]
<1>0. Len(q) \in Nat /\ \A n \in 1 .. Len(q) : q[n] \in X
  BY LenProperties, ElementOfSeq
<1>1. f = [n \in 0 .. Len(q) |-> WithoutStep(q, S, f, n)]
  BY WithoutExists
<1>2. Without(q, S) = f[Len(q)]
  BY DEF Without
<1> HIDE DEF f
<1> DEFINE Has(n, a) == \E i \in 1 .. n : q[i] = a
           Ordered(n, a, b) == \E i, k \in 1 .. n : i < k /\ q[i] = a /\ q[k] = b
           Good(n) == /\ f[n] \in Seq(X)
                      /\ \A a : Contains(f[n], a) => Has(n, a)
                      /\ \A a, b : Precedes(f[n], a, b) => Ordered(n, a, b)
           G == {n \in 0 .. Len(q) : Good(n)}
<1>3. 0 \in G
  <2>1. f[0] = <<>> /\ 0 \in 0 .. Len(q)
    BY <1>0, <1>1 DEF WithoutStep
  <2>2. /\ <<>> \in Seq(X) /\ \A a : ~Contains(<<>>, a)
        /\ \A a, b : ~Precedes(<<>>, a, b)
    BY EmptySeq DEF Contains, Precedes
  <2> HIDE DEF Has, Ordered
  <2> QED BY <2>1, <2>2
<1>4. ASSUME NEW n \in 1 .. Len(q), n - 1 \in G PROVE n \in G
  <2>1. Good(n - 1) /\ n \in 0 .. Len(q) /\ n - 1 \in Nat
    BY <1>4, <1>0
  <2>2. f[n] = IF q[n] \in S THEN f[n - 1] ELSE Append(f[n - 1], q[n])
    <3>1. n \in 0 .. Len(q) /\ n # 0
      BY <1>0
    <3>2. f[n] = WithoutStep(q, S, f, n)
      BY <1>1, <3>1
    <3> QED BY <3>1, <3>2 DEF WithoutStep
  <2>3. \A a : Has(n, a) <=> Has(n - 1, a) \/ q[n] = a
    BY <2>1
  <2>4. \A a, b : Ordered(n - 1, a, b) \/ (Has(n - 1, a) /\ q[n] = b) => Ordered(n, a, b)
    <3>1. \A i \in 1 .. n - 1 : i \in 1 .. n /\ i < n
      BY <2>1
    <3> QED BY <2>1, <3>1
  <2> HIDE DEF Has, Ordered
  <2>5. CASE q[n] \in S
    <3>1. f[n] = f[n - 1]
      BY <2>2, <2>5
    <3> QED BY <3>1, <2>1, <2>3, <2>4
  <2>6. CASE q[n] \notin S
    <3> DEFINE p == f[n - 1]
    <3>1. p \in Seq(X) /\ Len(p) \in Nat /\ f[n] = Append(p, q[n]) /\ q[n] \in X
      BY <2>1, <2>2, <2>6, <1>0, LenProperties
    <3>2. /\ f[n] \in Seq(X) /\ Len(f[n]) = Len(p) + 1
          /\ f[n][Len(p) + 1] = q[n]
          /\ \A i \in 1 .. Len(p) : f[n][i] = p[i]
      BY <3>1, AppendProperties
    <3>3. \A a : Contains(f[n], a) => Contains(p, a) \/ a = q[n]
      BY <3>1, <3>2 DEF Contains
    <3>4. ASSUME NEW a, NEW b, Precedes(f[n], a, b)
          PROVE  Precedes(p, a, b) \/ (Contains(p, a) /\ b = q[n])
      <4> PICK i \in 1 .. Len(f[n]), k \in 1 .. Len(f[n]) :
            i < k /\ f[n][i] = a /\ f[n][k] = b
        BY <3>4 DEF Precedes
      <4>1. i \in 1 .. Len(p) /\ p[i] = a
        BY <3>1, <3>2
      <4>2. CASE k = Len(p) + 1
        BY <3>2, <4>1, <4>2 DEF Contains
      <4>3. CASE k # Len(p) + 1
        <5>1. k \in 1 .. Len(p) /\ p[k] = b
          BY <3>1, <3>2, <4>3
        <5> QED BY <4>1, <5>1 DEF Precedes
      <4> QED BY <4>2, <4>3
    <3> QED BY <3>2, <3>3, <3>4, <2>1, <2>3, <2>4
  <2> QED BY <2>5, <2>6
<1>5. Len(q) \in G
  <2> HIDE DEF G
  <2>1. 0 .. Len(q) \subseteq G
    BY <1>0, <1>3, <1>4, BoundedInduction
  <2> QED BY <2>1, <1>0
<1>6. Ordered(Len(q), x, y) => Precedes(q, x, y)
  BY DEF Precedes
<1> HIDE DEF Ordered
<1> QED BY <1>2, <1>5, <1>6

LEMMA AppendContains ==
  ASSUME NEW X, NEW q \in Seq(X), NEW e \in X
  PROVE  /\ Append(q, e) \in Seq(X)
         /\ \A x : Contains(Append(q, e), x) <=> Contains(q, x) \/ x = e
         /\ IsDistinct(q) /\ ~Contains(q, e) => IsDistinct(Append(q, e))
<1>1. /\ Append(q, e) \in Seq(X) /\ Len(q) \in Nat
      /\ Len(Append(q, e)) = Len(q) + 1 /\ Append(q, e)[Len(q) + 1] = e
      /\ \A i \in 1 .. Len(q) : Append(q, e)[i] = q[i]
  BY AppendProperties, LenProperties
<1>2. \A i \in 1 .. Len(Append(q, e)) : i \in 1 .. Len(q) \/ i = Len(q) + 1
  BY <1>1
<1>3. \A x : Contains(Append(q, e), x) <=> Contains(q, x) \/ x = e
  BY <1>1, <1>2 DEF Contains
<1>4. IsDistinct(q) /\ ~Contains(q, e) => IsDistinct(Append(q, e))
  BY <1>1, <1>2 DEF IsDistinct, Contains
<1> QED BY <1>1, <1>3, <1>4

LEMMA TailContains ==
  ASSUME NEW X, NEW q \in Seq(X), q # <<>>
  PROVE  /\ Head(q) \in X /\ Tail(q) \in Seq(X)
         /\ \A x : Contains(q, x) <=> Contains(Tail(q), x) \/ x = Head(q)
         /\ IsDistinct(q) => IsDistinct(Tail(q)) /\ ~Contains(Tail(q), Head(q))
<1>1. /\ Head(q) \in X /\ Tail(q) \in Seq(X) /\ Head(q) = q[1]
      /\ Len(q) \in Nat /\ Len(q) # 0 /\ Len(Tail(q)) = Len(q) - 1
      /\ \A i \in 1 .. Len(Tail(q)) : Tail(q)[i] = q[i + 1]
  BY HeadTailProperties, LenProperties, EmptySeq
<1>2. \A i \in 1 .. Len(q) : i = 1 \/ i - 1 \in 1 .. Len(Tail(q))
  BY <1>1
<1>3. \A i \in 1 .. Len(Tail(q)) : i + 1 \in 1 .. Len(q)
  BY <1>1
<1>4. \A x : Contains(q, x) <=> Contains(Tail(q), x) \/ x = Head(q)
  <2> SUFFICES ASSUME NEW x PROVE Contains(q, x) <=> Contains(Tail(q), x) \/ x = Head(q)
    OBVIOUS
  <2>1. ASSUME Contains(q, x) PROVE Contains(Tail(q), x) \/ x = Head(q)
    <3>1. PICK i \in 1 .. Len(q) : q[i] = x
      BY <2>1 DEF Contains
    <3>2. i # 1 => i - 1 \in 1 .. Len(Tail(q)) /\ Tail(q)[i - 1] = x
      BY <1>1, <1>2, <3>1
    <3> QED BY <3>1, <3>2, <1>1 DEF Contains
  <2>2. ASSUME Contains(Tail(q), x) \/ x = Head(q) PROVE Contains(q, x)
    BY <2>2, <1>1, <1>3 DEF Contains
  <2> QED BY <2>1, <2>2
<1>5. ASSUME IsDistinct(q) PROVE IsDistinct(Tail(q)) /\ ~Contains(Tail(q), Head(q))
  BY <1>1, <1>3, <1>5 DEF IsDistinct, Contains
<1> QED BY <1>1, <1>4, <1>5

LEMMA EmptyContains ==
  /\ \A x : ~Contains(<<>>, x)
  /\ IsDistinct(<<>>)
  /\ \A X : <<>> \in Seq(X)
BY EmptySeq DEF Contains, IsDistinct

\* The order under the operations of a queue.
LEMMA EmptyOrder == \A x, y : ~Precedes(<<>>, x, y)
BY DEF Precedes

LEMMA AppendOrder ==
  ASSUME NEW X, NEW q \in Seq(X), NEW e \in X
  PROVE  \A x, y : Precedes(Append(q, e), x, y) <=>
                     Precedes(q, x, y) \/ (Contains(q, x) /\ y = e)
<1>1. /\ Append(q, e) \in Seq(X) /\ Len(q) \in Nat
      /\ Len(Append(q, e)) = Len(q) + 1 /\ Append(q, e)[Len(q) + 1] = e
      /\ \A i \in 1 .. Len(q) : Append(q, e)[i] = q[i]
  BY AppendProperties, LenProperties
<1>2. \A i \in 1 .. Len(Append(q, e)) : i \in 1 .. Len(q) \/ i = Len(q) + 1
  BY <1>1
<1>3. \A i \in 1 .. Len(q) : i \in 1 .. Len(Append(q, e)) /\ i < Len(q) + 1
  BY <1>1
<1>4. Len(q) + 1 \in 1 .. Len(Append(q, e))
  BY <1>1
<1>5. ASSUME NEW x, NEW y, Precedes(Append(q, e), x, y)
      PROVE  Precedes(q, x, y) \/ (Contains(q, x) /\ y = e)
  BY <1>1, <1>2, <1>5 DEF Precedes, Contains
<1>6. ASSUME NEW x, NEW y, Precedes(q, x, y) \/ (Contains(q, x) /\ y = e)
      PROVE  Precedes(Append(q, e), x, y)
  <2>1. CASE Precedes(q, x, y)
    BY <2>1, <1>1, <1>3 DEF Precedes
  <2>2. CASE Contains(q, x) /\ y = e
    <3>1. PICK i \in 1 .. Len(q) : q[i] = x
      BY <2>2 DEF Contains
    <3>2. Append(q, e)[i] = x /\ Append(q, e)[Len(q) + 1] = y
      BY <3>1, <2>2, <1>1
    <3> HIDE DEF Contains
    <3> QED BY <3>2, <1>3, <1>4 DEF Precedes
  <2> QED BY <1>6, <2>1, <2>2
<1> QED BY <1>5, <1>6

LEMMA TailOrder ==
  ASSUME NEW X, NEW q \in Seq(X), q # <<>>
  PROVE  /\ \A x, y : Precedes(Tail(q), x, y) => Precedes(q, x, y)
         /\ \A y : Contains(Tail(q), y) => Precedes(q, Head(q), y)
<1>1. /\ Tail(q) \in Seq(X) /\ Head(q) = q[1] /\ Len(q) \in Nat /\ Len(q) # 0
      /\ Len(Tail(q)) = Len(q) - 1 /\ \A i \in 1 .. Len(Tail(q)) : Tail(q)[i] = q[i + 1]
  BY HeadTailProperties, LenProperties, EmptySeq
<1>2. \A i \in 1 .. Len(Tail(q)) : i + 1 \in 1 .. Len(q) /\ 1 < i + 1 /\ 1 \in 1 .. Len(q)
  BY <1>1
<1>3. \A i, k \in 1 .. Len(Tail(q)) : i < k => i + 1 < k + 1
  BY <1>1
<1>4. ASSUME NEW x, NEW y, Precedes(Tail(q), x, y) PROVE Precedes(q, x, y)
  <2>1. PICK i \in 1 .. Len(Tail(q)), k \in 1 .. Len(Tail(q)) :
          i < k /\ Tail(q)[i] = x /\ Tail(q)[k] = y
    BY <1>4 DEF Precedes
  <2>2. q[i + 1] = x /\ q[k + 1] = y /\ i + 1 < k + 1
    BY <2>1, <1>1, <1>3
  <2> QED BY <2>2, <1>2 DEF Precedes
<1>5. ASSUME NEW y, Contains(Tail(q), y) PROVE Precedes(q, Head(q), y)
  <2>1. PICK k \in 1 .. Len(Tail(q)) : Tail(q)[k] = y
    BY <1>5 DEF Contains
  <2>2. q[1] = Head(q) /\ q[k + 1] = y /\ 1 < k + 1
    BY <2>1, <1>1, <1>2
  <2> QED BY <2>2, <1>2 DEF Precedes
<1> QED BY <1>4, <1>5

\* Two sequences put together.
LEMMA ConcatContains ==
  ASSUME NEW X, NEW p \in Seq(X), NEW q \in Seq(X)
  PROVE  /\ p \o q \in Seq(X)
         /\ \A x : Contains(p \o q, x) <=> Contains(p, x) \/ Contains(q, x)
         /\ IsDistinct(p) /\ IsDistinct(q) /\ (\A x : ~(Contains(p, x) /\ Contains(q, x)))
              => IsDistinct(p \o q)
<1> DEFINE r == p \o q
<1>1. /\ r \in Seq(X) /\ Len(r) = Len(p) + Len(q) /\ Len(p) \in Nat /\ Len(q) \in Nat
      /\ \A i \in 1 .. Len(p) + Len(q) : r[i] = IF i <= Len(p) THEN p[i] ELSE q[i - Len(p)]
  BY ConcatProperties, LenProperties
<1> HIDE DEF r
<1>2. \A i \in 1 .. Len(r) :
        \/ i \in 1 .. Len(p) /\ r[i] = p[i]
        \/ i - Len(p) \in 1 .. Len(q) /\ r[i] = q[i - Len(p)]
  BY <1>1
<1>3. \A i \in 1 .. Len(p) : i \in 1 .. Len(r) /\ r[i] = p[i]
  BY <1>1
<1>4. \A i \in 1 .. Len(q) : Len(p) + i \in 1 .. Len(r) /\ r[Len(p) + i] = q[i]
  <2> SUFFICES ASSUME NEW i \in 1 .. Len(q)
               PROVE  Len(p) + i \in 1 .. Len(r) /\ r[Len(p) + i] = q[i]
    OBVIOUS
  <2>1. Len(p) + i \in 1 .. Len(p) + Len(q) /\ ~(Len(p) + i <= Len(p))
        /\ (Len(p) + i) - Len(p) = i
    BY <1>1
  <2> QED BY <2>1, <1>1
<1>5. \A x : Contains(r, x) <=> Contains(p, x) \/ Contains(q, x)
  BY <1>2, <1>3, <1>4 DEF Contains
<1>6. ASSUME IsDistinct(p), IsDistinct(q), \A x : ~(Contains(p, x) /\ Contains(q, x))
      PROVE  IsDistinct(r)
  <2>1. \A i \in 1 .. Len(p), k \in 1 .. Len(q) : p[i] # q[k]
    BY <1>6 DEF Contains
  <2> SUFFICES ASSUME NEW i \in 1 .. Len(r), NEW k \in 1 .. Len(r), r[i] = r[k] PROVE i = k
    BY DEF IsDistinct
  <2>2. CASE i \in 1 .. Len(p) /\ r[i] = p[i]
    <3>1. ~(k - Len(p) \in 1 .. Len(q) /\ r[k] = q[k - Len(p)])
      BY <2>1, <2>2
    <3>2. k \in 1 .. Len(p) /\ r[k] = p[k]
      BY <3>1, <1>2
    <3> QED BY <2>2, <3>2, <1>6 DEF IsDistinct
  <2>3. CASE i - Len(p) \in 1 .. Len(q) /\ r[i] = q[i - Len(p)]
    <3>1. ~(k \in 1 .. Len(p) /\ r[k] = p[k])
      BY <2>1, <2>3
    <3>2. k - Len(p) \in 1 .. Len(q) /\ r[k] = q[k - Len(p)]
      BY <3>1, <1>2
    <3>3. i - Len(p) = k - Len(p)
      BY <2>3, <3>2, <1>6 DEF IsDistinct
    <3> QED BY <3>3, <1>1
  <2> QED BY <2>2, <2>3, <1>2
<1> QED BY <1>1, <1>5, <1>6 DEF r

\* A sequence without repetition has as many elements as positions.
LEMMA DistinctCount ==
  ASSUME NEW X, NEW q \in Seq(X), IsDistinct(q)
  PROVE  Cardinality(ToSet(q)) = Len(q)
<1> DEFINE f == [i \in 1 .. Len(q) |-> q[i]]
<1>1. Len(q) \in Nat /\ DOMAIN q = 1 .. Len(q)
  BY LenProperties
<1>2. ToSet(q) = {q[i] : i \in 1 .. Len(q)}
  BY <1>1 DEF ToSet
<1>3. f \in Bijection(1 .. Len(q), ToSet(q))
  <2>1. f \in [1 .. Len(q) -> ToSet(q)]
    BY <1>2
  <2>2. \A i, k \in 1 .. Len(q) : f[i] = f[k] => i = k
    BY DEF IsDistinct
  <2>3. \A x \in ToSet(q) : \E i \in 1 .. Len(q) : f[i] = x
    BY <1>2
  <2> HIDE DEF f
  <2> QED BY <2>1, <2>2, <2>3 DEF Bijection, Injection, IsInjective, Surjection
<1> HIDE DEF f
<1>4. ExistsBijection(1 .. Len(q), ToSet(q))
  BY <1>3 DEF ExistsBijection
<1> QED BY <1>1, <1>4, FS_CountingElements

\* The elements are the members, and only they come before one another.
LEMMA ElementsOf ==
  ASSUME NEW X, NEW q \in Seq(X)
  PROVE  /\ ToSet(q) \subseteq X
         /\ \A x : x \in ToSet(q) <=> Contains(q, x)
         /\ \A x, y : Precedes(q, x, y) => x \in ToSet(q) /\ y \in ToSet(q)
         /\ ToSet(q) = {} <=> q = <<>>
<1>1. Len(q) \in Nat /\ DOMAIN q = 1 .. Len(q) /\ \A i \in 1 .. Len(q) : q[i] \in X
  BY LenProperties, ElementOfSeq
<1>2. \A x : x \in ToSet(q) <=> Contains(q, x)
  BY <1>1 DEF ToSet, Contains
<1>3. ToSet(q) \subseteq X
  BY <1>1 DEF ToSet
<1>4. \A x, y : Precedes(q, x, y) => x \in ToSet(q) /\ y \in ToSet(q)
  BY <1>1 DEF ToSet, Precedes
<1>5. ASSUME q # <<>> PROVE ToSet(q) # {}
  <2>1. 1 \in 1 .. Len(q)
    BY <1>1, <1>5, EmptySeq
  <2> QED BY <2>1, <1>1 DEF ToSet
<1>6. ASSUME q = <<>> PROVE ToSet(q) = {}
  <2>1. \A x : ~Contains(q, x)
    BY <1>6, EmptyContains
  <2> QED BY <2>1, <1>2
<1> QED BY <1>2, <1>3, <1>4, <1>5, <1>6

\* The empty sequence, and the sequence of one element.
LEMMA FewElements ==
  ASSUME NEW X, NEW a \in X
  PROVE  /\ <<>> \in Seq(X) /\ ToSet(<<>>) = {} /\ \A x, y : ~Precedes(<<>>, x, y)
         /\ <<a>> \in Seq(X) /\ ToSet(<<a>>) = {a} /\ \A x, y : ~Precedes(<<a>>, x, y)
<1>1. <<>> \in Seq(X) /\ <<a>> \in Seq(X)
  BY EmptySeq
<1>2. ToSet(<<>>) = {}
  BY <1>1, ElementsOf
<1>3. Len(<<a>>) = 1 /\ <<a>>[1] = a /\ DOMAIN <<a>> = 1 .. 1
  OBVIOUS
<1>4. ToSet(<<a>>) = {a}
  BY <1>3 DEF ToSet
<1>5. \A x, y : ~Precedes(<<a>>, x, y)
  BY <1>3 DEF Precedes
<1> QED BY <1>1, <1>2, <1>4, <1>5, EmptyOrder

\* The sequence of two elements.
LEMMA TwoElements ==
  ASSUME NEW X, NEW a \in X, NEW b \in X, NEW q, q = <<a, b>>
  PROVE  /\ q \in Seq(X) /\ ToSet(q) = {a, b}
         /\ \A x, y : Precedes(q, x, y) <=> x = a /\ y = b
<1>1. q \in Seq(X)
  OBVIOUS
<1>2. Len(q) = 2 /\ q[1] = a /\ q[2] = b /\ DOMAIN q = 1 .. 2
  OBVIOUS
<1>3. \A i \in 1 .. 2 : i = 1 \/ i = 2
  OBVIOUS
<1>4. 1 \in 1 .. 2 /\ 2 \in 1 .. 2 /\ \A i, k \in 1 .. 2 : i < k <=> i = 1 /\ k = 2
  OBVIOUS
<1>5. ToSet(q) = {a, b}
  BY <1>2, <1>3, <1>4 DEF ToSet
<1>6. \A x, y : Precedes(q, x, y) <=> x = a /\ y = b
  BY <1>2, <1>4 DEF Precedes
<1> QED BY <1>1, <1>5, <1>6

\* One sequence in front of another.
LEMMA PushElements ==
  ASSUME NEW X, NEW p \in Seq(X), NEW q \in Seq(X)
  PROVE  /\ p \o q \in Seq(X) /\ ToSet(p \o q) = ToSet(p) \cup ToSet(q)
         /\ \A x, y : Precedes(p \o q, x, y) <=>
              \/ Precedes(p, x, y) \/ Precedes(q, x, y)
              \/ x \in ToSet(p) /\ y \in ToSet(q)
<1> DEFINE r == p \o q
<1>1. /\ r \in Seq(X) /\ Len(r) = Len(p) + Len(q) /\ Len(p) \in Nat /\ Len(q) \in Nat
      /\ \A i \in 1 .. Len(p) + Len(q) : r[i] = IF i <= Len(p) THEN p[i] ELSE q[i - Len(p)]
  BY ConcatProperties, LenProperties
<1>0. \A x : Contains(r, x) <=> Contains(p, x) \/ Contains(q, x)
  BY ConcatContains
<1> HIDE DEF r
<1>e. /\ \A x : x \in ToSet(p) <=> Contains(p, x)
      /\ \A x : x \in ToSet(q) <=> Contains(q, x)
      /\ \A x : x \in ToSet(r) <=> Contains(r, x)
  BY <1>1, ElementsOf
<1>2. ToSet(r) = ToSet(p) \cup ToSet(q)
  BY <1>0, <1>e
<1>3. \A i \in 1 .. Len(p) : i \in 1 .. Len(r) /\ r[i] = p[i]
  BY <1>1
<1>4. \A i \in 1 .. Len(q) : Len(p) + i \in 1 .. Len(r) /\ r[Len(p) + i] = q[i]
  <2> SUFFICES ASSUME NEW i \in 1 .. Len(q)
               PROVE  Len(p) + i \in 1 .. Len(r) /\ r[Len(p) + i] = q[i]
    OBVIOUS
  <2>1. Len(p) + i \in 1 .. Len(p) + Len(q) /\ ~(Len(p) + i <= Len(p))
        /\ (Len(p) + i) - Len(p) = i
    BY <1>1
  <2> QED BY <2>1, <1>1
<1>5. \A i \in 1 .. Len(r) :
        \/ i \in 1 .. Len(p) /\ r[i] = p[i]
        \/ i - Len(p) \in 1 .. Len(q) /\ r[i] = q[i - Len(p)] /\ ~(i <= Len(p))
  BY <1>1
<1>6. ASSUME NEW x, NEW y, Precedes(r, x, y)
      PROVE  Precedes(p, x, y) \/ Precedes(q, x, y) \/ (Contains(p, x) /\ Contains(q, y))
  <2>1. PICK i \in 1 .. Len(r), k \in 1 .. Len(r) : i < k /\ r[i] = x /\ r[k] = y
    BY <1>6 DEF Precedes
  <2>2. CASE k \in 1 .. Len(p) /\ r[k] = p[k]
    <3>1. i \in 1 .. Len(p) /\ r[i] = p[i]
      BY <2>1, <2>2, <1>1, <1>3
    <3> QED BY <2>1, <2>2, <3>1 DEF Precedes
  <2>3. CASE k - Len(p) \in 1 .. Len(q) /\ r[k] = q[k - Len(p)]
    <3>1. CASE i \in 1 .. Len(p) /\ r[i] = p[i]
      BY <2>1, <2>3, <3>1 DEF Contains
    <3>2. CASE i - Len(p) \in 1 .. Len(q) /\ r[i] = q[i - Len(p)]
      <4>1. i - Len(p) < k - Len(p)
        BY <2>1, <1>1
      <4> QED BY <2>1, <2>3, <3>2, <4>1 DEF Precedes
    <3> QED BY <3>1, <3>2, <1>5
  <2> QED BY <2>2, <2>3, <1>5
<1>7. ASSUME NEW x, NEW y, Precedes(p, x, y) PROVE Precedes(r, x, y)
  BY <1>3, <1>7 DEF Precedes
<1>8. ASSUME NEW x, NEW y, Precedes(q, x, y) PROVE Precedes(r, x, y)
  <2>1. PICK i \in 1 .. Len(q), k \in 1 .. Len(q) : i < k /\ q[i] = x /\ q[k] = y
    BY <1>8 DEF Precedes
  <2>2. Len(p) + i < Len(p) + k
    BY <2>1, <1>1
  <2> QED BY <1>4, <2>1, <2>2 DEF Precedes
<1>9. ASSUME NEW x, NEW y, Contains(p, x), Contains(q, y) PROVE Precedes(r, x, y)
  <2>1. PICK i \in 1 .. Len(p) : p[i] = x
    BY <1>9 DEF Contains
  <2>2. PICK k \in 1 .. Len(q) : q[k] = y
    BY <1>9 DEF Contains
  <2>3. i < Len(p) + k
    BY <1>1
  <2> QED BY <1>3, <1>4, <2>1, <2>2, <2>3 DEF Precedes
<1> QED BY <1>1, <1>2, <1>6, <1>7, <1>8, <1>9, <1>e DEF r

\* The first element of a sequence and the rest.
LEMMA PopElements ==
  ASSUME NEW X, NEW q \in Seq(X), q # <<>>
  PROVE  /\ Head(q) \in X /\ Tail(q) \in Seq(X) /\ ToSet(q) = {Head(q)} \cup ToSet(Tail(q))
         /\ \A x, y : Precedes(q, x, y) <=>
              Precedes(Tail(q), x, y) \/ (x = Head(q) /\ y \in ToSet(Tail(q)))
<1>1. /\ Tail(q) \in Seq(X) /\ Head(q) = q[1] /\ Head(q) \in X /\ Len(q) \in Nat
      /\ Len(q) # 0 /\ Len(Tail(q)) = Len(q) - 1
      /\ \A i \in 1 .. Len(Tail(q)) : Tail(q)[i] = q[i + 1]
  BY HeadTailProperties, LenProperties, EmptySeq
<1>2. /\ \A x : Contains(q, x) <=> Contains(Tail(q), x) \/ x = Head(q)
      /\ \A x, y : Precedes(Tail(q), x, y) => Precedes(q, x, y)
      /\ \A y : Contains(Tail(q), y) => Precedes(q, Head(q), y)
  BY TailContains, TailOrder
<1>e. /\ \A x : x \in ToSet(q) <=> Contains(q, x)
      /\ \A x : x \in ToSet(Tail(q)) <=> Contains(Tail(q), x)
  BY <1>1, ElementsOf
<1>3. ToSet(q) = {Head(q)} \cup ToSet(Tail(q))
  BY <1>2, <1>e
<1>4. ASSUME NEW x, NEW y, Precedes(q, x, y)
      PROVE  Precedes(Tail(q), x, y) \/ (x = Head(q) /\ Contains(Tail(q), y))
  <2> DEFINE r == Tail(q)
  <2>1. PICK i \in 1 .. Len(q), k \in 1 .. Len(q) : i < k /\ q[i] = x /\ q[k] = y
    BY <1>4 DEF Precedes
  <2>2. k - 1 \in 1 .. Len(r) /\ (k - 1) + 1 = k
    BY <2>1, <1>1
  <2>3. Len(r) \in Nat /\ \A n \in 1 .. Len(r) : r[n] = q[n + 1]
    BY <1>1
  <2>h. Head(q) = q[1]
    BY <1>1
  <2> HIDE DEF r
  <2>4. r[k - 1] = y
    BY <2>1, <2>2, <2>3
  <2>5. CASE i = 1
    BY <2>1, <2>2, <2>4, <2>5, <2>h DEF Contains, r
  <2>6. CASE i # 1
    <3>1. i - 1 \in 1 .. Len(r) /\ (i - 1) + 1 = i /\ i - 1 < k - 1
      BY <2>1, <2>2, <2>3, <2>6, <1>1 DEF r
    <3>2. r[i - 1] = x
      BY <3>1, <2>1, <2>3
    <3>3. Precedes(r, x, y)
      BY <2>2, <2>4, <3>1, <3>2 DEF Precedes
    <3> QED BY <3>3 DEF r
  <2> QED BY <2>5, <2>6
<1> QED BY <1>1, <1>2, <1>3, <1>4, <1>e

\* An element put at the end.
LEMMA PutElements ==
  ASSUME NEW X, NEW q \in Seq(X), NEW e \in X
  PROVE  /\ Append(q, e) \in Seq(X) /\ ToSet(Append(q, e)) = ToSet(q) \cup {e}
         /\ \A x, y : Precedes(Append(q, e), x, y) <=>
              Precedes(q, x, y) \/ (x \in ToSet(q) /\ y = e)
<1>1. Append(q, e) \in Seq(X) /\ \A x : Contains(Append(q, e), x) <=> Contains(q, x) \/ x = e
  BY AppendContains
<1>2. \A x : (x \in ToSet(q) <=> Contains(q, x))
             /\ (x \in ToSet(Append(q, e)) <=> Contains(Append(q, e), x))
  BY <1>1, ElementsOf
<1>3. \A x, y : Precedes(Append(q, e), x, y) <=>
                  Precedes(q, x, y) \/ (Contains(q, x) /\ y = e)
  BY AppendOrder
<1> QED BY <1>1, <1>2, <1>3

\* What a filter leaves.
LEMMA FilterElements ==
  ASSUME NEW X, NEW q \in Seq(X), NEW S
  PROVE  /\ Without(q, S) \in Seq(X) /\ ToSet(Without(q, S)) = ToSet(q) \ S
         /\ \A x, y : Precedes(Without(q, S), x, y) => Precedes(q, x, y)
<1>1. /\ Without(q, S) \in Seq(X)
      /\ \A x : Contains(Without(q, S), x) <=> Contains(q, x) /\ x \notin S
  BY WithoutProperties
<1>2. \A x : (x \in ToSet(q) <=> Contains(q, x))
             /\ (x \in ToSet(Without(q, S)) <=> Contains(Without(q, S), x))
  BY <1>1, ElementsOf
<1> QED BY <1>1, <1>2, WithoutOrder

\* A sequence cut at one of its elements.
LEMMA CutElements ==
  ASSUME NEW X, NEW q \in Seq(X), NEW n \in 1 .. Len(q)
  PROVE  LET a == SubSeq(q, 1, n - 1)  b == SubSeq(q, n + 1, Len(q)) IN
         /\ a \in Seq(X) /\ b \in Seq(X) /\ q[n] \in X
         /\ ToSet(q) = ToSet(a) \cup {q[n]} \cup ToSet(b)
         /\ ToSet(a) = {q[i] : i \in 1 .. n - 1}
         /\ \A x, y : Precedes(a, x, y) \/ Precedes(b, x, y) => Precedes(q, x, y)
         /\ \A x \in ToSet(a) : Precedes(q, x, q[n])
         /\ \A x \in ToSet(b) : Precedes(q, q[n], x)
         /\ \A x \in ToSet(a), y \in ToSet(b) : Precedes(q, x, y)
<1> DEFINE a == SubSeq(q, 1, n - 1)
           b == SubSeq(q, n + 1, Len(q))
<1>0. Len(q) \in Nat /\ DOMAIN q = 1 .. Len(q) /\ \A i \in 1 .. Len(q) : q[i] \in X
  BY LenProperties, ElementOfSeq
<1>1. /\ Len(q) \in Nat /\ n \in Nat /\ 1 <= n /\ n <= Len(q)
      /\ \A i \in 1 .. Len(q) : q[i] \in X
  BY <1>0
<1>2. /\ a \in Seq(X) /\ Len(a) = n - 1
      /\ \A i \in 1 .. n - 1 : a[i] = q[i]
  BY <1>1, SubSeqProperties
<1>3. /\ b \in Seq(X) /\ Len(b) = Len(q) - n
      /\ \A i \in 1 .. Len(q) - n : b[i] = q[n + i]
  BY <1>1, SubSeqProperties
<1> HIDE DEF a, b
<1>4. DOMAIN a = 1 .. n - 1 /\ DOMAIN b = 1 .. Len(q) - n
  BY <1>2, <1>3, LenProperties
<1>5. ToSet(a) = {q[i] : i \in 1 .. n - 1}
  BY <1>2, <1>4 DEF ToSet
<1>6. \A x : x \in ToSet(b) <=> \E i \in 1 .. Len(q) - n : q[n + i] = x
  BY <1>3, <1>4 DEF ToSet
<1>7. ToSet(q) = {q[i] : i \in 1 .. Len(q)}
  BY <1>0 DEF ToSet
<1>i. \A i \in 1 .. n - 1 : i \in 1 .. Len(q) /\ i < n
  BY <1>1
<1>j. \A i \in 1 .. Len(q) - n : n + i \in 1 .. Len(q) /\ n < n + i
  BY <1>1
<1>8. ASSUME NEW i \in 1 .. Len(q) PROVE i \in 1 .. n - 1 \/ i = n \/ i - n \in 1 .. Len(q) - n
  BY <1>1
<1>9. ToSet(q) \subseteq ToSet(a) \cup {q[n]} \cup ToSet(b)
  <2> SUFFICES ASSUME NEW i \in 1 .. Len(q) PROVE q[i] \in ToSet(a) \cup {q[n]} \cup ToSet(b)
    BY <1>7
  <2>1. CASE i \in 1 .. n - 1
    BY <2>1, <1>5
  <2>2. CASE i - n \in 1 .. Len(q) - n
    <3>1. n + (i - n) = i
      BY <1>1
    <3> QED BY <2>2, <3>1, <1>6
  <2> QED BY <2>1, <2>2, <1>8
<1>10. ToSet(a) \cup {q[n]} \cup ToSet(b) \subseteq ToSet(q)
  BY <1>1, <1>5, <1>6, <1>7, <1>i, <1>j
<1>11. ASSUME NEW x, NEW y, Precedes(a, x, y) PROVE Precedes(q, x, y)
  BY <1>11, <1>2, <1>i DEF Precedes
<1>12. ASSUME NEW x, NEW y, Precedes(b, x, y) PROVE Precedes(q, x, y)
  <2>1. PICK i \in 1 .. Len(q) - n, k \in 1 .. Len(q) - n : i < k /\ b[i] = x /\ b[k] = y
    BY <1>12, <1>3 DEF Precedes
  <2>2. q[n + i] = x /\ q[n + k] = y
    BY <2>1, <1>3
  <2>3. n + i < n + k
    BY <2>1, <1>1
  <2> QED BY <2>2, <2>3, <1>j DEF Precedes
<1>13. \A x \in ToSet(a) : Precedes(q, x, q[n])
  BY <1>1, <1>5, <1>i DEF Precedes
<1>14. \A x \in ToSet(b) : Precedes(q, q[n], x)
  BY <1>1, <1>6, <1>j DEF Precedes
<1>15. ASSUME NEW x \in ToSet(a), NEW y \in ToSet(b) PROVE Precedes(q, x, y)
  <2>1. PICK i \in 1 .. n - 1 : q[i] = x
    BY <1>5
  <2>2. PICK k \in 1 .. Len(q) - n : q[n + k] = y
    BY <1>6
  <2>3. i < n + k
    BY <1>1, <1>i, <1>j
  <2> QED BY <2>1, <2>2, <2>3, <1>i, <1>j DEF Precedes
<1>16. q[n] \in X /\ ToSet(q) = ToSet(a) \cup {q[n]} \cup ToSet(b)
  BY <1>1, <1>9, <1>10
<1> QED
  BY <1>2, <1>3, <1>5, <1>11, <1>12, <1>13, <1>14, <1>15, <1>16 DEF a, b

\* No element comes before itself exactly when none comes twice.
LEMMA DistinctOrder ==
  ASSUME NEW X, NEW q \in Seq(X)
  PROVE  IsDistinct(q) <=> \A x \in ToSet(q) : ~Precedes(q, x, x)
<1>1. Len(q) \in Nat /\ DOMAIN q = 1 .. Len(q)
  BY LenProperties
<1>2. ASSUME NEW i \in 1 .. Len(q), NEW k \in 1 .. Len(q), i # k, q[i] = q[k]
      PROVE  q[i] \in ToSet(q) /\ Precedes(q, q[i], q[i])
  <2>1. i < k \/ k < i
    BY <1>1, <1>2
  <2> QED BY <1>1, <1>2, <2>1 DEF Precedes, ToSet
<1>3. ASSUME NEW x, Precedes(q, x, x) PROVE ~IsDistinct(q)
  <2>1. PICK i \in 1 .. Len(q), k \in 1 .. Len(q) : i < k /\ q[i] = x /\ q[k] = x
    BY <1>3 DEF Precedes
  <2>2. i # k
    BY <2>1, <1>1
  <2> QED BY <2>1, <2>2 DEF IsDistinct
<1> QED BY <1>2, <1>3 DEF IsDistinct

-----------------------------------------------------------------------------
(* The invariant.                                                          *)

Known == DOMAIN turn
Entries == [to : Panels, message : Messages]
StackSteps == [op : Steps0, turn : Nat, err : BOOLEAN, back : Seq(Entries)]
Posts == [do : {"send", "kick", "tool"}, turn : Nat, bound : Nat]
TurnRecords == [panel : Panels, message : 0 .. MaxPeers, spoken : BOOLEAN]

Types ==
  /\ todo \in Seq(StackSteps) /\ queue \in Seq(Posts) /\ fifo \in Seq(Entries)
  /\ mode \in [Panels -> {"idle", "recording", "busy"}] /\ gone \subseteq Panels
  /\ scope \in [Panels -> Known \cup {0}] /\ turn \in Seq(TurnRecords)
  /\ open \subseteq Known /\ cancelled \subseteq Known /\ drains \subseteq Known
  /\ before \in [Turns -> Known \cup {0}] /\ current \in Known \cup {0}
  /\ epilogues \in [Turns -> Seq(StackSteps)]
  /\ waiting \in [Panels -> SUBSET Messages] /\ sent \in 0 .. MaxPeers
  /\ started \in Seq(Messages) /\ dropped \subseteq Messages /\ raised \subseteq Messages
  /\ refused \subseteq Panels /\ wronged \subseteq Known /\ tools \in 0 .. MaxTools

\* What the steps of the stack, the items of the queue and the epilogues of a
\* drain are about.
Shapes ==
  /\ \A x \in ToSet(todo) :
       /\ x.turn \in Known \cup {0}
       /\ x.op \in {"kick", "unskip"} <=> x.turn = 0
       /\ x.op # "unskip" => x.back = <<>>
       /\ x.op = "stt" => turn[x.turn].spoken
  /\ \A x \in ToSet(queue) :
       /\ x.turn \in Known \cup {0} /\ x.bound \in Known \cup {0}
       /\ x.do = "send" => x.turn # 0 /\ x.bound # x.turn
  /\ \A d \in Turns : \A x \in ToSet(epilogues[d]) :
       x.op = "close" /\ x.turn \in Known /\ x.back = <<>>
  /\ \A d \in Turns : d \notin drains => epilogues[d] = <<>>

\* Where a turn's end is still to come from.
Posted(s) == \E x \in ToSet(queue) : x.do = "send" /\ x.turn = s
OnStack(s) == \E x \in ToSet(todo) : x.turn = s
InDrain(d, s) == d \in drains /\ \E x \in ToSet(epilogues[d]) : x.turn = s
HasEnd(s) == s \in Known /\ (Posted(s) \/ OnStack(s) \/ \E d \in drains : InDrain(d, s))

\* It comes from one place.
OneEnd ==
  /\ \A s \in Known : ~(Posted(s) /\ OnStack(s))
  /\ \A s \in Known : \A d \in drains : InDrain(d, s) => ~Posted(s) /\ ~OnStack(s)
  /\ \A s \in Known : \A d, e \in drains : InDrain(d, s) /\ InDrain(e, s) => d = e
  /\ \A x, y \in ToSet(queue) :
       Precedes(queue, x, y) /\ x.do = "send" /\ y.do = "send" => x.turn # y.turn
  /\ \A x, y \in ToSet(todo) : Precedes(todo, x, y) /\ x.turn # 0 => x.turn # y.turn
  /\ \A d \in drains : \A x, y \in ToSet(epilogues[d]) :
       Precedes(epilogues[d], x, y) => x.turn # y.turn

Sessions ==
  /\ \A s \in open : OnStack(s) \/ \E d \in drains : InDrain(d, s)
  /\ \A s \in drains : InDrain(s, s)
  /\ depth = Cardinality(drains) /\ captured \in drains \cup {0}
  /\ CurrentIsOpen

Reached ==
  /\ \A s \in Known : HasEnd(s) =>
       scope[Panel(s)] = s /\ (Live(Panel(s)) => mode[Panel(s)] = "busy")
  /\ \A p \in Panels \ gone :
       IF mode[p] = "busy" THEN HasEnd(scope[p]) \/ scope[p] \in wronged ELSE scope[p] = 0
  /\ \A p \in Panels : scope[p] # 0 => Panel(scope[p]) = p

-----------------------------------------------------------------------------
(* The peer messages.                                                      *)

BackSet(x) == ToSet(x.back)
InBack(e) == \E x \in ToSet(todo) : e \in BackSet(x)
Pending(e) == e \in ToSet(fifo) \/ InBack(e)
Free(p) == mode[p] = "idle" /\ scope[p] = 0

\* A peer turn is one message's; the user's turns are counted.
OneTurnEach ==
  /\ Cardinality({s \in DOMAIN turn : turn[s].message = 0}) <= MaxSends
  /\ \A s \in Known : turn[s].message <= sent
  /\ \A s, t \in Known : turn[s].message = turn[t].message /\ turn[s].message # 0 => s = t
  /\ \A m \in ToSet(started) : \E s \in Known : turn[s].message = m
  /\ \A s \in Known : turn[s].message # 0 => turn[s].message \in ToSet(started)
  /\ IsDistinct(started)

\* A message is pending, was started or was dropped.
Accounted ==
  /\ \A e \in ToSet(fifo) : e.message \in waiting[e.to]
  /\ \A x \in ToSet(todo) : \A e \in BackSet(x) : e.message \in waiting[e.to]
  /\ \A p \in Panels : \A m \in waiting[p] : Pending([to |-> p, message |-> m])
  /\ \A p, q \in Panels : waiting[p] \cap waiting[q] # {} => p = q
  /\ \A p \in Panels : \A m \in waiting[p] :
       m <= sent /\ m \notin ToSet(started) /\ m \notin dropped
  /\ \A p \in gone : waiting[p] = {}
  /\ \A m \in ToSet(started) : m <= sent /\ m \notin dropped
  /\ \A m \in dropped : m <= sent
  /\ \A m \in 1 .. sent : \/ \E p \in Panels : m \in waiting[p]
                          \/ m \in ToSet(started) \cup dropped

\* Those of one panel are pending in the order they were accepted: what a kick
\* lower on the stack has put aside, then what one above it has, then the rest.
Older(e, f) == e # f /\ (e.to = f.to => e.message < f.message)
Ordered ==
  /\ \A e, f \in ToSet(fifo) : Precedes(fifo, e, f) => Older(e, f)
  /\ \A x \in ToSet(todo) : \A e, f \in BackSet(x) : Precedes(x.back, e, f) => Older(e, f)
  /\ \A x \in ToSet(todo) : \A e \in BackSet(x), f \in ToSet(fifo) : Older(e, f)
  /\ \A x, y \in ToSet(todo) : Precedes(todo, x, y) =>
       \A e \in BackSet(y), f \in BackSet(x) : Older(e, f)

\* The panel a message was started on.
On(m, p) == \E s \in Known : turn[s].message = m /\ Panel(s) = p
StartedInOrder ==
  /\ \A m, k \in ToSet(started) \ raised : \A p \in Panels :
       Precedes(started, m, k) /\ On(m, p) /\ On(k, p) => m < k
  /\ \A p \in Panels : \A m \in ToSet(started) \ raised : \A k \in waiting[p] \ raised :
       On(m, p) => m < k

\* While a kick's skipped messages wait on the stack, nothing above it pumps,
\* and the panels they are for stay as the kick found them.
Aside ==
  /\ \A x, y \in ToSet(todo) : Precedes(todo, x, y) /\ y.op = "unskip" /\ x.turn # 0 =>
       /\ ~turn[x.turn].spoken
       /\ \A e \in BackSet(y) : e.message \in raised \/ e.to # Panel(x.turn)
  /\ \A x \in ToSet(todo) : \A e \in BackSet(x) :
       \/ e.message \in raised
       \/ ~Free(e.to) /\ (mode[e.to] = "recording" => e.to \in refused)

\* Something will kick again, or says why a message waits.
Remembered ==
  drains = {} /\ (\A x \in ToSet(todo) : x.op = "unskip") =>
    \A p \in Panels : \A m \in waiting[p] :
      p \in refused \/ m \in raised \/ scope[p] \in wronged \/ HasEnd(scope[p])

IInv ==
  /\ Types /\ Shapes /\ OneEnd /\ Sessions /\ Reached
  /\ OneTurnEach /\ Accounted /\ Ordered /\ StartedInOrder /\ Aside /\ Remembered

-----------------------------------------------------------------------------
(* Turns and stack.                                                        *)

\* Turns are counted from 1.
LEMMA TurnNumbers ==
  ASSUME Types
  PROVE  /\ Known = 1 .. Len(turn) /\ Len(turn) \in Nat /\ 0 \notin Known
         /\ Known \subseteq Nat /\ IsFiniteSet(Known) /\ Cardinality(Known) = Len(turn)
         /\ \A s \in Known : turn[s] \in TurnRecords
<1>1. Len(turn) \in Nat /\ Known = 1 .. Len(turn) /\ \A s \in 1 .. Len(turn) : turn[s] \in TurnRecords
  BY LenProperties, ElementOfSeq DEF Types, Known
<1>2. IsFiniteSet(1 .. Len(turn)) /\ Cardinality(1 .. Len(turn)) = Len(turn)
  <2>1. 1 \in Int /\ Len(turn) \in Int
    BY <1>1
  <2>2. IsFiniteSet(1 .. Len(turn))
        /\ Cardinality(1 .. Len(turn)) = IF 1 > Len(turn) THEN 0 ELSE Len(turn) - 1 + 1
    BY <2>1, FS_Interval
  <2> QED BY <2>2, <1>1
<1> QED BY <1>1, <1>2

\* There are no more turns than sends and peer messages.
LEMMA TurnCount ==
  ASSUME Types, OneTurnEach
  PROVE  Len(turn) <= MaxTurns /\ Known \subseteq Turns
<1> DEFINE A == {s \in DOMAIN turn : turn[s].message = 0}
           B == {s \in DOMAIN turn : turn[s].message # 0}
           f == [s \in B |-> turn[s].message]
<1>1. /\ Known = 1 .. Len(turn) /\ Len(turn) \in Nat /\ IsFiniteSet(Known)
      /\ Cardinality(Known) = Len(turn) /\ \A s \in Known : turn[s] \in TurnRecords
  BY TurnNumbers
<1>2. A \cup B = Known /\ A \cap B = {} /\ A \subseteq Known /\ B \subseteq Known
  BY DEF Known
<1>3. IsFiniteSet(A) /\ IsFiniteSet(B)
  BY <1>1, <1>2, FS_Subset
<1>4. Cardinality(Known) = Cardinality(A) + Cardinality(B)
  <2>1. Cardinality(A \cup B) = Cardinality(A) + Cardinality(B) - Cardinality(A \cap B)
    BY <1>3, FS_Union
  <2>2. Cardinality(A \cap B) = 0
    BY <1>2, FS_EmptySet
  <2>3. Cardinality(A) \in Nat /\ Cardinality(B) \in Nat
    BY <1>3, FS_CardinalityType
  <2> HIDE DEF A, B
  <2> QED BY <2>1, <2>2, <2>3, <1>2
<1>5. Cardinality(A) <= MaxSends
  BY DEF OneTurnEach
<1>6. \A s \in B : turn[s].message \in 1 .. MaxPeers
  BY <1>1, <1>2, TurnsAssumption DEF TurnRecords
<1>7. f \in [B -> 1 .. MaxPeers] /\ \A s, t \in B : f[s] = f[t] => s = t
  <2>1. \A s, t \in B : turn[s].message = turn[t].message => s = t
    BY <1>2 DEF OneTurnEach
  <2> HIDE DEF B
  <2> QED BY <1>6, <2>1
<1>8. f \in Injection(B, 1 .. MaxPeers)
  BY <1>7 DEF Injection, IsInjective
<1>9. IsFiniteSet(1 .. MaxPeers) /\ Cardinality(1 .. MaxPeers) = MaxPeers
  <2>1. 1 \in Int /\ MaxPeers \in Int
    BY TurnsAssumption
  <2>2. IsFiniteSet(1 .. MaxPeers)
        /\ Cardinality(1 .. MaxPeers) = IF 1 > MaxPeers THEN 0 ELSE MaxPeers - 1 + 1
    BY <2>1, FS_Interval
  <2> QED BY <2>2, TurnsAssumption
<1>10. Cardinality(B) <= MaxPeers
  <2> HIDE DEF f, B
  <2> QED BY <1>3, <1>8, <1>9, FS_Injection DEF ExistsInjection
<1>11. Cardinality(A) \in Nat /\ Cardinality(B) \in Nat
  BY <1>3, FS_CardinalityType
<1> HIDE DEF A, B, f
<1>12. Len(turn) <= MaxSends + MaxPeers
  BY <1>1, <1>4, <1>5, <1>10, <1>11, TurnsAssumption
<1> QED BY <1>1, <1>12, TurnsAssumption DEF MaxTurns, Turns

\* A new turn gets the next number.
LEMMA OneMoreTurn ==
  ASSUME Types, NEW r \in TurnRecords, turn' = Append(turn, r)
  PROVE  LET n == Len(turn) + 1 IN
         /\ turn' \in Seq(TurnRecords) /\ n \notin Known /\ n # 0 /\ n \in Nat
         /\ Known' = Known \cup {n} /\ turn'[n] = r /\ \A s \in Known : turn'[s] = turn[s]
<1>1. /\ Append(turn, r) \in Seq(TurnRecords) /\ Len(Append(turn, r)) = Len(turn) + 1
      /\ Append(turn, r)[Len(turn) + 1] = r
      /\ \A i \in 1 .. Len(turn) : Append(turn, r)[i] = turn[i]
  BY AppendProperties DEF Types
<1>2. Known = 1 .. Len(turn) /\ Len(turn) \in Nat
  BY TurnNumbers
<1>3. Known' = 1 .. Len(turn) + 1
  BY <1>1, LenProperties DEF Known
<1>4. 1 .. Len(turn) + 1 = (1 .. Len(turn)) \cup {Len(turn) + 1}
  BY <1>2
<1> QED BY <1>1, <1>2, <1>3, <1>4

\* The stack's first step and the others.
LEMMA StackTop ==
  ASSUME Types, todo # <<>>
  PROVE  /\ Head(todo) \in StackSteps /\ Tail(todo) \in Seq(StackSteps)
         /\ ToSet(todo) = {Head(todo)} \cup ToSet(Tail(todo))
         /\ ToSet(Tail(todo)) \subseteq StackSteps
         /\ \A x, y : Precedes(todo, x, y) <=>
              Precedes(Tail(todo), x, y) \/ (x = Head(todo) /\ y \in ToSet(Tail(todo)))
         /\ \A x, y : Precedes(Tail(todo), x, y) =>
              x \in ToSet(Tail(todo)) /\ y \in ToSet(Tail(todo))
<1>1. todo \in Seq(StackSteps)
  BY DEF Types
<1>2. /\ Head(todo) \in StackSteps /\ Tail(todo) \in Seq(StackSteps)
      /\ ToSet(todo) = {Head(todo)} \cup ToSet(Tail(todo))
      /\ \A x, y : Precedes(todo, x, y) <=>
           Precedes(Tail(todo), x, y) \/ (x = Head(todo) /\ y \in ToSet(Tail(todo)))
  BY <1>1, PopElements
<1> QED BY <1>2, ElementsOf

\* An element of a typed queue has its type.
LEMMA ElementTypes ==
  ASSUME Types
  PROVE  /\ ToSet(todo) \subseteq StackSteps /\ ToSet(queue) \subseteq Posts
         /\ ToSet(fifo) \subseteq Entries /\ ToSet(started) \subseteq Messages
         /\ \A d \in Turns : ToSet(epilogues[d]) \subseteq StackSteps
         /\ \A x \in StackSteps : BackSet(x) \subseteq Entries
         /\ \A x, y : Precedes(todo, x, y) => x \in ToSet(todo) /\ y \in ToSet(todo)
         /\ \A x, y : Precedes(queue, x, y) => x \in ToSet(queue) /\ y \in ToSet(queue)
         /\ \A x, y : Precedes(fifo, x, y) => x \in ToSet(fifo) /\ y \in ToSet(fifo)
<1>1. /\ todo \in Seq(StackSteps) /\ queue \in Seq(Posts) /\ fifo \in Seq(Entries)
      /\ started \in Seq(Messages) /\ epilogues \in [Turns -> Seq(StackSteps)]
  BY DEF Types
<1>2. \A x \in StackSteps : x.back \in Seq(Entries)
  BY DEF StackSteps
<1>3. \A x \in StackSteps : BackSet(x) \subseteq Entries
  BY <1>2, ElementsOf DEF BackSet
<1>4. \A d \in Turns : ToSet(epilogues[d]) \subseteq StackSteps
  BY <1>1, ElementsOf
<1> QED BY <1>1, <1>3, <1>4, ElementsOf

\* A step with nothing put aside has no messages.
LEMMA NothingAside ==
  ASSUME NEW x, x.back = <<>>
  PROVE  BackSet(x) = {} /\ \A e, f : ~Precedes(x.back, e, f)
<1>1. <<>> \in Seq({})
  BY EmptySeq
<1> QED BY <1>1, ElementsOf, EmptyOrder DEF BackSet

\* While the main thread pumps, no kick is under way below it.
LEMMA PumpingIsClear ==
  ASSUME IInv, Pumping
  PROVE  /\ \A x \in ToSet(todo) : x.op # "unskip" /\ x.back = <<>> /\ BackSet(x) = {}
         /\ \A e : ~InBack(e)
<1> USE DEF IInv
<1>1. ASSUME NEW x \in ToSet(todo), x.op = "unskip" PROVE FALSE
  <2>1. todo # <<>>
    BY <1>1, ElementsOf DEF Types
  <2>2. Head(todo).op = "stt"
    <3>1. Head(todo).op \in {"none", "stt"}
      BY <2>1 DEF Pumping, At, Top
    <3>2. Head(todo).op \in Steps0
      BY <2>1, StackTop DEF StackSteps
    <3>3. "none" \notin Steps0
      BY DEF Steps0
    <3> QED BY <3>1, <3>2, <3>3
  <2>3. /\ ToSet(todo) = {Head(todo)} \cup ToSet(Tail(todo))
        /\ \A y \in ToSet(Tail(todo)) : Precedes(todo, Head(todo), y)
    BY <2>1, StackTop
  <2>4. Head(todo).turn # 0 /\ turn[Head(todo).turn].spoken
    BY <2>2, <2>3 DEF Shapes
  <2>5. Precedes(todo, Head(todo), x)
    BY <1>1, <2>2, <2>3
  <2> QED BY <1>1, <2>3, <2>4, <2>5 DEF Aside
<1>2. \A x \in ToSet(todo) : x.op # "unskip" /\ x.back = <<>>
  BY <1>1 DEF Shapes
<1>3. \A x \in ToSet(todo) : BackSet(x) = {}
  BY <1>2, NothingAside
<1> QED BY <1>2, <1>3 DEF InBack

-----------------------------------------------------------------------------
(* What a step that leaves some variables alone keeps.                     *)

\* Turns and started messages.
LEMMA TurnsKept ==
  ASSUME IInv, turn' = turn, sent' = sent, started' = started
  PROVE  OneTurnEach' /\ Known' = Known
BY DEF IInv, OneTurnEach, Known

\* The order in which messages were started.
LEMMA StartsKept ==
  ASSUME IInv, turn' = turn, started' = started, raised \subseteq raised',
         \A p \in Panels : waiting'[p] \subseteq waiting[p]
  PROVE  StartedInOrder'
<1>1. Known' = Known /\ \A m, p : On(m, p)' <=> On(m, p)
  BY DEF Known, On, Panel
<1>2. StartedInOrder
  BY DEF IInv
<1> QED BY <1>1, <1>2 DEF StartedInOrder

\* The pending messages, when the steps that have any put aside stay.
LEMMA MessagesKept ==
  ASSUME IInv, UNCHANGED <<fifo, waiting, sent, started, dropped, gone>>,
         \A x \in ToSet(todo') : x.back # <<>> => x \in ToSet(todo),
         \A x \in ToSet(todo) : x.back # <<>> => x \in ToSet(todo'),
         \A x, y : Precedes(todo', x, y) /\ x.back # <<>> /\ y.back # <<>> => Precedes(todo, x, y)
  PROVE  Accounted' /\ Ordered' /\ \A e : InBack(e)' <=> InBack(e)
<1>0. \A x, e : e \in BackSet(x) => x.back # <<>>
  BY NothingAside
<1>1. \A x, e : e \in BackSet(x) /\ x \in ToSet(todo') <=> e \in BackSet(x) /\ x \in ToSet(todo)
  BY <1>0
<1>2. \A e : InBack(e)' <=> InBack(e)
  BY <1>1 DEF InBack, BackSet
<1>3. \A e : Pending(e)' <=> Pending(e)
  BY <1>2 DEF Pending
<1>4. Accounted'
  <2>0. Accounted
    BY DEF IInv
  <2>1. \A x \in ToSet(todo') : \A e \in BackSet(x)' : e.message \in waiting[e.to]
    BY <1>1, <2>0 DEF Accounted, BackSet
  <2> QED BY <1>3, <2>0, <2>1 DEF Accounted
<1>5. Ordered'
  <2>0. Ordered
    BY DEF IInv
  <2>p. \A x, e, f : Precedes(x.back, e, f) => x.back # <<>>
    BY EmptyOrder
  <2>1. \A x \in ToSet(todo') : \A e, f \in BackSet(x)' : Precedes(x.back, e, f) => Older(e, f)
    BY <1>1, <2>0 DEF Ordered, BackSet
  <2>2. \A x \in ToSet(todo') : \A e \in BackSet(x)', f \in ToSet(fifo) : Older(e, f)
    BY <1>1, <2>0 DEF Ordered, BackSet
  <2>3. ASSUME NEW x \in ToSet(todo'), NEW y \in ToSet(todo'), Precedes(todo', x, y),
               NEW e \in BackSet(y), NEW f \in BackSet(x)
        PROVE  Older(e, f)
    <3>1. x \in ToSet(todo) /\ y \in ToSet(todo) /\ Precedes(todo, x, y)
      BY <1>0, <1>1, <2>3
    <3> QED BY <2>0, <2>3, <3>1 DEF Ordered
  <2> QED BY <2>0, <2>1, <2>2, <2>3 DEF Ordered, BackSet, Older
<1> QED BY <1>2, <1>4, <1>5

\* What Stop reaches, when no turn gains an end and the ones that lose theirs
\* are recorded.
LEMMA ReachKept ==
  ASSUME IInv, UNCHANGED <<scope, turn, mode>>, gone \subseteq gone', wronged \subseteq wronged',
         \A s \in Known : HasEnd(s)' => HasEnd(s),
         \A s \in Known : HasEnd(s) => HasEnd(s)' \/ s \in wronged'
  PROVE  Reached'
<1>0. Reached /\ Types
  BY DEF IInv
<1>1. Known' = Known /\ 0 \notin Known
  BY <1>0, TurnNumbers DEF Known
<1>2. \A s \in Known' : HasEnd(s)' =>
        scope'[Panel(s)'] = s /\ (Live(Panel(s))' => mode'[Panel(s)'] = "busy")
  BY <1>0, <1>1 DEF Reached, Panel, Live
<1>3. \A p \in Panels \ gone' :
        IF mode'[p] = "busy" THEN HasEnd(scope[p])' \/ scope[p] \in wronged' ELSE scope[p] = 0
  <2>1. \A p \in Panels : scope[p] \in Known \/ scope[p] = 0
    BY <1>0 DEF Types
  <2>2. ~HasEnd(0)
    BY <1>1 DEF HasEnd
  <2> QED BY <1>0, <1>1, <2>1, <2>2 DEF Reached
<1>4. \A p \in Panels : scope'[p] # 0 => Panel(scope[p])' = p
  BY <1>0 DEF Reached, Panel
<1> QED BY <1>1, <1>2, <1>3, <1>4 DEF Reached

\* A step replaces the top of the stack by another of the same turn.
LEMMA SwapStep ==
  ASSUME IInv, todo # <<>>, NEW y \in StackSteps, NEW s \in Known,
         Head(todo).turn = s, y.turn = s, y.op \notin {"kick", "unskip"}, y.back = <<>>,
         y.op = "stt" => turn[s].spoken,
         todo' = <<y>> \o Tail(todo),
         UNCHANGED <<mode, gone, scope, turn, drains, depth, epilogues, queue, peer, wronged, tools>>
  PROVE  /\ Shapes' /\ OneEnd' /\ Reached' /\ OneTurnEach' /\ Accounted' /\ Ordered'
         /\ StartedInOrder' /\ Aside' /\ Remembered' /\ todo' \in Seq(StackSteps)
         /\ \A t : OnStack(t)' <=> OnStack(t)
         /\ \A d, t : InDrain(d, t)' <=> InDrain(d, t)
<1> USE DEF IInv
<1>u. UNCHANGED <<mode, gone, scope, turn, drains, depth, epilogues, queue, wronged, tools,
                  fifo, waiting, sent, started, dropped, raised, refused>>
  BY DEF peer
<1>0. s # 0 /\ Known' = Known
  BY <1>u, TurnNumbers DEF Known
<1> DEFINE h == Head(todo)  r == Tail(todo)
<1>1. /\ h \in StackSteps /\ r \in Seq(StackSteps) /\ ToSet(todo) = {h} \cup ToSet(r)
      /\ \A a, b : Precedes(todo, a, b) <=> Precedes(r, a, b) \/ (a = h /\ b \in ToSet(r))
      /\ \A a, b : Precedes(r, a, b) => a \in ToSet(r) /\ b \in ToSet(r)
  BY StackTop
<1>2. /\ todo' \in Seq(StackSteps) /\ ToSet(todo') = {y} \cup ToSet(r)
      /\ \A a, b : Precedes(todo', a, b) <=> Precedes(r, a, b) \/ (a = y /\ b \in ToSet(r))
  <2> DEFINE p == <<y>>
  <2>1. /\ p \in Seq(StackSteps) /\ ToSet(p) = {y} /\ \A a, b : ~Precedes(p, a, b)
    BY FewElements
  <2>2. todo' = p \o r
    OBVIOUS
  <2> HIDE DEF p, r, h
  <2>3. /\ p \o r \in Seq(StackSteps) /\ ToSet(p \o r) = ToSet(p) \cup ToSet(r)
        /\ \A a, b : Precedes(p \o r, a, b) <=>
             Precedes(p, a, b) \/ Precedes(r, a, b) \/ (a \in ToSet(p) /\ b \in ToSet(r))
    BY <1>1, <2>1, PushElements
  <2> QED BY <2>1, <2>2, <2>3
<1>h. h.turn = s /\ h.op \notin {"kick", "unskip"} /\ h.back = <<>>
  <2>1. h \in ToSet(todo) /\ h.turn = s
    BY <1>1
  <2> HIDE DEF h
  <2> QED BY <1>0, <2>1 DEF Shapes
<1> HIDE DEF h, r
<1>3. \A t : OnStack(t)' <=> OnStack(t)
  BY <1>1, <1>2, <1>h DEF OnStack
<1>4. \A t : Posted(t)' <=> Posted(t)
  BY <1>u DEF Posted
<1>5. \A d, t : InDrain(d, t)' <=> InDrain(d, t)
  BY <1>u DEF InDrain
<1>6. \A t \in Known : HasEnd(t)' <=> HasEnd(t)
  BY <1>0, <1>3, <1>4, <1>5, <1>u DEF HasEnd
<1>7. Shapes'
  <2>0. Shapes
    OBVIOUS
  <2>1. \A x \in ToSet(todo') :
          /\ x.turn \in Known' \cup {0} /\ (x.op \in {"kick", "unskip"} <=> x.turn = 0)
          /\ x.op # "unskip" => x.back = <<>>
          /\ x.op = "stt" => turn'[x.turn].spoken
    <3> SUFFICES ASSUME NEW x \in ToSet(todo')
                 PROVE  /\ x.turn \in Known \cup {0} /\ (x.op \in {"kick", "unskip"} <=> x.turn = 0)
                        /\ x.op # "unskip" => x.back = <<>>
                        /\ x.op = "stt" => turn[x.turn].spoken
      BY <1>0, <1>u
    <3>1. CASE x = y
      BY <3>1, <1>0
    <3>2. CASE x \in ToSet(r)
      BY <3>2, <2>0, <1>1 DEF Shapes
    <3> QED BY <3>1, <3>2, <1>2
  <2> QED BY <2>0, <2>1, <1>0, <1>u DEF Shapes
<1>8. OneEnd'
  <2>0. OneEnd
    OBVIOUS
  <2>1. \A a, b \in ToSet(todo') : Precedes(todo', a, b) /\ a.turn # 0 => a.turn # b.turn
    <3>1. \A b \in ToSet(r) : b.turn # s
      BY <2>0, <1>0, <1>1, <1>h DEF OneEnd
    <3>2. \A a, b : Precedes(r, a, b) /\ a.turn # 0 => a.turn # b.turn
      BY <2>0, <1>1 DEF OneEnd
    <3> QED BY <3>1, <3>2, <1>2
  <2> QED BY <2>0, <2>1, <1>0, <1>3, <1>4, <1>5, <1>u DEF OneEnd
<1>9. Reached'
  BY <1>6, <1>u, ReachKept
<1>10. OneTurnEach' /\ StartedInOrder'
  BY <1>u, TurnsKept, StartsKept
<1>11. Accounted' /\ Ordered'
  <2>1. /\ \A x \in ToSet(todo') : x.back # <<>> => x \in ToSet(todo)
        /\ \A x \in ToSet(todo) : x.back # <<>> => x \in ToSet(todo')
        /\ \A a, b : Precedes(todo', a, b) /\ a.back # <<>> /\ b.back # <<>> => Precedes(todo, a, b)
    BY <1>1, <1>2, <1>h
  <2> QED BY <2>1, <1>u, MessagesKept
<1>12. Aside'
  <2>0. Aside
    OBVIOUS
  <2>1. ASSUME NEW a \in ToSet(todo'), NEW b \in ToSet(todo'),
               Precedes(todo', a, b), b.op = "unskip", a.turn # 0
        PROVE  /\ ~turn[a.turn].spoken
               /\ \A e \in BackSet(b) : e.message \in raised \/ e.to # Panel(a.turn)
    <3>1. CASE a = y /\ b \in ToSet(r)
      <4>1. Precedes(todo, h, b) /\ h \in ToSet(todo) /\ b \in ToSet(todo)
        BY <3>1, <1>1
      <4> QED BY <4>1, <3>1, <2>0, <2>1, <1>h DEF Aside
    <3>2. CASE Precedes(r, a, b)
      BY <3>2, <2>0, <2>1, <1>1 DEF Aside
    <3> QED BY <3>1, <3>2, <2>1, <1>2
  <2>2. ASSUME NEW x \in ToSet(todo'), NEW e \in BackSet(x)
        PROVE  \/ e.message \in raised
               \/ ~Free(e.to) /\ (mode[e.to] = "recording" => e.to \in refused)
    <3>1. x # y
      BY NothingAside
    <3> QED BY <3>1, <2>0, <1>1, <1>2 DEF Aside
  <2> QED BY <2>1, <2>2, <1>u DEF Aside, BackSet, Panel, Free
<1>13. Remembered'
  <2>1. y \in ToSet(todo') /\ y.op # "unskip"
    BY <1>2
  <2> QED BY <2>1 DEF Remembered
<1> QED BY <1>2, <1>3, <1>5, <1>7, <1>8, <1>9, <1>10, <1>11, <1>12, <1>13

-----------------------------------------------------------------------------
(* The steps of a turn that leave it on the stack.                         *)

\* A step has its fields.
LEMMA StepFields ==
  ASSUME NEW s \in Nat, NEW e \in BOOLEAN
  PROVE  \A o \in Steps0 : /\ Step(o, s, e) \in StackSteps /\ Step(o, s, e).op = o
                            /\ Step(o, s, e).turn = s /\ Step(o, s, e).back = <<>>
<1>1. <<>> \in Seq(Entries)
  BY EmptySeq
<1> QED BY <1>1 DEF Step, StackSteps

\* The names of the steps.
LEMMA StepNames == {"run", "body", "stt", "heard", "close", "kick", "unskip"} \subseteq Steps0
BY DEF Steps0

\* Which step is next.
LEMMA AtTop ==
  ASSUME NEW ops, At(ops), "none" \notin ops
  PROVE  todo # <<>> /\ Head(todo).op \in ops
BY DEF At, Top

\* A turn on top of the stack has its panel's scope.
LEMMA TopIsReached ==
  ASSUME IInv, todo # <<>>, NEW s \in Known, Head(todo).turn = s
  PROVE  /\ OnStack(s) /\ HasEnd(s) /\ Panel(s) \in Panels /\ scope[Panel(s)] = s
         /\ s \in Turns /\ s \in Nat /\ s # 0 /\ s \notin drains /\ ~Posted(s)
         /\ \A d \in drains : ~InDrain(d, s)
<1> USE DEF IInv
<1>1. Head(todo) \in ToSet(todo)
  BY StackTop
<1>2. OnStack(s) /\ HasEnd(s)
  BY <1>1 DEF OnStack, HasEnd
<1>3. turn[s] \in TurnRecords /\ s \in Nat /\ s # 0
  BY TurnNumbers
<1>4. Panel(s) \in Panels
  BY <1>3 DEF TurnRecords, Panel
<1>5. ~Posted(s) /\ \A d \in drains : ~InDrain(d, s)
  BY <1>2 DEF OneEnd
<1>6. s \notin drains
  BY <1>5 DEF Sessions
<1> QED BY <1>2, <1>3, <1>4, <1>5, <1>6, TurnCount DEF Reached

\* Listen keeps the invariant: a spoken turn starts to listen.
LEMMA ListenStep ==
  ASSUME IInv, NEW s \in DOMAIN turn, Listen(s)
  PROVE  IInv'
<1> USE DEF IInv
<1>1. todo # <<>> /\ Head(todo).turn = s /\ s \in Known
  BY AtTop, "none" \notin {"body"} DEF Listen, Known
<1>2. s \in Nat
  BY <1>1, TopIsReached
<1> PICK y : y = Step("stt", s, FALSE)
  OBVIOUS
<1>3. y \in StackSteps /\ y.op = "stt" /\ y.turn = s /\ y.back = <<>>
  <2>1. "stt" \in Steps0 /\ FALSE \in BOOLEAN
    BY StepNames
  <2> QED BY <1>2, <2>1, StepFields
<1>4. /\ UNCHANGED <<button, session, drain, queue, peer, wronged, tools>>
      /\ turn[s].spoken /\ todo' = <<y>> \o Tail(todo)
  BY DEF Listen, Then
<1>5. UNCHANGED <<mode, gone, scope, turn, open, before, current, cancelled, drains, depth, captured,
                  epilogues, queue, fifo, waiting, sent, started, dropped, raised, refused,
                  wronged, tools>>
  BY <1>4 DEF button, session, drain, peer
<1>6. y.op \notin {"kick", "unskip"}
  BY <1>3
<1>7. /\ Shapes' /\ OneEnd' /\ Reached' /\ OneTurnEach' /\ Accounted' /\ Ordered'
      /\ StartedInOrder' /\ Aside' /\ Remembered' /\ todo' \in Seq(StackSteps)
      /\ \A t : OnStack(t)' <=> OnStack(t)
      /\ \A d, t : InDrain(d, t)' <=> InDrain(d, t)
  BY <1>1, <1>3, <1>4, <1>5, <1>6, SwapStep
<1>8. Types'
  BY <1>5, <1>7 DEF Types, Known
<1>9. Sessions'
  BY <1>5, <1>7 DEF Sessions, CurrentIsOpen
<1> QED BY <1>7, <1>8, <1>9

\* SttDone keeps it: the take was heard.
LEMMA SttDoneStep ==
  ASSUME IInv, NEW s \in DOMAIN turn, SttDone(s)
  PROVE  IInv'
<1> USE DEF IInv
<1>1. todo # <<>> /\ Head(todo).turn = s /\ s \in Known
  BY AtTop, "none" \notin {"stt"} DEF SttDone, Known
<1>2. s \in Nat
  BY <1>1, TopIsReached
<1> PICK y : y = Step("heard", s, FALSE)
  OBVIOUS
<1>3. y \in StackSteps /\ y.op = "heard" /\ y.turn = s /\ y.back = <<>>
  <2>1. "heard" \in Steps0 /\ FALSE \in BOOLEAN
    BY StepNames
  <2> QED BY <1>2, <2>1, StepFields
<1>4. /\ UNCHANGED <<button, session, drain, queue, peer, wronged, tools>>
      /\ todo' = <<y>> \o Tail(todo)
  BY DEF SttDone, Then
<1>5. UNCHANGED <<mode, gone, scope, turn, open, before, current, cancelled, drains, depth, captured,
                  epilogues, queue, fifo, waiting, sent, started, dropped, raised, refused,
                  wronged, tools>>
  BY <1>4 DEF button, session, drain, peer
<1>6. y.op \notin {"kick", "unskip", "stt"}
  BY <1>3
<1>7. /\ Shapes' /\ OneEnd' /\ Reached' /\ OneTurnEach' /\ Accounted' /\ Ordered'
      /\ StartedInOrder' /\ Aside' /\ Remembered' /\ todo' \in Seq(StackSteps)
      /\ \A t : OnStack(t)' <=> OnStack(t)
      /\ \A d, t : InDrain(d, t)' <=> InDrain(d, t)
  BY <1>1, <1>3, <1>4, <1>5, <1>6, SwapStep
<1>8. Types'
  BY <1>5, <1>7 DEF Types, Known
<1>9. Sessions'
  BY <1>5, <1>7 DEF Sessions, CurrentIsOpen
<1> QED BY <1>7, <1>8, <1>9

\* The session is entered; Stop may have come before it.
LEMMA RunStep ==
  ASSUME IInv, NEW s \in DOMAIN turn, Run(s)
  PROVE  IInv'
<1> USE DEF IInv
<1>1. todo # <<>> /\ Head(todo).turn = s /\ s \in Known
  BY AtTop, "none" \notin {"run"} DEF Run, Known
<1>2. OnStack(s) /\ s \in Nat /\ Panel(s) \in Panels /\ scope[Panel(s)] = s /\ s \in Turns
  BY <1>1, TopIsReached
<1> PICK y : y = IF s \in cancelled THEN Step("close", s, FALSE) ELSE Step("body", s, FALSE)
  OBVIOUS
<1>3. y \in StackSteps /\ y.op \in {"close", "body"} /\ y.turn = s /\ y.back = <<>>
  <2>1. "close" \in Steps0 /\ "body" \in Steps0 /\ FALSE \in BOOLEAN
    BY StepNames
  <2>2. \A o \in Steps0 : /\ Step(o, s, FALSE) \in StackSteps /\ Step(o, s, FALSE).op = o
                           /\ Step(o, s, FALSE).turn = s /\ Step(o, s, FALSE).back = <<>>
    BY <1>2, <2>1, StepFields
  <2> QED BY <2>1, <2>2
<1>4. /\ UNCHANGED <<mode, gone, turn, cancelled, drains, depth, queue, peer, wronged, tools>>
      /\ open' = open \cup {s} /\ before' = [before EXCEPT ![s] = current] /\ current' = s
      /\ captured' = 0 /\ scope' = [scope EXCEPT ![Panel(s)] = s]
      /\ todo' = <<y>> \o Tail(todo) /\ UNCHANGED epilogues
  BY DEF Run, Then, DeferUntilDrainDone
<1>s. scope' = scope
  BY <1>2, <1>4 DEF Types
<1>5. UNCHANGED <<fifo, waiting, sent, started, dropped, raised, refused>>
  BY <1>4 DEF peer
<1>6. y.op \notin {"kick", "unskip", "stt"}
  BY <1>3
<1>7. /\ Shapes' /\ OneEnd' /\ Reached' /\ OneTurnEach' /\ Accounted' /\ Ordered'
      /\ StartedInOrder' /\ Aside' /\ Remembered' /\ todo' \in Seq(StackSteps)
      /\ \A t : OnStack(t)' <=> OnStack(t)
      /\ \A d, t : InDrain(d, t)' <=> InDrain(d, t)
  BY <1>1, <1>3, <1>4, <1>s, <1>6, SwapStep
<1>8. Types'
  <2>1. before' \in [Turns -> Known \cup {0}]
    BY <1>4 DEF Types
  <2> QED BY <1>1, <1>4, <1>s, <1>5, <1>7, <2>1 DEF Types, Known
<1>9. Sessions'
  BY <1>2, <1>4, <1>7 DEF Sessions, CurrentIsOpen
<1> QED BY <1>7, <1>8, <1>9

-----------------------------------------------------------------------------
(* The end of a turn joins an open drain.                                  *)

\* Nothing in front of a sequence.
LEMMA NothingInFront ==
  ASSUME NEW X, NEW q \in Seq(X)
  PROVE  <<>> \o q = q
BY ConcatEmptySeq

\* The end of the turn on top of the stack moves to the epilogues of a drain.
LEMMA MoveStep ==
  ASSUME IInv, todo # <<>>, NEW y \in StackSteps, NEW s \in Known, NEW d \in Known,
         Head(todo).turn = s, y.turn = s, y.op = "close", y.back = <<>>,
         d \in drains \/ d = s, drains' = drains \cup {d},
         epilogues' = [epilogues EXCEPT ![d] = Append(@, y)], todo' = Tail(todo),
         UNCHANGED <<mode, gone, scope, turn, queue, peer, wronged, tools>>
  PROVE  /\ Shapes' /\ OneEnd' /\ Reached' /\ OneTurnEach' /\ Accounted' /\ Ordered'
         /\ StartedInOrder' /\ Aside' /\ Remembered' /\ todo' \in Seq(StackSteps)
         /\ epilogues' \in [Turns -> Seq(StackSteps)]
         /\ \A t \in Known : OnStack(t)' <=> OnStack(t) /\ t # s
         /\ \A c, t : InDrain(c, t)' <=> InDrain(c, t) \/ (c = d /\ t = s)
<1> USE DEF IInv
<1>u. UNCHANGED <<mode, gone, scope, turn, queue, wronged, tools,
                  fifo, waiting, sent, started, dropped, raised, refused>>
  BY DEF peer
<1>0. s # 0 /\ 0 \notin Known /\ Known' = Known /\ s \notin drains /\ OnStack(s) /\ HasEnd(s)
  BY <1>u, TurnNumbers, TopIsReached DEF Known
<1>d. d \in Turns /\ Known \subseteq Turns /\ epilogues \in [Turns -> Seq(StackSteps)]
  BY TurnCount DEF Types
<1> DEFINE h == Head(todo)  r == Tail(todo)  E == epilogues[d]
<1>1. /\ h \in StackSteps /\ r \in Seq(StackSteps) /\ ToSet(todo) = {h} \cup ToSet(r)
      /\ \A a, b : Precedes(todo, a, b) <=> Precedes(r, a, b) \/ (a = h /\ b \in ToSet(r))
      /\ \A a, b : Precedes(r, a, b) => a \in ToSet(r) /\ b \in ToSet(r)
  BY StackTop
<1>h. h.turn = s /\ h.op \notin {"kick", "unskip"} /\ h.back = <<>>
  <2>1. h \in ToSet(todo) /\ h.turn = s
    BY <1>1
  <2> HIDE DEF h
  <2> QED BY <1>0, <2>1 DEF Shapes
<1>r. todo' = r
  OBVIOUS
<1>2. \A b \in ToSet(r) : b.turn # s
  <2> HIDE DEF h, r
  <2> QED BY <1>0, <1>1, <1>h DEF OneEnd
<1>3. E \in Seq(StackSteps) /\ epilogues' \in [Turns -> Seq(StackSteps)]
      /\ epilogues'[d] = Append(E, y)
      /\ \A c \in Turns : c # d => epilogues'[c] = epilogues[c]
  <2>1. E \in Seq(StackSteps)
    BY <1>d
  <2>2. Append(E, y) \in Seq(StackSteps)
    <3> HIDE DEF E
    <3> QED BY <2>1, AppendProperties
  <2> QED BY <2>1, <2>2, <1>d
<1>4. /\ ToSet(epilogues'[d]) = ToSet(E) \cup {y}
      /\ \A a, b : Precedes(epilogues'[d], a, b) <=> Precedes(E, a, b) \/ (a \in ToSet(E) /\ b = y)
      /\ \A a, b : Precedes(E, a, b) => a \in ToSet(E) /\ b \in ToSet(E)
  <2> HIDE DEF E
  <2>1. /\ ToSet(Append(E, y)) = ToSet(E) \cup {y}
        /\ \A a, b : Precedes(Append(E, y), a, b) <=>
             Precedes(E, a, b) \/ (a \in ToSet(E) /\ b = y)
    BY <1>3, PutElements
  <2>2. \A a, b : Precedes(E, a, b) => a \in ToSet(E) /\ b \in ToSet(E)
    BY <1>3, ElementsOf
  <2>3. /\ ToSet(epilogues'[d]) = ToSet(Append(E, y))
        /\ \A a, b : Precedes(epilogues'[d], a, b) <=> Precedes(Append(E, y), a, b)
    BY <1>3, Zenon
  <2> QED BY <2>1, <2>2, <2>3
<1>5. \A t : (\E x \in ToSet(E) : x.turn = t) <=> InDrain(d, t)
  <2>1. CASE d \in drains
    BY <2>1 DEF InDrain
  <2>2. CASE d \notin drains
    <3>1. E = <<>>
      BY <2>2, <1>d DEF Shapes
    <3>2. ToSet(E) = {}
      <4> HIDE DEF E
      <4> QED BY <3>1, <1>3, ElementsOf
    <3> QED BY <2>2, <3>2 DEF InDrain
  <2> QED BY <2>1, <2>2
<1> HIDE DEF h, r, E
<1>6. \A c, t : InDrain(c, t)' <=> InDrain(c, t) \/ (c = d /\ t = s)
  <2> SUFFICES ASSUME NEW c, NEW t PROVE InDrain(c, t)' <=> InDrain(c, t) \/ (c = d /\ t = s)
    OBVIOUS
  <2>1. CASE c = d
    <3>1. InDrain(d, t)' <=> \E x \in ToSet(E) \cup {y} : x.turn = t
      BY <1>4 DEF InDrain
    <3>2. InDrain(d, t)' <=> InDrain(d, t) \/ y.turn = t
      BY <3>1, <1>5
    <3> QED BY <2>1, <3>2
  <2>2. CASE c # d /\ c \in drains
    <3>1. epilogues'[c] = epilogues[c]
      BY <2>2, <1>3, <1>d DEF Types
    <3> QED BY <2>2, <3>1 DEF InDrain
  <2>3. CASE c # d /\ c \notin drains
    BY <2>3 DEF InDrain
  <2> QED BY <2>1, <2>2, <2>3
<1>i. \A c, t : InDrain(c, t) => c \in drains
  BY DEF InDrain
<1>7. \A t \in Known : OnStack(t)' <=> OnStack(t) /\ t # s
  BY <1>1, <1>2, <1>h, <1>r DEF OnStack
<1>8. \A t : Posted(t)' <=> Posted(t)
  BY <1>u DEF Posted
<1>9. \A t \in Known : HasEnd(t)' <=> HasEnd(t)
  <2> SUFFICES ASSUME NEW t \in Known PROVE HasEnd(t)' <=> HasEnd(t)
    OBVIOUS
  <2>1. CASE t = s
    BY <2>1, <1>0, <1>6 DEF HasEnd
  <2>2. CASE t # s
    <3>1. (\E c \in drains' : InDrain(c, t)') <=> (\E c \in drains : InDrain(c, t))
      BY <2>2, <1>6, <1>i
    <3> QED BY <3>1, <2>2, <1>0, <1>7, <1>8 DEF HasEnd
  <2> QED BY <2>1, <2>2
<1>10. Shapes'
  <2>0. Shapes
    OBVIOUS
  <2>1. \A x \in ToSet(todo') :
          /\ x.turn \in Known' \cup {0} /\ (x.op \in {"kick", "unskip"} <=> x.turn = 0)
          /\ x.op # "unskip" => x.back = <<>>
          /\ x.op = "stt" => turn'[x.turn].spoken
    BY <2>0, <1>0, <1>1, <1>r, <1>u DEF Shapes
  <2>2. \A c \in Turns : \A x \in ToSet(epilogues'[c]) :
          x.op = "close" /\ x.turn \in Known' /\ x.back = <<>>
    <3> SUFFICES ASSUME NEW c \in Turns, NEW x \in ToSet(epilogues'[c])
                 PROVE  x.op = "close" /\ x.turn \in Known /\ x.back = <<>>
      BY <1>0
    <3>1. CASE x \in ToSet(epilogues[c])
      BY <3>1, <2>0 DEF Shapes
    <3>2. CASE x = y
      BY <3>2
    <3> QED BY <3>1, <3>2, <1>3, <1>4 DEF E
  <2>3. \A c \in Turns : c \notin drains' => epilogues'[c] = <<>>
    BY <2>0, <1>3 DEF Shapes
  <2>4. \A x \in ToSet(queue') :
          /\ x.turn \in Known' \cup {0} /\ x.bound \in Known' \cup {0}
          /\ x.do = "send" => x.turn # 0 /\ x.bound # x.turn
    BY <2>0, <1>0, <1>u DEF Shapes
  <2> QED BY <2>1, <2>2, <2>3, <2>4 DEF Shapes
<1>11. OneEnd'
  <2>0. OneEnd
    OBVIOUS
  <2>1. \A a, b \in ToSet(todo') : Precedes(todo', a, b) /\ a.turn # 0 => a.turn # b.turn
    <3>1. \A a, b \in ToSet(todo) : Precedes(todo, a, b) /\ a.turn # 0 => a.turn # b.turn
      BY <2>0 DEF OneEnd
    <3>2. \A a, b : Precedes(r, a, b) /\ a.turn # 0 => a.turn # b.turn
      BY <3>1, <1>1
    <3> QED BY <3>2, <1>r, Zenon
  <2>2. \A t \in Known : ~(Posted(t)' /\ OnStack(t)')
    BY <2>0, <1>7, <1>8 DEF OneEnd
  <2>3. \A t \in Known : \A c \in drains' : InDrain(c, t)' => ~Posted(t)' /\ ~OnStack(t)'
    <3> SUFFICES ASSUME NEW t \in Known, NEW c \in drains', InDrain(c, t)'
                 PROVE  ~Posted(t)' /\ ~OnStack(t)'
      OBVIOUS
    <3>1. CASE t = s
      BY <3>1, <2>0, <1>0, <1>7, <1>8 DEF OneEnd
    <3>2. CASE t # s
      <4>1. InDrain(c, t) /\ c \in drains
        BY <3>2, <1>6, <1>i
      <4> QED BY <4>1, <2>0, <1>7, <1>8 DEF OneEnd
    <3> QED BY <3>1, <3>2
  <2>4. \A t \in Known : \A b, c \in drains' : InDrain(b, t)' /\ InDrain(c, t)' => b = c
    <3> SUFFICES ASSUME NEW t \in Known, NEW b \in drains', NEW c \in drains',
                        InDrain(b, t)', InDrain(c, t)'
                 PROVE  b = c
      OBVIOUS
    <3>1. CASE t = s
      <4>1. \A e : ~InDrain(e, s)
        BY <1>0, <2>0 DEF OneEnd, InDrain
      <4> QED BY <3>1, <4>1, <1>6
    <3>2. CASE t # s
      <4>1. InDrain(b, t) /\ InDrain(c, t) /\ b \in drains /\ c \in drains
        BY <3>2, <1>6, <1>i
      <4> QED BY <4>1, <2>0 DEF OneEnd
    <3> QED BY <3>1, <3>2
  <2>5. \A a, b \in ToSet(queue') :
          Precedes(queue', a, b) /\ a.do = "send" /\ b.do = "send" => a.turn # b.turn
    BY <2>0, <1>u DEF OneEnd
  <2>6. \A c \in drains' : \A a, b \in ToSet(epilogues'[c]) :
          Precedes(epilogues'[c], a, b) => a.turn # b.turn
    <3> SUFFICES ASSUME NEW c \in drains', NEW a, NEW b, Precedes(epilogues'[c], a, b)
                 PROVE  a.turn # b.turn
      OBVIOUS
    <3>1. CASE c # d
      <4>1. c \in drains /\ epilogues'[c] = epilogues[c] /\ epilogues[c] \in Seq(StackSteps)
        BY <3>1, <1>3, <1>d DEF Types
      <4>2. a \in ToSet(epilogues[c]) /\ b \in ToSet(epilogues[c])
        BY <4>1, ElementsOf
      <4> QED BY <4>1, <4>2, <2>0 DEF OneEnd
    <3>2. CASE c = d /\ Precedes(E, a, b)
      <4>1. a \in ToSet(E) /\ b \in ToSet(E)
        BY <3>2, <1>4
      <4>2. d \in drains
        BY <4>1, <1>5 DEF InDrain
      <4> QED BY <4>1, <4>2, <3>2, <2>0 DEF OneEnd, E
    <3>3. CASE c = d /\ a \in ToSet(E) /\ b = y
      <4>1. InDrain(d, a.turn) /\ d \in drains
        BY <3>3, <1>5 DEF InDrain
      <4> QED BY <4>1, <3>3, <2>0, <1>0 DEF OneEnd
    <3> QED BY <3>1, <3>2, <3>3, <1>4
  <2> QED BY <2>1, <2>2, <2>3, <2>4, <2>5, <2>6, <1>0 DEF OneEnd
<1>12. Reached'
  BY <1>9, <1>u, ReachKept
<1>13. OneTurnEach' /\ StartedInOrder'
  BY <1>u, TurnsKept, StartsKept
<1>14. Accounted' /\ Ordered'
  <2>1. /\ \A x \in ToSet(todo') : x.back # <<>> => x \in ToSet(todo)
        /\ \A x \in ToSet(todo) : x.back # <<>> => x \in ToSet(todo')
        /\ \A a, b : Precedes(todo', a, b) /\ a.back # <<>> /\ b.back # <<>> => Precedes(todo, a, b)
    BY <1>1, <1>r, <1>h
  <2> QED BY <2>1, <1>u, MessagesKept
<1>15. Aside'
  <2>0. Aside
    OBVIOUS
  <2>1. \A x \in ToSet(todo') : x \in ToSet(todo)
    BY <1>1, <1>r
  <2>2. \A a, b : Precedes(todo', a, b) => Precedes(todo, a, b)
    BY <1>1, <1>r
  <2> QED BY <2>0, <2>1, <2>2, <1>u DEF Aside, BackSet, Panel, Free
<1>16. Remembered'
  BY DEF Remembered
<1> QED BY <1>1, <1>r, <1>3, <1>6, <1>7, <1>10, <1>11, <1>12, <1>13, <1>14, <1>15, <1>16

\* The body returns or raises without a drain of its own.
LEMMA NoDrainStep ==
  ASSUME IInv, NEW s \in DOMAIN turn, NoDrain(s)
  PROVE  IInv'
<1> USE DEF IInv
<1>1. todo # <<>> /\ Head(todo).turn = s /\ s \in Known
  BY AtTop, "none" \notin {"body", "heard"} DEF NoDrain, Known
<1>2. s \in Nat
  BY <1>1, TopIsReached
<1> PICK err \in BOOLEAN : DeferUntilDrainDone(s, err, captured')
  BY DEF NoDrain
<1> PICK y : y = Step("close", s, err)
  OBVIOUS
<1>3. y \in StackSteps /\ y.op = "close" /\ y.turn = s /\ y.back = <<>>
  <2>1. "close" \in Steps0
    BY StepNames
  <2> QED BY <1>2, <2>1, StepFields
<1>4. /\ UNCHANGED <<button, session, drains, depth, queue, peer, wronged, tools>>
      /\ captured' \in {captured, 0}
      /\ IF captured' = 0
           THEN todo' = <<y>> \o Tail(todo) /\ UNCHANGED epilogues
           ELSE todo' = <<>> \o Tail(todo) /\ epilogues' = [epilogues EXCEPT ![captured'] = Append(@, y)]
  BY DEF NoDrain, Then, DeferUntilDrainDone
<1>5. UNCHANGED <<mode, gone, scope, turn, open, before, current, cancelled, drains, depth,
                  queue, fifo, waiting, sent, started, dropped, raised, refused,
                  wronged, tools>>
  BY <1>4 DEF button, session, peer
<1>k. Known' = Known
  BY <1>5 DEF Known
<1>6. CASE captured' = 0
  <2>1. y.op \notin {"kick", "unskip", "stt"}
    BY <1>3
  <2>2. /\ Shapes' /\ OneEnd' /\ Reached' /\ OneTurnEach' /\ Accounted' /\ Ordered'
        /\ StartedInOrder' /\ Aside' /\ Remembered' /\ todo' \in Seq(StackSteps)
        /\ \A t : OnStack(t)' <=> OnStack(t)
        /\ \A d, t : InDrain(d, t)' <=> InDrain(d, t)
    BY <1>1, <1>3, <1>4, <1>5, <1>6, <2>1, SwapStep
  <2>3. Types'
    BY <1>4, <1>5, <1>6, <1>k, <2>2 DEF Types
  <2>4. Sessions'
    BY <1>5, <1>6, <2>2 DEF Sessions, CurrentIsOpen
  <2> QED BY <2>2, <2>3, <2>4
<1>7. CASE captured' # 0
  <2>1. captured' = captured /\ captured \in drains /\ captured \in Known
    BY <1>4, <1>7 DEF Sessions, Types
  <2>2. todo' = Tail(todo)
    BY <1>1, <1>4, <1>7, StackTop, NothingInFront
  <2>3. drains' = drains \cup {captured}
    BY <2>1, <1>5
  <2> PICK d : d = captured
    OBVIOUS
  <2>4. /\ Shapes' /\ OneEnd' /\ Reached' /\ OneTurnEach' /\ Accounted' /\ Ordered'
        /\ StartedInOrder' /\ Aside' /\ Remembered' /\ todo' \in Seq(StackSteps)
        /\ epilogues' \in [Turns -> Seq(StackSteps)]
        /\ \A t \in Known : OnStack(t)' <=> OnStack(t) /\ t # s
        /\ \A c, t : InDrain(c, t)' <=> InDrain(c, t) \/ (c = d /\ t = s)
    BY <1>1, <1>3, <1>4, <1>5, <1>7, <2>1, <2>2, <2>3, MoveStep
  <2>5. Types'
    BY <1>4, <1>5, <1>7, <1>k, <2>4 DEF Types
  <2>6. Sessions'
    BY <1>5, <2>1, <2>4 DEF Sessions, CurrentIsOpen, Types
  <2> QED BY <2>4, <2>5, <2>6
<1> QED BY <1>6, <1>7

\* The body opens the drain of its turn.
LEMMA OpenDrainStep ==
  ASSUME IInv, NEW s \in DOMAIN turn, OpenDrain(s)
  PROVE  IInv'
<1> USE DEF IInv
<1>1. todo # <<>> /\ Head(todo).turn = s /\ s \in Known
  BY AtTop, "none" \notin {"body", "heard"} DEF OpenDrain, Known
<1>2. s \in Nat /\ s # 0 /\ s \notin drains
  BY <1>1, TopIsReached
<1> PICK err \in BOOLEAN : DeferUntilDrainDone(s, err, s)
  BY DEF OpenDrain
<1> PICK y : y = Step("close", s, err)
  OBVIOUS
<1>3. y \in StackSteps /\ y.op = "close" /\ y.turn = s /\ y.back = <<>>
  <2>1. "close" \in Steps0
    BY StepNames
  <2> QED BY <1>2, <2>1, StepFields
<1>4. /\ UNCHANGED <<button, session, queue, peer, wronged, tools>>
      /\ todo' = <<>> \o Tail(todo) /\ epilogues' = [epilogues EXCEPT ![s] = Append(@, y)]
      /\ drains' = drains \cup {s} /\ depth' = depth + 1 /\ captured' = s
  BY <1>2 DEF OpenDrain, Then, DeferUntilDrainDone
<1>5. UNCHANGED <<mode, gone, scope, turn, open, before, current, cancelled,
                  queue, fifo, waiting, sent, started, dropped, raised, refused,
                  wronged, tools>>
  BY <1>4 DEF button, session, peer
<1>k. Known' = Known
  BY <1>5 DEF Known
<1>6. todo' = Tail(todo)
  BY <1>1, <1>4, StackTop, NothingInFront
<1>7. /\ Shapes' /\ OneEnd' /\ Reached' /\ OneTurnEach' /\ Accounted' /\ Ordered'
      /\ StartedInOrder' /\ Aside' /\ Remembered' /\ todo' \in Seq(StackSteps)
      /\ epilogues' \in [Turns -> Seq(StackSteps)]
      /\ \A t \in Known : OnStack(t)' <=> OnStack(t) /\ t # s
      /\ \A c, t : InDrain(c, t)' <=> InDrain(c, t) \/ (c = s /\ t = s)
  BY <1>1, <1>3, <1>4, <1>5, <1>6, MoveStep
<1>8. Types'
  BY <1>1, <1>4, <1>5, <1>7, <1>k DEF Types
<1>9. Sessions'
  <2>1. depth' = Cardinality(drains')
    <3>1. IsFiniteSet(drains)
      BY TurnNumbers, FS_Subset DEF Types
    <3> QED BY <3>1, <1>2, <1>4, FS_AddElement DEF Sessions
  <2> QED BY <1>4, <1>5, <1>7, <2>1 DEF Sessions, CurrentIsOpen, Types
<1> QED BY <1>7, <1>8, <1>9

-----------------------------------------------------------------------------
(* Clicks, and the items of the work queue.                                *)

\* The queue loses items or gains some that start no turn; a kick may be put
\* on the stack.
LEMMA QueueStep ==
  ASSUME IInv, NEW k \in StackSteps, k.op = "kick", k.turn = 0, k.back = <<>>,
         todo' \in Seq(StackSteps), ToSet(todo) \subseteq ToSet(todo'),
         ToSet(todo') \subseteq ToSet(todo) \cup {k},
         \A x, y : Precedes(todo', x, y) => Precedes(todo, x, y) \/ x = k,
         \A x \in ToSet(queue') : \/ x \in ToSet(queue)
                                  \/ /\ x.do # "send" /\ x.turn \in Known \cup {0}
                                     /\ x.bound \in Known \cup {0},
         \A x, y : Precedes(queue', x, y) /\ x.do = "send" /\ y.do = "send" => Precedes(queue, x, y),
         \A x \in ToSet(queue) : x.do = "send" => x \in ToSet(queue') \/ x.turn \in wronged',
         UNCHANGED <<mode, scope, turn, open, current, drains, depth, captured, epilogues,
                     raised, refused>>,
         gone \subseteq gone', wronged \subseteq wronged'
  PROVE  /\ Shapes' /\ OneEnd' /\ Sessions' /\ Reached' /\ Aside'
         /\ \A s \in Known : HasEnd(s) => HasEnd(s)' \/ s \in wronged'
<1> USE DEF IInv
<1>0. Known' = Known /\ 0 \notin Known
  BY TurnNumbers DEF Known
<1>1. \A s \in Known : OnStack(s)' <=> OnStack(s)
  BY <1>0 DEF OnStack
<1>2. \A s : Posted(s)' => Posted(s)
  BY DEF Posted
<1>3. \A d, s : InDrain(d, s)' <=> InDrain(d, s)
  BY DEF InDrain
<1>4. \A s \in Known : Posted(s) => Posted(s)' \/ s \in wronged'
  BY DEF Posted
<1>5. \A s \in Known : HasEnd(s)' => HasEnd(s)
  BY <1>0, <1>1, <1>2, <1>3 DEF HasEnd
<1>6. \A s \in Known : HasEnd(s) => HasEnd(s)' \/ s \in wronged'
  BY <1>0, <1>1, <1>3, <1>4 DEF HasEnd
<1>7. Shapes'
  <2>0. Shapes
    OBVIOUS
  <2>1. \A x \in ToSet(todo') :
          /\ x.turn \in Known' \cup {0} /\ (x.op \in {"kick", "unskip"} <=> x.turn = 0)
          /\ x.op # "unskip" => x.back = <<>>
          /\ x.op = "stt" => turn'[x.turn].spoken
    <3> SUFFICES ASSUME NEW x \in ToSet(todo')
                 PROVE  /\ x.turn \in Known \cup {0} /\ (x.op \in {"kick", "unskip"} <=> x.turn = 0)
                        /\ x.op # "unskip" => x.back = <<>>
                        /\ x.op = "stt" => turn[x.turn].spoken
      BY <1>0
    <3>1. CASE x = k
      BY <3>1
    <3>2. CASE x \in ToSet(todo)
      BY <3>2, <2>0 DEF Shapes
    <3> QED BY <3>1, <3>2
  <2>2. \A x \in ToSet(queue') :
          /\ x.turn \in Known' \cup {0} /\ x.bound \in Known' \cup {0}
          /\ x.do = "send" => x.turn # 0 /\ x.bound # x.turn
    BY <2>0, <1>0 DEF Shapes
  <2> QED BY <2>0, <2>1, <2>2, <1>0 DEF Shapes
<1>8. OneEnd'
  <2>0. OneEnd
    OBVIOUS
  <2>1. \A x, y \in ToSet(todo') : Precedes(todo', x, y) /\ x.turn # 0 => x.turn # y.turn
    <3>1. \A x, y : Precedes(todo, x, y) /\ x.turn # 0 => x.turn # y.turn
      BY <2>0, ElementTypes DEF OneEnd
    <3> QED BY <3>1
  <2>2. \A x, y \in ToSet(queue') :
          Precedes(queue', x, y) /\ x.do = "send" /\ y.do = "send" => x.turn # y.turn
    <3>1. \A x, y : Precedes(queue, x, y) /\ x.do = "send" /\ y.do = "send" => x.turn # y.turn
      BY <2>0, ElementTypes DEF OneEnd
    <3> QED BY <3>1
  <2>3. \A d \in drains' : \A x, y \in ToSet(epilogues'[d]) :
          Precedes(epilogues'[d], x, y) => x.turn # y.turn
    BY <2>0 DEF OneEnd
  <2>4. /\ \A s \in Known' : ~(Posted(s)' /\ OnStack(s)')
        /\ \A s \in Known' : \A d \in drains' : InDrain(d, s)' => ~Posted(s)' /\ ~OnStack(s)'
        /\ \A s \in Known' : \A d, e \in drains' : InDrain(d, s)' /\ InDrain(e, s)' => d = e
    BY <2>0, <1>0, <1>1, <1>2, <1>3 DEF OneEnd
  <2> QED BY <2>1, <2>2, <2>3, <2>4 DEF OneEnd
<1>9. Sessions'
  BY <1>1, <1>3 DEF Sessions, CurrentIsOpen, Types
<1>10. Reached'
  BY <1>5, <1>6, ReachKept
<1>11. Aside'
  <2>0. Aside
    OBVIOUS
  <2>1. ASSUME NEW x \in ToSet(todo'), NEW y \in ToSet(todo'),
               Precedes(todo', x, y), y.op = "unskip", x.turn # 0
        PROVE  /\ ~turn[x.turn].spoken
               /\ \A e \in BackSet(y) : e.message \in raised \/ e.to # Panel(x.turn)
    <3>1. Precedes(todo, x, y) /\ x \in ToSet(todo) /\ y \in ToSet(todo)
      BY <2>1, ElementTypes
    <3> QED BY <2>0, <2>1, <3>1 DEF Aside
  <2>2. ASSUME NEW x \in ToSet(todo'), NEW e \in BackSet(x)
        PROVE  \/ e.message \in raised
               \/ ~Free(e.to) /\ (mode[e.to] = "recording" => e.to \in refused)
    <3>1. x # k
      BY NothingAside
    <3> QED BY <3>1, <2>0 DEF Aside
  <2> QED BY <2>1, <2>2 DEF Aside, BackSet, Panel, Free
<1> QED BY <1>6, <1>7, <1>8, <1>9, <1>10, <1>11

\* What is remembered, when the stack stays and no message arrives.
LEMMA RememberKept ==
  ASSUME IInv, UNCHANGED <<todo, drains, refused, raised, scope>>, wronged \subseteq wronged',
         \A p \in Panels : waiting'[p] \subseteq waiting[p],
         \A s \in Known : HasEnd(s) => HasEnd(s)' \/ s \in wronged'
  PROVE  Remembered'
<1>1. Remembered
  BY DEF IInv
<1>2. \A s : HasEnd(s) => s \in Known
  BY DEF HasEnd
<1> QED BY <1>1, <1>2 DEF Remembered

\* What cancelling scopes takes out of the queue.
LEMMA CancelLaws ==
  ASSUME IInv, NEW S \in SUBSET Known, Cancel(S), turn' = turn
  PROVE  /\ queue' \in Seq(Posts) /\ ToSet(queue') = {x \in ToSet(queue) : x.bound \notin S}
         /\ \A x, y : Precedes(queue', x, y) => Precedes(queue, x, y)
         /\ wronged \subseteq wronged' /\ wronged' \subseteq Known /\ cancelled' \subseteq Known
         /\ \A x \in ToSet(queue) : x.bound \in S /\ x.turn \notin S /\ x.turn # 0 => x.turn \in wronged'
<1> USE DEF IInv
<1>1. queue' = Without(queue, {i \in ToSet(queue) : i.bound \in S}) /\ queue \in Seq(Posts)
  BY DEF Cancel, Types
<1>2. /\ queue' \in Seq(Posts)
      /\ ToSet(queue') = ToSet(queue) \ {i \in ToSet(queue) : i.bound \in S}
      /\ \A x, y : Precedes(queue', x, y) => Precedes(queue, x, y)
  <2> DEFINE D == {i \in ToSet(queue) : i.bound \in S}
  <2>1. /\ Without(queue, D) \in Seq(Posts) /\ ToSet(Without(queue, D)) = ToSet(queue) \ D
        /\ \A x, y : Precedes(Without(queue, D), x, y) => Precedes(queue, x, y)
    BY <1>1, FilterElements
  <2>2. queue' = Without(queue, D)
    BY <1>1
  <2> HIDE DEF D
  <2>3. /\ queue' \in Seq(Posts) /\ ToSet(queue') = ToSet(queue) \ D
        /\ \A x, y : Precedes(queue', x, y) => Precedes(queue, x, y)
    BY <2>1, <2>2
  <2> QED BY <2>3 DEF D
<1>3. wronged' = wronged \cup
        ({i.turn : i \in {j \in ToSet(queue) : j.bound \in S /\ j.turn \notin S}} \ {0})
  BY DEF Cancel
<1>4. \A x \in ToSet(queue) : x.turn \in Known \cup {0}
  BY DEF Shapes
<1>5. wronged' \subseteq Known
  BY <1>3, <1>4 DEF Types
<1>6. \A x \in ToSet(queue) : x.bound \in S /\ x.turn \notin S /\ x.turn # 0 => x.turn \in wronged'
  BY <1>3
<1>7. cancelled' \subseteq Known
  BY DEF Cancel, Types
<1> QED BY <1>2, <1>3, <1>5, <1>6, <1>7

\* A kick step exists, for the steps that may add one.
LEMMA KickFields ==
  /\ Step("kick", 0, FALSE) \in StackSteps /\ Step("kick", 0, FALSE).op = "kick"
  /\ Step("kick", 0, FALSE).turn = 0 /\ Step("kick", 0, FALSE).back = <<>>
<1>1. "kick" \in Steps0 /\ FALSE \in BOOLEAN /\ 0 \in Nat
  BY StepNames
<1> QED BY <1>1, StepFields

\* The messages that wait for one panel go, when none is put aside.
LEMMA DropStep ==
  ASSUME IInv, Pumping, NEW p \in Panels, DropListener(p), gone' \in {gone, gone \cup {p}},
         UNCHANGED <<todo, turn>>
  PROVE  /\ OneTurnEach' /\ Accounted' /\ Ordered' /\ StartedInOrder'
         /\ fifo' \in Seq(Entries) /\ waiting' \in [Panels -> SUBSET Messages]
         /\ dropped' \subseteq Messages /\ UNCHANGED <<sent, started, raised, refused>>
         /\ \A q \in Panels : waiting'[q] \subseteq waiting[q]
<1> USE DEF IInv
<1>1. /\ waiting' = [waiting EXCEPT ![p] = {}]
      /\ fifo' = Without(fifo, {e \in ToSet(fifo) : e.to = p})
      /\ dropped' = dropped \cup waiting[p] /\ UNCHANGED <<sent, started, raised, refused>>
  BY DEF DropListener
<1>2. /\ waiting \in [Panels -> SUBSET Messages] /\ fifo \in Seq(Entries) /\ dropped \subseteq Messages
      /\ ToSet(fifo) \subseteq Entries
  BY ElementTypes DEF Types
<1>3. /\ fifo' \in Seq(Entries) /\ ToSet(fifo') = {e \in ToSet(fifo) : e.to # p}
      /\ \A e, f : Precedes(fifo', e, f) => Precedes(fifo, e, f)
  <2> DEFINE D == {e \in ToSet(fifo) : e.to = p}
  <2>1. /\ Without(fifo, D) \in Seq(Entries) /\ ToSet(Without(fifo, D)) = ToSet(fifo) \ D
        /\ \A e, f : Precedes(Without(fifo, D), e, f) => Precedes(fifo, e, f)
    BY <1>2, FilterElements
  <2>2. fifo' = Without(fifo, D)
    BY <1>1
  <2> HIDE DEF D
  <2>3. /\ fifo' \in Seq(Entries) /\ ToSet(fifo') = ToSet(fifo) \ D
        /\ \A e, f : Precedes(fifo', e, f) => Precedes(fifo, e, f)
    BY <2>1, <2>2
  <2> QED BY <2>3 DEF D
<1>4. /\ waiting' \in [Panels -> SUBSET Messages] /\ waiting'[p] = {}
      /\ \A q \in Panels : q # p => waiting'[q] = waiting[q]
  BY <1>1, <1>2
<1>5. \A e : ~InBack(e) /\ ~InBack(e)'
  BY PumpingIsClear DEF InBack, BackSet
<1>b. \A x \in ToSet(todo) : BackSet(x) = {}
  BY PumpingIsClear
<1>6. \A e : (Pending(e) <=> e \in ToSet(fifo)) /\ (Pending(e)' <=> e \in ToSet(fifo) /\ e.to # p)
  BY <1>3, <1>5 DEF Pending
<1>7. Accounted'
  <2>0. Accounted
    OBVIOUS
  <2>1. \A e \in ToSet(fifo') : e.message \in waiting'[e.to]
    <3>1. \A e \in ToSet(fifo') : e \in ToSet(fifo) /\ e.to # p /\ e.to \in Panels
      BY <1>2, <1>3 DEF Entries
    <3> QED BY <2>0, <3>1, <1>4 DEF Accounted
  <2>2. \A q \in Panels : \A m \in waiting'[q] : Pending([to |-> q, message |-> m])'
    <3> SUFFICES ASSUME NEW q \in Panels, NEW m \in waiting'[q]
                 PROVE  Pending([to |-> q, message |-> m])'
      OBVIOUS
    <3>1. q # p /\ m \in waiting[q]
      BY <1>4
    <3>2. Pending([to |-> q, message |-> m])
      BY <2>0, <3>1 DEF Accounted
    <3> QED BY <3>1, <3>2, <1>6
  <2>3. \A q, u \in Panels : waiting'[q] \cap waiting'[u] # {} => q = u
    BY <2>0, <1>4 DEF Accounted
  <2>4. \A q \in Panels : \A m \in waiting'[q] :
          m <= sent' /\ m \notin ToSet(started') /\ m \notin dropped'
    <3> SUFFICES ASSUME NEW q \in Panels, NEW m \in waiting'[q]
                 PROVE  m <= sent /\ m \notin ToSet(started) /\ m \notin dropped /\ m \notin waiting[p]
      BY <1>1
    <3>1. q # p /\ m \in waiting[q]
      BY <1>4
    <3> QED BY <3>1, <2>0 DEF Accounted
  <2>5. \A q \in gone' : waiting'[q] = {}
    <3>1. \A q \in gone' : q = p \/ (q \in gone /\ q \in Panels)
      BY DEF Types
    <3>2. \A q \in gone : waiting[q] = {}
      BY <2>0 DEF Accounted
    <3> QED BY <3>1, <3>2, <1>4
  <2>6. \A m \in ToSet(started') : m <= sent' /\ m \notin dropped'
    <3>1. \A m \in ToSet(started) : m <= sent /\ m \notin dropped /\ m \notin waiting[p]
      BY <2>0 DEF Accounted
    <3> QED BY <3>1, <1>1
  <2>7. \A m \in dropped' : m <= sent'
    BY <2>0, <1>1 DEF Accounted
  <2>8. \A m \in 1 .. sent' : \/ \E q \in Panels : m \in waiting'[q]
                              \/ m \in ToSet(started') \cup dropped'
    <3> SUFFICES ASSUME NEW m \in 1 .. sent
                 PROVE  \/ \E q \in Panels : m \in waiting'[q]
                        \/ m \in ToSet(started) \cup dropped \/ m \in waiting[p]
      BY <1>1
    <3>1. (\E q \in Panels : m \in waiting[q]) \/ m \in ToSet(started) \cup dropped
      BY <2>0 DEF Accounted
    <3> QED BY <3>1, <1>4
  <2>9. \A x \in ToSet(todo') : \A e \in BackSet(x)' : e.message \in waiting'[e.to]
    BY <1>b DEF BackSet
  <2> QED BY <2>1, <2>2, <2>3, <2>4, <2>5, <2>6, <2>7, <2>8, <2>9 DEF Accounted
<1>8. Ordered'
  <2>0. Ordered
    OBVIOUS
  <2>1. \A e, f \in ToSet(fifo') : Precedes(fifo', e, f) => Older(e, f)
    BY <2>0, <1>3 DEF Ordered
  <2>2. \A x \in ToSet(todo') : BackSet(x)' = {}
    BY <1>b DEF BackSet
  <2> QED BY <2>1, <2>2 DEF Ordered, Older
<1>9. OneTurnEach'
  BY <1>1, TurnsKept
<1>10. \A q \in Panels : waiting'[q] \subseteq waiting[q]
  BY <1>4
<1>11. StartedInOrder'
  BY <1>1, <1>10, StartsKept
<1>12. dropped' \subseteq Messages
  BY <1>1, <1>2
<1> QED BY <1>1, <1>3, <1>4, <1>7, <1>8, <1>9, <1>10, <1>11, <1>12

\* Stop and dispose cancel the panel's scope and drop its messages.
LEMMA StopStep ==
  ASSUME IInv, NEW p \in Panels, ClickStop(p) \/ Dispose(p)
  PROVE  IInv'
<1> USE DEF IInv
<1>1. /\ Pumping /\ Cancel({scope[p]} \ {0}) /\ DropListener(p)
      /\ gone' \in {gone, gone \cup {p}} /\ UNCHANGED mode
      /\ UNCHANGED <<todo, scope, turn, open, before, current, drain, tools>>
  BY DEF ClickStop, Dispose, Stops, button, MayPumpVcl
<1>2. UNCHANGED <<drains, depth, captured, epilogues>> /\ Known' = Known
  BY <1>1 DEF drain, Known
<1> DEFINE S == {scope[p]} \ {0}
<1>3. S \in SUBSET Known /\ \A s, t \in S : s = t
  BY DEF Types
<1>4. Cancel(S)
  BY <1>1
<1> HIDE DEF S
<1>5. /\ queue' \in Seq(Posts) /\ ToSet(queue') = {x \in ToSet(queue) : x.bound \notin S}
      /\ \A x, y : Precedes(queue', x, y) => Precedes(queue, x, y)
      /\ wronged \subseteq wronged' /\ wronged' \subseteq Known /\ cancelled' \subseteq Known
      /\ \A x \in ToSet(queue) : x.bound \in S /\ x.turn \notin S /\ x.turn # 0 => x.turn \in wronged'
  BY <1>1, <1>3, <1>4, CancelLaws
<1>6. \A x \in ToSet(queue) : x.do = "send" => x \in ToSet(queue') \/ x.turn \in wronged'
  BY <1>3, <1>5 DEF Shapes
<1>7. /\ OneTurnEach' /\ Accounted' /\ Ordered' /\ StartedInOrder'
      /\ fifo' \in Seq(Entries) /\ waiting' \in [Panels -> SUBSET Messages]
      /\ dropped' \subseteq Messages /\ UNCHANGED <<sent, started, raised, refused>>
      /\ \A q \in Panels : waiting'[q] \subseteq waiting[q]
  BY <1>1, DropStep
<1>8. /\ Shapes' /\ OneEnd' /\ Sessions' /\ Reached' /\ Aside'
      /\ \A s \in Known : HasEnd(s) => HasEnd(s)' \/ s \in wronged'
  <2> PICK k : k = Step("kick", 0, FALSE)
    OBVIOUS
  <2>1. k \in StackSteps /\ k.op = "kick" /\ k.turn = 0 /\ k.back = <<>>
    BY KickFields
  <2>2. todo' \in Seq(StackSteps) /\ gone \subseteq gone'
    BY <1>1 DEF Types
  <2> QED BY <1>1, <1>2, <1>5, <1>6, <1>7, <2>1, <2>2, QueueStep
<1>9. Remembered'
  BY <1>1, <1>2, <1>5, <1>7, <1>8, RememberKept
<1>10. Types'
  BY <1>1, <1>2, <1>5, <1>7 DEF Types
<1> QED BY <1>7, <1>8, <1>9, <1>10

\* The first item of the queue is taken.
LEMMA TakeLaws ==
  ASSUME Types, NEW do, TakeItem(do)
  PROVE  /\ Pumping /\ Head(queue) \in ToSet(queue) /\ Head(queue).do = do
         /\ queue' \in Seq(Posts) /\ ToSet(queue) = {Head(queue)} \cup ToSet(queue')
         /\ \A x, y : Precedes(queue', x, y) => Precedes(queue, x, y)
         /\ \A x \in ToSet(queue') : Precedes(queue, Head(queue), x)
<1>1. Pumping /\ queue # <<>> /\ Head(queue).do = do /\ queue' = Tail(queue) /\ queue \in Seq(Posts)
  BY DEF TakeItem, Types
<1>2. /\ Tail(queue) \in Seq(Posts) /\ ToSet(queue) = {Head(queue)} \cup ToSet(Tail(queue))
      /\ \A x, y : Precedes(queue, x, y) <=>
           Precedes(Tail(queue), x, y) \/ (x = Head(queue) /\ y \in ToSet(Tail(queue)))
  BY <1>1, PopElements
<1> QED BY <1>1, <1>2

\* A queue that changes while nothing else does.
LEMMA QuietQueue ==
  ASSUME IInv, UNCHANGED <<todo, button, session, drain, peer>>,
         queue' \in Seq(Posts), wronged \subseteq wronged', wronged' \subseteq Known,
         tools' \in 0 .. MaxTools,
         \A x \in ToSet(queue') : \/ x \in ToSet(queue)
                                  \/ /\ x.do # "send" /\ x.turn \in Known \cup {0}
                                     /\ x.bound \in Known \cup {0},
         \A x, y : Precedes(queue', x, y) /\ x.do = "send" /\ y.do = "send" => Precedes(queue, x, y),
         \A x \in ToSet(queue) : x.do = "send" => x \in ToSet(queue') \/ x.turn \in wronged'
  PROVE  IInv'
<1> USE DEF IInv
<1>1. UNCHANGED <<todo, mode, gone, scope, turn, open, before, current, cancelled, drains, depth,
                  captured, epilogues, fifo, waiting, sent, started, dropped, raised, refused>>
  BY DEF button, session, drain, peer
<1>k. Known' = Known
  BY <1>1 DEF Known
<1>2. /\ Shapes' /\ OneEnd' /\ Sessions' /\ Reached' /\ Aside'
      /\ \A s \in Known : HasEnd(s) => HasEnd(s)' \/ s \in wronged'
  <2> PICK k : k = Step("kick", 0, FALSE)
    OBVIOUS
  <2>1. k \in StackSteps /\ k.op = "kick" /\ k.turn = 0 /\ k.back = <<>>
    BY KickFields
  <2>2. todo' \in Seq(StackSteps) /\ gone \subseteq gone'
    BY <1>1 DEF Types
  <2> QED BY <1>1, <2>1, <2>2, QueueStep
<1>3. OneTurnEach' /\ StartedInOrder'
  BY <1>1, TurnsKept, StartsKept
<1>4. Accounted' /\ Ordered'
  BY <1>1, MessagesKept
<1>5. Remembered'
  BY <1>1, <1>2, RememberKept
<1>6. Types'
  BY <1>1, <1>k DEF Types
<1> QED BY <1>2, <1>3, <1>4, <1>5, <1>6

\* DropItem keeps the invariant: the marshal drops an item of a cancelled scope.
LEMMA DropItemStep ==
  ASSUME IInv, DropItem
  PROVE  IInv'
<1> USE DEF IInv
<1> PICK h : h = Head(queue)
  OBVIOUS
<1>1. /\ TakeItem(h.do) /\ UNCHANGED <<todo, button, session, drain, peer, tools>>
      /\ wronged' = wronged \cup ({h.turn} \ {0, h.bound})
  BY DEF DropItem, TakeItem
<1>2. /\ h \in ToSet(queue) /\ queue' \in Seq(Posts) /\ ToSet(queue) = {h} \cup ToSet(queue')
      /\ \A x, y : Precedes(queue', x, y) => Precedes(queue, x, y)
  BY <1>1, TakeLaws
<1>3. wronged' \subseteq Known
  BY <1>1, <1>2 DEF Shapes, Types
<1>4. \A x \in ToSet(queue) : x.do = "send" => x \in ToSet(queue') \/ x.turn \in wronged'
  BY <1>1, <1>2 DEF Shapes
<1>5. tools' \in 0 .. MaxTools
  BY <1>1 DEF Types
<1> QED BY <1>1, <1>2, <1>3, <1>4, <1>5, QuietQueue

\* RunTool keeps it: the marshal runs a tool call.
LEMMA RunToolStep ==
  ASSUME IInv, RunTool
  PROVE  IInv'
<1> USE DEF IInv
<1>1. TakeItem("tool") /\ UNCHANGED <<todo, button, session, drain, peer, wronged, tools>>
  BY DEF RunTool
<1>2. /\ Head(queue) \in ToSet(queue) /\ queue' \in Seq(Posts) /\ Head(queue).do = "tool"
      /\ ToSet(queue) = {Head(queue)} \cup ToSet(queue')
      /\ \A x, y : Precedes(queue', x, y) => Precedes(queue, x, y)
  BY <1>1, TakeLaws
<1>3. wronged \subseteq wronged' /\ wronged' \subseteq Known /\ tools' \in 0 .. MaxTools
  BY <1>1 DEF Types
<1>4. \A x \in ToSet(queue) : x.do = "send" => x \in ToSet(queue') \/ x.turn \in wronged'
  BY <1>2
<1> QED BY <1>1, <1>2, <1>3, <1>4, QuietQueue

\* ToolStarts keeps it: a drain's tool asks for the main thread.
LEMMA ToolStartsStep ==
  ASSUME IInv, NEW s \in DOMAIN turn, ToolStarts(s)
  PROVE  IInv'
<1> USE DEF IInv
<1> PICK x : x = Item("tool", s)
  OBVIOUS
<1>1. /\ queue' = Append(queue, x) /\ tools' = tools + 1 /\ tools < MaxTools
      /\ UNCHANGED <<todo, button, session, drain, peer, wronged>>
  BY DEF ToolStarts
<1>2. x \in Posts /\ x.do = "tool" /\ x.turn = s /\ x.bound = current
  <2>1. s \in Nat /\ current \in Nat
    BY TurnNumbers DEF Types, Known
  <2> QED BY <2>1 DEF Item, Posts
<1>3. /\ queue' \in Seq(Posts) /\ ToSet(queue') = ToSet(queue) \cup {x}
      /\ \A a, b : Precedes(queue', a, b) <=> Precedes(queue, a, b) \/ (a \in ToSet(queue) /\ b = x)
  BY <1>1, <1>2, PutElements DEF Types
<1>4. wronged \subseteq wronged' /\ wronged' \subseteq Known /\ tools' \in 0 .. MaxTools
  BY <1>1, TurnsAssumption DEF Types
<1>5. \A a \in ToSet(queue') : \/ a \in ToSet(queue)
                               \/ /\ a.do # "send" /\ a.turn \in Known \cup {0}
                                  /\ a.bound \in Known \cup {0}
  BY <1>2, <1>3 DEF Types, Known
<1>6. \A a, b : Precedes(queue', a, b) /\ a.do = "send" /\ b.do = "send" => Precedes(queue, a, b)
  BY <1>2, <1>3
<1>7. \A a \in ToSet(queue) : a.do = "send" => a \in ToSet(queue') \/ a.turn \in wronged'
  BY <1>3
<1> QED BY <1>1, <1>3, <1>4, <1>5, <1>6, <1>7, QuietQueue

\* A kick on top of the stack.
LEMMA NestKick ==
  ASSUME Types, NEW k \in StackSteps, k.back = <<>>, todo' = <<k>> \o todo
  PROVE  /\ todo' \in Seq(StackSteps) /\ ToSet(todo') = {k} \cup ToSet(todo)
         /\ \A x, y : Precedes(todo', x, y) <=> Precedes(todo, x, y) \/ (x = k /\ y \in ToSet(todo))
<1> DEFINE p == <<k>>
<1>1. /\ p \in Seq(StackSteps) /\ ToSet(p) = {k} /\ \A a, b : ~Precedes(p, a, b)
  BY FewElements
<1>2. todo' = p \o todo
  OBVIOUS
<1> HIDE DEF p
<1>3. /\ p \o todo \in Seq(StackSteps) /\ ToSet(p \o todo) = ToSet(p) \cup ToSet(todo)
      /\ \A a, b : Precedes(p \o todo, a, b) <=>
           Precedes(p, a, b) \/ Precedes(todo, a, b) \/ (a \in ToSet(p) /\ b \in ToSet(todo))
  BY <1>1, PushElements DEF Types
<1> QED BY <1>1, <1>2, <1>3

\* A posted kick is put on the stack.
LEMMA RunKickStep ==
  ASSUME IInv, TakeItem("kick"), Nest(<<Step("kick", 0, FALSE)>>),
         UNCHANGED <<button, session, drain, peer, wronged, tools>>
  PROVE  IInv'
<1> USE DEF IInv
<1>1. UNCHANGED <<mode, gone, scope, turn, open, before, current, cancelled, drains, depth, wronged,
                  captured, epilogues, fifo, waiting, sent, started, dropped, raised, refused, tools>>
  BY DEF button, session, drain, peer
<1>2. /\ Head(queue).do = "kick" /\ queue' \in Seq(Posts)
      /\ ToSet(queue) = {Head(queue)} \cup ToSet(queue')
      /\ \A x, y : Precedes(queue', x, y) => Precedes(queue, x, y)
  BY TakeLaws
<1> PICK k : k = Step("kick", 0, FALSE)
  OBVIOUS
<1>3. k \in StackSteps /\ k.op = "kick" /\ k.turn = 0 /\ k.back = <<>>
  BY KickFields
<1>4. /\ todo' \in Seq(StackSteps) /\ ToSet(todo') = {k} \cup ToSet(todo)
      /\ \A x, y : Precedes(todo', x, y) <=> Precedes(todo, x, y) \/ (x = k /\ y \in ToSet(todo))
  <2>1. todo' = <<k>> \o todo
    BY DEF Nest
  <2> QED BY <1>3, <2>1, NestKick
<1>5. \A x \in ToSet(queue) : x.do = "send" => x \in ToSet(queue') \/ x.turn \in wronged'
  BY <1>2
<1>6. /\ Shapes' /\ OneEnd' /\ Sessions' /\ Reached' /\ Aside'
  BY <1>1, <1>2, <1>3, <1>4, <1>5, QueueStep
<1>7. OneTurnEach' /\ StartedInOrder'
  BY <1>1, TurnsKept, StartsKept
<1>8. Accounted' /\ Ordered'
  BY <1>1, <1>3, <1>4, MessagesKept
<1>9. Remembered'
  <2>1. k \in ToSet(todo') /\ k.op # "unskip"
    BY <1>3, <1>4
  <2> QED BY <2>1 DEF Remembered
<1>10. Types'
  BY <1>1, <1>2, <1>4 DEF Types, Known
<1> QED BY <1>6, <1>7, <1>8, <1>9, <1>10

\* A posted turn is put on the stack.
LEMMA RunSendStep ==
  ASSUME IInv, TakeItem("send"), Nest(<<Step("run", Head(queue).turn, FALSE)>>),
         UNCHANGED <<button, session, drain, peer, wronged, tools>>
  PROVE  IInv'
<1> USE DEF IInv
<1>1. UNCHANGED <<mode, gone, scope, turn, open, before, current, cancelled, drains, depth, wronged,
                  captured, epilogues, fifo, waiting, sent, started, dropped, raised, refused, tools>>
  BY DEF button, session, drain, peer
<1>k. Known' = Known /\ 0 \notin Known /\ Known \subseteq Nat
  BY <1>1, TurnNumbers DEF Known
<1> PICK h : h = Head(queue)
  OBVIOUS
<1>2. /\ Pumping /\ h \in ToSet(queue) /\ h.do = "send" /\ queue' \in Seq(Posts)
      /\ ToSet(queue) = {h} \cup ToSet(queue')
      /\ \A x, y : Precedes(queue', x, y) => Precedes(queue, x, y)
      /\ \A x \in ToSet(queue') : Precedes(queue, h, x)
  BY TakeLaws
<1> PICK s : s = h.turn
  OBVIOUS
<1>3. s \in Known /\ s # 0 /\ s \in Nat /\ Posted(s)
  BY <1>2, <1>k DEF Shapes, Posted
<1> PICK k : k = Step("run", s, FALSE)
  OBVIOUS
<1>4. k \in StackSteps /\ k.op = "run" /\ k.turn = s /\ k.back = <<>>
  <2>1. "run" \in Steps0 /\ FALSE \in BOOLEAN
    BY StepNames
  <2> QED BY <1>3, <2>1, StepFields
<1>5. /\ todo' \in Seq(StackSteps) /\ ToSet(todo') = {k} \cup ToSet(todo)
      /\ \A x, y : Precedes(todo', x, y) <=> Precedes(todo, x, y) \/ (x = k /\ y \in ToSet(todo))
  <2>1. todo' = <<k>> \o todo
    BY DEF Nest
  <2> QED BY <1>4, <2>1, NestKick
<1>c. \A x \in ToSet(todo) : x.op # "unskip" /\ x.back = <<>> /\ BackSet(x) = {}
  BY <1>2, PumpingIsClear
<1>6. \A x \in ToSet(queue') : x.do = "send" => x.turn # s
  BY <1>2 DEF OneEnd
<1>7. \A x \in ToSet(todo) : x.turn # s
  BY <1>3 DEF OneEnd, OnStack
<1>8. \A t : OnStack(t)' <=> OnStack(t) \/ t = s
  BY <1>4, <1>5 DEF OnStack
<1>9. \A t : Posted(t)' <=> Posted(t) /\ t # s
  BY <1>2, <1>6 DEF Posted
<1>10. \A d, t : InDrain(d, t)' <=> InDrain(d, t)
  BY <1>1 DEF InDrain
<1>11. \A t \in Known : HasEnd(t)' <=> HasEnd(t)
  BY <1>1, <1>3, <1>k, <1>8, <1>9, <1>10 DEF HasEnd
<1>12. Shapes'
  <2>0. Shapes
    OBVIOUS
  <2>1. \A x \in ToSet(todo') :
          /\ x.turn \in Known \cup {0} /\ (x.op \in {"kick", "unskip"} <=> x.turn = 0)
          /\ x.op # "unskip" => x.back = <<>>
          /\ x.op = "stt" => turn[x.turn].spoken
    <3> SUFFICES ASSUME NEW x \in ToSet(todo')
                 PROVE  /\ x.turn \in Known \cup {0} /\ (x.op \in {"kick", "unskip"} <=> x.turn = 0)
                        /\ x.op # "unskip" => x.back = <<>>
                        /\ x.op = "stt" => turn[x.turn].spoken
      OBVIOUS
    <3>1. CASE x = k
      BY <3>1, <1>3, <1>4
    <3>2. CASE x \in ToSet(todo)
      BY <3>2, <2>0 DEF Shapes
    <3> QED BY <3>1, <3>2, <1>5
  <2>2. \A x \in ToSet(queue') :
          /\ x.turn \in Known \cup {0} /\ x.bound \in Known \cup {0}
          /\ x.do = "send" => x.turn # 0 /\ x.bound # x.turn
    BY <2>0, <1>2 DEF Shapes
  <2> QED BY <2>0, <2>1, <2>2, <1>1, <1>k DEF Shapes
<1>13. OneEnd'
  <2>0. OneEnd
    OBVIOUS
  <2>1. \A x, y \in ToSet(todo') : Precedes(todo', x, y) /\ x.turn # 0 => x.turn # y.turn
    <3>1. \A x, y : Precedes(todo, x, y) /\ x.turn # 0 => x.turn # y.turn
      BY <2>0, ElementTypes DEF OneEnd
    <3> QED BY <3>1, <1>4, <1>5, <1>7
  <2>2. \A x, y \in ToSet(queue') :
          Precedes(queue', x, y) /\ x.do = "send" /\ y.do = "send" => x.turn # y.turn
    BY <2>0, <1>2 DEF OneEnd
  <2>3. \A d \in drains' : \A x, y \in ToSet(epilogues'[d]) :
          Precedes(epilogues'[d], x, y) => x.turn # y.turn
    BY <2>0, <1>1 DEF OneEnd
  <2>4. \A d \in drains : ~InDrain(d, s)
    BY <2>0, <1>3 DEF OneEnd
  <2>5. \A t \in Known' : ~(Posted(t)' /\ OnStack(t)')
    BY <2>0, <1>k, <1>8, <1>9 DEF OneEnd
  <2>6. \A t \in Known' : \A d \in drains' : InDrain(d, t)' => ~Posted(t)' /\ ~OnStack(t)'
    BY <2>0, <2>4, <1>1, <1>k, <1>8, <1>9, <1>10 DEF OneEnd
  <2>7. \A t \in Known' : \A d, e \in drains' : InDrain(d, t)' /\ InDrain(e, t)' => d = e
    BY <2>0, <1>1, <1>k, <1>10 DEF OneEnd
  <2> QED BY <2>1, <2>2, <2>3, <2>5, <2>6, <2>7 DEF OneEnd
<1>14. Sessions'
  BY <1>1, <1>8, <1>10 DEF Sessions, CurrentIsOpen, Types
<1>15. Reached'
  BY <1>1, <1>11, ReachKept
<1>16. OneTurnEach' /\ StartedInOrder'
  BY <1>1, TurnsKept, StartsKept
<1>17. Accounted' /\ Ordered'
  BY <1>1, <1>4, <1>5, MessagesKept
<1>18. Aside'
  <2>1. \A x \in ToSet(todo') : x.op # "unskip" /\ BackSet(x) = {}
    BY <1>4, <1>5, <1>c, NothingAside
  <2> QED BY <2>1 DEF Aside, BackSet
<1>19. Remembered'
  <2>1. k \in ToSet(todo') /\ k.op # "unskip"
    BY <1>4, <1>5
  <2> QED BY <2>1 DEF Remembered
<1>20. Types'
  BY <1>1, <1>2, <1>5, <1>k DEF Types
<1> QED BY <1>12, <1>13, <1>14, <1>15, <1>16, <1>17, <1>18, <1>19, <1>20

\* RunPost keeps it: the marshal runs a posted send or a posted kick.
LEMMA RunPostStep ==
  ASSUME IInv, RunPost
  PROVE  IInv'
BY RunSendStep, RunKickStep DEF RunPost

\* A message arrives behind the others.
LEMMA ArrivalStep ==
  ASSUME IInv, Pumping, NEW p \in Panels, p \notin gone, sent < MaxPeers, sent' = sent + 1,
         waiting' = [waiting EXCEPT ![p] = @ \cup {sent + 1}],
         fifo' = Append(fifo, [to |-> p, message |-> sent + 1]),
         \A x \in ToSet(todo') : x.back = <<>>,
         UNCHANGED <<turn, gone, started, dropped, raised, refused>>
  PROVE  /\ OneTurnEach' /\ Accounted' /\ Ordered' /\ StartedInOrder'
         /\ fifo' \in Seq(Entries) /\ waiting' \in [Panels -> SUBSET Messages]
         /\ sent' \in 0 .. MaxPeers
<1> USE DEF IInv
<1> PICK m : m = sent + 1
  OBVIOUS
<1> PICK f : f = [to |-> p, message |-> m]
  OBVIOUS
<1>1. m \in Messages /\ ~(m <= sent) /\ sent' = m /\ sent' \in 0 .. MaxPeers /\ sent \in Nat
      /\ \A k \in Nat : k <= sent => k < m /\ k <= m /\ k # m
  BY TurnsAssumption DEF Messages, Types
<1>2. f \in Entries /\ f.to = p /\ f.message = m
  BY <1>1 DEF Entries
<1>3. /\ fifo' \in Seq(Entries) /\ ToSet(fifo') = ToSet(fifo) \cup {f}
      /\ \A a, b : Precedes(fifo', a, b) <=> Precedes(fifo, a, b) \/ (a \in ToSet(fifo) /\ b = f)
  BY <1>2, PutElements DEF Types
<1>4. /\ waiting' \in [Panels -> SUBSET Messages] /\ waiting'[p] = waiting[p] \cup {m}
      /\ \A q \in Panels : q # p => waiting'[q] = waiting[q]
  BY <1>1 DEF Types
<1>c. (\A x \in ToSet(todo) : BackSet(x) = {}) /\ (\A e : ~InBack(e))
  BY PumpingIsClear
<1>d. (\A x \in ToSet(todo') : BackSet(x)' = {}) /\ (\A e : ~InBack(e)')
  <2>1. \A x \in ToSet(todo') : BackSet(x) = {}
    BY NothingAside
  <2> QED BY <2>1 DEF BackSet, InBack
<1>5. \A e : (Pending(e) <=> e \in ToSet(fifo)) /\ (Pending(e)' <=> e \in ToSet(fifo) \cup {f})
  BY <1>3, <1>c, <1>d DEF Pending
<1>6. /\ \A q \in Panels : \A k \in waiting[q] : k <= sent /\ k \in Nat
      /\ \A k \in ToSet(started) : k <= sent /\ k \in Nat
      /\ \A k \in dropped : k <= sent /\ k \in Nat
  <2>1. \A k \in Messages : k \in Nat
    BY TurnsAssumption DEF Messages
  <2> QED BY <2>1, ElementTypes DEF Accounted, Types
<1>7. \A e \in ToSet(fifo) : e \in Entries /\ e.to \in Panels /\ e.message \in waiting[e.to]
  BY ElementTypes DEF Accounted, Entries
<1>8. Accounted'
  <2>0. Accounted
    OBVIOUS
  <2>1. \A e \in ToSet(fifo') : e.message \in waiting'[e.to]
    BY <1>2, <1>3, <1>4, <1>7
  <2>2. \A q \in Panels : \A k \in waiting'[q] : Pending([to |-> q, message |-> k])'
    <3> SUFFICES ASSUME NEW q \in Panels, NEW k \in waiting'[q]
                 PROVE  Pending([to |-> q, message |-> k])'
      OBVIOUS
    <3>1. CASE q = p /\ k = m
      BY <3>1, <1>5
    <3>2. CASE k \in waiting[q]
      <4>1. Pending([to |-> q, message |-> k])
        BY <2>0, <3>2 DEF Accounted
      <4> QED BY <4>1, <1>5
    <3> QED BY <3>1, <3>2, <1>4
  <2>3. \A q, u \in Panels : waiting'[q] \cap waiting'[u] # {} => q = u
    <3>1. \A q \in Panels : m \notin waiting[q]
      BY <1>1, <1>6
    <3> SUFFICES ASSUME NEW q \in Panels, NEW u \in Panels, NEW k \in waiting'[q], k \in waiting'[u]
                 PROVE  q = u
      OBVIOUS
    <3>2. CASE k = m
      BY <3>1, <3>2, <1>4
    <3>3. CASE k # m
      <4>1. k \in waiting[q] /\ k \in waiting[u]
        BY <3>3, <1>4
      <4> QED BY <4>1, <2>0 DEF Accounted
    <3> QED BY <3>2, <3>3
  <2>4. \A q \in Panels : \A k \in waiting'[q] :
          k <= sent' /\ k \notin ToSet(started') /\ k \notin dropped'
    <3> SUFFICES ASSUME NEW q \in Panels, NEW k \in waiting'[q]
                 PROVE  k <= m /\ k \notin ToSet(started) /\ k \notin dropped
      BY <1>1
    <3>1. CASE k = m
      BY <3>1, <1>1, <1>6
    <3>2. CASE k \in waiting[q]
      BY <3>2, <2>0, <1>1, <1>6 DEF Accounted
    <3> QED BY <3>1, <3>2, <1>4
  <2>5. \A q \in gone' : waiting'[q] = {}
    BY <2>0, <1>4 DEF Accounted, Types
  <2>6. \A k \in ToSet(started') : k <= sent' /\ k \notin dropped'
    BY <2>0, <1>1, <1>6 DEF Accounted
  <2>7. \A k \in dropped' : k <= sent'
    BY <1>1, <1>6
  <2>8. \A k \in 1 .. sent' : \/ \E q \in Panels : k \in waiting'[q]
                              \/ k \in ToSet(started') \cup dropped'
    <3> SUFFICES ASSUME NEW k \in 1 .. sent'
                 PROVE  (\E q \in Panels : k \in waiting'[q]) \/ k \in ToSet(started) \cup dropped
      OBVIOUS
    <3>1. k = m \/ k \in 1 .. sent
      BY <1>1
    <3>2. CASE k = m
      BY <3>2, <1>4
    <3>3. CASE k \in 1 .. sent
      <4>1. (\E q \in Panels : k \in waiting[q]) \/ k \in ToSet(started) \cup dropped
        BY <3>3, <2>0 DEF Accounted
      <4> QED BY <4>1, <1>4
    <3> QED BY <3>1, <3>2, <3>3
  <2>9. \A x \in ToSet(todo') : \A e \in BackSet(x)' : e.message \in waiting'[e.to]
    BY <1>d
  <2> QED BY <2>1, <2>2, <2>3, <2>4, <2>5, <2>6, <2>7, <2>8, <2>9 DEF Accounted
<1>9. Ordered'
  <2>0. Ordered
    OBVIOUS
  <2>1. \A a, b \in ToSet(fifo') : Precedes(fifo', a, b) => Older(a, b)
    <3>1. \A a, b : Precedes(fifo, a, b) => Older(a, b)
      BY <2>0, ElementTypes DEF Ordered
    <3>2. \A a \in ToSet(fifo) : Older(a, f)
      BY <1>1, <1>2, <1>6, <1>7 DEF Older
    <3> QED BY <3>1, <3>2, <1>3
  <2> QED BY <2>1, <1>d DEF Ordered, Older
<1>10. OneTurnEach'
  <2>0. OneTurnEach
    OBVIOUS
  <2>1. \A s \in Known : turn[s].message <= sent'
    <3>1. \A s \in Known : turn[s].message <= sent /\ turn[s].message \in Nat
      BY <2>0, TurnNumbers, TurnsAssumption DEF OneTurnEach, TurnRecords
    <3> QED BY <3>1, <1>1
  <2> QED BY <2>0, <2>1 DEF OneTurnEach, Known
<1>11. StartedInOrder'
  <2>0. StartedInOrder
    OBVIOUS
  <2>1. \A k, q : On(k, q)' <=> On(k, q)
    BY DEF On, Known, Panel
  <2>2. ASSUME NEW q \in Panels, NEW j \in ToSet(started) \ raised, NEW k \in waiting'[q] \ raised, On(j, q)
        PROVE  j < k
    <3>1. CASE k = m
      BY <3>1, <1>1, <1>6
    <3>2. CASE k \in waiting[q]
      BY <3>2, <2>0, <2>2 DEF StartedInOrder
    <3> QED BY <3>1, <3>2, <1>4
  <2> QED BY <2>0, <2>1, <2>2 DEF StartedInOrder
<1> QED BY <1>1, <1>3, <1>4, <1>8, <1>9, <1>10, <1>11

\* A tool sends a message to another document's panel.
LEMMA PeerSendStep ==
  ASSUME IInv, NEW p \in Panels, PeerSend(p)
  PROVE  IInv'
<1> USE DEF IInv
<1> PICK k : k = Step("kick", 0, FALSE)
  OBVIOUS
<1>1. /\ TakeItem("tool") /\ p \notin gone /\ sent < MaxPeers /\ sent' = sent + 1
      /\ waiting' = [waiting EXCEPT ![p] = @ \cup {sent + 1}]
      /\ fifo' = Append(fifo, [to |-> p, message |-> sent + 1])
      /\ IF depth = 0 /\ ~Busy(p) THEN todo' = <<k>> \o todo ELSE UNCHANGED todo
      /\ UNCHANGED <<button, session, drain, started, dropped, raised, refused, wronged, tools>>
  BY DEF PeerSend, Live, Nest
<1>2. /\ UNCHANGED <<mode, gone, scope, turn, open, before, current, cancelled, drains, depth, wronged,
                     captured, epilogues, started, dropped, raised, refused, tools>>
      /\ Known' = Known
  BY <1>1 DEF button, session, drain, Known
<1>3. /\ Pumping /\ Head(queue).do = "tool" /\ queue' \in Seq(Posts)
      /\ ToSet(queue) = {Head(queue)} \cup ToSet(queue')
      /\ \A x, y : Precedes(queue', x, y) => Precedes(queue, x, y)
  BY <1>1, TakeLaws
<1>4. k \in StackSteps /\ k.op = "kick" /\ k.turn = 0 /\ k.back = <<>>
  BY KickFields
<1>5. /\ todo' \in Seq(StackSteps) /\ ToSet(todo) \subseteq ToSet(todo')
      /\ ToSet(todo') \subseteq ToSet(todo) \cup {k}
      /\ \A x, y : Precedes(todo', x, y) => Precedes(todo, x, y) \/ x = k
  <2>1. CASE depth = 0 /\ ~Busy(p)
    BY <2>1, <1>1, <1>4, NestKick
  <2>2. CASE ~(depth = 0 /\ ~Busy(p))
    BY <2>2, <1>1 DEF Types
  <2> QED BY <2>1, <2>2
<1>6. \A x \in ToSet(queue) : x.do = "send" => x \in ToSet(queue') \/ x.turn \in wronged'
  BY <1>3
<1>7. /\ Shapes' /\ OneEnd' /\ Sessions' /\ Reached' /\ Aside'
      /\ \A s \in Known : HasEnd(s) => HasEnd(s)' \/ s \in wronged'
  BY <1>2, <1>3, <1>4, <1>5, <1>6, QueueStep
<1>8. \A x \in ToSet(todo') : x.back = <<>>
  BY <1>3, <1>4, <1>5, PumpingIsClear
<1>9. /\ OneTurnEach' /\ Accounted' /\ Ordered' /\ StartedInOrder'
      /\ fifo' \in Seq(Entries) /\ waiting' \in [Panels -> SUBSET Messages] /\ sent' \in 0 .. MaxPeers
  BY <1>1, <1>2, <1>3, <1>8, ArrivalStep
<1>10. Remembered'
  <2>1. CASE depth = 0 /\ ~Busy(p)
    <3>1. k \in ToSet(todo') /\ k.op # "unskip"
      BY <2>1, <1>1, <1>4, NestKick
    <3> QED BY <3>1 DEF Remembered
  <2>2. CASE depth # 0
    <3>1. drains # {}
      BY <2>2, FS_EmptySet DEF Sessions
    <3> QED BY <3>1, <1>2 DEF Remembered
  <2>3. CASE Busy(p) /\ ~(depth = 0 /\ ~Busy(p))
    <3>1. HasEnd(scope[p]) \/ scope[p] \in wronged
      BY <2>3, <1>1 DEF Reached, Busy
    <3>2. todo' = todo
      BY <2>3, <1>1
    <3>3. \A q \in Panels : q # p => waiting'[q] = waiting[q]
      BY <1>1 DEF Types
    <3>4. \A s : HasEnd(s) => s \in Known
      BY DEF HasEnd
    <3>5. ASSUME drains' = {} /\ (\A x \in ToSet(todo') : x.op = "unskip"),
                 NEW q \in Panels, NEW m \in waiting'[q]
          PROVE  q \in refused' \/ m \in raised' \/ scope'[q] \in wronged' \/ HasEnd(scope[q])'
      <4>1. CASE q = p
        BY <4>1, <3>1, <3>4, <1>2, <1>7
      <4>2. CASE q # p
        <5>1. q \in refused \/ m \in raised \/ scope[q] \in wronged \/ HasEnd(scope[q])
          BY <4>2, <3>2, <3>3, <3>5, <1>2 DEF Remembered
        <5> QED BY <5>1, <3>4, <1>2, <1>7
      <4> QED BY <4>1, <4>2
    <3> QED BY <3>5 DEF Remembered
  <2> QED BY <2>1, <2>2, <2>3
<1>11. Types'
  BY <1>2, <1>3, <1>5, <1>9 DEF Types
<1> QED BY <1>7, <1>9, <1>10, <1>11

-----------------------------------------------------------------------------
(* Recording.                                                              *)

\* SetMode keeps the invariant: a click starts or cancels a recording.
LEMMA SetModeStep ==
  ASSUME IInv, NEW p \in Panels, NEW from \in {"idle", "recording"}, NEW to \in {"idle", "recording"},
         SetMode(p, from, to)
  PROVE  IInv'
<1> USE DEF IInv
<1>1. /\ Pumping /\ p \notin gone /\ mode[p] = from /\ mode' = [mode EXCEPT ![p] = to]
      /\ UNCHANGED <<todo, gone, scope, session, drain, queue, peer, wronged, tools>>
  BY DEF SetMode, MayPumpVcl, Live
<1>2. /\ UNCHANGED <<todo, gone, scope, turn, open, before, current, cancelled, drains, depth, captured,
                     epilogues, queue, fifo, waiting, sent, started, dropped, raised, refused, wronged,
                     tools>>
      /\ Known' = Known
  BY <1>1 DEF session, drain, peer, Known
<1>3. /\ mode' \in [Panels -> {"idle", "recording", "busy"}] /\ mode'[p] \in {"idle", "recording"}
      /\ \A q \in Panels : q # p => mode'[q] = mode[q]
  BY <1>1 DEF Types
<1>4. mode[p] # "busy" /\ scope[p] = 0
  BY <1>1 DEF Reached
<1>5. Shapes' /\ OneEnd' /\ Sessions'
  BY <1>2 DEF Shapes, OneEnd, Sessions, Known, OnStack, Posted, InDrain, CurrentIsOpen
<1>6. \A s : HasEnd(s)' <=> HasEnd(s)
  BY <1>2 DEF HasEnd, OnStack, Posted, InDrain
<1>7. Reached'
  <2>1. \A s \in Known : HasEnd(s) => Panel(s) # p /\ Panel(s) \in Panels
    <3>1. \A s \in Known : s # 0 /\ Panel(s) \in Panels
      BY TurnNumbers DEF TurnRecords, Panel
    <3> QED BY <3>1, <1>4 DEF Reached
  <2>2. \A s \in Known' : HasEnd(s)' =>
          scope'[Panel(s)'] = s /\ (Live(Panel(s))' => mode'[Panel(s)'] = "busy")
    BY <2>1, <1>2, <1>3, <1>6 DEF Reached, Panel, Live
  <2>3. \A q \in Panels \ gone' :
          IF mode'[q] = "busy" THEN HasEnd(scope[q])' \/ scope'[q] \in wronged' ELSE scope'[q] = 0
    <3> SUFFICES ASSUME NEW q \in Panels \ gone
                 PROVE  IF mode'[q] = "busy" THEN HasEnd(scope[q]) \/ scope[q] \in wronged ELSE scope[q] = 0
      BY <1>2, <1>6
    <3>1. CASE q = p
      BY <3>1, <1>3, <1>4
    <3>2. CASE q # p
      BY <3>2, <1>3 DEF Reached
    <3> QED BY <3>1, <3>2
  <2>4. \A q \in Panels : scope'[q] # 0 => Panel(scope[q])' = q
    BY <1>2 DEF Reached, Panel
  <2> QED BY <2>2, <2>3, <2>4 DEF Reached
<1>8. OneTurnEach' /\ StartedInOrder'
  BY <1>2, TurnsKept, StartsKept
<1>9. Accounted' /\ Ordered'
  BY <1>2, MessagesKept
<1>10. Aside'
  <2>1. \A x \in ToSet(todo') : x.op # "unskip" /\ BackSet(x) = {}
    BY <1>1, <1>2, PumpingIsClear
  <2> QED BY <2>1 DEF Aside, BackSet
<1>11. Remembered'
  BY <1>2, <1>6 DEF Remembered
<1>12. Types'
  BY <1>2, <1>3 DEF Types
<1> QED BY <1>5, <1>7, <1>8, <1>9, <1>10, <1>11, <1>12

-----------------------------------------------------------------------------
(* A turn starts.                                                          *)

\* The panel of a new turn was idle or recording, and no other turn had it.
LEMMA NewTurnReach ==
  ASSUME IInv, NEW p \in Panels, mode[p] # "busy", scope[p] = 0, NEW n, n \notin Known,
         Known' = Known \cup {n}, turn'[n].panel = p, \A s \in Known : turn'[s] = turn[s],
         scope' = [scope EXCEPT ![p] = n], mode' = [mode EXCEPT ![p] = "busy"],
         UNCHANGED <<gone, wronged>>,
         \A s \in Known : HasEnd(s)' <=> HasEnd(s), HasEnd(n)'
  PROVE  /\ Reached' /\ scope' \in [Panels -> Known' \cup {0}]
         /\ mode' \in [Panels -> {"idle", "recording", "busy"}]
<1> USE DEF IInv
<1>1. /\ mode \in [Panels -> {"idle", "recording", "busy"}] /\ scope \in [Panels -> Known \cup {0}]
      /\ 0 \notin Known
  BY TurnNumbers DEF Types
<1>2. /\ mode' \in [Panels -> {"idle", "recording", "busy"}]
      /\ scope'[p] = n /\ mode'[p] = "busy"
      /\ \A q \in Panels : q # p => scope'[q] = scope[q] /\ mode'[q] = mode[q]
  BY <1>1
<1>s. scope' \in [Panels -> Known' \cup {0}]
  BY <1>1
<1>3. \A s \in Known : HasEnd(s) => Panel(s) \in Panels /\ Panel(s) # p
  <2>1. \A s \in Known : Panel(s) \in Panels /\ s # 0
    BY TurnNumbers DEF TurnRecords, Panel
  <2> QED BY <2>1 DEF Reached
<1>4. \A s \in Known' : HasEnd(s)' =>
        scope'[Panel(s)'] = s /\ (Live(Panel(s))' => mode'[Panel(s)'] = "busy")
  <2> SUFFICES ASSUME NEW s \in Known', HasEnd(s)'
               PROVE  scope'[Panel(s)'] = s /\ (Live(Panel(s))' => mode'[Panel(s)'] = "busy")
    OBVIOUS
  <2>1. CASE s = n
    BY <2>1, <1>2 DEF Panel
  <2>2. CASE s \in Known
    <3>1. HasEnd(s) /\ Panel(s)' = Panel(s) /\ Panel(s) \in Panels /\ Panel(s) # p
      BY <2>2, <1>3 DEF Panel
    <3>2. scope[Panel(s)] = s /\ (Live(Panel(s)) => mode[Panel(s)] = "busy")
      BY <2>2, <3>1 DEF Reached
    <3> QED BY <3>1, <3>2, <1>2 DEF Live
  <2> QED BY <2>1, <2>2
<1>5. \A q \in Panels \ gone' :
        IF mode'[q] = "busy" THEN HasEnd(scope[q])' \/ scope'[q] \in wronged' ELSE scope'[q] = 0
  <2> SUFFICES ASSUME NEW q \in Panels \ gone
               PROVE  IF mode'[q] = "busy" THEN HasEnd(scope[q])' \/ scope'[q] \in wronged ELSE scope'[q] = 0
    OBVIOUS
  <2>1. CASE q = p
    <3>1. scope'[q] = n
      BY <2>1, <1>2
    <3> QED BY <3>1, <2>1, <1>2
  <2>2. CASE q # p
    <3>1. scope'[q] = scope[q] /\ mode'[q] = mode[q]
      BY <2>2, <1>2
    <3>2. HasEnd(scope[q]) => scope[q] \in Known
      BY DEF HasEnd
    <3>3. IF mode[q] = "busy" THEN HasEnd(scope[q]) \/ scope[q] \in wronged ELSE scope[q] = 0
      BY DEF Reached
    <3>4. PICK t : t = scope[q]
      OBVIOUS
    <3>5. t \in Known => (HasEnd(t)' <=> HasEnd(t))
      OBVIOUS
    <3>6. HasEnd(scope[q])' <=> HasEnd(t)'
      BY <3>1, <3>4
    <3> QED BY <3>1, <3>2, <3>3, <3>4, <3>5, <3>6
  <2> QED BY <2>1, <2>2
<1>6. \A q \in Panels : scope'[q] # 0 => Panel(scope[q])' = q
  <2> SUFFICES ASSUME NEW q \in Panels, scope'[q] # 0 PROVE turn'[scope'[q]].panel = q
    BY DEF Panel
  <2>1. CASE q = p
    <3>1. scope'[q] = n
      BY <2>1, <1>2
    <3> QED BY <3>1, <2>1
  <2>2. CASE q # p
    <3> PICK t : t = scope[q]
      OBVIOUS
    <3>1. scope'[q] = t /\ t \in Known /\ turn[t].panel = q
      BY <2>2, <1>1, <1>2 DEF Reached, Panel
    <3> QED BY <3>1
  <2> QED BY <2>1, <2>2
<1> QED BY <1>2, <1>s, <1>4, <1>5, <1>6 DEF Reached

\* The user's Send, or Stop Rec, posts a turn.
LEMMA StartSendStep ==
  ASSUME IInv, NEW p \in Panels, NEW spoken \in BOOLEAN, mode[p] \in {"idle", "recording"},
         StartSend(p, spoken)
  PROVE  IInv'
<1> USE DEF IInv
<1> PICK n : n = Len(turn) + 1
  OBVIOUS
<1> PICK r : r = [panel |-> p, message |-> 0, spoken |-> spoken]
  OBVIOUS
<1> PICK x : x = Item("send", n)
  OBVIOUS
<1>1. /\ Pumping /\ p \notin gone
      /\ Cardinality({s \in DOMAIN turn : turn[s].message = 0}) < MaxSends
      /\ turn' = Append(turn, r) /\ scope' = [scope EXCEPT ![p] = n]
      /\ mode' = [mode EXCEPT ![p] = "busy"] /\ queue' = Append(queue, x)
      /\ UNCHANGED <<gone, todo, open, before, current, cancelled, drain, peer, wronged, tools>>
  BY DEF StartSend, NewTurn, MayPumpVcl, Live
<1>2. UNCHANGED <<gone, todo, open, before, current, cancelled, drains, depth, captured, epilogues, fifo,
                  waiting, sent, started, dropped, raised, refused, wronged, tools>>
  BY <1>1 DEF drain, peer
<1>3. r \in TurnRecords
  BY TurnsAssumption DEF TurnRecords
<1>4. /\ turn' \in Seq(TurnRecords) /\ n \notin Known /\ n # 0 /\ n \in Nat
      /\ Known' = Known \cup {n} /\ turn'[n] = r /\ \A s \in Known : turn'[s] = turn[s]
  BY <1>1, <1>3, OneMoreTurn
<1>5. 0 \notin Known /\ Known \subseteq Nat
  BY TurnNumbers
<1>6. mode[p] # "busy" /\ scope[p] = 0
  BY <1>1 DEF Reached
<1>7. x \in Posts /\ x.do = "send" /\ x.turn = n /\ x.bound = current /\ x.bound \in Known \cup {0}
  <2>1. current \in Nat /\ current \in Known \cup {0}
    BY <1>5 DEF Types
  <2> QED BY <2>1, <1>4 DEF Item, Posts
<1>8. /\ queue' \in Seq(Posts) /\ ToSet(queue') = ToSet(queue) \cup {x}
      /\ \A a, b : Precedes(queue', a, b) <=> Precedes(queue, a, b) \/ (a \in ToSet(queue) /\ b = x)
  BY <1>1, <1>7, PutElements DEF Types
<1>9. \A a \in ToSet(queue) : a.turn # n
  BY <1>4 DEF Shapes
<1>10. ~OnStack(n) /\ ~Posted(n) /\ \A d \in drains : ~InDrain(d, n)
  <2>1. ~OnStack(n) /\ ~Posted(n)
    BY <1>4 DEF Shapes, OnStack, Posted
  <2>2. \A d \in drains : d \in Turns
    BY TurnCount DEF Types
  <2> QED BY <2>1, <2>2, <1>4 DEF Shapes, InDrain
<1>11. \A t : Posted(t)' <=> Posted(t) \/ t = n
  BY <1>7, <1>8 DEF Posted
<1>12. (\A t : OnStack(t)' <=> OnStack(t)) /\ (\A d, t : InDrain(d, t)' <=> InDrain(d, t))
  BY <1>2 DEF OnStack, InDrain
<1>13. (\A t \in Known : HasEnd(t)' <=> HasEnd(t)) /\ HasEnd(n)'
  BY <1>2, <1>4, <1>11, <1>12 DEF HasEnd
<1>14. Shapes'
  <2>0. Shapes
    OBVIOUS
  <2>1. \A a \in ToSet(todo') :
          /\ a.turn \in Known' \cup {0} /\ (a.op \in {"kick", "unskip"} <=> a.turn = 0)
          /\ a.op # "unskip" => a.back = <<>>
          /\ a.op = "stt" => turn'[a.turn].spoken
    <3> SUFFICES ASSUME NEW a \in ToSet(todo)
                 PROVE  /\ a.turn \in Known' \cup {0} /\ (a.op \in {"kick", "unskip"} <=> a.turn = 0)
                        /\ a.op # "unskip" => a.back = <<>>
                        /\ a.op = "stt" => turn'[a.turn].spoken
      BY <1>2
    <3>1. /\ a.turn \in Known \cup {0} /\ (a.op \in {"kick", "unskip"} <=> a.turn = 0)
          /\ a.op # "unskip" => a.back = <<>>
          /\ a.op = "stt" => turn[a.turn].spoken
      BY <2>0 DEF Shapes
    <3>2. a.op = "stt" => a.turn \in Known
      BY <3>1
    <3> QED BY <3>1, <3>2, <1>4
  <2>2. \A a \in ToSet(queue') :
          /\ a.turn \in Known' \cup {0} /\ a.bound \in Known' \cup {0}
          /\ a.do = "send" => a.turn # 0 /\ a.bound # a.turn
    <3> SUFFICES ASSUME NEW a \in ToSet(queue')
                 PROVE  /\ a.turn \in Known' \cup {0} /\ a.bound \in Known' \cup {0}
                        /\ a.do = "send" => a.turn # 0 /\ a.bound # a.turn
      OBVIOUS
    <3>1. CASE a = x
      BY <3>1, <1>4, <1>7
    <3>2. CASE a \in ToSet(queue)
      BY <3>2, <2>0, <1>4 DEF Shapes
    <3> QED BY <3>1, <3>2, <1>8
  <2>3. \A d \in Turns : \A a \in ToSet(epilogues'[d]) :
          a.op = "close" /\ a.turn \in Known' /\ a.back = <<>>
    BY <2>0, <1>2, <1>4 DEF Shapes
  <2>4. \A d \in Turns : d \notin drains' => epilogues'[d] = <<>>
    BY <2>0, <1>2 DEF Shapes
  <2> QED BY <2>1, <2>2, <2>3, <2>4 DEF Shapes
<1>15. OneEnd'
  <2>0. OneEnd
    OBVIOUS
  <2>1. \A a, b \in ToSet(queue') :
          Precedes(queue', a, b) /\ a.do = "send" /\ b.do = "send" => a.turn # b.turn
    <3>1. \A a, b : Precedes(queue, a, b) /\ a.do = "send" /\ b.do = "send" => a.turn # b.turn
      BY <2>0, ElementTypes DEF OneEnd
    <3> QED BY <3>1, <1>7, <1>8, <1>9
  <2>2. /\ \A a, b \in ToSet(todo') : Precedes(todo', a, b) /\ a.turn # 0 => a.turn # b.turn
        /\ \A d \in drains' : \A a, b \in ToSet(epilogues'[d]) :
             Precedes(epilogues'[d], a, b) => a.turn # b.turn
    BY <2>0, <1>2 DEF OneEnd
  <2>3. \A t \in Known' : ~(Posted(t)' /\ OnStack(t)')
    BY <2>0, <1>4, <1>10, <1>11, <1>12 DEF OneEnd
  <2>4. \A t \in Known' : \A d \in drains' : InDrain(d, t)' => ~Posted(t)' /\ ~OnStack(t)'
    BY <2>0, <1>2, <1>4, <1>10, <1>11, <1>12 DEF OneEnd
  <2>5. \A t \in Known' : \A d, e \in drains' : InDrain(d, t)' /\ InDrain(e, t)' => d = e
    BY <2>0, <1>2, <1>4, <1>10, <1>12 DEF OneEnd
  <2> QED BY <2>1, <2>2, <2>3, <2>4, <2>5 DEF OneEnd
<1>16. Sessions'
  BY <1>2, <1>12 DEF Sessions, CurrentIsOpen
<1>17. /\ Reached' /\ scope' \in [Panels -> Known' \cup {0}]
       /\ mode' \in [Panels -> {"idle", "recording", "busy"}]
  <2>1. turn'[n].panel = p
    BY <1>4
  <2> QED BY <2>1, <1>1, <1>2, <1>4, <1>6, <1>13, NewTurnReach
<1>18. OneTurnEach'
  <2>0. OneTurnEach
    OBVIOUS
  <2> DEFINE A == {s \in DOMAIN turn : turn[s].message = 0}
  <2>1. {s \in DOMAIN turn' : turn'[s].message = 0} = A \cup {n}
    BY <1>4 DEF Known
  <2>2. IsFiniteSet(A) /\ n \notin A
    BY <1>4, TurnNumbers, FS_Subset DEF Known
  <2>3. Cardinality(A \cup {n}) = Cardinality(A) + 1 /\ Cardinality(A) \in Nat
    BY <2>2, FS_AddElement, FS_CardinalityType
  <2>4. Cardinality({s \in DOMAIN turn' : turn'[s].message = 0}) <= MaxSends
    <3>1. Cardinality(A) < MaxSends
      BY <1>1
    <3>2. Cardinality(A \cup {n}) <= MaxSends
      <4> HIDE DEF A
      <4> QED BY <3>1, <2>3, TurnsAssumption
    <3> HIDE DEF A
    <3> QED BY <2>1, <3>2
  <2>5. turn'[n].message = 0
    BY <1>4
  <2>6. \A s \in Known' : turn'[s].message <= sent'
    BY <2>0, <2>5, <1>2, <1>4 DEF OneTurnEach, Types
  <2>7. \A s, t \in Known' : turn'[s].message = turn'[t].message /\ turn'[s].message # 0 => s = t
    BY <2>0, <2>5, <1>4 DEF OneTurnEach
  <2>8. /\ \A m \in ToSet(started') : \E s \in Known' : turn'[s].message = m
        /\ \A s \in Known' : turn'[s].message # 0 => turn'[s].message \in ToSet(started')
        /\ IsDistinct(started')
    BY <2>0, <2>5, <1>2, <1>4 DEF OneTurnEach
  <2> QED BY <2>4, <2>6, <2>7, <2>8 DEF OneTurnEach
<1>19. StartedInOrder'
  <2>1. \A m, q : m # 0 => (On(m, q)' <=> On(m, q))
    BY <1>4 DEF On, Panel
  <2>2. \A m \in ToSet(started) : m # 0
    BY ElementTypes, TurnsAssumption DEF Messages
  <2>3. StartedInOrder
    OBVIOUS
  <2> QED BY <2>1, <2>2, <2>3, <1>2 DEF StartedInOrder
<1>20. Accounted' /\ Ordered'
  BY <1>2, MessagesKept
<1>21. Aside'
  <2>1. \A a \in ToSet(todo') : a.op # "unskip" /\ BackSet(a) = {}
    BY <1>1, <1>2, PumpingIsClear
  <2> QED BY <2>1 DEF Aside, BackSet
<1>22. Remembered'
  <2>0. \A s : HasEnd(s) => s \in Known
    BY DEF HasEnd
  <2>1. \A q \in Panels : q # p => scope'[q] = scope[q]
    BY <1>1 DEF Types
  <2>2. scope[p] \notin wronged /\ ~HasEnd(scope[p])
    BY <2>0, <1>5, <1>6 DEF Types
  <2>3. ASSUME drains' = {} /\ (\A a \in ToSet(todo') : a.op = "unskip"),
               NEW q \in Panels, NEW m \in waiting'[q]
        PROVE  q \in refused' \/ m \in raised' \/ scope'[q] \in wronged' \/ HasEnd(scope[q])'
    <3>1. q \in refused \/ m \in raised \/ scope[q] \in wronged \/ HasEnd(scope[q])
      BY <2>3, <1>2 DEF Remembered
    <3>2. CASE q = p
      BY <3>1, <3>2, <2>2, <1>2
    <3>3. CASE q # p
      <4>1. scope'[q] = scope[q]
        BY <3>3, <2>1
      <4> PICK t : t = scope[q]
        OBVIOUS
      <4>2. HasEnd(t) => HasEnd(t)'
        BY <2>0, <1>13
      <4>3. HasEnd(scope[q])' <=> HasEnd(t)'
        BY <4>1
      <4> QED BY <3>1, <4>1, <4>2, <4>3, <1>2
    <3> QED BY <3>2, <3>3
  <2> QED BY <2>3 DEF Remembered
<1>23. Types'
  <2>1. before' \in [Turns -> Known' \cup {0}]
    BY <1>2, <1>4 DEF Types
  <2> QED BY <2>1, <1>2, <1>4, <1>8, <1>17 DEF Types
<1> QED BY <1>14, <1>15, <1>16, <1>17, <1>18, <1>19, <1>20, <1>21, <1>22, <1>23

-----------------------------------------------------------------------------
(* A turn is closed.                                                       *)

\* The close cancels the turn's scope when its body raised.
LEMMA CloseCancels ==
  ASSUME IInv, NEW s \in Known, turn' = turn,
         Cancel({s} \ cancelled) \/ UNCHANGED <<cancelled, queue, wronged>>
  PROVE  /\ queue' \in Seq(Posts) /\ ToSet(queue') \subseteq ToSet(queue)
         /\ \A x, y : Precedes(queue', x, y) => Precedes(queue, x, y)
         /\ wronged \subseteq wronged' /\ wronged' \subseteq Known /\ cancelled' \subseteq Known
         /\ \A x \in ToSet(queue) : x.do = "send" => x \in ToSet(queue') \/ x.turn \in wronged'
<1> USE DEF IInv
<1>1. CASE Cancel({s} \ cancelled)
  <2> PICK S : S = {s} \ cancelled
    OBVIOUS
  <2>1. S \in SUBSET Known /\ \A t \in S : t = s
    OBVIOUS
  <2>2. Cancel(S)
    BY <1>1
  <2>3. /\ queue' \in Seq(Posts) /\ ToSet(queue') = {x \in ToSet(queue) : x.bound \notin S}
        /\ \A x, y : Precedes(queue', x, y) => Precedes(queue, x, y)
        /\ wronged \subseteq wronged' /\ wronged' \subseteq Known /\ cancelled' \subseteq Known
        /\ \A x \in ToSet(queue) : x.bound \in S /\ x.turn \notin S /\ x.turn # 0 => x.turn \in wronged'
    BY <2>1, <2>2, CancelLaws
  <2>4. \A x \in ToSet(queue) : x.do = "send" => x.turn # 0 /\ x.bound # x.turn
    BY DEF Shapes
  <2> QED BY <2>1, <2>3, <2>4
<1>2. CASE UNCHANGED <<cancelled, queue, wronged>>
  BY <1>2 DEF Types
<1> QED BY <1>1, <1>2

\* A step in the place of the top of the stack.
LEMMA SwapTop ==
  ASSUME Types, todo # <<>>, NEW k \in StackSteps, todo' = <<k>> \o Tail(todo)
  PROVE  /\ todo' \in Seq(StackSteps) /\ ToSet(todo') = {k} \cup ToSet(Tail(todo))
         /\ \A a, b : Precedes(todo', a, b) <=>
              Precedes(Tail(todo), a, b) \/ (a = k /\ b \in ToSet(Tail(todo)))
<1> DEFINE q == <<k>>  r == Tail(todo)
<1>1. /\ q \in Seq(StackSteps) /\ ToSet(q) = {k} /\ \A a, b : ~Precedes(q, a, b)
  BY FewElements
<1>2. r \in Seq(StackSteps)
  BY StackTop
<1>3. todo' = q \o r
  OBVIOUS
<1> HIDE DEF q, r
<1>4. /\ q \o r \in Seq(StackSteps) /\ ToSet(q \o r) = ToSet(q) \cup ToSet(r)
      /\ \A a, b : Precedes(q \o r, a, b) <=>
           Precedes(q, a, b) \/ Precedes(r, a, b) \/ (a \in ToSet(q) /\ b \in ToSet(r))
  BY <1>1, <1>2, PushElements
<1>5. /\ todo' \in Seq(StackSteps) /\ ToSet(todo') = {k} \cup ToSet(r)
      /\ \A a, b : Precedes(todo', a, b) <=> Precedes(r, a, b) \/ (a = k /\ b \in ToSet(r))
  BY <1>1, <1>3, <1>4
<1> QED BY <1>5 DEF r

\* The session is left, the button comes back, and a kick follows.
LEMMA CloseStep ==
  ASSUME IInv, NEW s \in DOMAIN turn, Close(s)
  PROVE  IInv'
<1> USE DEF IInv
<1>1. todo # <<>> /\ Head(todo).turn = s /\ s \in Known
  BY AtTop, "none" \notin {"close"} DEF Close, Known
<1> PICK p : p = Panel(s)
  OBVIOUS
<1>2. /\ p \in Panels /\ scope[p] = s /\ s # 0 /\ s \in Nat /\ ~Posted(s)
      /\ \A d \in drains : ~InDrain(d, s)
  BY <1>1, TopIsReached
<1> PICK k : k = Step("kick", 0, FALSE)
  OBVIOUS
<1>3. k \in StackSteps /\ k.op = "kick" /\ k.turn = 0 /\ k.back = <<>>
  BY KickFields
<1>4. /\ Cancel({s} \ cancelled) \/ UNCHANGED <<cancelled, queue, wronged>>
      /\ open' = open \ {s} /\ current' = Restored(s)
      /\ IF p \notin gone
           THEN /\ scope' = [scope EXCEPT ![p] = 0]
                /\ \E m \in Rest(s) : mode' = [mode EXCEPT ![p] = m]
           ELSE UNCHANGED <<scope, mode>>
      /\ todo' = <<k>> \o Tail(todo)
      /\ UNCHANGED <<gone, turn, before, drain, peer, tools>>
  BY DEF Close, Then, Live
<1>5. /\ UNCHANGED <<gone, turn, before, drains, depth, captured, epilogues, fifo, waiting, sent,
                     started, dropped, raised, refused, tools>>
      /\ Known' = Known /\ 0 \notin Known
  BY <1>4, TurnNumbers DEF drain, peer, Known
<1>6. /\ queue' \in Seq(Posts) /\ ToSet(queue') \subseteq ToSet(queue)
      /\ \A x, y : Precedes(queue', x, y) => Precedes(queue, x, y)
      /\ wronged \subseteq wronged' /\ wronged' \subseteq Known /\ cancelled' \subseteq Known
      /\ \A x \in ToSet(queue) : x.do = "send" => x \in ToSet(queue') \/ x.turn \in wronged'
  BY <1>1, <1>4, CloseCancels
<1>7. /\ scope' \in [Panels -> Known \cup {0}] /\ mode' \in [Panels -> {"idle", "recording", "busy"}]
      /\ \A q \in Panels : q # p => scope'[q] = scope[q] /\ mode'[q] = mode[q]
      /\ p \notin gone => scope'[p] = 0 /\ mode'[p] \in {"idle", "recording"}
      /\ p \in gone => scope'[p] = scope[p] /\ mode'[p] = mode[p]
  <2>1. Rest(s) \subseteq {"idle", "recording"}
    BY DEF Rest
  <2>2. CASE p \notin gone
    <3> PICK m \in {"idle", "recording"} : mode' = [mode EXCEPT ![p] = m]
      BY <2>1, <2>2, <1>4
    <3>1. scope' = [scope EXCEPT ![p] = 0]
      BY <2>2, <1>4
    <3> QED BY <3>1, <2>2, <1>2 DEF Types
  <2>3. CASE p \in gone
    BY <2>3, <1>4 DEF Types
  <2> QED BY <2>2, <2>3
<1> PICK h : h = Head(todo)
  OBVIOUS
<1> PICK r : r = Tail(todo)
  OBVIOUS
<1>8. /\ h \in StackSteps /\ r \in Seq(StackSteps) /\ ToSet(todo) = {h} \cup ToSet(r)
      /\ \A a, b : Precedes(todo, a, b) <=> Precedes(r, a, b) \/ (a = h /\ b \in ToSet(r))
      /\ \A a, b : Precedes(r, a, b) => a \in ToSet(r) /\ b \in ToSet(r)
  BY <1>1, StackTop
<1>9. /\ todo' \in Seq(StackSteps) /\ ToSet(todo') = {k} \cup ToSet(r)
      /\ \A a, b : Precedes(todo', a, b) <=> Precedes(r, a, b) \/ (a = k /\ b \in ToSet(r))
  <2>1. todo' = <<k>> \o Tail(todo)
    BY <1>4
  <2> QED BY <1>1, <1>3, <2>1, SwapTop
<1>10. h.turn = s /\ h.op \notin {"kick", "unskip"} /\ h.back = <<>>
  BY <1>1, <1>2, <1>8 DEF Shapes
<1>11. \A b \in ToSet(r) : b.turn # s
  BY <1>2, <1>8, <1>10 DEF OneEnd
<1>12. \A t \in Known : OnStack(t)' <=> OnStack(t) /\ t # s
  BY <1>3, <1>5, <1>8, <1>9, <1>10, <1>11 DEF OnStack
<1>13. /\ \A t : Posted(t)' => Posted(t)
       /\ \A t \in Known : Posted(t) => Posted(t)' \/ t \in wronged'
  BY <1>6 DEF Posted
<1>14. \A d, t : InDrain(d, t)' <=> InDrain(d, t)
  BY <1>5 DEF InDrain
<1>15. \A t : HasEnd(t)' => t \in Known /\ HasEnd(t) /\ t # s
  BY <1>2, <1>5, <1>12, <1>13, <1>14 DEF HasEnd
<1>16. \A t : HasEnd(t) /\ t # s => t \in Known /\ (HasEnd(t)' \/ t \in wronged')
  BY <1>5, <1>12, <1>13, <1>14 DEF HasEnd
<1>17. Shapes'
  <2>0. Shapes
    OBVIOUS
  <2>1. \A x \in ToSet(todo') :
          /\ x.turn \in Known \cup {0} /\ (x.op \in {"kick", "unskip"} <=> x.turn = 0)
          /\ x.op # "unskip" => x.back = <<>>
          /\ x.op = "stt" => turn[x.turn].spoken
    <3> SUFFICES ASSUME NEW x \in ToSet(todo')
                 PROVE  /\ x.turn \in Known \cup {0} /\ (x.op \in {"kick", "unskip"} <=> x.turn = 0)
                        /\ x.op # "unskip" => x.back = <<>>
                        /\ x.op = "stt" => turn[x.turn].spoken
      OBVIOUS
    <3>1. CASE x = k
      BY <3>1, <1>3
    <3>2. CASE x \in ToSet(r)
      BY <3>2, <2>0, <1>8 DEF Shapes
    <3> QED BY <3>1, <3>2, <1>9
  <2>2. \A x \in ToSet(queue') :
          /\ x.turn \in Known \cup {0} /\ x.bound \in Known \cup {0}
          /\ x.do = "send" => x.turn # 0 /\ x.bound # x.turn
    BY <2>0, <1>6 DEF Shapes
  <2> QED BY <2>0, <2>1, <2>2, <1>5 DEF Shapes
<1>18. OneEnd'
  <2>0. OneEnd
    OBVIOUS
  <2>1. \A a, b \in ToSet(todo') : Precedes(todo', a, b) /\ a.turn # 0 => a.turn # b.turn
    <3>1. \A a, b : Precedes(todo, a, b) /\ a.turn # 0 => a.turn # b.turn
      BY <2>0, ElementTypes DEF OneEnd
    <3> QED BY <3>1, <1>3, <1>8, <1>9
  <2>2. \A a, b \in ToSet(queue') :
          Precedes(queue', a, b) /\ a.do = "send" /\ b.do = "send" => a.turn # b.turn
    BY <2>0, <1>6 DEF OneEnd
  <2>3. \A d \in drains' : \A a, b \in ToSet(epilogues'[d]) :
          Precedes(epilogues'[d], a, b) => a.turn # b.turn
    BY <2>0, <1>5 DEF OneEnd
  <2>4. /\ \A t \in Known' : ~(Posted(t)' /\ OnStack(t)')
        /\ \A t \in Known' : \A d \in drains' : InDrain(d, t)' => ~Posted(t)' /\ ~OnStack(t)'
        /\ \A t \in Known' : \A d, e \in drains' : InDrain(d, t)' /\ InDrain(e, t)' => d = e
    BY <2>0, <1>5, <1>12, <1>13, <1>14 DEF OneEnd
  <2> QED BY <2>1, <2>2, <2>3, <2>4 DEF OneEnd
<1>19. Sessions'
  <2>1. \A t \in open' : OnStack(t)' \/ \E d \in drains' : InDrain(d, t)'
    BY <1>4, <1>5, <1>12, <1>14 DEF Sessions, Types
  <2>2. \A t \in drains' : InDrain(t, t)'
    BY <1>5, <1>14 DEF Sessions
  <2>3. CurrentIsOpen'
    BY <1>4 DEF Sessions, CurrentIsOpen, Restored
  <2> QED BY <2>1, <2>2, <2>3, <1>5 DEF Sessions
<1>20. Reached'
  <2>1. \A t \in Known : HasEnd(t) /\ t # s => Panel(t) \in Panels /\ Panel(t) # p
    <3>1. \A t \in Known : Panel(t) \in Panels
      BY TurnNumbers DEF TurnRecords, Panel
    <3> QED BY <3>1, <1>2 DEF Reached
  <2>2. \A t \in Known' : HasEnd(t)' =>
          scope'[Panel(t)'] = t /\ (Live(Panel(t))' => mode'[Panel(t)'] = "busy")
    <3> SUFFICES ASSUME NEW t \in Known, HasEnd(t)'
                 PROVE  scope'[Panel(t)'] = t /\ (Live(Panel(t))' => mode'[Panel(t)'] = "busy")
      BY <1>5
    <3>1. HasEnd(t) /\ Panel(t) \in Panels /\ Panel(t) # p /\ Panel(t)' = Panel(t)
      BY <2>1, <1>5, <1>15 DEF Panel
    <3>2. scope[Panel(t)] = t /\ (Live(Panel(t)) => mode[Panel(t)] = "busy")
      BY <3>1 DEF Reached
    <3> QED BY <3>1, <3>2, <1>5, <1>7 DEF Live
  <2>3. \A q \in Panels \ gone' :
          IF mode'[q] = "busy" THEN HasEnd(scope[q])' \/ scope'[q] \in wronged' ELSE scope'[q] = 0
    <3> SUFFICES ASSUME NEW q \in Panels \ gone
                 PROVE  IF mode'[q] = "busy" THEN HasEnd(scope[q])' \/ scope'[q] \in wronged' ELSE scope'[q] = 0
      BY <1>5
    <3>1. CASE q = p
      BY <3>1, <1>7
    <3>2. CASE q # p
      <4> PICK t : t = scope[q]
        OBVIOUS
      <4>1. scope'[q] = t /\ mode'[q] = mode[q]
        BY <3>2, <1>7
      <4>2. IF mode[q] = "busy" THEN HasEnd(t) \/ t \in wronged ELSE t = 0
        BY DEF Reached
      <4>3. t # s
        <5>1. t # 0 => Panel(t) = q
          BY DEF Reached
        <5> QED BY <5>1, <3>2, <1>2
      <4>4. HasEnd(scope[q])' <=> HasEnd(t)'
        BY <4>1
      <4> QED BY <4>1, <4>2, <4>3, <4>4, <1>6, <1>16
    <3> QED BY <3>1, <3>2
  <2>4. \A q \in Panels : scope'[q] # 0 => Panel(scope[q])' = q
    <3> SUFFICES ASSUME NEW q \in Panels, scope'[q] # 0 PROVE turn[scope'[q]].panel = q
      BY <1>5 DEF Panel
    <3>1. scope'[q] = scope[q]
      BY <1>7
    <3> QED BY <3>1 DEF Reached, Panel
  <2> QED BY <2>2, <2>3, <2>4 DEF Reached
<1>21. OneTurnEach' /\ StartedInOrder'
  BY <1>5, TurnsKept, StartsKept
<1>22. Accounted' /\ Ordered'
  <2>1. /\ \A x \in ToSet(todo') : x.back # <<>> => x \in ToSet(todo)
        /\ \A x \in ToSet(todo) : x.back # <<>> => x \in ToSet(todo')
        /\ \A a, b : Precedes(todo', a, b) /\ a.back # <<>> /\ b.back # <<>> => Precedes(todo, a, b)
    BY <1>3, <1>8, <1>9, <1>10
  <2> QED BY <2>1, <1>5, MessagesKept
<1>23. Aside'
  <2>0. Aside
    OBVIOUS
  <2>1. ASSUME NEW a \in ToSet(todo'), NEW b \in ToSet(todo'),
               Precedes(todo', a, b), b.op = "unskip", a.turn # 0
        PROVE  /\ ~turn[a.turn].spoken
               /\ \A e \in BackSet(b) : e.message \in raised \/ e.to # Panel(a.turn)
    <3>1. Precedes(todo, a, b) /\ a \in ToSet(todo) /\ b \in ToSet(todo)
      BY <2>1, <1>3, <1>8, <1>9
    <3> QED BY <2>0, <2>1, <3>1 DEF Aside
  <2>2. ASSUME NEW x \in ToSet(todo'), NEW e \in BackSet(x), e.message \notin raised
        PROVE  ~Free(e.to)' /\ (mode'[e.to] = "recording" => e.to \in refused)
    <3>1. x \in ToSet(r) /\ x.op = "unskip"
      <4>1. x # k /\ x.back # <<>>
        BY <2>2, <1>3, NothingAside
      <4>2. x \in ToSet(r)
        BY <4>1, <1>9
      <4> QED BY <4>1, <4>2, <1>8 DEF Shapes
    <3>2. e.to # p
      <4>1. Precedes(todo, h, x) /\ h \in ToSet(todo) /\ x \in ToSet(todo)
        BY <3>1, <1>8
      <4> QED BY <4>1, <3>1, <2>0, <2>2, <1>2, <1>10 DEF Aside
    <3>3. e.to \in Panels
      BY <3>1, <1>8, ElementTypes DEF Entries
    <3>4. ~Free(e.to) /\ (mode[e.to] = "recording" => e.to \in refused)
      BY <2>0, <2>2, <3>1, <1>8 DEF Aside
    <3> QED BY <3>2, <3>3, <3>4, <1>7 DEF Free
  <2> QED BY <2>1, <2>2, <1>5 DEF Aside, BackSet, Panel
<1>24. Remembered'
  <2>1. k \in ToSet(todo') /\ k.op # "unskip"
    BY <1>3, <1>9
  <2> QED BY <2>1 DEF Remembered
<1>25. Types'
  <2>1. open' \subseteq Known /\ current' \in Known \cup {0}
    BY <1>4, <1>5, <1>19 DEF Types, Sessions, CurrentIsOpen
  <2> QED BY <2>1, <1>5, <1>6, <1>7, <1>9 DEF Types
<1> QED BY <1>17, <1>18, <1>19, <1>20, <1>21, <1>22, <1>23, <1>24, <1>25

\* A drain ends: the turns that wait for it are closed next.
LEMMA DrainEndsStep ==
  ASSUME IInv, NEW s \in DOMAIN turn, DrainEnds(s)
  PROVE  IInv'
<1> USE DEF IInv
<1> PICK E : E = epilogues[s]
  OBVIOUS
<1> PICK x : x = Item("kick", 0)
  OBVIOUS
<1>1. /\ Pumping /\ s \in drains /\ drains' = drains \ {s} /\ depth' = depth - 1
      /\ captured' = IF captured = s THEN 0 ELSE captured
      /\ queue' = queue \/ queue' = Append(queue, x)
      /\ epilogues' = [epilogues EXCEPT ![s] = <<>>]
      /\ todo' = E \o todo
      /\ UNCHANGED <<button, session, peer, wronged, tools>>
  BY DEF DrainEnds, MayPumpVcl, Nest
<1>2. /\ UNCHANGED <<mode, gone, scope, turn, open, before, current, cancelled, fifo, waiting, sent,
                     started, dropped, raised, refused, wronged, tools>>
      /\ Known' = Known /\ 0 \notin Known /\ Known \subseteq Nat
  BY <1>1, TurnNumbers DEF button, session, peer, Known
<1>3. s \in Turns /\ s \in Known /\ drains \subseteq Turns /\ epilogues \in [Turns -> Seq(StackSteps)]
  BY <1>1, TurnCount DEF Types
<1>4. E \in Seq(StackSteps)
  BY <1>3
<1>5. /\ epilogues' \in [Turns -> Seq(StackSteps)] /\ epilogues'[s] = <<>>
      /\ \A d \in Turns : d # s => epilogues'[d] = epilogues[d]
  <2>1. <<>> \in Seq(StackSteps)
    BY EmptySeq
  <2> QED BY <2>1, <1>1, <1>3
<1>6. /\ todo' \in Seq(StackSteps) /\ ToSet(todo') = ToSet(E) \cup ToSet(todo)
      /\ \A a, b : Precedes(todo', a, b) <=>
           Precedes(E, a, b) \/ Precedes(todo, a, b) \/ (a \in ToSet(E) /\ b \in ToSet(todo))
      /\ \A a, b : Precedes(E, a, b) => a \in ToSet(E) /\ b \in ToSet(E)
      /\ \A a, b : Precedes(todo, a, b) => a \in ToSet(todo) /\ b \in ToSet(todo)
  <2>1. todo \in Seq(StackSteps) /\ todo' = E \o todo
    BY <1>1 DEF Types
  <2>2. /\ E \o todo \in Seq(StackSteps) /\ ToSet(E \o todo) = ToSet(E) \cup ToSet(todo)
        /\ \A a, b : Precedes(E \o todo, a, b) <=>
             Precedes(E, a, b) \/ Precedes(todo, a, b) \/ (a \in ToSet(E) /\ b \in ToSet(todo))
    BY <2>1, <1>4, PushElements
  <2>3. /\ \A a, b : Precedes(E, a, b) => a \in ToSet(E) /\ b \in ToSet(E)
        /\ \A a, b : Precedes(todo, a, b) => a \in ToSet(todo) /\ b \in ToSet(todo)
    BY <2>1, <1>4, ElementsOf
  <2> QED BY <2>1, <2>2, <2>3
<1>7. x \in Posts /\ x.do = "kick" /\ x.turn = 0 /\ x.bound \in Known \cup {0}
  <2>1. current \in Known \cup {0} /\ current \in Nat
    BY <1>2 DEF Types
  <2> QED BY <2>1 DEF Item, Posts
<1>8. /\ queue' \in Seq(Posts) /\ ToSet(queue) \subseteq ToSet(queue')
      /\ ToSet(queue') \subseteq ToSet(queue) \cup {x}
      /\ \A a, b : Precedes(queue', a, b) => Precedes(queue, a, b) \/ b = x
  <2>1. CASE queue' = queue
    BY <2>1 DEF Types
  <2>2. CASE queue' = Append(queue, x)
    BY <2>2, <1>7, PutElements DEF Types
  <2> QED BY <2>1, <2>2, <1>1
<1>9. /\ \A a \in ToSet(E) : a.op = "close" /\ a.turn \in Known /\ a.back = <<>> /\ a.turn # 0
      /\ \E a \in ToSet(E) : a.turn = s
  <2>1. InDrain(s, s)
    BY <1>1 DEF Sessions
  <2>2. \A a \in ToSet(E) : a.op = "close" /\ a.turn \in Known /\ a.back = <<>>
    BY <1>3 DEF Shapes
  <2> QED BY <2>1, <2>2, <1>2 DEF InDrain
<1>10. \A a \in ToSet(todo') : a.op # "unskip" /\ a.back = <<>>
  BY <1>1, <1>6, <1>9, PumpingIsClear
<1>11. \A t : InDrain(s, t) <=> \E a \in ToSet(E) : a.turn = t
  BY <1>1 DEF InDrain
<1>12. \A t : OnStack(t)' <=> OnStack(t) \/ InDrain(s, t)
  BY <1>6, <1>11 DEF OnStack
<1>13. \A d, t : InDrain(d, t)' <=> InDrain(d, t) /\ d # s
  BY <1>1, <1>3, <1>5 DEF InDrain
<1>14. \A t : Posted(t)' <=> Posted(t)
  BY <1>7, <1>8 DEF Posted
<1>i. \A d, t : InDrain(d, t) => d \in drains
  BY DEF InDrain
<1>15. \A t : HasEnd(t)' <=> HasEnd(t)
  <2>1. \A t : OnStack(t)' \/ (\E d \in drains' : InDrain(d, t)')
                 <=> OnStack(t) \/ (\E d \in drains : InDrain(d, t))
    BY <1>1, <1>12, <1>13, <1>i
  <2> QED BY <2>1, <1>2, <1>14 DEF HasEnd
<1>16. Shapes'
  <2>0. Shapes
    OBVIOUS
  <2>1. \A a \in ToSet(todo') :
          /\ a.turn \in Known \cup {0} /\ (a.op \in {"kick", "unskip"} <=> a.turn = 0)
          /\ a.op # "unskip" => a.back = <<>>
          /\ a.op = "stt" => turn[a.turn].spoken
    <3> SUFFICES ASSUME NEW a \in ToSet(todo')
                 PROVE  /\ a.turn \in Known \cup {0} /\ (a.op \in {"kick", "unskip"} <=> a.turn = 0)
                        /\ a.op # "unskip" => a.back = <<>>
                        /\ a.op = "stt" => turn[a.turn].spoken
      OBVIOUS
    <3>1. CASE a \in ToSet(E)
      BY <3>1, <1>9
    <3>2. CASE a \in ToSet(todo)
      BY <3>2, <2>0 DEF Shapes
    <3> QED BY <3>1, <3>2, <1>6
  <2>2. \A a \in ToSet(queue') :
          /\ a.turn \in Known \cup {0} /\ a.bound \in Known \cup {0}
          /\ a.do = "send" => a.turn # 0 /\ a.bound # a.turn
    <3> SUFFICES ASSUME NEW a \in ToSet(queue')
                 PROVE  /\ a.turn \in Known \cup {0} /\ a.bound \in Known \cup {0}
                        /\ a.do = "send" => a.turn # 0 /\ a.bound # a.turn
      OBVIOUS
    <3>1. CASE a = x
      BY <3>1, <1>7
    <3>2. CASE a \in ToSet(queue)
      BY <3>2, <2>0 DEF Shapes
    <3> QED BY <3>1, <3>2, <1>8
  <2>3. \A d \in Turns : \A a \in ToSet(epilogues'[d]) :
          a.op = "close" /\ a.turn \in Known /\ a.back = <<>>
    <3>1. ToSet(epilogues'[s]) = {}
      BY <1>4, <1>5, FewElements, <1>9
    <3> QED BY <3>1, <2>0, <1>5 DEF Shapes
  <2>4. \A d \in Turns : d \notin drains' => epilogues'[d] = <<>>
    BY <2>0, <1>1, <1>5 DEF Shapes
  <2> QED BY <2>1, <2>2, <2>3, <2>4, <1>2 DEF Shapes
<1>17. OneEnd'
  <2>0. OneEnd
    OBVIOUS
  <2>1. ASSUME NEW a, NEW b, Precedes(todo', a, b), a.turn # 0 PROVE a.turn # b.turn
    <3>1. CASE Precedes(E, a, b)
      BY <3>1, <2>0, <1>1, <1>6 DEF OneEnd
    <3>2. CASE Precedes(todo, a, b)
      BY <3>2, <2>0, <2>1, <1>6 DEF OneEnd
    <3>3. CASE a \in ToSet(E) /\ b \in ToSet(todo)
      <4>1. InDrain(s, a.turn) /\ a.turn \in Known
        BY <3>3, <1>9, <1>11
      <4>2. ~OnStack(a.turn)
        BY <4>1, <2>0, <1>1 DEF OneEnd
      <4> QED BY <4>2, <3>3 DEF OnStack
    <3> QED BY <3>1, <3>2, <3>3, <2>1, <1>6
  <2>2. \A a, b \in ToSet(queue') :
          Precedes(queue', a, b) /\ a.do = "send" /\ b.do = "send" => a.turn # b.turn
    <3>1. \A a, b : Precedes(queue, a, b) /\ a.do = "send" /\ b.do = "send" => a.turn # b.turn
      BY <2>0, ElementTypes DEF OneEnd
    <3> QED BY <3>1, <1>7, <1>8
  <2>3. ASSUME NEW d \in drains', NEW a, NEW b, Precedes(epilogues'[d], a, b) PROVE a.turn # b.turn
    <3>1. d \in drains /\ epilogues'[d] = epilogues[d] /\ epilogues[d] \in Seq(StackSteps)
      BY <1>1, <1>3, <1>5
    <3>2. a \in ToSet(epilogues[d]) /\ b \in ToSet(epilogues[d]) /\ Precedes(epilogues[d], a, b)
      BY <2>3, <3>1, ElementsOf
    <3> QED BY <3>1, <3>2, <2>0 DEF OneEnd
  <2>4. \A t \in Known' : ~(Posted(t)' /\ OnStack(t)')
    BY <2>0, <1>1, <1>2, <1>12, <1>14 DEF OneEnd
  <2>5. \A t \in Known' : \A d \in drains' : InDrain(d, t)' => ~Posted(t)' /\ ~OnStack(t)'
    BY <2>0, <1>1, <1>2, <1>12, <1>13, <1>14 DEF OneEnd
  <2>6. \A t \in Known' : \A d, e \in drains' : InDrain(d, t)' /\ InDrain(e, t)' => d = e
    BY <2>0, <1>1, <1>2, <1>13 DEF OneEnd
  <2> QED BY <2>1, <2>2, <2>3, <2>4, <2>5, <2>6 DEF OneEnd
<1>18. Sessions'
  <2>0. Sessions
    OBVIOUS
  <2>1. \A t \in open' : OnStack(t)' \/ \E d \in drains' : InDrain(d, t)'
    <3>1. \A t \in open : OnStack(t) \/ \E d \in drains : InDrain(d, t)
      BY <2>0 DEF Sessions
    <3> QED BY <3>1, <1>1, <1>2, <1>12, <1>13
  <2>2. \A t \in drains' : InDrain(t, t)'
    BY <2>0, <1>1, <1>13 DEF Sessions
  <2>3. depth' = Cardinality(drains')
    <3>1. IsFiniteSet(drains)
      BY TurnNumbers, FS_Subset DEF Types
    <3> QED BY <2>0, <3>1, <1>1, FS_RemoveElement DEF Sessions
  <2>4. captured' \in drains' \cup {0}
    BY <2>0, <1>1 DEF Sessions
  <2>5. CurrentIsOpen'
    BY <2>0, <1>2 DEF Sessions, CurrentIsOpen
  <2> QED BY <2>1, <2>2, <2>3, <2>4, <2>5 DEF Sessions
<1>19. Reached'
  BY <1>2, <1>15, ReachKept
<1>20. OneTurnEach' /\ StartedInOrder'
  BY <1>2, TurnsKept, StartsKept
<1>21. Accounted' /\ Ordered'
  <2>1. \A a \in ToSet(todo) : a.back = <<>>
    BY <1>1, PumpingIsClear
  <2>2. \A a, b : Precedes(todo', a, b) => a \in ToSet(todo')
    BY <1>6
  <2> QED BY <2>1, <2>2, <1>2, <1>10, MessagesKept
<1>22. Aside'
  <2>1. \A a \in ToSet(todo') : a.op # "unskip" /\ BackSet(a) = {}
    BY <1>10, NothingAside
  <2> QED BY <2>1 DEF Aside, BackSet
<1>23. Remembered'
  <2>1. \E a \in ToSet(todo') : a.op # "unskip"
    BY <1>6, <1>9, <1>10
  <2> QED BY <2>1 DEF Remembered
<1>24. Types'
  BY <1>1, <1>2, <1>5, <1>6, <1>8 DEF Types
<1> QED BY <1>16, <1>17, <1>18, <1>19, <1>20, <1>21, <1>22, <1>23, <1>24

-----------------------------------------------------------------------------
(* Kicks.                                                                  *)

\* A step that is no turn's leaves the stack.
LEMMA PopStep ==
  ASSUME IInv, todo # <<>>, Head(todo).turn = 0, todo' = Tail(todo),
         UNCHANGED <<mode, gone, scope, turn, open, current, drains, depth, captured, epilogues, queue,
                     sent, started, waiting, wronged>>,
         raised \subseteq raised', refused \subseteq refused'
  PROVE  /\ Shapes' /\ OneEnd' /\ Sessions' /\ Reached' /\ OneTurnEach' /\ StartedInOrder' /\ Aside'
         /\ Known' = Known /\ todo' \in Seq(StackSteps) /\ \A s : HasEnd(s)' <=> HasEnd(s)
<1> USE DEF IInv
<1>1. Known' = Known /\ 0 \notin Known
  BY TurnNumbers DEF Known
<1>2. /\ todo' \in Seq(StackSteps) /\ ToSet(todo) = {Head(todo)} \cup ToSet(todo')
      /\ \A a, b : Precedes(todo', a, b) => Precedes(todo, a, b)
  BY StackTop
<1>3. \A s \in Known : OnStack(s)' <=> OnStack(s)
  BY <1>1, <1>2 DEF OnStack
<1>4. (\A s : Posted(s)' <=> Posted(s)) /\ (\A d, s : InDrain(d, s)' <=> InDrain(d, s))
  BY DEF Posted, InDrain
<1>5. \A s : HasEnd(s)' <=> HasEnd(s)
  BY <1>1, <1>3, <1>4 DEF HasEnd
<1>6. Shapes'
  BY <1>1, <1>2 DEF Shapes
<1>7. OneEnd'
  <2>0. OneEnd
    OBVIOUS
  <2>1. \A a, b \in ToSet(todo') : Precedes(todo', a, b) /\ a.turn # 0 => a.turn # b.turn
    BY <2>0, <1>2 DEF OneEnd
  <2>2. /\ \A a, b \in ToSet(queue') :
             Precedes(queue', a, b) /\ a.do = "send" /\ b.do = "send" => a.turn # b.turn
        /\ \A d \in drains' : \A a, b \in ToSet(epilogues'[d]) :
             Precedes(epilogues'[d], a, b) => a.turn # b.turn
    BY <2>0 DEF OneEnd
  <2>3. /\ \A s \in Known' : ~(Posted(s)' /\ OnStack(s)')
        /\ \A s \in Known' : \A d \in drains' : InDrain(d, s)' => ~Posted(s)' /\ ~OnStack(s)'
        /\ \A s \in Known' : \A d, e \in drains' : InDrain(d, s)' /\ InDrain(e, s)' => d = e
    BY <2>0, <1>1, <1>3, <1>4 DEF OneEnd
  <2> QED BY <2>1, <2>2, <2>3 DEF OneEnd
<1>8. Sessions'
  BY <1>3, <1>4 DEF Sessions, CurrentIsOpen, Types
<1>9. Reached'
  BY <1>5, ReachKept
<1>10. OneTurnEach' /\ StartedInOrder'
  BY TurnsKept, StartsKept
<1>11. Aside'
  <2>0. Aside
    OBVIOUS
  <2>1. \A x, y \in ToSet(todo') : Precedes(todo', x, y) /\ y.op = "unskip" /\ x.turn # 0 =>
          /\ ~turn[x.turn].spoken
          /\ \A e \in BackSet(y) : e.message \in raised \/ e.to # Panel(x.turn)
    BY <2>0, <1>2 DEF Aside
  <2>2. \A x \in ToSet(todo') : \A e \in BackSet(x) :
          \/ e.message \in raised
          \/ ~Free(e.to) /\ (mode[e.to] = "recording" => e.to \in refused)
    BY <2>0, <1>2 DEF Aside
  <2> QED BY <2>1, <2>2 DEF Aside, BackSet, Panel, Free
<1> QED BY <1>1, <1>2, <1>5, <1>6, <1>7, <1>8, <1>9, <1>10, <1>11

\* The messages a kick may see raise are pending.
LEMMA RaisedTypes ==
  ASSUME Types, NEW K, NEW R, K \subseteq DOMAIN fifo
  PROVE  /\ {m \in R : \E j \in K : fifo[j].message = m} \subseteq Messages
         /\ {fifo[j].to : j \in {k \in K : mode[fifo[k].to] = "recording"}} \subseteq Panels
<1>1. \A j \in DOMAIN fifo : fifo[j] \in Entries
  BY ElementOfSeq, LenProperties DEF Types
<1> QED BY <1>1 DEF Entries

\* The scan finds no message to start.
LEMMA KickFindsNoneStep ==
  ASSUME IInv, NEW R, KickFindsNone(R)
  PROVE  IInv'
<1> USE DEF IInv
<1>1. todo # <<>> /\ Head(todo).op = "kick"
  BY AtTop, "none" \notin {"kick"} DEF KickFindsNone
<1>2. Head(todo) \in ToSet(todo) /\ Head(todo).turn = 0 /\ Head(todo).back = <<>>
  BY <1>1, StackTop DEF Shapes
<1>3. todo' = Tail(todo)
  BY <1>1, StackTop, NothingInFront DEF KickFindsNone, Then
<1>4. UNCHANGED <<mode, gone, scope, turn, open, before, current, cancelled, drains, depth, captured,
                  epilogues, queue, waiting, sent, started, dropped, wronged, tools>>
  BY DEF KickFindsNone, button, session, drain
<1>5. fifo' = fifo
  <2>1. PutBack(fifo, <<>>) = fifo
    BY ConcatEmptySeq DEF PutBack, Types
  <2> QED BY <2>1 DEF KickFindsNone
<1>6. /\ raised \subseteq raised' /\ refused \subseteq refused'
      /\ raised' \subseteq Messages /\ refused' \subseteq Panels
  <2>1. /\ {m \in R : \E j \in DOMAIN fifo : fifo[j].message = m} \subseteq Messages
        /\ {fifo[j].to : j \in {k \in DOMAIN fifo : mode[fifo[k].to] = "recording"}} \subseteq Panels
    BY RaisedTypes
  <2> QED BY <2>1 DEF KickFindsNone, Types
<1>7. /\ Shapes' /\ OneEnd' /\ Sessions' /\ Reached' /\ OneTurnEach' /\ StartedInOrder' /\ Aside'
      /\ Known' = Known /\ todo' \in Seq(StackSteps) /\ \A s : HasEnd(s)' <=> HasEnd(s)
  BY <1>1, <1>2, <1>3, <1>4, <1>6, PopStep
<1>8. Accounted' /\ Ordered'
  <2>1. /\ \A x \in ToSet(todo') : x.back # <<>> => x \in ToSet(todo)
        /\ \A x \in ToSet(todo) : x.back # <<>> => x \in ToSet(todo')
        /\ \A a, b : Precedes(todo', a, b) /\ a.back # <<>> /\ b.back # <<>> => Precedes(todo, a, b)
    BY <1>1, <1>2, <1>3, StackTop
  <2> QED BY <2>1, <1>4, <1>5, MessagesKept
<1>9. Remembered'
  <2> SUFFICES ASSUME drains = {}, NEW p \in Panels, NEW m \in waiting[p]
               PROVE  p \in refused' \/ m \in raised' \/ scope[p] \in wronged \/ HasEnd(scope[p])
    <3>1. \A p \in Panels : HasEnd(scope[p])' <=> HasEnd(scope[p])
      BY <1>4, <1>7
    <3> QED BY <3>1, <1>4 DEF Remembered
  <2> PICK e : e = [to |-> p, message |-> m]
    OBVIOUS
  <2>1. depth = 0
    BY FS_EmptySet DEF Sessions
  <2>2. /\ \A i \in DOMAIN fifo : Passed(i, R)
        /\ raised' = raised \cup {k \in R : \E i \in DOMAIN fifo : fifo[i].message = k}
        /\ refused' = refused \cup {fifo[i].to : i \in {k \in DOMAIN fifo : mode[fifo[k].to] = "recording"}}
    BY <2>1 DEF KickFindsNone
  <2>3. p \notin gone
    BY DEF Accounted
  <2>4. IF mode[p] = "busy" THEN HasEnd(scope[p]) \/ scope[p] \in wronged ELSE scope[p] = 0
    BY <2>3 DEF Reached
  <2>5. CASE e \in ToSet(fifo)
    <3> PICK i \in DOMAIN fifo : fifo[i] = e
      BY <2>5 DEF ToSet
    <3>1. ~Startable(i) \/ m \in R
      BY <2>2 DEF Passed
    <3>2. m \in R => m \in raised'
      BY <2>2
    <3>3. mode[p] = "recording" => p \in refused'
      BY <2>2
    <3>4. mode[p] \in {"idle", "recording", "busy"}
      BY DEF Types
    <3> QED BY <2>4, <3>1, <3>2, <3>3, <3>4 DEF Startable, Busy
  <2>6. CASE InBack(e)
    <3> PICK x \in ToSet(todo) : e \in BackSet(x)
      BY <2>6 DEF InBack
    <3>1. m \in raised \/ (~Free(p) /\ (mode[p] = "recording" => p \in refused))
      BY DEF Aside
    <3>2. mode[p] \in {"idle", "recording", "busy"}
      BY DEF Types
    <3> QED BY <2>4, <3>1, <3>2, <1>6 DEF Free
  <2>7. Pending(e)
    BY DEF Accounted
  <2> QED BY <2>5, <2>6, <2>7 DEF Pending
<1>10. Types'
  BY <1>4, <1>5, <1>6, <1>7 DEF Types
<1> QED BY <1>7, <1>8, <1>9, <1>10

\* The skipped messages go back in front.
LEMMA UnskipStep ==
  ASSUME IInv, Unskip
  PROVE  IInv'
<1> USE DEF IInv
<1>1. todo # <<>> /\ Head(todo).op = "unskip"
  BY AtTop, "none" \notin {"unskip"} DEF Unskip
<1> PICK h : h = Head(todo)
  OBVIOUS
<1>2. h \in ToSet(todo) /\ h.turn = 0 /\ h \in StackSteps /\ h.op = "unskip"
  BY <1>1, StackTop DEF Shapes
<1>3. todo' = Tail(todo)
  BY <1>1, StackTop, NothingInFront DEF Unskip, Then
<1>4. UNCHANGED <<mode, gone, scope, turn, open, before, current, cancelled, drains, depth, captured,
                  epilogues, queue, waiting, sent, started, dropped, raised, refused, wronged, tools>>
  BY DEF Unskip, button, session, drain
<1>5. /\ Shapes' /\ OneEnd' /\ Sessions' /\ Reached' /\ OneTurnEach' /\ StartedInOrder' /\ Aside'
      /\ Known' = Known /\ todo' \in Seq(StackSteps) /\ \A s : HasEnd(s)' <=> HasEnd(s)
  BY <1>1, <1>2, <1>3, <1>4, PopStep
<1>6. /\ ToSet(todo) = {h} \cup ToSet(todo')
      /\ \A a, b : Precedes(todo', a, b) => Precedes(todo, a, b)
      /\ \A b \in ToSet(todo') : Precedes(todo, h, b)
  BY <1>1, <1>3, StackTop
<1> PICK b : b = h.back
  OBVIOUS
<1>7. b \in Seq(Entries) /\ BackSet(h) = ToSet(b)
  BY <1>2 DEF StackSteps, BackSet
<1>8. /\ fifo' \in Seq(Entries) /\ ToSet(fifo') = BackSet(h) \cup ToSet(fifo)
      /\ \A e, f : Precedes(fifo', e, f) <=>
           Precedes(b, e, f) \/ Precedes(fifo, e, f) \/ (e \in BackSet(h) /\ f \in ToSet(fifo))
      /\ \A e, f : Precedes(b, e, f) => e \in BackSet(h) /\ f \in BackSet(h)
      /\ \A e, f : Precedes(fifo, e, f) => e \in ToSet(fifo) /\ f \in ToSet(fifo)
  <2>1. fifo' = b \o fifo /\ fifo \in Seq(Entries)
    BY DEF Unskip, PutBack, Types
  <2>2. /\ b \o fifo \in Seq(Entries) /\ ToSet(b \o fifo) = ToSet(b) \cup ToSet(fifo)
        /\ \A e, f : Precedes(b \o fifo, e, f) <=>
             Precedes(b, e, f) \/ Precedes(fifo, e, f) \/ (e \in ToSet(b) /\ f \in ToSet(fifo))
    BY <2>1, <1>7, PushElements
  <2>3. /\ \A e, f : Precedes(b, e, f) => e \in ToSet(b) /\ f \in ToSet(b)
        /\ \A e, f : Precedes(fifo, e, f) => e \in ToSet(fifo) /\ f \in ToSet(fifo)
    BY <2>1, <1>7, ElementsOf
  <2> QED BY <2>1, <2>2, <2>3, <1>7
<1>9. \A e : Pending(e)' <=> Pending(e)
  <2>1. \A e : InBack(e)' <=> \E x \in ToSet(todo') : e \in BackSet(x)
    BY DEF InBack, BackSet
  <2> QED BY <2>1, <1>6, <1>8 DEF Pending, InBack
<1>10. Accounted'
  <2>0. Accounted
    OBVIOUS
  <2>1. \A e \in ToSet(fifo') : e.message \in waiting[e.to]
    BY <2>0, <1>2, <1>8 DEF Accounted
  <2>2. \A x \in ToSet(todo') : \A e \in BackSet(x)' : e.message \in waiting[e.to]
    BY <2>0, <1>6 DEF Accounted, BackSet
  <2> QED BY <2>0, <2>1, <2>2, <1>4, <1>9 DEF Accounted
<1>11. Ordered'
  <2>0. Ordered
    OBVIOUS
  <2>1. ASSUME NEW e, NEW f, Precedes(fifo', e, f) PROVE Older(e, f)
    <3>1. CASE Precedes(b, e, f)
      BY <3>1, <2>0, <1>2, <1>8 DEF Ordered
    <3>2. CASE Precedes(fifo, e, f)
      BY <3>2, <2>0, <1>8 DEF Ordered
    <3>3. CASE e \in BackSet(h) /\ f \in ToSet(fifo)
      BY <3>3, <2>0, <1>2 DEF Ordered
    <3> QED BY <3>1, <3>2, <3>3, <2>1, <1>8
  <2>2. \A x \in ToSet(todo') : \A e, f \in BackSet(x) : Precedes(x.back, e, f) => Older(e, f)
    BY <2>0, <1>6 DEF Ordered
  <2>3. ASSUME NEW x \in ToSet(todo'), NEW e \in BackSet(x), NEW f \in ToSet(fifo') PROVE Older(e, f)
    <3>1. CASE f \in ToSet(fifo)
      BY <3>1, <2>0, <2>3, <1>6 DEF Ordered
    <3>2. CASE f \in BackSet(h)
      <4>1. Precedes(todo, h, x) /\ x \in ToSet(todo)
        BY <2>3, <1>6
      <4> QED BY <4>1, <3>2, <2>0, <2>3, <1>2 DEF Ordered
    <3> QED BY <3>1, <3>2, <2>3, <1>8
  <2>4. \A x, y \in ToSet(todo') : Precedes(todo', x, y) =>
          \A e \in BackSet(y), f \in BackSet(x) : Older(e, f)
    BY <2>0, <1>6 DEF Ordered
  <2> QED BY <2>1, <2>2, <2>3, <2>4 DEF Ordered, BackSet, Older
<1>12. Remembered'
  <2>1. (\A x \in ToSet(todo') : x.op = "unskip") => \A x \in ToSet(todo) : x.op = "unskip"
    BY <1>2, <1>6
  <2>2. \A p \in Panels : HasEnd(scope[p])' <=> HasEnd(scope[p])
    BY <1>4, <1>5
  <2>3. Remembered
    OBVIOUS
  <2> QED BY <2>1, <2>2, <2>3, <1>4 DEF Remembered
<1>13. Types'
  BY <1>4, <1>5, <1>8 DEF Types
<1> QED BY <1>5, <1>10, <1>11, <1>12, <1>13

\* Two steps in the place of the top of the stack.
LEMMA SwapTwo ==
  ASSUME Types, todo # <<>>, NEW x \in StackSteps, NEW y \in StackSteps,
         todo' = <<x, y>> \o Tail(todo)
  PROVE  /\ todo' \in Seq(StackSteps) /\ ToSet(todo') = {x, y} \cup ToSet(Tail(todo))
         /\ \A c, d : Precedes(todo', c, d) <=>
              \/ Precedes(Tail(todo), c, d) \/ (c = x /\ d = y)
              \/ c \in {x, y} /\ d \in ToSet(Tail(todo))
<1> DEFINE q == <<x, y>>  r == Tail(todo)
<1>0. q = <<x, y>>
  OBVIOUS
<1>2. r \in Seq(StackSteps)
  BY StackTop
<1>3. todo' = q \o r
  OBVIOUS
<1> HIDE DEF q, r
<1>1. /\ q \in Seq(StackSteps) /\ ToSet(q) = {x, y}
      /\ \A c, d : Precedes(q, c, d) <=> c = x /\ d = y
  BY <1>0, TwoElements
<1>4. /\ q \o r \in Seq(StackSteps) /\ ToSet(q \o r) = ToSet(q) \cup ToSet(r)
      /\ \A c, d : Precedes(q \o r, c, d) <=>
           Precedes(q, c, d) \/ Precedes(r, c, d) \/ (c \in ToSet(q) /\ d \in ToSet(r))
  BY <1>1, <1>2, PushElements
<1>5. /\ todo' \in Seq(StackSteps) /\ ToSet(todo') = {x, y} \cup ToSet(r)
      /\ \A c, d : Precedes(todo', c, d) <=>
           Precedes(r, c, d) \/ (c = x /\ d = y) \/ (c \in {x, y} /\ d \in ToSet(r))
  BY <1>1, <1>3, <1>4
<1> QED BY <1>5 DEF r

\* What a scan up to entry i passes, leaves, and records.
FrontOf(i) == SubSeq(fifo, 1, i - 1)
RestOf(i) == SubSeq(fifo, i + 1, Len(fifo))
ScanRaised(i, R) == {m \in R : \E j \in 1 .. i - 1 : fifo[j].message = m}
ScanRefused(i) == {fifo[j].to : j \in {k \in 1 .. i - 1 : mode[fifo[k].to] = "recording"}}

\* What the scan passes is not for the panel it starts, unless it raised.
LEMMA ScanLaws ==
  ASSUME IInv, NEW i \in DOMAIN fifo, NEW R,
         Startable(i), \A j \in 1 .. i - 1 : Passed(j, R),
         raised' = raised \cup ScanRaised(i, R), refused' = refused \cup ScanRefused(i)
  PROVE  LET e == fifo[i]  a == FrontOf(i)  b == RestOf(i) IN
         /\ a \in Seq(Entries) /\ b \in Seq(Entries) /\ e \in Entries
         /\ ToSet(fifo) = ToSet(a) \cup {e} \cup ToSet(b)
         /\ \A f, g : Precedes(a, f, g) \/ Precedes(b, f, g) => Older(f, g)
         /\ \A f \in ToSet(a) : Older(f, e) /\ \A g \in ToSet(b) : Older(f, g)
         /\ \A g \in ToSet(b) : Older(e, g)
         /\ \A x \in ToSet(todo) : \A f \in BackSet(x) : Older(f, e)
         /\ raised \subseteq raised' /\ raised' \subseteq Messages
         /\ refused \subseteq refused' /\ refused' \subseteq Panels
         /\ e.message \in raised' => e.message \in raised \/ e.message \in R
         /\ \A f \in ToSet(a) :
              \/ f.message \in raised'
              \/ ~Free(f.to) /\ (mode[f.to] = "recording" => f.to \in refused')
         /\ Free(e.to) /\ e.to \in Panels /\ e.to \notin gone
         /\ e.message \in waiting[e.to] /\ e.message \in Messages
<1> USE DEF IInv
<1> DEFINE e == fifo[i]  a == FrontOf(i)  b == RestOf(i)
<1>1. fifo \in Seq(Entries) /\ i \in 1 .. Len(fifo) /\ Len(fifo) \in Nat
  BY LenProperties DEF Types
<1>2. /\ a \in Seq(Entries) /\ b \in Seq(Entries) /\ e \in Entries
      /\ ToSet(fifo) = ToSet(a) \cup {e} \cup ToSet(b)
      /\ ToSet(a) = {fifo[j] : j \in 1 .. i - 1}
      /\ \A x, y : Precedes(a, x, y) \/ Precedes(b, x, y) => Precedes(fifo, x, y)
      /\ \A x \in ToSet(a) : Precedes(fifo, x, e)
      /\ \A x \in ToSet(b) : Precedes(fifo, e, x)
      /\ \A x \in ToSet(a), y \in ToSet(b) : Precedes(fifo, x, y)
  BY <1>1, CutElements DEF FrontOf, RestOf
<1> HIDE DEF a, b
<1>3. \A f, g : Precedes(fifo, f, g) => Older(f, g)
  BY ElementTypes DEF Ordered
<1>4. \A x \in ToSet(todo) : \A f \in BackSet(x) : Older(f, e)
  BY <1>2 DEF Ordered
<1>5. /\ raised \subseteq raised' /\ raised' \subseteq Messages
      /\ refused \subseteq refused' /\ refused' \subseteq Panels
  <2>1. 1 .. i - 1 \subseteq DOMAIN fifo
    BY <1>1
  <2> PICK K : K = 1 .. i - 1
    OBVIOUS
  <2>2. /\ {m \in R : \E j \in K : fifo[j].message = m} \subseteq Messages
        /\ {fifo[j].to : j \in {k \in K : mode[fifo[k].to] = "recording"}} \subseteq Panels
    BY <2>1, RaisedTypes
  <2> QED BY <2>2 DEF Types, ScanRaised, ScanRefused
<1>6. Free(e.to) /\ e.to \in Panels /\ e.message \in waiting[e.to] /\ e.to \notin gone
  <2>1. mode[e.to] = "idle" /\ scope[e.to] = 0
    BY DEF Startable, Busy
  <2>2. e.to \in Panels
    BY <1>2 DEF Entries
  <2>3. e.message \in waiting[e.to]
    BY <1>2 DEF Accounted
  <2> QED BY <2>1, <2>2, <2>3 DEF Free, Accounted
<1>7. ASSUME NEW f \in ToSet(a)
      PROVE  \/ f.message \in raised'
             \/ ~Free(f.to) /\ (mode[f.to] = "recording" => f.to \in refused')
  <2> PICK j \in 1 .. i - 1 : f = fifo[j]
    BY <1>2
  <2>1. Passed(j, R)
    OBVIOUS
  <2>2. f.message \in R => f.message \in raised'
    BY DEF ScanRaised
  <2>3. mode[f.to] = "recording" => f.to \in refused'
    BY DEF ScanRefused
  <2>4. f.message \in R \/ Busy(f.to) \/ mode[f.to] # "idle"
    BY <2>1 DEF Passed, Startable
  <2> QED BY <2>2, <2>3, <2>4 DEF Busy, Free
<1>8. e.message \in Messages
  BY <1>2 DEF Entries
<1>9. e.message \in raised' => e.message \in raised \/ e.message \in R
  BY DEF ScanRaised
<1>10. /\ a \in Seq(Entries) /\ b \in Seq(Entries) /\ e \in Entries
       /\ ToSet(fifo) = ToSet(a) \cup {e} \cup ToSet(b)
       /\ \A f, g : Precedes(a, f, g) \/ Precedes(b, f, g) => Older(f, g)
       /\ \A f \in ToSet(a) : Older(f, e) /\ \A g \in ToSet(b) : Older(f, g)
       /\ \A g \in ToSet(b) : Older(e, g)
  BY <1>2, <1>3
<1> QED BY <1>4, <1>5, <1>6, <1>7, <1>8, <1>9, <1>10 DEF a, b

\* A kick starts the turn of a message; what it skipped waits on the stack.
LEMMA KickStartsStep ==
  ASSUME IInv, NEW i \in DOMAIN fifo, NEW R, KickStarts(i, R)
  PROVE  IInv'
<1>t. todo # <<>> /\ Head(todo).op = "kick"
  BY AtTop, "none" \notin {"kick"} DEF KickStarts
<1>h. PICK h : h = Head(todo)
  OBVIOUS
<1>r. PICK r : r = Tail(todo)
  OBVIOUS
<1>1. /\ h \in ToSet(todo) /\ h.turn = 0 /\ h.back = <<>> /\ BackSet(h) = {}
      /\ ToSet(todo) = {h} \cup ToSet(r)
      /\ \A c, d : Precedes(r, c, d) => Precedes(todo, c, d) /\ c \in ToSet(r) /\ d \in ToSet(r)
  BY <1>t, <1>h, <1>r, StackTop, NothingAside DEF IInv, Shapes
<1>e. PICK e : e = fifo[i]
  OBVIOUS
<1>p. PICK p : p = e.to
  OBVIOUS
<1>m. PICK m : m = e.message
  OBVIOUS
<1>n. PICK n : n = Len(turn) + 1
  OBVIOUS
<1>a. PICK a : a = FrontOf(i)
  OBVIOUS
<1>b. PICK b : b = RestOf(i)
  OBVIOUS
<1>x. PICK x : x = Step("run", n, FALSE)
  OBVIOUS
<1>y. PICK y : y = Unskipping(a)
  OBVIOUS
<1>2. /\ Startable(i) /\ m \notin R /\ \A j \in 1 .. i - 1 : Passed(j, R)
      /\ turn' = Append(turn, [panel |-> p, message |-> m, spoken |-> FALSE])
      /\ scope' = [scope EXCEPT ![p] = n] /\ mode' = [mode EXCEPT ![p] = "busy"]
      /\ waiting' = [waiting EXCEPT ![p] = @ \ {m}]
      /\ fifo' = b /\ started' = Append(started, m)
      /\ raised' = raised \cup ScanRaised(i, R) /\ refused' = refused \cup ScanRefused(i)
      /\ todo' = <<x, y>> \o r
      /\ UNCHANGED <<gone, open, before, current, cancelled, drain, queue, sent, dropped, wronged, tools>>
  BY <1>e, <1>p, <1>m, <1>n, <1>a, <1>b, <1>x, <1>y, <1>r DEF KickStarts, NewTurn, Then, FrontOf, RestOf, ScanRaised, ScanRefused
<1>3. UNCHANGED <<gone, open, before, current, cancelled, drains, depth, captured, epilogues, queue,
                  sent, dropped, wronged, tools>>
  BY <1>2 DEF drain
<1>4. /\ a \in Seq(Entries) /\ b \in Seq(Entries) /\ e \in Entries
      /\ ToSet(fifo) = ToSet(a) \cup {e} \cup ToSet(b)
      /\ \A f, g : Precedes(a, f, g) \/ Precedes(b, f, g) => Older(f, g)
      /\ \A f \in ToSet(a) : Older(f, e) /\ \A g \in ToSet(b) : Older(f, g)
      /\ \A g \in ToSet(b) : Older(e, g)
      /\ \A z \in ToSet(todo) : \A f \in BackSet(z) : Older(f, e)
      /\ raised \subseteq raised' /\ raised' \subseteq Messages
      /\ refused \subseteq refused' /\ refused' \subseteq Panels
      /\ e.message \in raised' => e.message \in raised \/ e.message \in R
      /\ \A f \in ToSet(a) :
           \/ f.message \in raised'
           \/ ~Free(f.to) /\ (mode[f.to] = "recording" => f.to \in refused')
      /\ Free(e.to) /\ e.to \in Panels /\ e.to \notin gone
      /\ e.message \in waiting[e.to] /\ e.message \in Messages
  <2>1. /\ Startable(i) /\ \A j \in 1 .. i - 1 : Passed(j, R)
        /\ raised' = raised \cup ScanRaised(i, R) /\ refused' = refused \cup ScanRefused(i)
    BY <1>2
  <2> QED BY <2>1, <1>e, <1>a, <1>b, ScanLaws
<1>5. /\ m \in raised' => m \in raised
      /\ Free(p) /\ p \in Panels /\ p \notin gone /\ m \in waiting[p] /\ m \in Messages
  BY <1>2, <1>4, <1>p, <1>m
<1>6. /\ turn' \in Seq(TurnRecords) /\ n \notin Known /\ n # 0 /\ n \in Nat
      /\ Known' = Known \cup {n} /\ \A s \in Known : turn'[s] = turn[s]
      /\ turn'[n].panel = p /\ turn'[n].message = m /\ turn'[n].spoken = FALSE
  <2> PICK t : t = [panel |-> p, message |-> m, spoken |-> FALSE]
    OBVIOUS
  <2>1. t \in TurnRecords /\ t.panel = p /\ t.message = m /\ t.spoken = FALSE
    BY <1>5, TurnsAssumption DEF TurnRecords, Messages
  <2>2. turn' = Append(turn, t)
    BY <1>2
  <2> QED BY <2>1, <2>2, <1>n, OneMoreTurn DEF IInv
<1>7. /\ x \in StackSteps /\ x.op = "run" /\ x.turn = n /\ x.back = <<>> /\ BackSet(x) = {}
      /\ y \in StackSteps /\ y.op = "unskip" /\ y.turn = 0 /\ y.back = a /\ BackSet(y) = ToSet(a)
  <2>1. "run" \in Steps0 /\ "unskip" \in Steps0 /\ FALSE \in BOOLEAN /\ 0 \in Nat
    BY StepNames
  <2>2. x \in StackSteps /\ x.op = "run" /\ x.turn = n /\ x.back = <<>>
    <3>1. n \in Nat
      BY <1>6
    <3>2. LET z == Step("run", n, FALSE) IN
          z \in StackSteps /\ z.op = "run" /\ z.turn = n /\ z.back = <<>>
      BY <3>1, <2>1, StepFields
    <3> QED BY <3>2, <1>x
  <2>3. y \in StackSteps /\ y.op = "unskip" /\ y.turn = 0 /\ y.back = a
    BY <1>4, <1>y, <2>1 DEF Unskipping, StackSteps
  <2> QED BY <2>2, <2>3, NothingAside DEF BackSet
<1>8. /\ todo' \in Seq(StackSteps) /\ ToSet(todo') = {x, y} \cup ToSet(r)
      /\ \A c, d : Precedes(todo', c, d) <=>
           Precedes(r, c, d) \/ (c = x /\ d = y) \/ (c \in {x, y} /\ d \in ToSet(r))
  <2>1. todo' = <<x, y>> \o Tail(todo)
    BY <1>2, <1>r
  <2> QED BY <1>t, <1>7, <1>r, <2>1, SwapTwo DEF IInv
<1>9. 0 \notin Known /\ Known \subseteq Nat /\ \A s \in Known : turn[s] \in TurnRecords
  BY TurnNumbers DEF IInv
<1>10. \A z \in ToSet(todo) : z.turn \in Known \cup {0}
  BY DEF IInv, Shapes
<1>11. (\A s \in Known : OnStack(s)' <=> OnStack(s)) /\ OnStack(n)'
  BY <1>1, <1>6, <1>7, <1>8, <1>9 DEF OnStack
<1>12. (\A s : Posted(s)' <=> Posted(s)) /\ (\A d, s : InDrain(d, s)' <=> InDrain(d, s))
  BY <1>3 DEF Posted, InDrain
<1>13. ~Posted(n) /\ \A d \in drains : ~InDrain(d, n)
  <2>1. ~Posted(n)
    BY <1>6 DEF IInv, Shapes, Posted
  <2>2. \A d \in drains : d \in Turns
    BY TurnCount DEF IInv, Types
  <2> QED BY <2>1, <2>2, <1>6 DEF IInv, Shapes, InDrain
<1>14. (\A s \in Known : HasEnd(s)' <=> HasEnd(s)) /\ HasEnd(n)'
  BY <1>3, <1>6, <1>11, <1>12 DEF HasEnd
<1>15. Shapes'
  <2>0. Shapes
    BY DEF IInv
  <2>1. \A z \in ToSet(todo') :
          /\ z.turn \in Known' \cup {0} /\ (z.op \in {"kick", "unskip"} <=> z.turn = 0)
          /\ z.op # "unskip" => z.back = <<>>
          /\ z.op = "stt" => turn'[z.turn].spoken
    <3> SUFFICES ASSUME NEW z \in ToSet(todo')
                 PROVE  /\ z.turn \in Known' \cup {0} /\ (z.op \in {"kick", "unskip"} <=> z.turn = 0)
                        /\ z.op # "unskip" => z.back = <<>>
                        /\ z.op = "stt" => turn'[z.turn].spoken
      OBVIOUS
    <3>1. CASE z = x
      BY <3>1, <1>6, <1>7
    <3>2. CASE z = y
      BY <3>2, <1>7
    <3>3. CASE z \in ToSet(r)
      <4>1. /\ z.turn \in Known \cup {0} /\ (z.op \in {"kick", "unskip"} <=> z.turn = 0)
            /\ z.op # "unskip" => z.back = <<>>
            /\ z.op = "stt" => turn[z.turn].spoken
        BY <2>0, <3>3, <1>1 DEF Shapes
      <4>2. z.op = "stt" => z.turn \in Known
        BY <4>1
      <4> QED BY <4>1, <4>2, <1>6
    <3> QED BY <3>1, <3>2, <3>3, <1>8
  <2>2. \A z \in ToSet(queue') :
          /\ z.turn \in Known' \cup {0} /\ z.bound \in Known' \cup {0}
          /\ z.do = "send" => z.turn # 0 /\ z.bound # z.turn
    BY <2>0, <1>3, <1>6 DEF Shapes
  <2>3. /\ \A d \in Turns : \A z \in ToSet(epilogues'[d]) :
             z.op = "close" /\ z.turn \in Known' /\ z.back = <<>>
        /\ \A d \in Turns : d \notin drains' => epilogues'[d] = <<>>
    BY <2>0, <1>3, <1>6 DEF Shapes
  <2> QED BY <2>1, <2>2, <2>3 DEF Shapes
<1>16. OneEnd'
  <2>0. OneEnd
    BY DEF IInv
  <2>1. ASSUME NEW c, NEW d, Precedes(todo', c, d), c.turn # 0 PROVE c.turn # d.turn
    <3>1. CASE Precedes(r, c, d)
      BY <3>1, <2>0, <2>1, <1>1 DEF OneEnd
    <3>2. CASE c = x /\ d = y
      BY <3>2, <1>6, <1>7
    <3>3. CASE c \in {x, y} /\ d \in ToSet(r)
      BY <3>3, <2>1, <1>1, <1>6, <1>7, <1>10
    <3> QED BY <3>1, <3>2, <3>3, <2>1, <1>8
  <2>2. \A c, d \in ToSet(todo') : Precedes(todo', c, d) /\ c.turn # 0 => c.turn # d.turn
    BY <2>1
  <2>3. /\ \A c, d \in ToSet(queue') :
             Precedes(queue', c, d) /\ c.do = "send" /\ d.do = "send" => c.turn # d.turn
        /\ \A d \in drains' : \A c, f \in ToSet(epilogues'[d]) :
             Precedes(epilogues'[d], c, f) => c.turn # f.turn
    BY <2>0, <1>3 DEF OneEnd
  <2>4. \A s \in Known' : ~(Posted(s)' /\ OnStack(s)')
    BY <2>0, <1>6, <1>11, <1>12, <1>13 DEF OneEnd
  <2>5. \A s \in Known' : \A d \in drains' : InDrain(d, s)' => ~Posted(s)' /\ ~OnStack(s)'
    BY <2>0, <1>3, <1>6, <1>11, <1>12, <1>13 DEF OneEnd
  <2>6. \A s \in Known' : \A d, f \in drains' : InDrain(d, s)' /\ InDrain(f, s)' => d = f
    BY <2>0, <1>3, <1>6, <1>12, <1>13 DEF OneEnd
  <2> QED BY <2>2, <2>3, <2>4, <2>5, <2>6 DEF OneEnd
<1>17. Sessions'
  BY <1>3, <1>11, <1>12 DEF IInv, Sessions, CurrentIsOpen, Types
<1>18. /\ Reached' /\ scope' \in [Panels -> Known' \cup {0}]
       /\ mode' \in [Panels -> {"idle", "recording", "busy"}]
  <2>1. mode[p] # "busy" /\ scope[p] = 0
    BY <1>5 DEF Free
  <2>2. n \notin Known /\ Known' = Known \cup {n} /\ \A s \in Known : turn'[s] = turn[s]
    BY <1>6
  <2>3. /\ turn'[n].panel = p /\ p \in Panels /\ UNCHANGED <<gone, wronged>>
        /\ scope' = [scope EXCEPT ![p] = n] /\ mode' = [mode EXCEPT ![p] = "busy"]
    BY <1>2, <1>3, <1>5, <1>6
  <2> QED BY <2>1, <2>2, <2>3, <1>14, NewTurnReach, Zenon
<1>19. /\ started \in Seq(Messages) /\ started' \in Seq(Messages)
       /\ ToSet(started') = ToSet(started) \cup {m} /\ m \notin ToSet(started)
       /\ \A k, l : Precedes(started', k, l) <=>
            Precedes(started, k, l) \/ (k \in ToSet(started) /\ l = m)
       /\ \A k, l : Precedes(started, k, l) => k \in ToSet(started) /\ l \in ToSet(started)
       /\ IsDistinct(started')
  <2>1. started \in Seq(Messages) /\ m \in Messages /\ started' = Append(started, m)
    BY <1>2, <1>5 DEF IInv, Types
  <2>2. m \notin ToSet(started) /\ IsDistinct(started)
    BY <1>5 DEF IInv, Accounted, OneTurnEach
  <2>3. ~Contains(started, m)
    BY <2>1, <2>2, ElementsOf
  <2>4. IsDistinct(started')
    BY <2>1, <2>2, <2>3, AppendContains
  <2>5. /\ started' \in Seq(Messages) /\ ToSet(started') = ToSet(started) \cup {m}
        /\ \A k, l : Precedes(started', k, l) <=>
             Precedes(started, k, l) \/ (k \in ToSet(started) /\ l = m)
    BY <2>1, PutElements
  <2>6. \A k, l : Precedes(started, k, l) => k \in ToSet(started) /\ l \in ToSet(started)
    BY <2>1, ElementsOf
  <2> QED BY <2>1, <2>2, <2>4, <2>5, <2>6
<1>20. /\ waiting' \in [Panels -> SUBSET Messages] /\ waiting'[p] = waiting[p] \ {m}
       /\ \A q \in Panels : q # p => waiting'[q] = waiting[q]
       /\ \A q \in Panels : waiting'[q] \subseteq waiting[q] /\ m \notin waiting'[q]
  <2>1. /\ waiting' \in [Panels -> SUBSET Messages] /\ waiting'[p] = waiting[p] \ {m}
        /\ \A q \in Panels : q # p => waiting'[q] = waiting[q]
    BY <1>2, <1>5 DEF IInv, Types
  <2>2. \A q \in Panels : m \in waiting[q] => q = p
    BY <1>5 DEF IInv, Accounted
  <2> QED BY <2>1, <2>2
<1>21. \A s \in Known : turn[s].message # m
  BY <1>5, <1>9, <1>19, TurnsAssumption DEF IInv, OneTurnEach, Messages
<1>22. OneTurnEach'
  <2>0. OneTurnEach
    BY DEF IInv
  <2>1. m # 0 /\ m <= sent
    BY <1>5, TurnsAssumption DEF IInv, Accounted, Messages
  <2>2. {s \in DOMAIN turn' : turn'[s].message = 0} = {s \in DOMAIN turn : turn[s].message = 0}
    BY <2>1, <1>6 DEF Known
  <2>3. Cardinality({s \in DOMAIN turn' : turn'[s].message = 0}) <= MaxSends
    BY <2>0, <2>2 DEF OneTurnEach
  <2>4. \A s \in Known' : turn'[s].message <= sent'
    BY <2>0, <2>1, <1>3, <1>6 DEF OneTurnEach
  <2>5. \A s, t \in Known' : turn'[s].message = turn'[t].message /\ turn'[s].message # 0 => s = t
    BY <2>0, <1>6, <1>21 DEF OneTurnEach
  <2>6. \A k \in ToSet(started') : \E s \in Known' : turn'[s].message = k
    BY <2>0, <1>6, <1>19 DEF OneTurnEach
  <2>7. \A s \in Known' : turn'[s].message # 0 => turn'[s].message \in ToSet(started')
    BY <2>0, <1>6, <1>19 DEF OneTurnEach
  <2> QED BY <2>3, <2>4, <2>5, <2>6, <2>7, <1>19 DEF OneTurnEach
<1>23. /\ \A f \in ToSet(fifo) : f \in Entries /\ f.to \in Panels /\ f.message \in waiting[f.to]
       /\ \A z \in ToSet(todo) : \A f \in BackSet(z) :
            f \in Entries /\ f.to \in Panels /\ f.message \in waiting[f.to]
  <2>1. \A f \in Entries : f.to \in Panels
    BY DEF Entries
  <2>2. (\A f \in ToSet(fifo) : f \in Entries) /\ \A z \in ToSet(todo) : BackSet(z) \subseteq Entries
    BY ElementTypes DEF IInv
  <2> QED BY <2>1, <2>2 DEF IInv, Accounted
\* What stays pending keeps its place in waiting.
<1>24. ASSUME NEW f \in Entries, f # e, f.message \in waiting[f.to] PROVE f.message \in waiting'[f.to]
  <2>1. f.to \in Panels
    BY <1>24 DEF Entries
  <2>2. CASE f.to = p
    <3>1. f = [to |-> f.to, message |-> f.message] /\ e = [to |-> e.to, message |-> e.message]
      BY <1>4 DEF Entries
    <3>2. f.message # m
      BY <3>1, <2>2, <1>24, <1>p, <1>m
    <3> QED BY <3>2, <2>2, <1>20, <1>24
  <2>3. CASE f.to # p
    BY <2>1, <2>3, <1>20, <1>24
  <2> QED BY <2>2, <2>3
<1>25. fifo' = b
  BY <1>2
<1>26. /\ \A f \in ToSet(a) \cup ToSet(b) : f # e /\ f \in ToSet(fifo)
       /\ \A z \in ToSet(todo) : \A f \in BackSet(z) : f # e
  BY <1>4 DEF Older
<1>27. \A f : InBack(f)' <=> f \in ToSet(a) \/ \E z \in ToSet(r) : f \in BackSet(z)
  BY <1>7, <1>8 DEF InBack, BackSet
<1>28. Accounted'
  <2>0. Accounted
    BY DEF IInv
  <2>1. \A f \in ToSet(fifo') : f.message \in waiting'[f.to]
    BY <1>23, <1>24, <1>25, <1>26
  <2>2. \A z \in ToSet(todo') : \A f \in BackSet(z)' : f.message \in waiting'[f.to]
    <3> SUFFICES ASSUME NEW z \in ToSet(todo'), NEW f \in BackSet(z) PROVE f.message \in waiting'[f.to]
      BY DEF BackSet
    <3>1. CASE z = x
      BY <3>1, <1>7
    <3>2. CASE z = y
      BY <3>2, <1>7, <1>23, <1>24, <1>26
    <3>3. CASE z \in ToSet(r)
      BY <3>3, <1>1, <1>23, <1>24, <1>26
    <3> QED BY <3>1, <3>2, <3>3, <1>8
  <2>3. \A q \in Panels : \A k \in waiting'[q] : Pending([to |-> q, message |-> k])'
    <3> SUFFICES ASSUME NEW q \in Panels, NEW k \in waiting'[q]
                 PROVE  Pending([to |-> q, message |-> k])'
      OBVIOUS
    <3>e. PICK f : f = [to |-> q, message |-> k]
      OBVIOUS
    <3>1. k \in waiting[q] /\ k # m
      BY <1>20
    <3>2. Pending(f)
      BY <3>e, <3>1, <2>0 DEF Accounted
    <3>3. f # e
      BY <3>e, <3>1, <1>m
    <3>4. CASE f \in ToSet(fifo)
      <4>1. f \in ToSet(a) \/ f \in ToSet(b)
        BY <3>3, <3>4, <1>4
      <4>2. Pending(f)'
        BY <4>1, <1>25, <1>27 DEF Pending
      <4> QED BY <4>2, <3>e
    <3>5. CASE InBack(f)
      <4>1. \E z \in ToSet(r) : f \in BackSet(z)
        BY <3>5, <1>1 DEF InBack
      <4>2. Pending(f)'
        BY <4>1, <1>27 DEF Pending
      <4> QED BY <4>2, <3>e
    <3> QED BY <3>2, <3>4, <3>5 DEF Pending
  <2>4. \A q, u \in Panels : waiting'[q] \cap waiting'[u] # {} => q = u
    <3>1. \A q, u \in Panels : waiting'[q] \cap waiting'[u] \subseteq waiting[q] \cap waiting[u]
      BY <1>20
    <3> QED BY <3>1, <2>0 DEF Accounted
  <2>5. \A q \in Panels : \A k \in waiting'[q] :
          k <= sent' /\ k \notin ToSet(started') /\ k \notin dropped'
    <3> SUFFICES ASSUME NEW q \in Panels, NEW k \in waiting'[q]
                 PROVE  k <= sent /\ k \notin ToSet(started') /\ k \notin dropped
      BY <1>3
    <3>1. k \in waiting[q] /\ k # m
      BY <1>20
    <3> QED BY <3>1, <2>0, <1>19 DEF Accounted
  <2>6. \A q \in gone' : waiting'[q] = {}
    <3>1. \A q \in gone : q \in Panels /\ waiting[q] = {}
      BY <2>0 DEF IInv, Accounted, Types
    <3> QED BY <3>1, <1>3, <1>20
  <2>7. \A k \in ToSet(started') : k <= sent' /\ k \notin dropped'
    <3>1. m <= sent /\ m \notin dropped
      BY <2>0, <1>5 DEF Accounted
    <3> QED BY <3>1, <2>0, <1>3, <1>19 DEF Accounted
  <2>8. \A k \in dropped' : k <= sent'
    BY <2>0, <1>3 DEF Accounted
  <2>9. \A k \in 1 .. sent' : \/ \E q \in Panels : k \in waiting'[q]
                              \/ k \in ToSet(started') \cup dropped'
    <3> SUFFICES ASSUME NEW k \in 1 .. sent
                 PROVE  (\E q \in Panels : k \in waiting'[q]) \/ k \in ToSet(started') \cup dropped
      BY <1>3
    <3>1. (\E q \in Panels : k \in waiting[q]) \/ k \in ToSet(started) \cup dropped
      BY <2>0 DEF Accounted
    <3>2. CASE k = m
      BY <3>2, <1>19
    <3>3. CASE k # m
      <4>1. \A q \in Panels : k \in waiting[q] => k \in waiting'[q]
        BY <3>3, <1>20
      <4> QED BY <4>1, <3>1, <1>19
    <3> QED BY <3>2, <3>3
  <2> QED BY <2>1, <2>2, <2>3, <2>4, <2>5, <2>6, <2>7, <2>8, <2>9 DEF Accounted
<1>29. Ordered'
  <2>0. Ordered
    BY DEF IInv
  <2>1. \A f, g \in ToSet(fifo') : Precedes(fifo', f, g) => Older(f, g)
    BY <1>4, <1>25
  <2>2. \A z \in ToSet(todo') : \A f, g \in BackSet(z) : Precedes(z.back, f, g) => Older(f, g)
    <3> SUFFICES ASSUME NEW z \in ToSet(todo'), NEW f \in BackSet(z), NEW g \in BackSet(z),
                        Precedes(z.back, f, g)
                 PROVE  Older(f, g)
      OBVIOUS
    <3>1. CASE z = x
      BY <3>1, <1>7
    <3>2. CASE z = y
      BY <3>2, <1>4, <1>7
    <3>3. CASE z \in ToSet(r)
      BY <3>3, <2>0, <1>1 DEF Ordered
    <3> QED BY <3>1, <3>2, <3>3, <1>8
  <2>3. \A z \in ToSet(todo') : \A f \in BackSet(z), g \in ToSet(b) : Older(f, g)
    <3> SUFFICES ASSUME NEW z \in ToSet(todo'), NEW f \in BackSet(z), NEW g \in ToSet(b)
                 PROVE  Older(f, g)
      OBVIOUS
    <3>1. CASE z = x
      BY <3>1, <1>7
    <3>2. CASE z = y
      BY <3>2, <1>4, <1>7
    <3>3. CASE z \in ToSet(r)
      BY <3>3, <2>0, <1>1, <1>26 DEF Ordered
    <3> QED BY <3>1, <3>2, <3>3, <1>8
  <2>4. ASSUME NEW z, NEW w, Precedes(todo', z, w), NEW f \in BackSet(w), NEW g \in BackSet(z)
        PROVE  Older(f, g)
    <3>1. CASE z = x
      BY <3>1, <2>4, <1>7
    <3>2. CASE z = y /\ w \in ToSet(r)
      BY <3>2, <2>0, <2>4, <1>1, <1>7, <1>26 DEF Ordered
    <3>3. CASE Precedes(r, z, w)
      BY <3>3, <2>0, <2>4, <1>1 DEF Ordered
    <3> QED BY <3>1, <3>2, <3>3, <2>4, <1>8
  <2> QED BY <2>1, <2>2, <2>3, <2>4, <1>25 DEF Ordered, BackSet, Older
<1>30. /\ \A k, q : k # m => (On(k, q)' <=> On(k, q))
       /\ \A q : On(m, q)' <=> q = p
  <2>1. \A k, q : On(k, q)' <=> \E s \in Known \cup {n} : turn'[s].message = k /\ turn'[s].panel = q
    BY <1>6 DEF On, Panel
  <2> QED BY <2>1, <1>6, <1>21 DEF On, Panel
<1>31. StartedInOrder'
  <2>0. StartedInOrder
    BY DEF IInv
  <2>1. ASSUME NEW k \in ToSet(started') \ raised', NEW l \in ToSet(started') \ raised', NEW q \in Panels,
               Precedes(started', k, l), On(k, q)', On(l, q)'
        PROVE  k < l
    <3>1. k \notin raised /\ l \notin raised
      BY <1>4
    <3>2. CASE Precedes(started, k, l)
      <4>1. k \in ToSet(started) /\ l \in ToSet(started) /\ k # m /\ l # m
        BY <3>2, <1>19
      <4>2. On(k, q) /\ On(l, q)
        BY <4>1, <2>1, <1>30
      <4> QED BY <4>1, <4>2, <3>1, <3>2, <2>0 DEF StartedInOrder
    <3>3. CASE k \in ToSet(started) /\ l = m
      <4>1. q = p /\ k # m
        BY <3>3, <2>1, <1>19, <1>30
      <4>2. On(k, p) /\ m \in waiting[p]
        BY <4>1, <2>1, <1>5, <1>30
      <4> QED BY <4>1, <4>2, <3>1, <3>3, <2>0 DEF StartedInOrder
    <3> QED BY <3>2, <3>3, <2>1, <1>19
  <2>2. ASSUME NEW q \in Panels, NEW k \in ToSet(started') \ raised', NEW l \in waiting'[q] \ raised',
               On(k, q)'
        PROVE  k < l
    <3>1. k \notin raised /\ l \notin raised /\ l \in waiting[q] /\ l # m
      BY <1>4, <1>20
    <3>2. CASE k # m
      <4>1. k \in ToSet(started) /\ On(k, q)
        BY <3>2, <2>2, <1>19, <1>30
      <4> QED BY <4>1, <3>1, <2>0 DEF StartedInOrder
    <3>3. CASE k = m
      <4>1. q = p
        BY <3>3, <2>2, <1>30
      <4>e. PICK f : f = [to |-> p, message |-> l]
        OBVIOUS
      <4>2. Pending(f)
        BY <4>1, <4>e, <3>1 DEF IInv, Accounted
      <4>3. CASE InBack(f)
        <5>1. f.message \in raised \/ ~Free(f.to)
          BY <4>3 DEF IInv, InBack, Aside
        <5> QED BY <5>1, <4>e, <3>1, <1>5
      <4>4. CASE f \in ToSet(a)
        <5>1. f.message \in raised' \/ ~Free(f.to)
          BY <4>4, <1>4
        <5> QED BY <5>1, <4>e, <2>2, <1>5
      <4>5. CASE f = e
        <5>1. f.message = l
          BY <4>e
        <5> QED BY <5>1, <4>5, <3>1, <1>m
      <4>6. CASE f \in ToSet(b)
        <5>1. Older(e, f)
          BY <4>6, <1>4
        <5> QED BY <5>1, <4>e, <3>3, <1>p, <1>m DEF Older
      <4> QED BY <4>2, <4>3, <4>4, <4>5, <4>6, <1>4 DEF Pending
    <3> QED BY <3>2, <3>3
  <2> QED BY <2>1, <2>2 DEF StartedInOrder
<1>32. /\ \A q \in Panels : q # p => mode'[q] = mode[q] /\ scope'[q] = scope[q]
       /\ mode'[p] = "busy"
  BY <1>2, <1>5 DEF IInv, Types
<1>33. ASSUME NEW f, f.to \in Panels, ~Free(f.to), mode[f.to] = "recording" => f.to \in refused'
       PROVE  ~Free(f.to)' /\ (mode'[f.to] = "recording" => f.to \in refused')
  <2>1. f.to # p
    BY <1>33, <1>5
  <2> QED BY <2>1, <1>33, <1>32 DEF Free
<1>34. Aside'
  <2>0. Aside
    BY DEF IInv
  <2>1. ASSUME NEW z, NEW w, Precedes(todo', z, w), w.op = "unskip", z.turn # 0
        PROVE  /\ ~turn'[z.turn].spoken
               /\ \A f \in BackSet(w) : f.message \in raised' \/ f.to # Panel(z.turn)'
    <3>1. CASE z = x
      <4>1. ~turn'[n].spoken /\ Panel(n)' = p
        BY <1>6 DEF Panel
      <4>2. CASE w = y
        BY <4>1, <4>2, <3>1, <1>4, <1>5, <1>7
      <4>3. CASE w \in ToSet(r)
        <5>1. \A f \in BackSet(w) : f.message \in raised \/ ~Free(f.to)
          BY <4>3, <2>0, <1>1 DEF Aside
        <5> QED BY <5>1, <4>1, <3>1, <1>4, <1>5, <1>7
      <4>4. w = y \/ w \in ToSet(r)
        BY <3>1, <2>1, <1>1, <1>8
      <4> QED BY <4>2, <4>3, <4>4
    <3>2. CASE Precedes(r, z, w)
      <4>1. /\ z \in ToSet(todo) /\ w \in ToSet(todo) /\ Precedes(todo, z, w) /\ z.turn \in Known
        BY <3>2, <2>1, <1>1, <1>10
      <4>2. turn'[z.turn] = turn[z.turn] /\ Panel(z.turn)' = Panel(z.turn)
        BY <4>1, <1>6 DEF Panel
      <4>3. /\ ~turn[z.turn].spoken
            /\ \A f \in BackSet(w) : f.message \in raised \/ f.to # Panel(z.turn)
        BY <4>1, <2>0, <2>1 DEF Aside
      <4> QED BY <4>2, <4>3, <1>4
    <3> QED BY <3>1, <3>2, <2>1, <1>7, <1>8
  <2>2. ASSUME NEW z \in ToSet(todo'), NEW f \in BackSet(z)
        PROVE  \/ f.message \in raised'
               \/ ~Free(f.to)' /\ (mode'[f.to] = "recording" => f.to \in refused')
    <3>1. CASE z = x
      BY <3>1, <1>7
    <3>2. CASE z = y
      <4>1. /\ f.to \in Panels
            /\ f.message \in raised' \/ (~Free(f.to) /\ (mode[f.to] = "recording" => f.to \in refused'))
        BY <3>2, <1>4, <1>7, <1>23, <1>26
      <4> QED BY <4>1, <1>33
    <3>3. CASE z \in ToSet(r)
      <4>1. /\ f.to \in Panels
            /\ f.message \in raised \/ (~Free(f.to) /\ (mode[f.to] = "recording" => f.to \in refused))
        BY <3>3, <2>0, <1>1, <1>23 DEF Aside
      <4> QED BY <4>1, <1>4, <1>33
    <3> QED BY <3>1, <3>2, <3>3, <1>8
  <2>3. \A z, w \in ToSet(todo') : Precedes(todo', z, w) /\ w.op = "unskip" /\ z.turn # 0 =>
          /\ ~turn'[z.turn].spoken
          /\ \A f \in BackSet(w) : f.message \in raised' \/ f.to # Panel(z.turn)'
    BY <2>1
  <2>4. \A z \in ToSet(todo') : \A f \in BackSet(z) :
          f.message \in raised' \/ (~Free(f.to)' /\ (mode'[f.to] = "recording" => f.to \in refused'))
    BY <2>2
  <2> QED BY <2>3, <2>4 DEF Aside, BackSet, Panel, Free
<1>35. Remembered'
  <2>1. x \in ToSet(todo') /\ x.op # "unskip"
    BY <1>7, <1>8
  <2> QED BY <2>1 DEF Remembered
<1>36. Types'
  <2>1. before' \in [Turns -> Known' \cup {0}] /\ current' \in Known' \cup {0}
    BY <1>3, <1>6 DEF IInv, Types
  <2>2. /\ open' \subseteq Known' /\ cancelled' \subseteq Known' /\ drains' \subseteq Known'
        /\ wronged' \subseteq Known'
    BY <1>3, <1>6 DEF IInv, Types
  <2>3. /\ queue' \in Seq(Posts) /\ gone' \subseteq Panels /\ epilogues' \in [Turns -> Seq(StackSteps)]
        /\ sent' \in 0 .. MaxPeers /\ dropped' \subseteq Messages /\ tools' \in 0 .. MaxTools
    BY <1>3 DEF IInv, Types
  <2>4. fifo' \in Seq(Entries) /\ raised' \subseteq Messages /\ refused' \subseteq Panels
    BY <1>4, <1>25
  <2> QED BY <2>1, <2>2, <2>3, <2>4, <1>6, <1>8, <1>18, <1>19, <1>20 DEF Types
<1> QED BY <1>15, <1>16, <1>17, <1>18, <1>22, <1>28, <1>29, <1>31, <1>34, <1>35, <1>36 DEF IInv

\* A kick, whatever it finds.
LEMMA KickStep ==
  ASSUME IInv, Kick
  PROVE  IInv'
BY KickFindsNoneStep, KickStartsStep DEF Kick

-----------------------------------------------------------------------------
(* The invariant holds.                                                    *)

\* Nothing is under way at the start.
LEMMA InitInv == Init => IInv
<1> SUFFICES ASSUME Init PROVE IInv
  OBVIOUS
<1>1. /\ todo = <<>> /\ queue = <<>> /\ fifo = <<>>
      /\ mode = [p \in Panels |-> "idle"] /\ gone = {}
      /\ scope = [p \in Panels |-> 0] /\ turn = <<>>
      /\ open = {} /\ before = [s \in Turns |-> 0] /\ current = 0 /\ cancelled = {}
      /\ drains = {} /\ depth = 0 /\ captured = 0 /\ epilogues = [s \in Turns |-> <<>>]
      /\ waiting = [p \in Panels |-> {}] /\ sent = 0
      /\ started = <<>> /\ dropped = {} /\ raised = {} /\ refused = {}
      /\ wronged = {} /\ tools = 0
  BY DEF Init
<1>2. Known = {}
  BY <1>1 DEF Known
<1>3. <<>> \in Seq({}) /\ \A X : <<>> \in Seq(X)
  BY EmptySeq
<1>4. ToSet(todo) = {} /\ ToSet(queue) = {} /\ ToSet(fifo) = {} /\ ToSet(started) = {}
  BY <1>1, <1>3, ElementsOf
<1>5. Types
  BY <1>1, <1>2, <1>3, TurnsAssumption DEF Types
<1>6. \A d \in Turns : epilogues[d] = <<>> /\ ToSet(epilogues[d]) = {}
  BY <1>1, <1>4
<1>7. Shapes
  BY <1>1, <1>4, <1>6 DEF Shapes
<1>8. OneEnd
  BY <1>1, <1>2, <1>4 DEF OneEnd
<1>9. Sessions
  BY <1>1, FS_EmptySet DEF Sessions, CurrentIsOpen
<1>10. Reached
  BY <1>1, <1>2 DEF Reached
<1>11. OneTurnEach
  <2>1. {s \in DOMAIN turn : turn[s].message = 0} = {}
    BY <1>2 DEF Known
  <2>2. Cardinality({s \in DOMAIN turn : turn[s].message = 0}) <= MaxSends
    BY <2>1, FS_EmptySet, TurnsAssumption
  <2> QED BY <2>2, <1>1, <1>2, <1>4, EmptyContains DEF OneTurnEach
<1>12. Accounted
  BY <1>1, <1>4 DEF Accounted
<1>13. Ordered
  BY <1>1, <1>4 DEF Ordered
<1>14. StartedInOrder
  BY <1>1, <1>4 DEF StartedInOrder
<1>15. Aside
  BY <1>4 DEF Aside
<1>16. Remembered
  BY <1>1 DEF Remembered
<1> QED BY <1>5, <1>7, <1>8, <1>9, <1>10, <1>11, <1>12, <1>13, <1>14, <1>15, <1>16 DEF IInv

\* A step that changes nothing.
LEMMA StutterStep ==
  ASSUME IInv, UNCHANGED vars
  PROVE  IInv'
<1>1. UNCHANGED <<todo, button, session, drain, queue, peer, wronged, tools>>
  BY DEF vars
<1>2. tools' \in 0 .. MaxTools /\ queue' \in Seq(Posts) /\ wronged' \subseteq Known
  BY <1>1 DEF IInv, Types
<1> QED BY <1>1, <1>2, QuietQueue

\* Every click keeps the invariant.
LEMMA ClicksStep ==
  ASSUME IInv, Clicks
  PROVE  IInv'
<1> PICK p \in Panels : \/ ClickSend(p) \/ ClickStopRec(p) \/ ClickRecord(p)
                        \/ ClickCancelRec(p) \/ ClickStop(p) \/ Dispose(p)
  BY DEF Clicks
<1>1. CASE ClickSend(p)
  BY <1>1, StartSendStep DEF ClickSend
<1>2. CASE ClickStopRec(p)
  BY <1>2, StartSendStep DEF ClickStopRec
<1>3. CASE ClickRecord(p)
  BY <1>3, SetModeStep DEF ClickRecord
<1>4. CASE ClickCancelRec(p)
  BY <1>4, SetModeStep DEF ClickCancelRec
<1>5. CASE ClickStop(p) \/ Dispose(p)
  BY <1>5, StopStep
<1> QED BY <1>1, <1>2, <1>3, <1>4, <1>5

\* Every step keeps the invariant.
LEMMA NextInv == IInv /\ [Next]_vars => IInv'
<1> SUFFICES ASSUME IInv, [Next]_vars PROVE IInv'
  OBVIOUS
<1>1. CASE Clicks
  BY <1>1, ClicksStep
<1>2. CASE Items
  BY <1>2, DropItemStep, RunPostStep, RunToolStep, PeerSendStep DEF Items
<1>3. ASSUME NEW s \in DOMAIN turn, \/ Run(s) \/ Listen(s) \/ SttDone(s) \/ NoDrain(s)
                                    \/ OpenDrain(s) \/ Close(s)
      PROVE  IInv'
  BY <1>3, RunStep, ListenStep, SttDoneStep, NoDrainStep, OpenDrainStep, CloseStep
<1>4. CASE Kick \/ Unskip
  BY <1>4, KickStep, UnskipStep
<1>5. ASSUME NEW s \in DOMAIN turn, ToolStarts(s) \/ DrainEnds(s) PROVE IInv'
  BY <1>5, ToolStartsStep, DrainEndsStep
<1>6. CASE UNCHANGED vars
  BY <1>6, StutterStep
<1> QED BY <1>1, <1>2, <1>3, <1>4, <1>5, <1>6 DEF Next, Steps

\* The invariant of the turns and of the messages between documents, for any
\* panels and any bounds.
THEOREM Invariance == Spec => []IInv
BY InitInv, NextInv, PTL DEF Spec

-----------------------------------------------------------------------------
(* Whose drain closes a turn.                                              *)

\* A body is on top of the stack, with nothing captured; a turn that has heard
\* its take is a spoken one; an epilogue is its own drain's or a spoken turn's.
Homes ==
  /\ todo # <<>> => \A x \in ToSet(Tail(todo)) : x.op # "body"
  /\ At({"body"}) => captured = 0
  /\ \A x \in ToSet(todo) : x.op = "heard" => turn[x.turn].spoken
  /\ \A d \in Turns : \A x \in ToSet(epilogues[d]) : x.turn = d \/ turn[x.turn].spoken

\* No turn changes once it has its number.
TurnsGrow == \A s \in Known : turn'[s] = turn[s]

\* Only the top can be a body.
LEMMA NoBody ==
  ASSUME Types, Homes, ~At({"body"})
  PROVE  \A x \in ToSet(todo) : x.op # "body"
<1>1. CASE todo = <<>>
  BY <1>1, ElementsOf DEF Types
<1>2. CASE todo # <<>>
  BY <1>2, StackTop DEF Homes, At, Top
<1> QED BY <1>1, <1>2

\* The steps and epilogues that know a turn, when turns are only added.
LEMMA OldOnes ==
  ASSUME IInv, Homes, TurnsGrow
  PROVE  /\ \A x \in ToSet(todo) : x.op = "heard" => turn'[x.turn].spoken
         /\ \A d \in Turns : \A x \in ToSet(epilogues[d]) : x.turn = d \/ turn'[x.turn].spoken
<1> USE DEF IInv
<1>1. \A x \in ToSet(todo) : x.op = "heard" => x.turn \in Known
  BY DEF Shapes
<1>2. \A d \in Turns : \A x \in ToSet(epilogues[d]) : x.turn \in Known
  BY DEF Shapes
<1> QED BY <1>1, <1>2 DEF Homes, TurnsGrow

\* A step that leaves the stack and the drains alone.
LEMMA SameHomes ==
  ASSUME IInv, Homes, TurnsGrow, UNCHANGED <<todo, captured, epilogues>>
  PROVE  Homes'
BY OldOnes DEF Homes, At, Top

\* A step that puts other steps than a body before what is left of the stack.
LEMMA FrontHomes ==
  ASSUME IInv, Homes, TurnsGrow, NEW q \in Seq(StackSteps), NEW r \in Seq(StackSteps),
         ToSet(r) \subseteq ToSet(todo), \A x \in ToSet(r) : x.op # "body",
         \A x \in ToSet(q) : x.op # "body" /\ (x.op = "heard" => turn'[x.turn].spoken),
         todo' = q \o r,
         \A d \in Turns : \A x \in ToSet(epilogues'[d]) :
           x \in ToSet(epilogues[d]) \/ x.turn = d \/ turn'[x.turn].spoken
  PROVE  Homes'
<1>1. todo' \in Seq(StackSteps) /\ ToSet(todo') = ToSet(q) \cup ToSet(r)
  BY PushElements
<1>2. \A x \in ToSet(todo') : x.op # "body" /\ (x.op = "heard" => turn'[x.turn].spoken)
  BY <1>1, OldOnes
<1>3. todo' # <<>> => Head(todo') \in ToSet(todo') /\ ToSet(Tail(todo')) \subseteq ToSet(todo')
  BY <1>1, PopElements
<1>4. ~At({"body"})'
  BY <1>2, <1>3 DEF At, Top
<1> QED BY <1>2, <1>3, <1>4, OldOnes DEF Homes

\* What a step puts there.
LEMMA OneStep ==
  ASSUME NEW y \in StackSteps
  PROVE  <<y>> \in Seq(StackSteps) /\ ToSet(<<y>>) = {y}
BY DEF ToSet

\* The rest of the stack.
LEMMA RestOfStack ==
  ASSUME Types, Homes, todo # <<>>
  PROVE  /\ Tail(todo) \in Seq(StackSteps) /\ ToSet(Tail(todo)) \subseteq ToSet(todo)
         /\ \A x \in ToSet(Tail(todo)) : x.op # "body"
BY StackTop DEF Homes

\* The whole of it, while the main thread pumps.
LEMMA PumpedStack ==
  ASSUME Types, Homes, Pumping
  PROVE  todo \in Seq(StackSteps) /\ \A x \in ToSet(todo) : x.op # "body"
<1>1. ~At({"body"})
  BY DEF Pumping, At
<1> QED BY <1>1, NoBody DEF Types

\* A new turn leaves the others as they were.
LEMMA NewTurnGrows ==
  ASSUME IInv, NEW p \in Panels, NEW m \in 0 .. MaxPeers, NEW spoken \in BOOLEAN, NewTurn(p, m, spoken)
  PROVE  TurnsGrow
<1> DEFINE r == [panel |-> p, message |-> m, spoken |-> spoken]
<1>1. r \in TurnRecords /\ turn' = Append(turn, r)
  BY DEF TurnRecords, NewTurn
<1> HIDE DEF r
<1> QED BY <1>1, OneMoreTurn DEF TurnsGrow, IInv

\* Clicks do not touch the stack.
LEMMA ClicksHome ==
  ASSUME IInv, Homes, Clicks
  PROVE  Homes'
<1>1. PICK p \in Panels : \/ ClickSend(p) \/ ClickStopRec(p) \/ ClickRecord(p)
                          \/ ClickCancelRec(p) \/ ClickStop(p) \/ Dispose(p)
  BY DEF Clicks
<1>2. ASSUME NEW spoken \in BOOLEAN, StartSend(p, spoken) PROVE Homes'
  <2>1. TurnsGrow
    <3>1. NewTurn(p, 0, spoken) /\ 0 \in 0 .. MaxPeers
      BY <1>2, TurnsAssumption DEF StartSend
    <3> QED BY <3>1, NewTurnGrows
  <2>2. UNCHANGED <<todo, captured, epilogues>>
    BY <1>2 DEF StartSend, drain
  <2> QED BY <2>1, <2>2, SameHomes
<1>3. CASE ClickSend(p) \/ ClickStopRec(p)
  BY <1>2, <1>3 DEF ClickSend, ClickStopRec
<1>4. CASE ClickRecord(p) \/ ClickCancelRec(p)
  <2>1. UNCHANGED <<todo, captured, epilogues, turn>>
    BY <1>4 DEF ClickRecord, ClickCancelRec, SetMode, drain, session
  <2> QED BY <2>1, SameHomes DEF TurnsGrow
<1>5. CASE ClickStop(p) \/ Dispose(p)
  <2>1. UNCHANGED <<todo, captured, epilogues, turn>>
    BY <1>5 DEF ClickStop, Dispose, drain
  <2> QED BY <2>1, SameHomes DEF TurnsGrow
<1> QED BY <1>1, <1>3, <1>4, <1>5

\* The items of the work queue put a turn or a kick on the stack.
LEMMA ItemsHome ==
  ASSUME IInv, Homes, Items
  PROVE  Homes'
<1> USE DEF IInv
<1>1. ASSUME UNCHANGED <<todo, drain, turn>> PROVE Homes'
  BY <1>1, SameHomes DEF TurnsGrow, drain
<1>2. ASSUME NEW y \in StackSteps, y.op \in {"run", "kick"}, Pumping, Nest(<<y>>), UNCHANGED <<drain, turn>>
      PROVE  Homes'
  <2>1. todo \in Seq(StackSteps) /\ \A x \in ToSet(todo) : x.op # "body"
    BY <1>2, PumpedStack
  <2>2. <<y>> \in Seq(StackSteps) /\ ToSet(<<y>>) = {y}
    BY OneStep
  <2>3. TurnsGrow /\ UNCHANGED epilogues /\ todo' = <<y>> \o todo
    BY <1>2 DEF TurnsGrow, drain, Nest
  <2> PICK q : q = <<y>>
    OBVIOUS
  <2> QED BY <1>2, <2>1, <2>2, <2>3, FrontHomes
<1>3. CASE DropItem \/ RunTool
  BY <1>1, <1>3 DEF DropItem, RunTool, session
<1>4. CASE RunPost
  <2>1. TakeItem("send") \/ TakeItem("kick") => Pumping /\ queue # <<>>
    BY DEF TakeItem
  <2>2. Step("kick", 0, FALSE) \in StackSteps /\ Step("kick", 0, FALSE).op = "kick"
    BY KickFields
  <2>3. queue # <<>> => Head(queue).turn \in Nat
    <3>1. queue # <<>> => Head(queue) \in Posts
      BY PopElements DEF Types
    <3> QED BY <3>1 DEF Posts
  <2>4. ASSUME queue # <<>>
        PROVE  LET y == Step("run", Head(queue).turn, FALSE) IN y \in StackSteps /\ y.op = "run"
    <3>1. Head(queue).turn \in Nat /\ "run" \in Steps0 /\ FALSE \in BOOLEAN
      BY <2>3, <2>4, StepNames
    <3> QED BY <3>1, StepFields
  <2>5. CASE TakeItem("send") /\ Nest(<<Step("run", Head(queue).turn, FALSE)>>)
    BY <1>2, <1>4, <2>1, <2>4, <2>5 DEF RunPost, session
  <2>6. CASE TakeItem("kick") /\ Nest(<<Step("kick", 0, FALSE)>>)
    BY <1>2, <1>4, <2>1, <2>2, <2>6 DEF RunPost, session
  <2> QED BY <1>4, <2>5, <2>6 DEF RunPost
<1>5. ASSUME NEW p \in Panels, PeerSend(p) PROVE Homes'
  <2>1. Step("kick", 0, FALSE) \in StackSteps /\ Step("kick", 0, FALSE).op = "kick"
    BY KickFields
  <2>2. Pumping /\ UNCHANGED <<drain, turn>>
    BY <1>5 DEF PeerSend, TakeItem, session
  <2>3. CASE Nest(<<Step("kick", 0, FALSE)>>)
    BY <1>2, <2>1, <2>2, <2>3
  <2>4. CASE UNCHANGED todo
    BY <1>1, <2>2, <2>4
  <2> QED BY <1>5, <2>3, <2>4 DEF PeerSend
<1> QED BY <1>3, <1>4, <1>5 DEF Items

\* The step on top is replaced by one that is not a body.
LEMMA SwapHomes ==
  ASSUME IInv, Homes, todo # <<>>, NEW y \in StackSteps, y.op # "body",
         y.op = "heard" => turn[y.turn].spoken, Then(<<y>>), UNCHANGED <<turn, epilogues>>
  PROVE  Homes'
<1>1. <<y>> \in Seq(StackSteps) /\ ToSet(<<y>>) = {y}
  BY OneStep
<1>2. /\ Tail(todo) \in Seq(StackSteps) /\ ToSet(Tail(todo)) \subseteq ToSet(todo)
      /\ \A x \in ToSet(Tail(todo)) : x.op # "body"
  BY RestOfStack DEF IInv
<1>3. TurnsGrow /\ todo' = <<y>> \o Tail(todo)
  BY DEF TurnsGrow, Then
<1> PICK q : q = <<y>>
  OBVIOUS
<1> QED BY <1>1, <1>2, <1>3, FrontHomes

\* The step on top goes.
LEMMA PopHomes ==
  ASSUME IInv, Homes, todo # <<>>, Then(<<>>), UNCHANGED turn,
         \A d \in Turns : \A x \in ToSet(epilogues'[d]) :
           x \in ToSet(epilogues[d]) \/ x.turn = d \/ turn[x.turn].spoken
  PROVE  Homes'
<1>1. <<>> \in Seq(StackSteps) /\ ToSet(<<>>) = {}
  <2>1. <<>> \in Seq(StackSteps)
    BY EmptySeq
  <2> QED BY <2>1, ElementsOf
<1>2. /\ Tail(todo) \in Seq(StackSteps) /\ ToSet(Tail(todo)) \subseteq ToSet(todo)
      /\ \A x \in ToSet(Tail(todo)) : x.op # "body"
  BY RestOfStack DEF IInv
<1>3. TurnsGrow /\ todo' = <<>> \o Tail(todo)
  BY DEF TurnsGrow, Then
<1> PICK q : q = <<>>
  OBVIOUS
<1> QED BY <1>1, <1>2, <1>3, FrontHomes

\* An epilogue joins a drain.
LEMMA JoinHomes ==
  ASSUME IInv, NEW d \in Turns, NEW y \in StackSteps, y.turn = d \/ turn[y.turn].spoken,
         epilogues' = [epilogues EXCEPT ![d] = Append(@, y)]
  PROVE  \A c \in Turns : \A x \in ToSet(epilogues'[c]) :
           x \in ToSet(epilogues[c]) \/ x.turn = c \/ turn[x.turn].spoken
<1>1. epilogues \in [Turns -> Seq(StackSteps)]
  BY DEF IInv, Types
<1>2. ToSet(Append(epilogues[d], y)) = ToSet(epilogues[d]) \cup {y}
  <2>1. epilogues[d] \in Seq(StackSteps)
    BY <1>1
  <2> PICK q : q = epilogues[d]
    OBVIOUS
  <2> QED BY <2>1, PutElements
<1>3. epilogues'[d] = Append(epilogues[d], y) /\ \A c \in Turns : c # d => epilogues'[c] = epilogues[c]
  BY <1>1
<1> QED BY <1>2, <1>3

\* The session is entered: the capture is cleared, and the body comes next.
LEMMA RunHome ==
  ASSUME IInv, Homes, NEW s \in DOMAIN turn, Run(s)
  PROVE  Homes'
<1> USE DEF IInv
<1>1. todo # <<>> /\ Head(todo).turn = s /\ s \in Known
  BY AtTop, "none" \notin {"run"} DEF Run, Known
<1>2. s \in Nat
  BY <1>1, TopIsReached
<1>3. captured' = 0 /\ UNCHANGED <<turn, epilogues>> /\ TurnsGrow
  BY DEF Run, DeferUntilDrainDone, TurnsGrow
<1>4. CASE s \in cancelled
  <2> PICK y : y = Step("close", s, FALSE)
    OBVIOUS
  <2>1. y \in StackSteps /\ y.op = "close"
    <3>1. "close" \in Steps0 /\ FALSE \in BOOLEAN
      BY StepNames
    <3> QED BY <1>2, <3>1, StepFields
  <2>2. Then(<<y>>)
    BY <1>4 DEF Run, DeferUntilDrainDone
  <2> QED BY <1>1, <1>3, <2>1, <2>2, SwapHomes
<1>5. CASE s \notin cancelled
  <2> PICK y : y = Step("body", s, FALSE)
    OBVIOUS
  <2>1. y \in StackSteps /\ y.op = "body"
    <3>1. "body" \in Steps0 /\ FALSE \in BOOLEAN
      BY StepNames
    <3> QED BY <1>2, <3>1, StepFields
  <2> PICK r : r = Tail(todo)
    OBVIOUS
  <2>2. r \in Seq(StackSteps) /\ ToSet(r) \subseteq ToSet(todo) /\ \A x \in ToSet(r) : x.op # "body"
    BY <1>1, RestOfStack
  <2>3. todo' = <<y>> \o r
    BY <1>5 DEF Run, Then
  <2>4. /\ todo' \in Seq(StackSteps) /\ todo' # <<>> /\ Head(todo') = y /\ Tail(todo') = r
        /\ ToSet(todo') = {y} \cup ToSet(r)
    <3>1. <<y>> \in Seq(StackSteps) /\ ToSet(<<y>>) = {y}
      BY <2>1, OneStep
    <3>2. todo' \in Seq(StackSteps) /\ ToSet(todo') = {y} \cup ToSet(r)
      BY <2>2, <2>3, <3>1, PushElements
    <3>3. Len(todo') = 1 + Len(r) /\ Head(todo') = y /\ Tail(todo') = r /\ Len(r) \in Nat
      BY <2>1, <2>2, <2>3
    <3>4. todo' # <<>>
      BY <3>3, EmptySeq
    <3> QED BY <3>2, <3>3, <3>4
  <2>5. \A x \in ToSet(todo') : x.op = "heard" => turn'[x.turn].spoken
    BY <1>3, <2>1, <2>2, <2>4, OldOnes
  <2> QED BY <1>3, <2>2, <2>4, <2>5, OldOnes DEF Homes
<1> QED BY <1>4, <1>5

\* A spoken turn listens, and hears.
LEMMA TakeHome ==
  ASSUME IInv, Homes, NEW s \in DOMAIN turn, Listen(s) \/ SttDone(s)
  PROVE  Homes'
<1> USE DEF IInv
<1>1. /\ todo # <<>> /\ Head(todo).turn = s /\ s \in Known /\ UNCHANGED <<turn, epilogues>>
      /\ SttDone(s) => Head(todo).op = "stt"
  <2>1. "none" \notin {"body"} /\ "none" \notin {"stt"}
    OBVIOUS
  <2>2. CASE Listen(s)
    <3>1. ~SttDone(s)
      BY <2>2 DEF Listen, SttDone, At
    <3> QED BY <2>1, <2>2, <3>1, AtTop DEF Listen, Known, session, drain
  <2>3. CASE SttDone(s)
    BY <2>1, <2>3, AtTop DEF SttDone, Known, session, drain
  <2> QED BY <2>2, <2>3
<1>2. s \in Nat
  BY <1>1, TopIsReached
<1>3. \A o \in {"stt", "heard"} : Step(o, s, FALSE) \in StackSteps /\ Step(o, s, FALSE).op = o
                                  /\ Step(o, s, FALSE).turn = s
  <2>1. "stt" \in Steps0 /\ "heard" \in Steps0 /\ FALSE \in BOOLEAN
    BY StepNames
  <2>2. \A o \in Steps0 : /\ Step(o, s, FALSE) \in StackSteps /\ Step(o, s, FALSE).op = o
                           /\ Step(o, s, FALSE).turn = s
    BY <1>2, <2>1, StepFields
  <2> QED BY <2>1, <2>2
<1>4. CASE Listen(s)
  <2> PICK y : y = Step("stt", s, FALSE)
    OBVIOUS
  <2>1. y \in StackSteps /\ y.op = "stt"
    BY <1>3
  <2>2. Then(<<y>>)
    BY <1>4 DEF Listen
  <2> QED BY <1>1, <2>1, <2>2, SwapHomes
<1>5. CASE SttDone(s)
  <2> PICK y : y = Step("heard", s, FALSE)
    OBVIOUS
  <2>1. y \in StackSteps /\ y.op = "heard" /\ y.turn = s
    BY <1>3
  <2>2. Then(<<y>>)
    BY <1>5 DEF SttDone
  <2>3. turn[s].spoken
    BY <1>1, <1>5, StackTop DEF Shapes
  <2> QED BY <1>1, <2>1, <2>2, <2>3, SwapHomes
<1> QED BY <1>4, <1>5

\* A turn without a drain of its own closes at once, or it is a spoken one.
LEMMA NoDrainHome ==
  ASSUME IInv, Homes, NEW s \in DOMAIN turn, NoDrain(s)
  PROVE  Homes'
<1> USE DEF IInv
<1>1. todo # <<>> /\ Head(todo).turn = s /\ s \in Known /\ Head(todo).op \in {"body", "heard"}
  BY AtTop, "none" \notin {"body", "heard"} DEF NoDrain, Known
<1>2. s \in Nat
  BY <1>1, TopIsReached
<1> PICK err \in BOOLEAN : DeferUntilDrainDone(s, err, captured')
  BY DEF NoDrain
<1> PICK y : y = Step("close", s, err)
  OBVIOUS
<1>3. y \in StackSteps /\ y.op = "close" /\ y.turn = s
  <2>1. "close" \in Steps0
    BY StepNames
  <2> QED BY <1>2, <2>1, StepFields
<1>4. captured' \in {captured, 0} /\ UNCHANGED turn
  BY DEF NoDrain, session
<1>5. CASE captured' = 0
  <2>1. Then(<<y>>) /\ UNCHANGED epilogues
    BY <1>5 DEF DeferUntilDrainDone
  <2> QED BY <1>1, <1>3, <1>4, <2>1, SwapHomes
<1>6. CASE captured' # 0
  <2>1. turn[s].spoken
    <3>1. Head(todo).op = "heard"
      BY <1>1, <1>4, <1>6 DEF Homes, At, Top
    <3> QED BY <1>1, <3>1, StackTop DEF Homes
  <2> PICK d : d = captured'
    OBVIOUS
  <2>2. d \in Turns
    BY <1>4, <1>6, TurnCount DEF Sessions, Types
  <2>3. Then(<<>>) /\ epilogues' = [epilogues EXCEPT ![d] = Append(@, y)]
    BY <1>6 DEF DeferUntilDrainDone
  <2>4. \A c \in Turns : \A x \in ToSet(epilogues'[c]) :
          x \in ToSet(epilogues[c]) \/ x.turn = c \/ turn[x.turn].spoken
    BY <1>3, <2>1, <2>2, <2>3, JoinHomes
  <2> QED BY <1>1, <1>4, <2>3, <2>4, PopHomes
<1> QED BY <1>5, <1>6

\* A drain gets the close of the turn it was opened for.
LEMMA OpenDrainHome ==
  ASSUME IInv, Homes, NEW s \in DOMAIN turn, OpenDrain(s)
  PROVE  Homes'
<1> USE DEF IInv
<1>1. todo # <<>> /\ Head(todo).turn = s /\ s \in Known
  BY AtTop, "none" \notin {"body", "heard"} DEF OpenDrain, Known
<1>2. s \in Nat /\ s \in Turns /\ s # 0
  BY <1>1, TopIsReached
<1> PICK err \in BOOLEAN : DeferUntilDrainDone(s, err, s)
  BY DEF OpenDrain
<1> PICK y : y = Step("close", s, err)
  OBVIOUS
<1>3. y \in StackSteps /\ y.turn = s
  <2>1. "close" \in Steps0
    BY StepNames
  <2> QED BY <1>2, <2>1, StepFields
<1>4. Then(<<>>) /\ epilogues' = [epilogues EXCEPT ![s] = Append(@, y)] /\ UNCHANGED turn
  BY <1>2 DEF OpenDrain, DeferUntilDrainDone, session
<1>5. \A c \in Turns : \A x \in ToSet(epilogues'[c]) :
        x \in ToSet(epilogues[c]) \/ x.turn = c \/ turn[x.turn].spoken
  BY <1>2, <1>3, <1>4, JoinHomes
<1> QED BY <1>1, <1>4, <1>5, PopHomes

\* A close puts a kick in its place.
LEMMA CloseHome ==
  ASSUME IInv, Homes, NEW s \in DOMAIN turn, Close(s)
  PROVE  Homes'
<1>1. todo # <<>>
  BY AtTop, "none" \notin {"close"} DEF Close
<1> PICK y : y = Step("kick", 0, FALSE)
  OBVIOUS
<1>2. y \in StackSteps /\ y.op = "kick"
  BY KickFields
<1>3. Then(<<y>>) /\ UNCHANGED <<turn, epilogues>>
  BY DEF Close, drain
<1> QED BY <1>1, <1>2, <1>3, SwapHomes

\* A kick that starts a turn puts its run there, and what it has set aside.
LEMMA KickStartsHome ==
  ASSUME IInv, Homes, NEW i \in DOMAIN fifo, NEW R, KickStarts(i, R)
  PROVE  Homes'
<1> USE DEF IInv
<1>1. todo # <<>>
  BY AtTop, "none" \notin {"kick"} DEF KickStarts
<1>2. fifo \in Seq(Entries) /\ i \in 1 .. Len(fifo) /\ fifo[i] \in Entries
  BY LenProperties, ElementOfSeq DEF Types
<1> PICK a : a = SubSeq(fifo, 1, i - 1)
  OBVIOUS
<1>3. a \in Seq(Entries)
  BY <1>2, CutElements
<1>x. PICK x : x = Step("run", Len(turn) + 1, FALSE)
  OBVIOUS
<1>y. PICK y : y = Unskipping(a)
  OBVIOUS
<1>4. x \in StackSteps /\ x.op = "run"
  <2>1. "run" \in Steps0 /\ FALSE \in BOOLEAN /\ Len(turn) + 1 \in Nat
    BY StepNames, TurnNumbers
  <2> QED BY <2>1, <1>x, StepFields
<1>5. y \in StackSteps /\ y.op = "unskip"
  <2>1. "unskip" \in Steps0 /\ FALSE \in BOOLEAN /\ 0 \in Nat
    BY StepNames
  <2>2. y = [op |-> "unskip", turn |-> 0, err |-> FALSE, back |-> a]
    BY <1>y DEF Unskipping
  <2> QED BY <2>1, <2>2, <1>3 DEF StackSteps
<1>q. PICK q : q = <<x, y>>
  OBVIOUS
<1>6. q \in Seq(StackSteps) /\ ToSet(q) = {x, y}
  BY <1>4, <1>5, <1>q, TwoElements
<1>7. todo' = q \o Tail(todo) /\ UNCHANGED epilogues
  BY <1>x, <1>y, <1>q DEF KickStarts, Then, drain
<1>8. /\ Tail(todo) \in Seq(StackSteps) /\ ToSet(Tail(todo)) \subseteq ToSet(todo)
      /\ \A z \in ToSet(Tail(todo)) : z.op # "body"
  BY <1>1, RestOfStack
<1>9. TurnsGrow
  <2>1. NewTurn(fifo[i].to, fifo[i].message, FALSE)
    BY DEF KickStarts
  <2>2. fifo[i].to \in Panels /\ fifo[i].message \in 0 .. MaxPeers
    BY <1>2, TurnsAssumption DEF Entries, Messages
  <2> QED BY <2>1, <2>2, NewTurnGrows
<1> QED BY <1>4, <1>5, <1>6, <1>7, <1>8, <1>9, FrontHomes

\* A kick that finds nothing, and the end of a scan, only leave the stack.
LEMMA KicksHome ==
  ASSUME IInv, Homes, Kick \/ Unskip
  PROVE  Homes'
<1>1. ASSUME NEW R, KickFindsNone(R) PROVE Homes'
  <2>1. todo # <<>>
    BY <1>1, AtTop, "none" \notin {"kick"} DEF KickFindsNone
  <2>2. Then(<<>>) /\ UNCHANGED <<turn, epilogues>>
    BY <1>1 DEF KickFindsNone, session, drain
  <2> QED BY <2>1, <2>2, PopHomes
<1>2. CASE Unskip
  <2>1. todo # <<>>
    BY <1>2, AtTop, "none" \notin {"unskip"} DEF Unskip
  <2>2. Then(<<>>) /\ UNCHANGED <<turn, epilogues>>
    BY <1>2 DEF Unskip, session, drain
  <2> QED BY <2>1, <2>2, PopHomes
<1>3. CASE Kick
  BY <1>1, <1>3, KickStartsHome DEF Kick
<1> QED BY <1>2, <1>3

\* A drain that ends leaves its closes to the stack.
LEMMA DrainEndsHome ==
  ASSUME IInv, Homes, NEW s \in DOMAIN turn, DrainEnds(s)
  PROVE  Homes'
<1> USE DEF IInv
<1>1. Pumping /\ s \in Turns /\ epilogues \in [Turns -> Seq(StackSteps)]
  BY TurnCount DEF DrainEnds, MayPumpVcl, Types, Known
<1> PICK q : q = epilogues[s]
  OBVIOUS
<1>2. q \in Seq(StackSteps) /\ \A x \in ToSet(q) : x.op = "close"
  BY <1>1 DEF Shapes
<1>3. todo' = q \o todo /\ TurnsGrow /\ epilogues' = [epilogues EXCEPT ![s] = <<>>]
  BY DEF DrainEnds, Nest, TurnsGrow, session
<1>4. \A d \in Turns : \A x \in ToSet(epilogues'[d]) : x \in ToSet(epilogues[d])
  <2>1. ToSet(<<>>) = {}
    <3>1. <<>> \in Seq(StackSteps)
      BY EmptySeq
    <3> QED BY <3>1, ElementsOf
  <2>2. epilogues'[s] = <<>> /\ \A d \in Turns : d # s => epilogues'[d] = epilogues[d]
    BY <1>1, <1>3
  <2> QED BY <2>1, <2>2
<1>5. todo \in Seq(StackSteps) /\ \A x \in ToSet(todo) : x.op # "body"
  BY <1>1, PumpedStack
<1> QED BY <1>2, <1>3, <1>4, <1>5, FrontHomes

\* Every step keeps a turn's close at home.
LEMMA NextHomes == IInv /\ Homes /\ [Next]_vars => Homes'
<1> SUFFICES ASSUME IInv, Homes, [Next]_vars PROVE Homes'
  OBVIOUS
<1>1. CASE Clicks \/ Items
  BY <1>1, ClicksHome, ItemsHome
<1>2. ASSUME NEW s \in DOMAIN turn, \/ Run(s) \/ Listen(s) \/ SttDone(s) \/ NoDrain(s)
                                    \/ OpenDrain(s) \/ Close(s)
      PROVE  Homes'
  BY <1>2, RunHome, TakeHome, NoDrainHome, OpenDrainHome, CloseHome
<1>3. CASE Kick \/ Unskip
  BY <1>3, KicksHome
<1>4. ASSUME NEW s \in DOMAIN turn, DrainEnds(s) PROVE Homes'
  BY <1>4, DrainEndsHome
<1>5. ASSUME NEW s \in DOMAIN turn, ToolStarts(s) PROVE Homes'
  <2>1. UNCHANGED <<todo, captured, epilogues, turn>>
    BY <1>5 DEF ToolStarts, drain, session
  <2> QED BY <2>1, SameHomes DEF TurnsGrow
<1>6. CASE UNCHANGED vars
  <2>1. UNCHANGED <<todo, captured, epilogues, turn>>
    BY <1>6 DEF vars, drain, session
  <2> QED BY <2>1, SameHomes DEF TurnsGrow
<1> QED BY <1>1, <1>2, <1>3, <1>4, <1>5, <1>6 DEF Next, Steps

\* There is nothing to close at the start.
LEMMA InitHomes == Init => Homes
<1> SUFFICES ASSUME Init PROVE Homes
  OBVIOUS
<1>1. todo = <<>> /\ epilogues = [s \in Turns |-> <<>>]
  BY DEF Init
<1>2. ToSet(<<>>) = {}
  <2>1. <<>> \in Seq({})
    BY EmptySeq
  <2> QED BY <2>1, ElementsOf
<1>3. Top = "none"
  BY <1>1 DEF Top
<1> QED BY <1>1, <1>2, <1>3 DEF Homes, At

\* A turn that did not listen is closed at once or by its own drain.
LEMMA ClosesHome ==
  ASSUME IInv, Homes
  PROVE  ClosesAtHome
<1>1. ASSUME NEW d \in drains, NEW i \in DOMAIN epilogues[d]
      PROVE  epilogues[d][i].turn = d \/ turn[epilogues[d][i].turn].spoken
  <2>1. d \in Turns
    BY TurnCount DEF IInv, Types
  <2>2. epilogues[d][i] \in ToSet(epilogues[d])
    BY DEF ToSet
  <2> QED BY <2>1, <2>2 DEF Homes
<1> QED BY <1>1 DEF ClosesAtHome

-----------------------------------------------------------------------------
(* What the invariant says of the run's properties.                        *)

\* The invariant has the types in it.
LEMMA HasTypes ==
  ASSUME IInv
  PROVE  TypeOK
<1> USE DEF IInv
<1>1. /\ Len(turn) <= MaxTurns /\ Known \subseteq Turns /\ Known \subseteq 1 .. MaxTurns
      /\ \A s \in Known : turn[s] \in TurnRecords
  BY TurnCount, TurnNumbers DEF Turns
<1>2. Known \cup {0} \subseteq 0 .. MaxTurns
  BY <1>1, TurnsAssumption DEF MaxTurns
<1>3. ASSUME NEW x \in StackSteps, x.turn \in Known \cup {0} PROVE x \in StepSet
  <2>1. x.turn \in 0 .. MaxTurns
    BY <1>2, <1>3
  <2> QED BY <2>1 DEF StackSteps, StepSet, Entries
<1>4. \A i \in DOMAIN todo : todo[i] \in StepSet
  <2>1. \A x \in ToSet(todo) : x \in StackSteps /\ x.turn \in Known \cup {0}
    BY ElementTypes DEF Shapes
  <2> QED BY <2>1, <1>3 DEF ToSet
<1>5. \A s \in Turns : \A i \in DOMAIN epilogues[s] : epilogues[s][i] \in StepSet
  <2>1. \A s \in Turns : \A x \in ToSet(epilogues[s]) : x \in StackSteps /\ x.turn \in Known \cup {0}
    BY ElementTypes DEF Shapes
  <2> QED BY <2>1, <1>3 DEF ToSet
<1>6. \A i \in DOMAIN queue :
        queue[i] \in [do : {"send", "kick", "tool"}, turn : 0 .. MaxTurns, bound : 0 .. MaxTurns]
  <2>1. ASSUME NEW x \in ToSet(queue)
        PROVE  x \in [do : {"send", "kick", "tool"}, turn : 0 .. MaxTurns, bound : 0 .. MaxTurns]
    <3>1. x \in Posts /\ x.turn \in 0 .. MaxTurns /\ x.bound \in 0 .. MaxTurns
      BY <1>2, ElementTypes DEF Shapes
    <3> QED BY <3>1 DEF Posts
  <2> QED BY <2>1 DEF ToSet
<1>7. \A i \in DOMAIN fifo : fifo[i] \in [to : Panels, message : Messages]
  BY ElementTypes DEF ToSet, Entries
<1>8. depth \in 0 .. MaxTurns
  <2>1. drains \subseteq Known /\ IsFiniteSet(Known) /\ Cardinality(Known) = Len(turn)
        /\ Len(turn) \in Nat
    BY TurnNumbers DEF Types
  <2>2. Cardinality(drains) <= Len(turn) /\ Cardinality(drains) \in Nat
    BY <2>1, FS_Subset, FS_CardinalityType
  <2> QED BY <1>1, <2>1, <2>2, TurnsAssumption DEF Sessions, MaxTurns
<1>9. captured \in 0 .. MaxTurns /\ current \in 0 .. MaxTurns
  <2>1. captured \in Known \cup {0} /\ current \in Known \cup {0}
    BY DEF Types, Sessions
  <2> QED BY <1>2, <2>1
<1>10. scope \in [Panels -> 0 .. MaxTurns] /\ before \in [Turns -> 0 .. MaxTurns]
  BY <1>2 DEF Types
<1>11. \A s \in DOMAIN turn : turn[s] \in [panel : Panels, message : 0 .. MaxPeers, spoken : BOOLEAN]
  BY <1>1 DEF Known, TurnRecords
<1>12. open \cup cancelled \cup drains \subseteq DOMAIN turn /\ wronged \subseteq DOMAIN turn
  BY DEF Types, Known
<1> QED
  BY <1>1, <1>4, <1>5, <1>6, <1>7, <1>8, <1>9, <1>10, <1>11, <1>12 DEF Types, TypeOK

\* Two positions of a sequence, one in front of the other.
LEMMA TwoPlaces ==
  ASSUME NEW X, NEW q \in Seq(X), NEW i \in DOMAIN q, NEW k \in DOMAIN q, i # k
  PROVE  Precedes(q, q[i], q[k]) \/ Precedes(q, q[k], q[i])
<1>1. Len(q) \in Nat /\ DOMAIN q = 1 .. Len(q)
  BY LenProperties
<1>2. i < k \/ k < i
  BY <1>1
<1> QED BY <1>1, <1>2 DEF Precedes

\* A place from which a turn is still to be closed.
AtQueue(s, u) == \E i \in DOMAIN queue : queue[i].do = "send" /\ queue[i].turn = s /\ u = <<"queue", i>>
AtStack(s, u) == \E i \in DOMAIN todo : todo[i].turn = s /\ u = <<"stack", i>>
AtDrain(d, s, u) == \E i \in DOMAIN epilogues[d] : epilogues[d][i].turn = s /\ u = <<d, i>>

\* The places of a turn's end are of three kinds.
LEMMA PlacesOf ==
  ASSUME NEW s
  PROVE  \A u : u \in Ends(s) <=> AtQueue(s, u) \/ AtStack(s, u) \/ \E d \in drains : AtDrain(d, s, u)
<1> DEFINE D == {{<<d, i>> : i \in {j \in DOMAIN epilogues[d] : epilogues[d][j].turn = s}} : d \in drains}
<1>1. \A u : u \in UNION D <=> \E d \in drains : AtDrain(d, s, u)
  BY DEF AtDrain
<1>2. \A u : u \in {<<"queue", i>> : i \in {j \in DOMAIN queue : queue[j].do = "send" /\ queue[j].turn = s}}
              <=> AtQueue(s, u)
  BY DEF AtQueue
<1>3. \A u : u \in {<<"stack", i>> : i \in {j \in DOMAIN todo : todo[j].turn = s}} <=> AtStack(s, u)
  BY DEF AtStack
<1> QED BY <1>1, <1>2, <1>3 DEF Ends

\* Where the places are.
LEMMA PlacesAre ==
  ASSUME NEW s
  PROVE  /\ \A u : AtQueue(s, u) => Posted(s)
         /\ \A u : AtStack(s, u) => OnStack(s)
         /\ \A d \in drains : \A u : AtDrain(d, s, u) => InDrain(d, s)
         /\ Posted(s) => \E u : AtQueue(s, u)
         /\ OnStack(s) => \E u : AtStack(s, u)
         /\ \A d \in drains : InDrain(d, s) => \E u : AtDrain(d, s, u)
<1>1. (\E u : AtQueue(s, u)) <=> Posted(s)
  BY DEF AtQueue, Posted, ToSet
<1>2. (\E u : AtStack(s, u)) <=> OnStack(s)
  BY DEF AtStack, OnStack, ToSet
<1>3. \A d \in drains : (\E u : AtDrain(d, s, u)) <=> InDrain(d, s)
  BY DEF AtDrain, InDrain, ToSet
<1> QED BY <1>1, <1>2, <1>3

\* A turn has an end to come when there is a place for it.
LEMMA UnfinishedIs == \A s : s \in Unfinished <=> HasEnd(s)
<1> SUFFICES ASSUME NEW s PROVE s \in Unfinished <=> HasEnd(s)
  OBVIOUS
<1>1. (\E u : u \in Ends(s)) <=> Posted(s) \/ OnStack(s) \/ \E d \in drains : InDrain(d, s)
  BY PlacesOf, PlacesAre
<1>2. Ends(s) # {} <=> \E u : u \in Ends(s)
  OBVIOUS
<1> QED BY <1>1, <1>2 DEF Unfinished, HasEnd, Known

\* There is one place at most.
LEMMA OnePlace ==
  ASSUME IInv, NEW s \in Known, NEW u \in Ends(s), NEW v \in Ends(s)
  PROVE  u = v
<1> USE DEF IInv
<1>0. /\ AtQueue(s, u) \/ AtStack(s, u) \/ \E d \in drains : AtDrain(d, s, u)
      /\ AtQueue(s, v) \/ AtStack(s, v) \/ \E d \in drains : AtDrain(d, s, v)
  BY PlacesOf
<1>1. ~(Posted(s) /\ OnStack(s))
      /\ \A d \in drains : InDrain(d, s) => ~Posted(s) /\ ~OnStack(s)
  BY DEF OneEnd
<1>t. /\ queue \in Seq(Posts) /\ todo \in Seq(StackSteps) /\ s # 0
      /\ \A d \in drains : epilogues[d] \in Seq(StackSteps) /\ d \in Known
  <2>1. drains \subseteq Turns
    BY TurnCount DEF Types
  <2> QED BY <2>1, TurnNumbers DEF Types
<1>2. CASE AtQueue(s, u) /\ AtQueue(s, v)
  <2>1. PICK i \in DOMAIN queue : queue[i].do = "send" /\ queue[i].turn = s /\ u = <<"queue", i>>
    BY <1>2 DEF AtQueue
  <2>2. PICK k \in DOMAIN queue : queue[k].do = "send" /\ queue[k].turn = s /\ v = <<"queue", k>>
    BY <1>2 DEF AtQueue
  <2>3. ASSUME i # k PROVE FALSE
    <3>1. Precedes(queue, queue[i], queue[k]) \/ Precedes(queue, queue[k], queue[i])
      BY <1>t, <2>3, TwoPlaces
    <3>2. queue[i] \in ToSet(queue) /\ queue[k] \in ToSet(queue)
      BY DEF ToSet
    <3> QED BY <2>1, <2>2, <3>1, <3>2 DEF OneEnd
  <2> QED BY <2>1, <2>2, <2>3
<1>3. CASE AtStack(s, u) /\ AtStack(s, v)
  <2>1. PICK i \in DOMAIN todo : todo[i].turn = s /\ u = <<"stack", i>>
    BY <1>3 DEF AtStack
  <2>2. PICK k \in DOMAIN todo : todo[k].turn = s /\ v = <<"stack", k>>
    BY <1>3 DEF AtStack
  <2>3. ASSUME i # k PROVE FALSE
    <3>1. Precedes(todo, todo[i], todo[k]) \/ Precedes(todo, todo[k], todo[i])
      BY <1>t, <2>3, TwoPlaces
    <3>2. todo[i] \in ToSet(todo) /\ todo[k] \in ToSet(todo)
      BY DEF ToSet
    <3> QED BY <1>t, <2>1, <2>2, <3>1, <3>2 DEF OneEnd
  <2> QED BY <2>1, <2>2, <2>3
<1>4. ASSUME NEW d \in drains, NEW e \in drains, AtDrain(d, s, u), AtDrain(e, s, v)
      PROVE  u = v
  <2>1. PICK i \in DOMAIN epilogues[d] : epilogues[d][i].turn = s /\ u = <<d, i>>
    BY <1>4 DEF AtDrain
  <2>d. d = e
    <3>1. InDrain(d, s) /\ InDrain(e, s)
      BY <1>4, PlacesAre
    <3> QED BY <3>1 DEF OneEnd
  <2>2. PICK k \in DOMAIN epilogues[d] : epilogues[d][k].turn = s /\ v = <<d, k>>
    BY <1>4, <2>d DEF AtDrain
  <2>3. ASSUME i # k PROVE FALSE
    <3> DEFINE q == epilogues[d]
    <3>0. q \in Seq(StackSteps) /\ i \in DOMAIN q /\ k \in DOMAIN q
      BY <1>t
    <3>1. Precedes(q, q[i], q[k]) \/ Precedes(q, q[k], q[i])
      <4> HIDE DEF q
      <4> QED BY <3>0, <2>3, TwoPlaces
    <3>2. epilogues[d][i] \in ToSet(epilogues[d]) /\ epilogues[d][k] \in ToSet(epilogues[d])
      BY DEF ToSet
    <3> QED BY <2>1, <2>2, <3>1, <3>2 DEF OneEnd
  <2> QED BY <2>1, <2>2, <2>3
<1>5. /\ AtQueue(s, u) \/ AtQueue(s, v) => Posted(s)
      /\ AtStack(s, u) \/ AtStack(s, v) => OnStack(s)
      /\ \A d \in drains : AtDrain(d, s, u) \/ AtDrain(d, s, v) => InDrain(d, s)
  BY PlacesAre
<1> QED BY <1>0, <1>1, <1>2, <1>3, <1>4, <1>5

\* A set of one element at most.
LEMMA AtMostOne ==
  ASSUME NEW S, \A u, v \in S : u = v
  PROVE  Cardinality(S) <= 1
<1>1. CASE S = {}
  <2>1. Cardinality(S) = 0
    BY <1>1, FS_EmptySet
  <2> QED BY <2>1
<1>2. CASE S # {}
  <2>1. PICK x : x \in S
    BY <1>2
  <2>2. S = {x}
    BY <2>1
  <2>3. Cardinality({x}) = 1
    BY FS_Singleton
  <2> QED BY <2>2, <2>3
<1> QED BY <1>1, <1>2

\* Every turn that was started has one end to come, and Stop has its scope
\* until then.
LEMMA HasTurns ==
  ASSUME IInv, Homes
  PROVE  TurnInv
<1> USE DEF IInv
<1>1. EndsOnce
  <2>1. ASSUME NEW s \in DOMAIN turn PROVE Cardinality(Ends(s)) <= 1
    <3>1. \A u, v \in Ends(s) : u = v
      BY OnePlace DEF Known
    <3> QED BY <3>1, AtMostOne
  <2>2. open \subseteq Unfinished
    <3>1. \A s \in open : HasEnd(s)
      BY DEF Sessions, Types, HasEnd
    <3> QED BY <3>1, UnfinishedIs
  <2>3. \A s \in drains : \E i \in DOMAIN epilogues[s] : epilogues[s][i].turn = s
    BY DEF Sessions, InDrain, ToSet
  <2>4. depth = Cardinality(drains) /\ captured \in drains \cup {0}
    BY DEF Sessions
  <2> QED BY <2>1, <2>2, <2>3, <2>4 DEF EndsOnce
<1>2. StopReaches
  <2>1. \A s \in Unfinished : scope[Panel(s)] = s /\ (Live(Panel(s)) => mode[Panel(s)] = "busy")
    BY UnfinishedIs DEF Reached, HasEnd
  <2>2. \A p \in Panels \ gone :
          IF mode[p] = "busy" THEN scope[p] \in Unfinished \cup wronged ELSE scope[p] = 0
    BY UnfinishedIs DEF Reached
  <2> QED BY <2>1, <2>2 DEF StopReaches
<1> QED BY <1>1, <1>2, HasTypes, ClosesHome DEF TurnInv, Sessions

\* Messages that wait, in the order and in the queues.
LEMMA QueuedIs ==
  /\ \A e : e \in Queued <=> Pending(e)
  /\ Queued = ToSet(fifo) \cup Skipped
  /\ \A e : e \in Skipped <=> InBack(e)
<1>1. \A x : {x.back[j] : j \in DOMAIN x.back} = BackSet(x)
  BY DEF BackSet, ToSet
<1>2. \A e : e \in Skipped <=> \E i \in DOMAIN todo : e \in BackSet(todo[i])
  BY <1>1 DEF Skipped
<1>3. \A e : InBack(e) <=> \E i \in DOMAIN todo : e \in BackSet(todo[i])
  BY DEF InBack, ToSet
<1>4. Queued = ToSet(fifo) \cup Skipped
  BY DEF Queued, ToSet
<1> QED BY <1>2, <1>3, <1>4 DEF Pending

\* A waiting message is known by its panel and its number.
LEMMA EntryOf ==
  ASSUME NEW e \in Entries
  PROVE  e = [to |-> e.to, message |-> e.message] /\ e.to \in Panels /\ e.message \in Messages
BY DEF Entries

\* A waiting message is one of its panel's.
LEMMA PendingIs ==
  ASSUME IInv
  PROVE  /\ \A e : Pending(e) => e \in Entries /\ e.message \in waiting[e.to]
         /\ \A p \in Panels : \A m \in waiting[p] : Pending([to |-> p, message |-> m])
<1> USE DEF IInv
<1>1. /\ ToSet(fifo) \subseteq Entries /\ ToSet(todo) \subseteq StackSteps
      /\ \A x \in StackSteps : BackSet(x) \subseteq Entries
  BY ElementTypes
<1>2. /\ \A e \in ToSet(fifo) : e.message \in waiting[e.to]
      /\ \A x \in ToSet(todo) : \A e \in BackSet(x) : e.message \in waiting[e.to]
      /\ \A p \in Panels : \A m \in waiting[p] : Pending([to |-> p, message |-> m])
  BY DEF Accounted
<1> QED BY <1>1, <1>2 DEF Pending, InBack

\* There are finitely many messages.
LEMMA EntriesFinite == IsFiniteSet(Entries)
<1> DEFINE P == Panels \X Messages
           f == [a \in P |-> [to |-> a[1], message |-> a[2]]]
<1>1. IsFiniteSet(Panels) /\ IsFiniteSet(Messages)
  <2>1. 1 \in Int /\ MaxPeers \in Int
    BY TurnsAssumption
  <2>2. IsFiniteSet(1 .. MaxPeers)
    BY <2>1, FS_Interval
  <2> QED BY <2>2, TurnsAssumption DEF Messages
<1>2. IsFiniteSet(P)
  BY <1>1, FS_Product
<1>3. f \in Surjection(P, Entries)
  <2>1. f \in [P -> Entries]
    BY DEF Entries
  <2>2. ASSUME NEW e \in Entries PROVE \E a \in P : f[a] = e
    <3>1. <<e.to, e.message>> \in P /\ f[<<e.to, e.message>>] = [to |-> e.to, message |-> e.message]
      BY EntryOf
    <3>2. e = [to |-> e.to, message |-> e.message]
      BY EntryOf
    <3> QED BY <3>1, <3>2
  <2> HIDE DEF f, P
  <2> QED BY <2>1, <2>2 DEF Surjection
<1> HIDE DEF f, P
<1> QED BY <1>2, <1>3, FS_Surjection

\* No message waits twice.
LEMMA QueuedOnce ==
  ASSUME IInv
  PROVE  Len(fifo) + Cardinality(Skipped) = Cardinality(Queued)
<1> USE DEF IInv
<1>1. IsDistinct(fifo) /\ fifo \in Seq(Entries)
  <2>0. fifo \in Seq(Entries)
    BY DEF Types
  <2>1. \A x \in ToSet(fifo) : ~Precedes(fifo, x, x)
    BY DEF Ordered, Older
  <2> QED BY <2>0, <2>1, DistinctOrder
<1>2. Cardinality(ToSet(fifo)) = Len(fifo)
  BY <1>1, DistinctCount
<1>3. ToSet(fifo) \cap Skipped = {}
  <2>1. ASSUME NEW e \in ToSet(fifo), InBack(e) PROVE FALSE
    <3>1. PICK x \in ToSet(todo) : e \in BackSet(x)
      BY <2>1 DEF InBack
    <3>2. Older(e, e)
      BY <3>1 DEF Ordered
    <3> QED BY <3>2 DEF Older
  <2> QED BY <2>1, QueuedIs
<1>4. ToSet(fifo) \subseteq Entries /\ Skipped \subseteq Entries
  BY QueuedIs, PendingIs DEF Pending
<1>5. IsFiniteSet(ToSet(fifo)) /\ IsFiniteSet(Skipped)
  BY <1>4, EntriesFinite, FS_Subset
<1>6. Cardinality(ToSet(fifo) \cup Skipped) =
        Cardinality(ToSet(fifo)) + Cardinality(Skipped) - Cardinality(ToSet(fifo) \cap Skipped)
  BY <1>5, FS_Union
<1>7. Cardinality(ToSet(fifo) \cap Skipped) = 0
  BY <1>3, FS_EmptySet
<1>8. Cardinality(ToSet(fifo)) \in Nat /\ Cardinality(Skipped) \in Nat
  BY <1>5, FS_CardinalityType
<1>9. Queued = ToSet(fifo) \cup Skipped
  BY QueuedIs
<1> QED BY <1>2, <1>6, <1>7, <1>8, <1>9

\* A message waits, was started once, or was dropped.
LEMMA HasPeersOnce ==
  ASSUME IInv
  PROVE  PeersOnce
<1> USE DEF IInv
<1>1. Queued = UNION {{[to |-> p, message |-> m] : m \in waiting[p]} : p \in Panels}
  <2>1. ASSUME NEW e \in Queued PROVE \E p \in Panels : \E m \in waiting[p] : e = [to |-> p, message |-> m]
    <3>1. e \in Entries /\ e.message \in waiting[e.to]
      BY <2>1, QueuedIs, PendingIs
    <3> QED BY <3>1, EntryOf
  <2>2. ASSUME NEW p \in Panels, NEW m \in waiting[p] PROVE [to |-> p, message |-> m] \in Queued
    BY QueuedIs, PendingIs
  <2> QED BY <2>1, <2>2
<1> DEFINE W == {e.message : e \in Queued}
           S == ToSet(started)
<1>2. \A m : m \in W <=> \E p \in Panels : m \in waiting[p]
  <2>1. ASSUME NEW e \in Queued PROVE e.to \in Panels /\ e.message \in waiting[e.to]
    BY QueuedIs, PendingIs, EntryOf
  <2>2. ASSUME NEW p \in Panels, NEW m \in waiting[p] PROVE m \in W
    <3>1. [to |-> p, message |-> m] \in Queued /\ [to |-> p, message |-> m].message = m
      BY QueuedIs, PendingIs
    <3> QED BY <3>1
  <2> QED BY <2>1, <2>2
<1> HIDE DEF W
<1>3. /\ \A p \in Panels : \A m \in waiting[p] : m \in Messages
      /\ started \in Seq(Messages) /\ S \subseteq Messages /\ dropped \subseteq Messages /\ sent \in 0 .. MaxPeers
  BY ElementTypes DEF Types
<1>4. /\ \A p \in Panels : \A m \in waiting[p] : m <= sent /\ m \notin S /\ m \notin dropped
      /\ \A m \in S : m <= sent /\ m \notin dropped
      /\ \A m \in dropped : m <= sent
      /\ \A m \in 1 .. sent : (\E p \in Panels : m \in waiting[p]) \/ m \in S \cup dropped
  BY DEF Accounted
<1>5. Cardinality(S) = Len(started)
  BY <1>3, DistinctCount DEF OneTurnEach
<1> HIDE DEF S
<1>6. \A m \in Messages : m <= sent => m \in 1 .. sent
  BY <1>3, TurnsAssumption DEF Messages
<1>7. W \cup S \cup dropped = 1 .. sent
  <2>1. \A m \in W : m \in 1 .. sent
    BY <1>2, <1>3, <1>4, <1>6
  <2>2. \A m \in S \cup dropped : m \in 1 .. sent
    BY <1>3, <1>4, <1>6
  <2>3. \A m \in 1 .. sent : m \in W \cup S \cup dropped
    BY <1>2, <1>4
  <2> QED BY <2>1, <2>2, <2>3
<1>8. W \cap S = {} /\ (W \cup S) \cap dropped = {}
  BY <1>2, <1>4
<1> QED BY <1>1, <1>5, <1>7, <1>8, QueuedOnce DEF PeersOnce, W, S

\* A panel gets its messages in the order they were accepted.
LEMMA HasPeersInOrder ==
  ASSUME IInv
  PROVE  PeersInOrder
<1> USE DEF IInv
<1> DEFINE to(m) == CHOOSE s \in DOMAIN turn : turn[s].message = m
<1>0. Len(started) \in Nat /\ DOMAIN started = 1 .. Len(started) /\ started \in Seq(Messages)
  BY LenProperties DEF Types
<1>1. ASSUME NEW m \in ToSet(started) PROVE to(m) \in Known /\ turn[to(m)].message = m
  <2>1. \E s \in DOMAIN turn : turn[s].message = m
    BY DEF OneTurnEach, Known
  <2> QED BY <2>1 DEF Known
<1> SUFFICES ASSUME NEW i \in DOMAIN started, NEW j \in DOMAIN started, i < j,
                    turn[to(started[i])].panel = turn[to(started[j])].panel,
                    {started[i], started[j]} \cap raised = {}
             PROVE  started[i] < started[j]
  BY DEF PeersInOrder
<1> DEFINE m == started[i]
           k == started[j]
<1>2. m \in ToSet(started) \ raised /\ k \in ToSet(started) \ raised
  BY DEF ToSet
<1>3. Precedes(started, m, k)
  BY <1>0 DEF Precedes
<1>4. /\ to(m) \in Known /\ turn[to(m)].message = m
      /\ to(k) \in Known /\ turn[to(k)].message = k /\ Panel(to(m)) = Panel(to(k))
  BY <1>1, <1>2 DEF Panel
<1> HIDE DEF m, k, to
<1>5. Panel(to(m)) \in Panels
  BY <1>4, TurnNumbers DEF Panel, TurnRecords
<1>6. On(m, Panel(to(m))) /\ On(k, Panel(to(m)))
  BY <1>4 DEF On
<1>7. m < k
  BY <1>2, <1>3, <1>5, <1>6 DEF StartedInOrder
<1> QED BY <1>7 DEF m, k

\* With nothing left to do, a waiting message has its reason.
LEMMA HasReasons ==
  ASSUME IInv
  PROVE  PeersNotForgotten
<1> USE DEF IInv
<1> SUFFICES ASSUME todo = <<>>, queue = <<>>, drains = {}, NEW e \in Queued
             PROVE  e.to \in refused \/ e.message \in raised \/ scope[e.to] \in wronged
  BY DEF PeersNotForgotten
<1>1. ToSet(todo) = {} /\ ToSet(queue) = {}
  BY ElementsOf DEF Types
<1>2. \A s : ~HasEnd(s)
  BY <1>1 DEF HasEnd, Posted, OnStack
<1>3. e.to \in Panels /\ e.message \in waiting[e.to]
  BY QueuedIs, PendingIs, EntryOf
<1> QED BY <1>1, <1>2, <1>3 DEF Remembered

-----------------------------------------------------------------------------
(* The properties of the runs.                                             *)

\* _run_turn_drain, defer_until_drain_done and _EventDrain._finish close every
\* turn once, at once or by its own drain unless it is a spoken one, and until
\* then Stop has the turn's own scope: the panel's send cancellation is the
\* turn's, and its button is busy.
THEOREM TurnsEndOnce == Spec => []TurnInv
<1>1. IInv /\ Homes => TurnInv
  BY HasTurns
<1>2. Spec => []Homes
  BY InitHomes, NextHomes, Invariance, PTL DEF Spec
<1> QED BY <1>1, <1>2, Invariance, PTL

\* _restore_send_cancellation never brings back a scope whose turn is over.
THEOREM NoStaleScope == Spec => []CurrentIsOpen
<1>1. IInv => CurrentIsOpen
  BY DEF IInv, Sessions
<1> QED BY <1>1, Invariance, PTL

\* PeerTurnQueue holds every accepted message once, a kick starts it once, and
\* each panel gets its messages in order, whatever the nesting of kicks and
\* turns; only a Stop of the panel drops any.
THEOREM PeersOnceInOrder == Spec => []PeersInv
<1>1. IInv => PeersInv
  BY HasPeersOnce, HasPeersInOrder DEF PeersInv
<1> QED BY <1>1, Invariance, PTL

\* When the main thread has nothing left to do, no message waits that a kick
\* would have started.
THEOREM NoPeerForgotten == Spec => []PeersNotForgotten
<1>1. IInv => PeersNotForgotten
  BY HasReasons
<1> QED BY <1>1, Invariance, PTL
=============================================================================
