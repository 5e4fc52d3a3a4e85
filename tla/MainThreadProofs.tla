-------------------------- MODULE MainThreadProofs --------------------------
(***************************************************************************)
(* Proofs about MainThread: the inductive invariant IInv and what follows  *)
(* from it, for any threads, programs, scopes and bounds.                  *)
(***************************************************************************)
EXTENDS MainThread, SequencesExt, SequenceTheorems,
        FiniteSetTheorems, WellFoundedInduction, TLAPS

-----------------------------------------------------------------------------
(* Lists: what the operations on them keep.                                *)

\* Every non-empty set of natural numbers has a least element: < on Nat is
\* well-founded, which the library states without an operator parameter.
LEMMA LeastNat ==
  ASSUME NEW T \in SUBSET Nat, T # {}
  PROVE  \E n \in T : \A m \in T : n <= m
<1> DEFINE R == {ss \in Nat \X Nat : ss[1] < ss[2]}
<1>1. IsWellFoundedOn(R, Nat)
  BY NatLessThanWellFounded, Zenon DEF OpToRel
<1>2. PICK x \in T : \A y \in T : <<y, x>> \notin R
  <2> HIDE DEF R
  <2> QED BY <1>1, WFMin
<1>3. \A y \in T : ~(y < x)
  BY <1>2
<1> QED BY <1>2, <1>3

\* Induction up to a bound: a set that has 0 and, with every n below the
\* bound, n + 1.
LEMMA BoundedInduction ==
  ASSUME NEW N \in Nat, NEW G,
         0 \in G, \A n \in 1 .. N : n - 1 \in G => n \in G
  PROVE  0 .. N \subseteq G
<1> DEFINE Bad == (0 .. N) \ G
<1> SUFFICES ASSUME Bad # {} PROVE FALSE
  OBVIOUS
<1>1. Bad \in SUBSET Nat
  OBVIOUS
<1>2. PICK m \in Bad : \A k \in Bad : m <= k
  <2> HIDE DEF Bad
  <2> QED BY <1>1, LeastNat
<1>3. m \in 1 .. N /\ m - 1 \in 0 .. N
  OBVIOUS
<1>4. m - 1 \in G
  <2> SUFFICES ASSUME m - 1 \notin G PROVE FALSE
    OBVIOUS
  <2>1. m - 1 \in Bad
    BY <1>3
  <2>2. m <= m - 1
    BY <2>1, <1>2
  <2> QED BY <2>2, <1>3
<1> QED BY <1>3, <1>4

\* The recursive function in Without exists.
LEMMA WithoutExists ==
  ASSUME NEW X, NEW q \in Seq(X), NEW S
  PROVE  \E f : f = [n \in 0 .. Len(q) |-> WithoutStep(q, S, f, n)]
<1> DEFINE Solves(f, m) == /\ f \in [0 .. m -> Seq(X)]
                           /\ \A n \in 0 .. m : f[n] = WithoutStep(q, S, f, n)
           G == {m \in 0 .. Len(q) : \E f : Solves(f, m)}
<1>0. Len(q) \in Nat
  BY LenProperties
<1>1. 0 \in G
  <2> DEFINE g == [n \in 0 .. 0 |-> <<>>]
  <2>1. Solves(g, 0)
    BY EmptySeq DEF WithoutStep
  <2>2. 0 \in 0 .. Len(q)
    BY <1>0
  <2> QED BY <2>1, <2>2
<1>2. ASSUME NEW m \in 1 .. Len(q), m - 1 \in G PROVE m \in G
  <2>1. PICK f : Solves(f, m - 1)
    BY <1>2
  <2> DEFINE g == [n \in 0 .. m |-> IF n < m THEN f[n] ELSE WithoutStep(q, S, f, m)]
  <2>2. m \in Nat /\ m # 0 /\ m - 1 \in 0 .. m - 1
    BY <1>0
  <2>3. q[m] \in X /\ f[m - 1] \in Seq(X)
    BY <2>1, <2>2, ElementOfSeq
  <2>4. WithoutStep(q, S, f, m) \in Seq(X)
    BY <2>2, <2>3, AppendProperties DEF WithoutStep
  <2>5. \A n \in 0 .. m : n < m => n \in 0 .. m - 1
    BY <2>2
  <2>6. g \in [0 .. m -> Seq(X)]
    BY <2>1, <2>4, <2>5
  <2>7. ASSUME NEW n \in 0 .. m PROVE g[n] = WithoutStep(q, S, g, n)
    <3>1. n = 0 \/ (n - 1 \in 0 .. m - 1 /\ n - 1 \in 0 .. m /\ n - 1 < m)
      BY <2>2
    <3>2. g[n] = WithoutStep(q, S, f, n)
      BY <2>1, <2>5, <2>2
    <3>3. n # 0 => g[n - 1] = f[n - 1]
      BY <3>1
    <3> HIDE DEF g
    <3> QED BY <3>2, <3>3 DEF WithoutStep
  <2>8. Solves(g, m)
    BY <2>6, <2>7
  <2> HIDE DEF Solves
  <2> QED BY <2>8, <1>0
<1>3. Len(q) \in G
  <2> HIDE DEF G
  <2>1. 0 .. Len(q) \subseteq G
    BY <1>0, <1>1, <1>2, BoundedInduction
  <2> QED BY <2>1, <1>0
<1>4. PICK f : Solves(f, Len(q))
  BY <1>3
<1>5. f = [n \in 0 .. Len(q) |-> WithoutStep(q, S, f, n)]
  BY <1>4
<1> QED BY <1>5

\* What is left is a sequence of the elements of q that are not in S, and none
\* comes more often than before.
LEMMA WithoutProperties ==
  ASSUME NEW X, NEW q \in Seq(X), NEW S
  PROVE  /\ Without(q, S) \in Seq(X)
         /\ \A x : Contains(Without(q, S), x) <=> Contains(q, x) /\ x \notin S
         /\ IsDistinct(q) => IsDistinct(Without(q, S))
<1> DEFINE f == CHOOSE f : f = [n \in 0 .. Len(q) |-> WithoutStep(q, S, f, n)]
<1>0. Len(q) \in Nat /\ \A n \in 1 .. Len(q) : q[n] \in X
  BY LenProperties, ElementOfSeq
<1>1. f = [n \in 0 .. Len(q) |-> WithoutStep(q, S, f, n)]
  BY WithoutExists
<1>2. Without(q, S) = f[Len(q)]
  BY DEF Without
<1> HIDE DEF f
<1> DEFINE Has(n, x) == \E i \in 1 .. n : q[i] = x
           Good(n) == /\ f[n] \in Seq(X)
                      /\ \A x : Contains(f[n], x) <=> Has(n, x) /\ x \notin S
                      /\ IsDistinct(q) => IsDistinct(f[n])
           G == {n \in 0 .. Len(q) : Good(n)}
<1>3. 0 \in G
  <2>1. f[0] = <<>> /\ 0 \in 0 .. Len(q)
    BY <1>0, <1>1 DEF WithoutStep
  <2>2. <<>> \in Seq(X) /\ Len(<<>>) = 0
    BY EmptySeq
  <2>3. \A x : ~Contains(<<>>, x) /\ ~Has(0, x)
    BY <2>2 DEF Contains
  <2>4. IsDistinct(<<>>)
    BY <2>2 DEF IsDistinct
  <2> HIDE DEF Has
  <2> QED BY <2>1, <2>2, <2>3, <2>4
<1>4. ASSUME NEW n \in 1 .. Len(q), n - 1 \in G PROVE n \in G
  <2>1. Good(n - 1) /\ n \in 0 .. Len(q) /\ n - 1 \in Nat
    BY <1>4, <1>0
  <2>2. f[n] = IF q[n] \in S THEN f[n - 1] ELSE Append(f[n - 1], q[n])
    <3>1. n \in 0 .. Len(q) /\ n # 0
      BY <1>0
    <3>2. f[n] = WithoutStep(q, S, f, n)
      BY <1>1, <3>1
    <3> QED BY <3>1, <3>2 DEF WithoutStep
  <2>3. \A x : Has(n, x) <=> Has(n - 1, x) \/ q[n] = x
    BY <2>1
  <2>4. CASE q[n] \in S
    <3>1. f[n] = f[n - 1]
      BY <2>2, <2>4
    <3>2. \A x : Contains(f[n], x) <=> Has(n, x) /\ x \notin S
      BY <3>1, <2>1, <2>3, <2>4
    <3> HIDE DEF Has
    <3> QED BY <3>1, <3>2, <2>1
  <2>5. CASE q[n] \notin S
    <3> DEFINE p == f[n - 1]
    <3>1. p \in Seq(X) /\ Len(p) \in Nat /\ f[n] = Append(p, q[n]) /\ q[n] \in X
      BY <2>1, <2>2, <2>5, <1>0, LenProperties
    <3>2. /\ f[n] \in Seq(X) /\ Len(f[n]) = Len(p) + 1
          /\ f[n][Len(p) + 1] = q[n]
          /\ \A i \in 1 .. Len(p) : f[n][i] = p[i]
      BY <3>1, AppendProperties
    <3>3. \A x : Contains(f[n], x) <=> Contains(p, x) \/ x = q[n]
      BY <3>1, <3>2 DEF Contains
    <3>4. \A x : Contains(f[n], x) <=> Has(n, x) /\ x \notin S
      <4> HIDE DEF Has
      <4> QED BY <3>3, <2>1, <2>3, <2>5
    <3>5. ASSUME IsDistinct(q) PROVE IsDistinct(f[n])
      <4>1. ~Has(n - 1, q[n])
        BY <3>5, <2>1, <1>0 DEF IsDistinct
      <4>2. \A i \in 1 .. Len(p) : p[i] # q[n]
        <5> HIDE DEF Has
        <5> QED BY <4>1, <2>1 DEF Contains
      <4>3. IsDistinct(p)
        BY <3>5, <2>1
      <4>4. \A i \in 1 .. Len(f[n]) : i \in 1 .. Len(p) \/ i = Len(p) + 1
        BY <3>1, <3>2
      <4> HIDE DEF p
      <4> QED BY <4>2, <4>3, <4>4, <3>1, <3>2 DEF IsDistinct
    <3> HIDE DEF Has
    <3> QED BY <3>2, <3>4, <3>5, <2>1
  <2> QED BY <2>4, <2>5
<1>5. Len(q) \in G
  <2> HIDE DEF G
  <2>1. 0 .. Len(q) \subseteq G
    BY <1>0, <1>3, <1>4, BoundedInduction
  <2> QED BY <2>1, <1>0
<1>6. \A x : Has(Len(q), x) <=> Contains(q, x)
  BY DEF Contains
<1> HIDE DEF Has
<1> QED BY <1>2, <1>5, <1>6

\* What is left keeps its order.
LEMMA WithoutOrder ==
  ASSUME NEW X, NEW q \in Seq(X), NEW S, NEW x, NEW y, Precedes(Without(q, S), x, y)
  PROVE  Precedes(q, x, y)
<1> DEFINE f == CHOOSE f : f = [n \in 0 .. Len(q) |-> WithoutStep(q, S, f, n)]
<1>0. Len(q) \in Nat /\ \A n \in 1 .. Len(q) : q[n] \in X
  BY LenProperties, ElementOfSeq
<1>1. f = [n \in 0 .. Len(q) |-> WithoutStep(q, S, f, n)]
  BY WithoutExists
<1>2. Without(q, S) = f[Len(q)]
  BY DEF Without
<1> HIDE DEF f
<1> DEFINE Has(n, a) == \E i \in 1 .. n : q[i] = a
           Ordered(n, a, b) == \E i, k \in 1 .. n : i < k /\ q[i] = a /\ q[k] = b
           Good(n) == /\ f[n] \in Seq(X)
                      /\ \A a : Contains(f[n], a) => Has(n, a)
                      /\ \A a, b : Precedes(f[n], a, b) => Ordered(n, a, b)
           G == {n \in 0 .. Len(q) : Good(n)}
<1>3. 0 \in G
  <2>1. f[0] = <<>> /\ 0 \in 0 .. Len(q)
    BY <1>0, <1>1 DEF WithoutStep
  <2>2. /\ <<>> \in Seq(X) /\ \A a : ~Contains(<<>>, a)
        /\ \A a, b : ~Precedes(<<>>, a, b)
    BY EmptySeq DEF Contains, Precedes
  <2> HIDE DEF Has, Ordered
  <2> QED BY <2>1, <2>2
<1>4. ASSUME NEW n \in 1 .. Len(q), n - 1 \in G PROVE n \in G
  <2>1. Good(n - 1) /\ n \in 0 .. Len(q) /\ n - 1 \in Nat
    BY <1>4, <1>0
  <2>2. f[n] = IF q[n] \in S THEN f[n - 1] ELSE Append(f[n - 1], q[n])
    <3>1. n \in 0 .. Len(q) /\ n # 0
      BY <1>0
    <3>2. f[n] = WithoutStep(q, S, f, n)
      BY <1>1, <3>1
    <3> QED BY <3>1, <3>2 DEF WithoutStep
  <2>3. \A a : Has(n, a) <=> Has(n - 1, a) \/ q[n] = a
    BY <2>1
  <2>4. \A a, b : Ordered(n - 1, a, b) \/ (Has(n - 1, a) /\ q[n] = b) => Ordered(n, a, b)
    <3>1. \A i \in 1 .. n - 1 : i \in 1 .. n /\ i < n
      BY <2>1
    <3> QED BY <2>1, <3>1
  <2> HIDE DEF Has, Ordered
  <2>5. CASE q[n] \in S
    <3>1. f[n] = f[n - 1]
      BY <2>2, <2>5
    <3> QED BY <3>1, <2>1, <2>3, <2>4
  <2>6. CASE q[n] \notin S
    <3> DEFINE p == f[n - 1]
    <3>1. p \in Seq(X) /\ Len(p) \in Nat /\ f[n] = Append(p, q[n]) /\ q[n] \in X
      BY <2>1, <2>2, <2>6, <1>0, LenProperties
    <3>2. /\ f[n] \in Seq(X) /\ Len(f[n]) = Len(p) + 1
          /\ f[n][Len(p) + 1] = q[n]
          /\ \A i \in 1 .. Len(p) : f[n][i] = p[i]
      BY <3>1, AppendProperties
    <3>3. \A a : Contains(f[n], a) => Contains(p, a) \/ a = q[n]
      BY <3>1, <3>2 DEF Contains
    <3>4. ASSUME NEW a, NEW b, Precedes(f[n], a, b)
          PROVE  Precedes(p, a, b) \/ (Contains(p, a) /\ b = q[n])
      <4> PICK i \in 1 .. Len(f[n]), k \in 1 .. Len(f[n]) :
            i < k /\ f[n][i] = a /\ f[n][k] = b
        BY <3>4 DEF Precedes
      <4>1. i \in 1 .. Len(p) /\ p[i] = a
        BY <3>1, <3>2
      <4>2. CASE k = Len(p) + 1
        BY <3>2, <4>1, <4>2 DEF Contains
      <4>3. CASE k # Len(p) + 1
        <5>1. k \in 1 .. Len(p) /\ p[k] = b
          BY <3>1, <3>2, <4>3
        <5> QED BY <4>1, <5>1 DEF Precedes
      <4> QED BY <4>2, <4>3
    <3> QED BY <3>2, <3>3, <3>4, <2>1, <2>3, <2>4
  <2> QED BY <2>5, <2>6
<1>5. Len(q) \in G
  <2> HIDE DEF G
  <2>1. 0 .. Len(q) \subseteq G
    BY <1>0, <1>3, <1>4, BoundedInduction
  <2> QED BY <2>1, <1>0
<1>6. Ordered(Len(q), x, y) => Precedes(q, x, y)
  BY DEF Precedes
<1> HIDE DEF Ordered
<1> QED BY <1>2, <1>5, <1>6

LEMMA AppendContains ==
  ASSUME NEW X, NEW q \in Seq(X), NEW e \in X
  PROVE  /\ Append(q, e) \in Seq(X)
         /\ \A x : Contains(Append(q, e), x) <=> Contains(q, x) \/ x = e
         /\ IsDistinct(q) /\ ~Contains(q, e) => IsDistinct(Append(q, e))
<1>1. /\ Append(q, e) \in Seq(X) /\ Len(q) \in Nat
      /\ Len(Append(q, e)) = Len(q) + 1 /\ Append(q, e)[Len(q) + 1] = e
      /\ \A i \in 1 .. Len(q) : Append(q, e)[i] = q[i]
  BY AppendProperties, LenProperties
<1>2. \A i \in 1 .. Len(Append(q, e)) : i \in 1 .. Len(q) \/ i = Len(q) + 1
  BY <1>1
<1>3. \A x : Contains(Append(q, e), x) <=> Contains(q, x) \/ x = e
  BY <1>1, <1>2 DEF Contains
<1>4. IsDistinct(q) /\ ~Contains(q, e) => IsDistinct(Append(q, e))
  BY <1>1, <1>2 DEF IsDistinct, Contains
<1> QED BY <1>1, <1>3, <1>4

LEMMA TailContains ==
  ASSUME NEW X, NEW q \in Seq(X), q # <<>>
  PROVE  /\ Head(q) \in X /\ Tail(q) \in Seq(X)
         /\ \A x : Contains(q, x) <=> Contains(Tail(q), x) \/ x = Head(q)
         /\ IsDistinct(q) => IsDistinct(Tail(q)) /\ ~Contains(Tail(q), Head(q))
<1>1. /\ Head(q) \in X /\ Tail(q) \in Seq(X) /\ Head(q) = q[1]
      /\ Len(q) \in Nat /\ Len(q) # 0 /\ Len(Tail(q)) = Len(q) - 1
      /\ \A i \in 1 .. Len(Tail(q)) : Tail(q)[i] = q[i + 1]
  BY HeadTailProperties, LenProperties, EmptySeq
<1>2. \A i \in 1 .. Len(q) : i = 1 \/ i - 1 \in 1 .. Len(Tail(q))
  BY <1>1
<1>3. \A i \in 1 .. Len(Tail(q)) : i + 1 \in 1 .. Len(q)
  BY <1>1
<1>4. \A x : Contains(q, x) <=> Contains(Tail(q), x) \/ x = Head(q)
  <2> SUFFICES ASSUME NEW x PROVE Contains(q, x) <=> Contains(Tail(q), x) \/ x = Head(q)
    OBVIOUS
  <2>1. ASSUME Contains(q, x) PROVE Contains(Tail(q), x) \/ x = Head(q)
    <3>1. PICK i \in 1 .. Len(q) : q[i] = x
      BY <2>1 DEF Contains
    <3>2. i # 1 => i - 1 \in 1 .. Len(Tail(q)) /\ Tail(q)[i - 1] = x
      BY <1>1, <1>2, <3>1
    <3> QED BY <3>1, <3>2, <1>1 DEF Contains
  <2>2. ASSUME Contains(Tail(q), x) \/ x = Head(q) PROVE Contains(q, x)
    BY <2>2, <1>1, <1>3 DEF Contains
  <2> QED BY <2>1, <2>2
<1>5. ASSUME IsDistinct(q) PROVE IsDistinct(Tail(q)) /\ ~Contains(Tail(q), Head(q))
  BY <1>1, <1>3, <1>5 DEF IsDistinct, Contains
<1> QED BY <1>1, <1>4, <1>5

LEMMA EmptyContains ==
  /\ \A x : ~Contains(<<>>, x)
  /\ IsDistinct(<<>>)
  /\ \A X : <<>> \in Seq(X)
BY EmptySeq DEF Contains, IsDistinct

\* The order under the operations of a queue.
LEMMA EmptyOrder == \A x, y : ~Precedes(<<>>, x, y)
BY DEF Precedes

LEMMA AppendOrder ==
  ASSUME NEW X, NEW q \in Seq(X), NEW e \in X
  PROVE  \A x, y : Precedes(Append(q, e), x, y) <=>
                     Precedes(q, x, y) \/ (Contains(q, x) /\ y = e)
<1>1. /\ Append(q, e) \in Seq(X) /\ Len(q) \in Nat
      /\ Len(Append(q, e)) = Len(q) + 1 /\ Append(q, e)[Len(q) + 1] = e
      /\ \A i \in 1 .. Len(q) : Append(q, e)[i] = q[i]
  BY AppendProperties, LenProperties
<1>2. \A i \in 1 .. Len(Append(q, e)) : i \in 1 .. Len(q) \/ i = Len(q) + 1
  BY <1>1
<1>3. \A i \in 1 .. Len(q) : i \in 1 .. Len(Append(q, e)) /\ i < Len(q) + 1
  BY <1>1
<1>4. Len(q) + 1 \in 1 .. Len(Append(q, e))
  BY <1>1
<1>5. ASSUME NEW x, NEW y, Precedes(Append(q, e), x, y)
      PROVE  Precedes(q, x, y) \/ (Contains(q, x) /\ y = e)
  BY <1>1, <1>2, <1>5 DEF Precedes, Contains
<1>6. ASSUME NEW x, NEW y, Precedes(q, x, y) \/ (Contains(q, x) /\ y = e)
      PROVE  Precedes(Append(q, e), x, y)
  <2>1. CASE Precedes(q, x, y)
    BY <2>1, <1>1, <1>3 DEF Precedes
  <2>2. CASE Contains(q, x) /\ y = e
    <3>1. PICK i \in 1 .. Len(q) : q[i] = x
      BY <2>2 DEF Contains
    <3>2. Append(q, e)[i] = x /\ Append(q, e)[Len(q) + 1] = y
      BY <3>1, <2>2, <1>1
    <3> HIDE DEF Contains
    <3> QED BY <3>2, <1>3, <1>4 DEF Precedes
  <2> QED BY <1>6, <2>1, <2>2
<1> QED BY <1>5, <1>6

LEMMA TailOrder ==
  ASSUME NEW X, NEW q \in Seq(X), q # <<>>
  PROVE  /\ \A x, y : Precedes(Tail(q), x, y) => Precedes(q, x, y)
         /\ \A y : Contains(Tail(q), y) => Precedes(q, Head(q), y)
<1>1. /\ Tail(q) \in Seq(X) /\ Head(q) = q[1] /\ Len(q) \in Nat /\ Len(q) # 0
      /\ Len(Tail(q)) = Len(q) - 1 /\ \A i \in 1 .. Len(Tail(q)) : Tail(q)[i] = q[i + 1]
  BY HeadTailProperties, LenProperties, EmptySeq
<1>2. \A i \in 1 .. Len(Tail(q)) : i + 1 \in 1 .. Len(q) /\ 1 < i + 1 /\ 1 \in 1 .. Len(q)
  BY <1>1
<1>3. \A i, k \in 1 .. Len(Tail(q)) : i < k => i + 1 < k + 1
  BY <1>1
<1>4. ASSUME NEW x, NEW y, Precedes(Tail(q), x, y) PROVE Precedes(q, x, y)
  <2>1. PICK i \in 1 .. Len(Tail(q)), k \in 1 .. Len(Tail(q)) :
          i < k /\ Tail(q)[i] = x /\ Tail(q)[k] = y
    BY <1>4 DEF Precedes
  <2>2. q[i + 1] = x /\ q[k + 1] = y /\ i + 1 < k + 1
    BY <2>1, <1>1, <1>3
  <2> QED BY <2>2, <1>2 DEF Precedes
<1>5. ASSUME NEW y, Contains(Tail(q), y) PROVE Precedes(q, Head(q), y)
  <2>1. PICK k \in 1 .. Len(Tail(q)) : Tail(q)[k] = y
    BY <1>5 DEF Contains
  <2>2. q[1] = Head(q) /\ q[k + 1] = y /\ 1 < k + 1
    BY <2>1, <1>1, <1>2
  <2> QED BY <2>2, <1>2 DEF Precedes
<1> QED BY <1>4, <1>5

\* Two sequences put together.
LEMMA ConcatContains ==
  ASSUME NEW X, NEW p \in Seq(X), NEW q \in Seq(X)
  PROVE  /\ p \o q \in Seq(X)
         /\ \A x : Contains(p \o q, x) <=> Contains(p, x) \/ Contains(q, x)
         /\ IsDistinct(p) /\ IsDistinct(q) /\ (\A x : ~(Contains(p, x) /\ Contains(q, x)))
              => IsDistinct(p \o q)
<1> DEFINE r == p \o q
<1>1. /\ r \in Seq(X) /\ Len(r) = Len(p) + Len(q) /\ Len(p) \in Nat /\ Len(q) \in Nat
      /\ \A i \in 1 .. Len(p) + Len(q) : r[i] = IF i <= Len(p) THEN p[i] ELSE q[i - Len(p)]
  BY ConcatProperties, LenProperties
<1> HIDE DEF r
<1>2. \A i \in 1 .. Len(r) :
        \/ i \in 1 .. Len(p) /\ r[i] = p[i]
        \/ i - Len(p) \in 1 .. Len(q) /\ r[i] = q[i - Len(p)]
  BY <1>1
<1>3. \A i \in 1 .. Len(p) : i \in 1 .. Len(r) /\ r[i] = p[i]
  BY <1>1
<1>4. \A i \in 1 .. Len(q) : Len(p) + i \in 1 .. Len(r) /\ r[Len(p) + i] = q[i]
  <2> SUFFICES ASSUME NEW i \in 1 .. Len(q)
               PROVE  Len(p) + i \in 1 .. Len(r) /\ r[Len(p) + i] = q[i]
    OBVIOUS
  <2>1. Len(p) + i \in 1 .. Len(p) + Len(q) /\ ~(Len(p) + i <= Len(p))
        /\ (Len(p) + i) - Len(p) = i
    BY <1>1
  <2> QED BY <2>1, <1>1
<1>5. \A x : Contains(r, x) <=> Contains(p, x) \/ Contains(q, x)
  BY <1>2, <1>3, <1>4 DEF Contains
<1>6. ASSUME IsDistinct(p), IsDistinct(q), \A x : ~(Contains(p, x) /\ Contains(q, x))
      PROVE  IsDistinct(r)
  <2>1. \A i \in 1 .. Len(p), k \in 1 .. Len(q) : p[i] # q[k]
    BY <1>6 DEF Contains
  <2> SUFFICES ASSUME NEW i \in 1 .. Len(r), NEW k \in 1 .. Len(r), r[i] = r[k] PROVE i = k
    BY DEF IsDistinct
  <2>2. CASE i \in 1 .. Len(p) /\ r[i] = p[i]
    <3>1. ~(k - Len(p) \in 1 .. Len(q) /\ r[k] = q[k - Len(p)])
      BY <2>1, <2>2
    <3>2. k \in 1 .. Len(p) /\ r[k] = p[k]
      BY <3>1, <1>2
    <3> QED BY <2>2, <3>2, <1>6 DEF IsDistinct
  <2>3. CASE i - Len(p) \in 1 .. Len(q) /\ r[i] = q[i - Len(p)]
    <3>1. ~(k \in 1 .. Len(p) /\ r[k] = p[k])
      BY <2>1, <2>3
    <3>2. k - Len(p) \in 1 .. Len(q) /\ r[k] = q[k - Len(p)]
      BY <3>1, <1>2
    <3>3. i - Len(p) = k - Len(p)
      BY <2>3, <3>2, <1>6 DEF IsDistinct
    <3> QED BY <3>3, <1>1
  <2> QED BY <2>2, <2>3, <1>2
<1> QED BY <1>1, <1>5, <1>6 DEF r

-----------------------------------------------------------------------------
(* MainThread.                                                             *)

\* A thread that is inside call or post has a job to hand over.
LEMMA BusyJob ==
  ASSUME TypeOK, ProgramInv, NEW t \in Threads, pc[t] # "idle"
  PROVE  /\ idx[t] \in 1..Len(Program[t])
         /\ Job(t) \in Jobs /\ Job(t) = Program[t][idx[t]]
<1>1. Program[t] \in Seq(Jobs)
  BY JobsAssumption
<1>2. idx[t] \in Nat \ {0} /\ idx[t] <= Len(Program[t])
  BY DEF TypeOK, ProgramInv, Actors
<1> QED
  BY <1>1, <1>2, ElementOfSeq, LenProperties DEF Job

\* Stop keeps a subsequence: the jobs of other scopes, each once.
LEMMA SurvivorsKept ==
  ASSUME NEW q \in Seq(Jobs), NEW s
  PROVE  /\ Survivors(q, s) \in Seq(Jobs)
         /\ \A i \in 1..Len(Survivors(q, s)) :
              /\ ScopeOf[Survivors(q, s)[i]] # s
              /\ \E k \in 1..Len(q) : Survivors(q, s)[i] = q[k]
         /\ Distinct(q) => Distinct(Survivors(q, s))
         /\ \A j \in Jobs : Contains(Survivors(q, s), j) <=> Contains(q, j) /\ ScopeOf[j] # s
         /\ \A j, k : Precedes(Survivors(q, s), j, k) => Precedes(q, j, k)
<1> DEFINE S == {j \in Jobs : ScopeOf[j] = s}
           r == Without(q, S)
<1>1. /\ r \in Seq(Jobs)
      /\ \A x : Contains(r, x) <=> Contains(q, x) /\ x \notin S
      /\ IsDistinct(q) => IsDistinct(r)
  BY WithoutProperties
<1>2. \A j, k : Precedes(r, j, k) => Precedes(q, j, k)
  BY WithoutOrder
<1> HIDE DEF r
<1>3. \A i \in 1..Len(r) : r[i] \in Jobs /\ Contains(r, r[i])
  BY <1>1, ElementOfSeq DEF Contains
<1>4. \A i \in 1..Len(r) : ScopeOf[r[i]] # s /\ \E k \in 1..Len(q) : r[i] = q[k]
  BY <1>1, <1>3 DEF Contains
<1>5. Survivors(q, s) = r
  BY DEF Survivors, r
<1> QED BY <1>1, <1>2, <1>4, <1>5 DEF Distinct, IsDistinct

LEMMA SurvivorsEmpty ==
  ASSUME NEW q \in Seq(Jobs), NEW s, Survivors(q, s) # <<>>
  PROVE  q # <<>>
<1>1. Survivors(q, s) \in Seq(Jobs)
  BY SurvivorsKept
<1>2. 1 \in 1..Len(Survivors(q, s))
  BY <1>1, LenProperties
<1> QED BY <1>2, SurvivorsKept

\* How the sequence operations of the code keep elements distinct.
LEMMA DistinctTail ==
  ASSUME NEW q \in Seq(Jobs), q # <<>>, Distinct(q)
  PROVE  /\ Tail(q) \in Seq(Jobs) /\ Head(q) \in Jobs /\ Distinct(Tail(q))
         /\ \A i \in 1..Len(Tail(q)) :
              /\ i + 1 \in 1..Len(q) /\ Tail(q)[i] = q[i + 1]
              /\ Tail(q)[i] # Head(q)
         /\ 1 \in 1..Len(q) /\ Head(q) = q[1]
BY HeadTailProperties, LenProperties DEF Distinct

LEMMA DistinctAppend ==
  ASSUME NEW q \in Seq(Jobs), NEW j \in Jobs, Distinct(q),
         \A i \in 1..Len(q) : q[i] # j
  PROVE  /\ Append(q, j) \in Seq(Jobs) /\ Distinct(Append(q, j))
         /\ \A i \in 1..Len(Append(q, j)) :
              \/ i \in 1..Len(q) /\ Append(q, j)[i] = q[i]
              \/ Append(q, j)[i] = j
BY AppendProperties, LenProperties DEF Distinct

LEMMA DistinctConcat ==
  ASSUME NEW p \in Seq(Jobs), NEW q \in Seq(Jobs), Distinct(p), Distinct(q),
         \A i \in 1..Len(p), k \in 1..Len(q) : p[i] # q[k]
  PROVE  /\ p \o q \in Seq(Jobs) /\ Distinct(p \o q)
         /\ \A i \in 1..Len(p \o q) :
              \/ i \in 1..Len(p) /\ (p \o q)[i] = p[i]
              \/ \E k \in 1..Len(q) : (p \o q)[i] = q[k]
<1>1. /\ p \o q \in Seq(Jobs) /\ Len(p \o q) = Len(p) + Len(q)
      /\ Len(p) \in Nat /\ Len(q) \in Nat
      /\ \A i \in 1..Len(p) + Len(q) :
           (p \o q)[i] = IF i <= Len(p) THEN p[i] ELSE q[i - Len(p)]
  BY ConcatProperties, LenProperties
<1>2. \A i \in 1..Len(p \o q) : i <= Len(p) \/ i - Len(p) \in 1..Len(q)
  BY <1>1
<1> QED BY <1>1, <1>2 DEF Distinct

LEMMA DistinctOne ==
  ASSUME NEW j \in Jobs
  PROVE  <<j>> \in Seq(Jobs) /\ Len(<<j>>) = 1 /\ <<j>>[1] = j /\ Distinct(<<j>>)
BY DEF Distinct

-----------------------------------------------------------------------------
LEMMA ReturnType ==
  ASSUME TypeOK, NEW t \in Threads, Job(t) \in Jobs, NEW r \in Outcomes, Return(t, r)
  PROVE  /\ pc' \in [Actors -> {"idle", "slot", "flush", "flushing", "flushPoke", "enqueue",
                        "put", "poke", "wait", "expired", "sawClaim", "inflight",
                        "wakePending"}]
         /\ idx' \in [Actors -> Nat \ {0}] /\ ret' \in [Jobs -> Outcomes]
<1>1. idx[t] \in Nat \ {0}
  BY DEF TypeOK, Actors
<1>2. idx' \in [Actors -> Nat \ {0}]
  BY <1>1 DEF TypeOK, Return, Actors
<1> QED BY <1>2 DEF TypeOK, Return, Goto, Actors

\* Type correctness.  The jobs named by the actions are jobs because a busy
\* thread has one.
LEMMA TypeStep ==
  ASSUME TypeOK, ProgramInv, [Next]_vars
  PROVE  TypeOK'
<1> USE JobsAssumption, ActorAssumption DEF tvars, qvars, cvars, Goto, SetStatus, Actors
<1>t. ASSUME NEW t \in Threads, CheckCallback(t) \/ CallerStep(t) \/ WaitExpires(t)
      PROVE  TypeOK'
  <2>0. pc[t] # "idle" => idx[t] \in 1..Len(Program[t]) /\ Job(t) \in Jobs
    BY BusyJob
  <2>r. ASSUME NEW r \in Outcomes, Return(t, r), Job(t) \in Jobs, UNCHANGED ctx,
               service' \in {"unset", "ready", "disabled"},
               pending' \in Seq(Jobs), UNCHANGED <<batch, moved, order, queue, stack>>,
               pokes' \in Nat, status' \in [Jobs -> Status], UNCHANGED cvars
        PROVE  TypeOK'
    BY <2>r, ReturnType DEF TypeOK
  <2>1. CASE CheckCallback(t)
    <3>1. Job(t) \in Jobs
      BY <2>1, ElementOfSeq DEF CheckCallback, Job, TypeOK
    <3>2. service' \in {"unset", "ready", "disabled"}
      <4>1. service \in {"unset", "ready", "disabled"}
        BY DEF TypeOK
      <4>2. CallbackReady \/ CallbackMissing
        BY <2>1 DEF CheckCallback
      <4> QED BY <4>1, <4>2 DEF CallbackReady, CallbackMissing
    <3>4. status' \in [Jobs -> Status]
      BY <2>1, <3>1 DEF CheckCallback, TypeOK, Status
    <3>3. CASE Return(t, "RuntimeError")
      BY <2>1, <2>r, <3>1, <3>2, <3>3, <3>4 DEF CheckCallback, TypeOK, Outcomes
    <3>5. CASE /\ Goto(t, "flush") \/ Goto(t, "slot")
               /\ UNCHANGED <<idx, ret, status>>
      <4>1. UNCHANGED <<ctx, qvars, pokes, stack, cvars>>
        BY <2>1 DEF CheckCallback
      <4> QED BY <3>2, <3>5, <4>1 DEF TypeOK
    <3> QED
      BY <2>1, <3>3, <3>5 DEF CheckCallback
  <2>2. CASE StorePending(t)
    BY <2>0, <2>2, <2>r, AppendProperties DEF StorePending, TypeOK, Status, Outcomes
  <2>3. CASE SlotTimeout(t)
    BY <2>0, <2>3, <2>r DEF SlotTimeout, TypeOK, Status, Outcomes
  <2>4. CASE EnqueueBind(t)
    BY <2>0, <2>4 DEF EnqueueBind, Bind, TypeOK
  <2>5. CASE EnqueuePut(t)
    BY <2>0, <2>5, AppendProperties DEF EnqueuePut, TypeOK, Status
  <2>6. CASE EnqueuePoke(t)
    <3>1. pokes' \in Nat
      BY <2>6 DEF EnqueuePoke, Poke, TypeOK
    <3>2. CASE Return(t, "none")
      BY <2>0, <2>6, <2>r, <3>1, <3>2 DEF EnqueuePoke, TypeOK, Outcomes
    <3>3. CASE Goto(t, "wait") /\ UNCHANGED <<idx, ret>>
      BY <2>6, <3>1, <3>3 DEF EnqueuePoke, TypeOK
    <3> QED BY <2>6, <3>2, <3>3 DEF EnqueuePoke
  <2>7. CASE Wakeup(t)
    BY <2>0, <2>7, <2>r DEF Wakeup, TypeOK, Outcomes
  <2>8. CASE GiveUpOrWait(t)
    <3>1. CASE Return(t, "TimeoutError")
      BY <2>0, <2>8, <2>r, <3>1 DEF GiveUpOrWait, TypeOK, Status, Outcomes
    <3>2. CASE /\ Goto(t, "inflight") \/ Goto(t, "sawClaim")
               /\ UNCHANGED <<idx, ret, status>>
      <4>1. pc' \in [Actors -> {"idle", "slot", "flush", "flushing", "flushPoke", "enqueue",
                        "put", "poke", "wait", "expired", "sawClaim", "inflight",
                        "wakePending"}]
        BY <3>2 DEF TypeOK
      <4>2. UNCHANGED <<ctx, service, qvars, pokes, stack, cvars>>
        BY <2>8 DEF GiveUpOrWait
      <4> QED BY <3>2, <4>1, <4>2 DEF TypeOK
    <3> QED BY <2>8, <3>1, <3>2 DEF GiveUpOrWait
  <2>9. CASE RereadClaim(t)
    <3>1. CASE Return(t, "TimeoutError")
      BY <2>0, <2>9, <2>r, <3>1 DEF RereadClaim, TypeOK, Outcomes
    <3> QED BY <2>9, <3>1 DEF RereadClaim, TypeOK
  <2>10. CASE WaitExpires(t)
    BY <2>0, <2>10 DEF WaitExpires, TypeOK
  <2> QED BY <1>t, <2>1, <2>2, <2>3, <2>4, <2>5, <2>6, <2>7, <2>8, <2>9, <2>10 DEF CallerStep
<1>f. ASSUME NEW a \in Actors, FlushStep(a) PROVE TypeOK'
  <2>1. CASE FlushBegin(a)
    <3>1. CASE service = "ready" /\ pending # <<>>
      <4>1. status' \in [Jobs -> Status]
        BY <2>1, <3>1 DEF FlushBegin, TypeOK, Status
      <4>2. batch' \in Seq(Jobs) /\ pending' \in Seq(Jobs)
        BY <2>1, <3>1, EmptySeq DEF FlushBegin, SwapPending, TypeOK
      <4>5. moved' \in BOOLEAN /\ order' \in Actors \cup {NoOne}
        BY <2>1, <3>1 DEF FlushBegin
      <4>3. /\ Goto(a, "flushing")
            /\ UNCHANGED <<idx, ctx, service, queue, pokes, stack, ret, cvars>>
        BY <2>1, <3>1 DEF FlushBegin
      <4> QED BY <4>1, <4>2, <4>3, <4>5 DEF TypeOK
    <3>2. CASE ~(service = "ready" /\ pending # <<>>)
      BY <2>1, <3>2 DEF FlushBegin, AfterFlush, TypeOK
    <3> QED BY <3>1, <3>2
  <2>2. CASE FlushPut(a)
    <3>1. Head(batch) \in Jobs /\ Tail(batch) \in Seq(Jobs)
      BY <2>2, HeadTailProperties DEF FlushPut, TypeOK
    <3> QED BY <2>2, <3>1, AppendProperties DEF FlushPut, Bind, TypeOK, Status
  <2>3. CASE FlushFail(a)
    BY <2>3, ConcatProperties DEF FlushFail, TypeOK, Status
  <2>4. CASE FlushEnd(a)
    BY <2>4 DEF FlushEnd, AfterFlush, TypeOK
  <2>5. CASE FlushPoke(a)
    BY <2>5 DEF FlushPoke, Poke, AfterFlush, TypeOK
  <2> QED BY <1>f, <2>1, <2>2, <2>3, <2>4, <2>5 DEF FlushStep
<1>b. ASSUME SetContext \/ WakePending PROVE TypeOK'
  <2>1. CASE SetContext
    BY <2>1, ElementOfSeq DEF SetContext, TypeOK
  <2>2. CASE WakePending
    BY <2>2 DEF WakePending, CallbackReady, CallbackMissing, TypeOK
  <2> QED BY <1>b, <2>1, <2>2
<1>m. ASSUME Notify \/ PumpQueue \/ ProcessStep PROVE TypeOK'
  <2>t. ASSUME TakeItem
        PROVE  /\ queue' \in Seq(Jobs) /\ stack' \in Seq(Jobs)
               /\ status' \in [Jobs -> Status]
    <3>1. CASE queue = <<>>
      BY <2>t, <3>1 DEF TakeItem, TypeOK
    <3>2. CASE queue # <<>>
      <4>1. Head(queue) \in Jobs /\ Tail(queue) \in Seq(Jobs)
        BY <3>2, HeadTailProperties DEF TypeOK
      <4>2. <<Head(queue)>> \o stack \in Seq(Jobs)
        BY <4>1, DistinctOne, ConcatProperties DEF TypeOK
      <4> QED
        BY <2>t, <3>2, <4>1, <4>2 DEF TakeItem, FirstCheck, TypeOK, Status
    <3> QED BY <3>1, <3>2
  <2>h. stack # <<>> => Head(stack) \in Jobs /\ Tail(stack) \in Seq(Jobs)
    BY HeadTailProperties DEF TypeOK
  <2>1. CASE Notify
    BY <2>1, <2>t DEF Notify, Notified, TypeOK
  <2>2. CASE PumpQueue
    BY <2>2, <2>t DEF PumpQueue, TypeOK
  <2>3. CASE RecheckCancel
    BY <2>3, <2>h DEF RecheckCancel, SecondCheck, TypeOK, Status
  <2>4. CASE StartFn
    BY <2>4, <2>h DEF StartFn, TypeOK, Status
  <2>5. CASE FinishFn
    BY <2>5, <2>h DEF FinishFn, TypeOK, Status
  <2>6. CASE Repoke
    BY <2>6, <2>h DEF Repoke, PokeIfMore, Poke, TypeOK
  <2> QED BY <1>m, <2>1, <2>2, <2>3, <2>4, <2>5, <2>6 DEF ProcessStep
<1>s. ASSUME NEW s \in Scopes, SessionBind(s) \/ CancelFlag(s) \/ CancelStep(s)
      PROVE  TypeOK'
  <2>1. CASE SessionBind(s)
    BY <2>1 DEF SessionBind, TypeOK
  <2>2. CASE CancelFlag(s)
    BY <2>2 DEF CancelFlag, TypeOK
  <2>3. CASE CancelDrain(s)
    <3>1. queue' \in Seq(Jobs)
      BY <2>3, SurvivorsKept DEF CancelDrain, TypeOK
    <3> QED BY <2>3, <3>1 DEF CancelDrain, TypeOK, Status
  <2>4. CASE CancelPoke(s)
    BY <2>4 DEF CancelPoke, Poke, TypeOK
  <2>5. CASE CancelPending(s)
    <3>1. pending' \in Seq(Jobs)
      BY <2>5, SurvivorsKept DEF CancelPending, TypeOK
    <3> QED BY <2>5, <3>1 DEF CancelPending, TypeOK, Status
  <2> QED BY <1>s, <2>1, <2>2, <2>3, <2>4, <2>5 DEF CancelStep
<1>u. CASE UNCHANGED vars
  BY <1>u DEF vars, TypeOK
<1> QED BY <1>t, <1>f, <1>b, <1>m, <1>s, <1>u DEF Next

-----------------------------------------------------------------------------
\* The life of a job: the only changes of status, except that the job is new.
OldMove(j) ==
  \/ status'[j] = status[j]
  \/ status[j] = "pending" /\ status'[j] \in {"flushing", "dropped"}
  \/ status[j] = "flushing" /\ status'[j] \in {"queued", "pending"}
  \/ status[j] = "queued" /\ status'[j] \in {"expired", "claimed", "abandoned"}
  \/ status[j] = "expired" /\ status'[j] = "abandoned"
  \/ status[j] = "claimed" /\ status'[j] = SecondCheck(j)
  \/ status[j] = "cleared" /\ status'[j] = "running"
  \/ status[j] = "running" /\ status'[j] = "done"
NewMove(j) == status[j] = "new" /\ status'[j] \in {"pending", "refused", "queued"}

\* A thread moves its own job only, and answers for its own job only.
LEMMA ThreadMoves ==
  ASSUME TypeOK, ProgramInv, NEW t \in Threads,
         CheckCallback(t) \/ CallerStep(t) \/ WaitExpires(t)
  PROVE  /\ Job(t) \in Jobs /\ idx[t] \in 1..Len(Program[t])
         /\ Job(t) = Program[t][idx[t]]
         /\ \A j \in Jobs \ {Job(t)} : status'[j] = status[j] /\ ret'[j] = ret[j]
         /\ OldMove(Job(t)) \/ NewMove(Job(t))
         /\ UNCHANGED <<stack, batch, order, cancelled, doomed>>
<1> USE DEF SetStatus, tvars, qvars, cvars
<1>0. /\ Job(t) \in Jobs /\ idx[t] \in 1..Len(Program[t])
      /\ Job(t) = Program[t][idx[t]]
      /\ pc[t] \in {"idle", "slot", "put"} => status[Job(t)] = "new"
  <2>1. CASE pc[t] = "idle"
    <3>1. idx[t] \in 1..Len(Program[t])
      BY <2>1, JobsAssumption, LenProperties
      DEF CheckCallback, CallerStep, WaitExpires, StorePending, SlotTimeout, EnqueueBind,
          EnqueuePut, EnqueuePoke, Wakeup, GiveUpOrWait, RereadClaim, TypeOK, Actors
    <3> QED BY <2>1, <3>1, JobsAssumption, ElementOfSeq DEF Job, ProgramInv, Before
  <2>2. CASE pc[t] # "idle"
    BY <2>2, BusyJob DEF ProgramInv, Before
  <2> QED BY <2>1, <2>2
<1>s. status \in [Jobs -> Status] /\ ret \in [Jobs -> Outcomes]
  BY DEF TypeOK
<1>r. ASSUME NEW r, Return(t, r)
      PROVE  \A j \in Jobs \ {Job(t)} : ret'[j] = ret[j]
  BY <1>r, <1>s DEF Return
<1>1. CASE CheckCallback(t)
  BY <1>0, <1>1, <1>s, <1>r DEF CheckCallback, OldMove, NewMove
<1>2. CASE StorePending(t)
  BY <1>0, <1>2, <1>s, <1>r DEF StorePending, OldMove, NewMove
<1>3. CASE SlotTimeout(t)
  BY <1>0, <1>3, <1>s, <1>r DEF SlotTimeout, OldMove, NewMove
<1>4. CASE EnqueueBind(t)
  BY <1>0, <1>4, <1>s DEF EnqueueBind, OldMove
<1>5. CASE EnqueuePut(t)
  BY <1>0, <1>5, <1>s DEF EnqueuePut, OldMove, NewMove
<1>6. CASE EnqueuePoke(t)
  BY <1>0, <1>6, <1>s, <1>r DEF EnqueuePoke, OldMove
<1>7. CASE Wakeup(t)
  BY <1>0, <1>7, <1>s, <1>r DEF Wakeup, OldMove
<1>8. CASE GiveUpOrWait(t)
  BY <1>0, <1>8, <1>s, <1>r DEF GiveUpOrWait, OldMove
<1>9. CASE RereadClaim(t)
  BY <1>0, <1>9, <1>s, <1>r DEF RereadClaim, OldMove
<1>10. CASE WaitExpires(t)
  BY <1>0, <1>10, <1>s DEF WaitExpires, OldMove
<1> QED BY <1>1, <1>2, <1>3, <1>4, <1>5, <1>6, <1>7, <1>8, <1>9, <1>10 DEF CallerStep

\* Everybody else leaves new jobs and answers alone.
LEMMA OtherMoves ==
  ASSUME TypeOK, PlaceInv,
         \/ \E a \in Actors : FlushStep(a)
         \/ SetContext \/ WakePending \/ Notify \/ PumpQueue \/ ProcessStep
         \/ \E s \in Scopes : SessionBind(s) \/ CancelFlag(s) \/ CancelStep(s)
         \/ UNCHANGED vars
  PROVE  /\ ret' = ret
         /\ \A j \in Jobs : OldMove(j)
<1> USE DEF SetStatus, tvars, qvars, cvars
<1>s. status \in [Jobs -> Status]
  BY DEF TypeOK
<1>f. ASSUME NEW a \in Actors, FlushStep(a)
      PROVE  ret' = ret /\ \A j \in Jobs : OldMove(j)
  <2>1. CASE FlushBegin(a)
    BY <2>1, <1>s DEF FlushBegin, OldMove
  <2>2. CASE FlushPut(a)
    <3>1. Head(batch) \in Jobs /\ status[Head(batch)] = "flushing"
      BY <2>2, DistinctTail DEF FlushPut, TypeOK, PlaceInv, HeldAs
    <3> QED BY <2>2, <3>1, <1>s DEF FlushPut, OldMove
  <2>3. CASE FlushFail(a)
    BY <2>3, <1>s DEF FlushFail, OldMove
  <2>4. CASE FlushEnd(a) \/ FlushPoke(a)
    BY <2>4 DEF FlushEnd, FlushPoke, OldMove
  <2> QED BY <1>f, <2>1, <2>2, <2>3, <2>4 DEF FlushStep
<1>b. CASE SetContext \/ WakePending
  BY <1>b DEF SetContext, WakePending, OldMove
<1>m. CASE Notify \/ PumpQueue
  <2>1. TakeItem /\ ret' = ret
    BY <1>m DEF Notify, PumpQueue
  <2>2. CASE queue = <<>>
    BY <2>1, <2>2 DEF TakeItem, OldMove
  <2>3. CASE queue # <<>>
    <3>1. Head(queue) \in Jobs /\ status[Head(queue)] \in {"queued", "expired"}
      BY <2>3, DistinctTail DEF TypeOK, PlaceInv, HeldAs
    <3> QED BY <2>1, <2>3, <3>1, <1>s DEF TakeItem, FirstCheck, OldMove
  <2> QED BY <2>2, <2>3
<1>p. CASE ProcessStep
  <2>1. stack # <<>> => Head(stack) \in Jobs
    BY HeadTailProperties DEF TypeOK
  <2> QED
    BY <1>p, <2>1, <1>s DEF ProcessStep, RecheckCancel, StartFn, FinishFn, Repoke, OldMove
<1>c. ASSUME NEW s \in Scopes, SessionBind(s) \/ CancelFlag(s) \/ CancelStep(s)
      PROVE  ret' = ret /\ \A j \in Jobs : OldMove(j)
  <2>1. CASE SessionBind(s) \/ CancelFlag(s) \/ CancelPoke(s)
    BY <2>1 DEF SessionBind, CancelFlag, CancelPoke, OldMove
  <2>2. CASE CancelDrain(s)
    BY <2>2, <1>s DEF CancelDrain, OldMove
  <2>3. CASE CancelPending(s)
    BY <2>3, <1>s DEF CancelPending, OldMove
  <2> QED BY <1>c, <2>1, <2>2, <2>3 DEF CancelStep
<1>u. CASE UNCHANGED vars
  BY <1>u DEF vars, OldMove
<1> QED BY <1>f, <1>b, <1>m, <1>p, <1>c, <1>u

\* Which steps there are, in the two groups of the lemmas above.
ThreadStep(t) == CheckCallback(t) \/ CallerStep(t) \/ WaitExpires(t)
OtherStep ==
  \/ \E a \in Actors : FlushStep(a)
  \/ SetContext \/ WakePending \/ Notify \/ PumpQueue \/ ProcessStep
  \/ \E s \in Scopes : SessionBind(s) \/ CancelFlag(s) \/ CancelStep(s)
  \/ UNCHANGED vars

LEMMA StepSplit ==
  ASSUME [Next]_vars
  PROVE  (\E t \in Threads : ThreadStep(t)) \/ OtherStep
BY DEF Next, ThreadStep, OtherStep

-----------------------------------------------------------------------------
\* The main thread and Stop do not touch the threads; a flusher goes from
\* one busy place to another and keeps its job.
LEMMA OtherPcs ==
  ASSUME TypeOK, ProgramInv, OtherStep
  PROVE  /\ \A t \in Threads : /\ idx'[t] = idx[t]
                               /\ pc'[t] # pc[t] =>
                                    /\ pc[t] \in {"flush", "flushing", "flushPoke"}
                                    /\ pc'[t] \in {"flushing", "flushPoke", "enqueue"}
         /\ pc'[Boot] \in {"idle", "wakePending", "flush", "flushing", "flushPoke"}
<1> USE ActorAssumption DEF tvars, qvars, cvars, Goto, Actors
<1>s. /\ pc \in [Actors -> {"idle", "slot", "flush", "flushing", "flushPoke", "enqueue",
                        "put", "poke", "wait", "expired", "sawClaim", "inflight",
                        "wakePending"}]
      /\ pc[Boot] \in {"idle", "wakePending", "flush", "flushing", "flushPoke"}
      /\ idx \in [Actors -> Nat \ {0}]
  BY DEF TypeOK, ProgramInv
<1>f. ASSUME NEW a \in Actors, FlushStep(a)
      PROVE  /\ idx' = idx
             /\ \E l \in {"flushing", "flushPoke", AfterFlush(a)} :
                   pc' = pc \/ (pc[a] \in {"flush", "flushing", "flushPoke"} /\ Goto(a, l))
  BY <1>f DEF FlushStep, FlushBegin, FlushPut, FlushFail, FlushEnd, FlushPoke
<1>g. CASE \E a \in Actors : FlushStep(a)
  BY <1>g, <1>f, <1>s DEF AfterFlush
<1>b. CASE SetContext \/ WakePending
  BY <1>b, <1>s DEF SetContext, WakePending
<1>m. CASE Notify \/ PumpQueue \/ ProcessStep
  BY <1>m, <1>s DEF Notify, PumpQueue, ProcessStep, RecheckCancel, StartFn, FinishFn, Repoke
<1>c. CASE \E s \in Scopes : SessionBind(s) \/ CancelFlag(s) \/ CancelStep(s)
  BY <1>c, <1>s DEF SessionBind, CancelFlag, CancelStep, CancelDrain, CancelPoke, CancelPending
<1>u. CASE UNCHANGED vars
  BY <1>u, <1>s DEF vars
<1> QED BY <1>g, <1>b, <1>m, <1>c, <1>u DEF OtherStep

\* What a thread step does to pc and idx.
LEMMA ThreadPcs ==
  ASSUME TypeOK, NEW t \in Threads, ThreadStep(t)
  PROVE  /\ \A a \in Actors \ {t} : pc'[a] = pc[a] /\ idx'[a] = idx[a]
         /\ \/ /\ idx'[t] = idx[t] /\ UNCHANGED ret /\ pc'[t] # "idle"
               /\ pc'[t] # "flushing" /\ pc[t] # "flushing"
               /\ pc'[t] \in Before => pc[t] \in Before /\ status'[Job(t)] = status[Job(t)]
            \/ /\ idx'[t] = idx[t] + 1 /\ pc'[t] = "idle" /\ pc[t] # "flushing"
               /\ \E r \in Outcomes : ret' = [ret EXCEPT ![Job(t)] = r]
<1> USE DEF tvars, qvars, cvars, Goto, Actors, Before, SetStatus
<1>s. pc \in [Actors -> {"idle", "slot", "flush", "flushing", "flushPoke", "enqueue",
                        "put", "poke", "wait", "expired", "sawClaim", "inflight",
                        "wakePending"}]
      /\ idx \in [Actors -> Nat \ {0}]
  BY DEF TypeOK
<1>r. ASSUME NEW r \in Outcomes, Return(t, r)
      PROVE  /\ \A a \in Actors \ {t} : pc'[a] = pc[a] /\ idx'[a] = idx[a]
             /\ idx'[t] = idx[t] + 1 /\ pc'[t] = "idle"
             /\ ret' = [ret EXCEPT ![Job(t)] = r]
  BY <1>r, <1>s DEF Return
<1>1. CASE CheckCallback(t)
  BY <1>1, <1>s, <1>r DEF CheckCallback, Outcomes
<1>2. CASE StorePending(t) \/ SlotTimeout(t)
  BY <1>2, <1>s, <1>r DEF StorePending, SlotTimeout, Outcomes
<1>3. CASE EnqueueBind(t) \/ EnqueuePut(t)
  BY <1>3, <1>s DEF EnqueueBind, EnqueuePut
<1>4. CASE EnqueuePoke(t) \/ Wakeup(t) \/ WaitExpires(t)
  BY <1>4, <1>s, <1>r DEF EnqueuePoke, Wakeup, WaitExpires, Outcomes
<1>5. CASE GiveUpOrWait(t) \/ RereadClaim(t)
  BY <1>5, <1>s, <1>r DEF GiveUpOrWait, RereadClaim, Outcomes
<1> QED BY <1>1, <1>2, <1>3, <1>4, <1>5 DEF ThreadStep, CallerStep

LEMMA ProgramStep ==
  ASSUME TypeOK, ProgramInv, PlaceInv, [Next]_vars
  PROVE  ProgramInv'
<1>p. \A t \in Threads : /\ Program[t] \in Seq(Jobs) /\ Len(Program[t]) \in Nat
                         /\ \A i \in 1..Len(Program[t]) : Program[t][i] \in Jobs
  BY JobsAssumption, ElementOfSeq, LenProperties
<1>d. \A t, u \in Threads : \A i \in 1..Len(Program[t]), k \in 1..Len(Program[u]) :
        Program[t][i] = Program[u][k] => t = u /\ i = k
  BY JobsAssumption, <1>p, LenProperties
<1>s. /\ idx \in [Actors -> Nat \ {0}] /\ ret \in [Jobs -> Outcomes]
      /\ Threads \subseteq Actors /\ Boot \in Actors /\ Boot \notin Threads
  BY ActorAssumption DEF TypeOK, Actors
<1>1. CASE OtherStep
  <2>1. ret' = ret /\ \A j \in Jobs : OldMove(j)
    BY <1>1, OtherMoves DEF OtherStep
  <2>2. \A j \in Jobs : status[j] = "new" => status'[j] = "new"
    BY <2>1 DEF OldMove
  <2> QED
    BY <1>1, <2>1, <2>2, <1>p, OtherPcs DEF ProgramInv, Before
<1>2. ASSUME NEW t \in Threads, ThreadStep(t) PROVE ProgramInv'
  <2>1. /\ Job(t) \in Jobs /\ idx[t] \in 1..Len(Program[t])
        /\ Job(t) = Program[t][idx[t]]
        /\ \A j \in Jobs \ {Job(t)} : status'[j] = status[j] /\ ret'[j] = ret[j]
    BY <1>2, ThreadMoves DEF ThreadStep
  <2>t. \/ /\ idx'[t] = idx[t] /\ UNCHANGED ret
           /\ pc'[t] \in Before => pc[t] \in Before /\ status'[Job(t)] = status[Job(t)]
        \/ idx'[t] = idx[t] + 1 /\ pc'[t] = "idle"
    BY <1>2, ThreadPcs
  <2>2. \A u \in Threads : \A i \in 1..Len(Program[u]) :
          Program[u][i] = Job(t) <=> u = t /\ i = idx[t]
    BY <2>1, <1>d
  <2>3. pc'[Boot] = pc[Boot] /\ \A u \in Threads \ {t} : pc'[u] = pc[u] /\ idx'[u] = idx[u]
    BY <1>2, <1>s, ThreadPcs
  <2>4. \A u \in Threads : pc'[u] # "idle" => idx'[u] <= Len(Program[u])
    BY <1>p, <2>t, <2>1, <2>3 DEF ProgramInv
  <2>5. ASSUME NEW u \in Threads, NEW i \in 1..Len(Program[u])
        PROVE  /\ i >= idx'[u] => ret'[Program[u][i]] = "none"
               /\ i > idx'[u] \/ (i = idx'[u] /\ pc'[u] \in Before)
                    => status'[Program[u][i]] = "new"
    <3>1. CASE u # t
      BY <3>1, <2>1, <2>2, <2>3, <1>p DEF ProgramInv
    <3>2. CASE u = t /\ i # idx[t]
      BY <3>2, <2>t, <2>1, <2>2, <1>p, <1>s DEF ProgramInv
    <3>3. CASE u = t /\ i = idx[t]
      BY <3>3, <2>t, <2>1, <1>s DEF ProgramInv
    <3> QED BY <3>1, <3>2, <3>3
  <2> QED BY <2>3, <2>4, <2>5 DEF ProgramInv
<1> QED BY <1>1, <1>2, StepSplit

LEMMA FlushInvStep ==
  ASSUME TypeOK, FlushInv, [Next]_vars
  PROVE  FlushInv'
<1> USE ActorAssumption DEF tvars, qvars, cvars, Goto, FlushInv
<1>s. pc \in [Actors -> {"idle", "slot", "flush", "flushing", "flushPoke", "enqueue",
                        "put", "poke", "wait", "expired", "sawClaim", "inflight",
                        "wakePending"}]
      /\ Threads \subseteq Actors /\ Boot \in Actors
  BY DEF TypeOK, Actors
<1>t. ASSUME NEW t \in Threads, ThreadStep(t) PROVE FlushInv'
  <2>1. UNCHANGED <<order, batch>>
    BY <1>t DEF ThreadStep, CheckCallback, CallerStep, StorePending, SlotTimeout,
         EnqueueBind, EnqueuePut, EnqueuePoke, Wakeup, GiveUpOrWait, RereadClaim, WaitExpires
  <2>2. \A a \in Actors : pc'[a] = "flushing" <=> pc[a] = "flushing"
    BY <1>t, <1>s, ThreadPcs
  <2> QED BY <2>1, <2>2
<1>f. ASSUME NEW a \in Actors, FlushStep(a) PROVE FlushInv'
  <2>1. CASE FlushBegin(a)
    BY <2>1, <1>s DEF FlushBegin, OrderFree, AfterFlush
  <2>2. CASE FlushPut(a) \/ FlushFail(a)
    BY <2>2, <1>s DEF FlushPut, FlushFail
  <2>3. CASE FlushEnd(a)
    BY <2>3, <1>s DEF FlushEnd, AfterFlush
  <2>4. CASE FlushPoke(a)
    BY <2>4, <1>s DEF FlushPoke, AfterFlush
  <2> QED BY <1>f, <2>1, <2>2, <2>3, <2>4 DEF FlushStep
<1>b. CASE SetContext \/ WakePending
  BY <1>b, <1>s DEF SetContext, WakePending
<1>m. CASE Notify \/ PumpQueue \/ ProcessStep
  BY <1>m DEF Notify, PumpQueue, ProcessStep, RecheckCancel, StartFn, FinishFn, Repoke
<1>c. CASE \E s \in Scopes : SessionBind(s) \/ CancelFlag(s) \/ CancelStep(s)
  BY <1>c DEF SessionBind, CancelFlag, CancelStep, CancelDrain, CancelPoke, CancelPending
<1>u. CASE UNCHANGED vars
  BY <1>u DEF vars
<1> QED BY <1>t, <1>f, <1>b, <1>m, <1>c, <1>u, StepSplit DEF OtherStep

-----------------------------------------------------------------------------
\* Where the jobs are.  A thread adds its own job, which is new and so in no
\* place yet; the other steps carry jobs from one place to the next.
LEMMA PlaceStep ==
  ASSUME TypeOK, ProgramInv, FlushInv, PlaceInv, [Next]_vars
  PROVE  PlaceInv'
<1> USE DEF tvars, qvars, cvars, SetStatus
<1>s. /\ status \in [Jobs -> Status]
      /\ pending \in Seq(Jobs) /\ batch \in Seq(Jobs)
      /\ queue \in Seq(Jobs) /\ stack \in Seq(Jobs)
      /\ \A i \in 1..Len(pending) : pending[i] \in Jobs
      /\ \A i \in 1..Len(batch) : batch[i] \in Jobs
      /\ \A i \in 1..Len(queue) : queue[i] \in Jobs
      /\ \A i \in 1..Len(stack) : stack[i] \in Jobs
  BY ElementOfSeq DEF TypeOK
<1>e. Distinct(<<>>) /\ \A S : \A i \in 1..Len(<<>>) : status'[<<>>[i]] \in S
  BY DEF Distinct
<1>k. /\ Distinct(pending) /\ Distinct(batch) /\ Distinct(queue) /\ Distinct(stack)
      /\ \A i \in 1..Len(pending) : status[pending[i]] = "pending"
      /\ \A i \in 1..Len(batch) : status[batch[i]] = "flushing"
      /\ \A i \in 1..Len(queue) : status[queue[i]] \in {"queued", "expired"}
      /\ \A i \in 1..Len(stack) :
           status[stack[i]] \in {"claimed", "cleared", "running", "done", "abandoned"}
  BY DEF PlaceInv, HeldAs
<1>t. ASSUME NEW t \in Threads, ThreadStep(t) PROVE PlaceInv'
  <2>1. /\ Job(t) \in Jobs
        /\ \A j \in Jobs \ {Job(t)} : status'[j] = status[j]
        /\ OldMove(Job(t)) \/ NewMove(Job(t))
        /\ UNCHANGED <<stack, batch>>
    BY <1>t, ThreadMoves DEF ThreadStep
  <2>2. pc[t] \in {"slot", "put"} => status[Job(t)] = "new"
    BY BusyJob DEF ProgramInv, Before
  <2>3. CASE StorePending(t)
    <3>1. status'[Job(t)] = "pending" /\ status[Job(t)] = "new"
      BY <2>3, <2>1, <2>2, <1>s DEF StorePending
    <3>2. \A i \in 1..Len(pending) : pending[i] # Job(t)
      BY <3>1 DEF PlaceInv, HeldAs
    <3>3. Distinct(pending') /\ HeldAs(pending, {"pending"})'
      BY <2>3, <3>1, <3>2, <2>1, <1>s, DistinctAppend DEF StorePending, PlaceInv, HeldAs
    <3> QED
      BY <2>3, <3>1, <3>3, <2>1, <1>s DEF StorePending, PlaceInv, HeldAs
  <2>4. CASE EnqueuePut(t)
    <3>1. status'[Job(t)] = "queued" /\ status[Job(t)] = "new"
      BY <2>4, <2>1, <2>2, <1>s DEF EnqueuePut
    <3>2. \A i \in 1..Len(queue) : queue[i] # Job(t)
      BY <3>1 DEF PlaceInv, HeldAs
    <3>3. Distinct(queue') /\ HeldAs(queue, {"queued", "expired"})'
      BY <2>4, <3>1, <3>2, <2>1, <1>s, DistinctAppend DEF EnqueuePut, PlaceInv, HeldAs
    <3> QED
      BY <2>4, <3>1, <3>3, <2>1, <1>s DEF EnqueuePut, PlaceInv, HeldAs
  <2>5. CASE /\ UNCHANGED <<pending, queue>>
             /\ \/ status' = status
                \/ status[Job(t)] = "queued" /\ status'[Job(t)] = "expired"
                \/ status[Job(t)] = "new"
    BY <2>5, <2>1, <1>s DEF PlaceInv, HeldAs
  <2>6. CASE CheckCallback(t) \/ SlotTimeout(t)
    <3>1. status[Job(t)] = "new"
      <4>1. idx[t] \in 1..Len(Program[t]) /\ Job(t) = Program[t][idx[t]]
        BY <1>t, ThreadMoves DEF ThreadStep
      <4>2. pc[t] \in Before
        BY <2>6 DEF CheckCallback, SlotTimeout, Before
      <4> QED BY <4>1, <4>2 DEF ProgramInv
    <3> QED BY <2>6, <3>1, <2>5 DEF CheckCallback, SlotTimeout
  <2>7. CASE EnqueueBind(t) \/ EnqueuePoke(t) \/ Wakeup(t) \/ RereadClaim(t) \/ WaitExpires(t)
    BY <2>7, <2>5 DEF EnqueueBind, EnqueuePoke, Wakeup, RereadClaim, WaitExpires
  <2>8. CASE GiveUpOrWait(t)
    BY <2>8, <2>1, <2>5, <1>s DEF GiveUpOrWait
  <2> QED BY <1>t, <2>3, <2>4, <2>6, <2>7, <2>8 DEF ThreadStep, CallerStep
<1>f. ASSUME NEW a \in Actors, FlushStep(a) PROVE PlaceInv'
  <2>1. CASE FlushBegin(a)
    <3>1. CASE service = "ready" /\ pending # <<>>
      <4>1. /\ batch' = pending /\ pending' = <<>> /\ UNCHANGED <<queue, stack>>
            /\ \A j \in Jobs : status'[j] = IF status[j] = "pending" THEN "flushing"
                                                                    ELSE status[j]
        BY <2>1, <3>1, <1>s DEF FlushBegin, SwapPending
      <4>2. Distinct(batch') /\ HeldAs(batch, {"flushing"})'
        BY <4>1, <1>s, <1>k DEF HeldAs
      <4>3. Distinct(pending') /\ HeldAs(pending, {"pending"})'
        BY <4>1, <1>e DEF HeldAs
      <4>4. HeldAs(queue, {"queued", "expired"})'
        BY <4>1, <1>s, <1>k DEF HeldAs
      <4>5. HeldAs(stack, {"claimed", "cleared", "running", "done", "abandoned"})'
        BY <4>1, <1>s, <1>k DEF HeldAs
      <4> QED BY <4>1, <4>2, <4>3, <4>4, <4>5, <1>k DEF PlaceInv
    <3>2. CASE ~(service = "ready" /\ pending # <<>>)
      BY <2>1, <3>2 DEF FlushBegin, PlaceInv, HeldAs
    <3> QED BY <3>1, <3>2
  <2>2. CASE FlushPut(a)
    <3> DEFINE j == Head(batch)
    <3>1. /\ j \in Jobs /\ status[j] = "flushing" /\ Distinct(Tail(batch))
          /\ \A i \in 1..Len(Tail(batch)) :
               i + 1 \in 1..Len(batch) /\ Tail(batch)[i] = batch[i + 1] /\ Tail(batch)[i] # j
      BY <2>2, <1>s, DistinctTail DEF FlushPut, PlaceInv, HeldAs
    <3>2. /\ batch' = Tail(batch) /\ queue' = Append(queue, j) /\ UNCHANGED <<pending, stack>>
          /\ status'[j] = "queued" /\ \A k \in Jobs \ {j} : status'[k] = status[k]
      BY <2>2, <3>1, <1>s DEF FlushPut
    <3>3. \A i \in 1..Len(queue) : queue[i] # j
      BY <3>1 DEF PlaceInv, HeldAs
    <3> HIDE DEF j
    <3>4. Distinct(queue') /\ HeldAs(queue, {"queued", "expired"})'
      BY <3>1, <3>2, <3>3, <1>s, DistinctAppend DEF PlaceInv, HeldAs
    <3>5. Distinct(batch') /\ HeldAs(batch, {"flushing"})'
      BY <3>1, <3>2, <1>s DEF PlaceInv, HeldAs
    <3>6. HeldAs(pending, {"pending"})'
      BY <3>1, <3>2, <1>s, <1>k DEF HeldAs
    <3>7. HeldAs(stack, {"claimed", "cleared", "running", "done", "abandoned"})'
      BY <3>1, <3>2, <1>s, <1>k DEF HeldAs
    <3> QED BY <3>2, <3>4, <3>5, <3>6, <3>7, <1>k DEF PlaceInv
  <2>3. CASE FlushFail(a)
    <3>1. /\ pending' = batch \o pending /\ batch' = <<>> /\ UNCHANGED <<queue, stack>>
          /\ \A j \in Jobs : status'[j] = IF status[j] = "flushing" THEN "pending"
                                                                   ELSE status[j]
      BY <2>3, <1>s DEF FlushFail
    <3>2. \A i \in 1..Len(batch), k \in 1..Len(pending) : batch[i] # pending[k]
      BY DEF PlaceInv, HeldAs
    <3>3. Distinct(pending') /\ HeldAs(pending, {"pending"})'
      BY <3>1, <3>2, <1>s, DistinctConcat DEF PlaceInv, HeldAs
    <3>4. Distinct(batch') /\ HeldAs(batch, {"flushing"})'
      BY <3>1, <1>e DEF HeldAs
    <3>5. HeldAs(queue, {"queued", "expired"})'
      BY <3>1, <1>s, <1>k DEF HeldAs
    <3>6. HeldAs(stack, {"claimed", "cleared", "running", "done", "abandoned"})'
      BY <3>1, <1>s, <1>k DEF HeldAs
    <3> QED BY <3>1, <3>3, <3>4, <3>5, <3>6, <1>k DEF PlaceInv
  <2>4. CASE FlushEnd(a) \/ FlushPoke(a)
    BY <2>4 DEF FlushEnd, FlushPoke, PlaceInv, HeldAs
  <2> QED BY <1>f, <2>1, <2>2, <2>3, <2>4 DEF FlushStep
<1>m. CASE Notify \/ PumpQueue
  <2>1. TakeItem /\ UNCHANGED <<pending, batch>>
    BY <1>m DEF Notify, PumpQueue
  <2>2. CASE queue = <<>>
    BY <2>1, <2>2 DEF TakeItem, PlaceInv, HeldAs
  <2>3. CASE queue # <<>>
    <3> DEFINE j == Head(queue)
    <3>1. /\ j \in Jobs /\ status[j] \in {"queued", "expired"} /\ Distinct(Tail(queue))
          /\ \A i \in 1..Len(Tail(queue)) :
               i + 1 \in 1..Len(queue) /\ Tail(queue)[i] = queue[i + 1] /\ Tail(queue)[i] # j
      BY <2>3, <1>s, DistinctTail DEF PlaceInv, HeldAs
    <3>2. /\ queue' = Tail(queue) /\ stack' = <<j>> \o stack
          /\ status'[j] \in {"abandoned", "claimed"}
          /\ \A k \in Jobs \ {j} : status'[k] = status[k]
      BY <2>1, <2>3, <3>1, <1>s DEF TakeItem, FirstCheck
    <3>3. \A i \in 1..Len(stack) : stack[i] # j
      BY <3>1 DEF PlaceInv, HeldAs
    <3> HIDE DEF j
    <3>4. Distinct(stack') /\ HeldAs(stack, {"claimed", "cleared", "running", "done", "abandoned"})'
      <4> DEFINE p == <<j>>
                 r == p \o stack
      <4>1. p \in Seq(Jobs) /\ Distinct(p) /\ \A i \in 1..Len(p) : p[i] = j
        BY <3>1, DistinctOne
      <4>2. stack' = r
        BY <3>2
      <4> HIDE DEF p
      <4>3. \A i \in 1..Len(p), k \in 1..Len(stack) : p[i] # stack[k]
        BY <4>1, <3>3
      <4>4. /\ Distinct(r)
            /\ \A i \in 1..Len(r) : \/ i \in 1..Len(p) /\ r[i] = p[i]
                                    \/ \E k \in 1..Len(stack) : r[i] = stack[k]
        <5>1. stack \in Seq(Jobs) /\ Distinct(stack)
          BY <1>s, <1>k
        <5> QED BY <4>1, <4>3, <5>1, DistinctConcat, Zenon
      <4> HIDE DEF r
      <4>5. \A i \in 1..Len(stack) : status'[stack[i]] = status[stack[i]]
        BY <3>2, <3>3, <1>s
      <4>6. \A i \in 1..Len(r) :
              status'[r[i]] \in {"claimed", "cleared", "running", "done", "abandoned"}
        <5> TAKE i \in 1..Len(r)
        <5>1. CASE r[i] = j
          BY <5>1, <3>2
        <5>2. CASE \E k \in 1..Len(stack) : r[i] = stack[k]
          BY <5>2, <4>5, <1>k
        <5> QED BY <4>1, <4>4, <5>1, <5>2
      <4> QED
        BY <4>2, <4>4, <4>6 DEF HeldAs
    <3>5. Distinct(queue') /\ HeldAs(queue, {"queued", "expired"})'
      BY <3>1, <3>2, <1>s DEF PlaceInv, HeldAs
    <3> QED BY <2>1, <3>1, <3>2, <3>4, <3>5, <1>s DEF PlaceInv, HeldAs
  <2> QED BY <2>2, <2>3
<1>p. CASE ProcessStep
  <2>1. CASE RecheckCancel \/ StartFn \/ FinishFn
    <3>1. /\ Head(stack) \in Jobs
          /\ status[Head(stack)] \in {"claimed", "cleared", "running"}
          /\ status'[Head(stack)] \in {"cleared", "abandoned", "running", "done"}
          /\ \A k \in Jobs \ {Head(stack)} : status'[k] = status[k]
          /\ UNCHANGED <<pending, batch, queue, stack>>
      BY <2>1, <1>s, HeadTailProperties DEF RecheckCancel, StartFn, FinishFn, SecondCheck
    <3> QED BY <3>1, <1>s DEF PlaceInv, HeldAs
  <2>2. CASE Repoke
    <3>1. stack # <<>> /\ stack' = Tail(stack) /\ UNCHANGED <<pending, batch, queue, status>>
      BY <2>2 DEF Repoke
    <3> QED BY <3>1, <1>s, DistinctTail DEF PlaceInv, HeldAs
  <2> QED BY <1>p, <2>1, <2>2 DEF ProcessStep
<1>c. ASSUME NEW s \in Scopes, SessionBind(s) \/ CancelFlag(s) \/ CancelStep(s)
      PROVE  PlaceInv'
  <2>1. CASE SessionBind(s) \/ CancelFlag(s) \/ CancelPoke(s)
    BY <2>1 DEF SessionBind, CancelFlag, CancelPoke, PlaceInv, HeldAs
  <2>2. CASE CancelDrain(s)
    <3>1. /\ queue' = Survivors(queue, s) /\ UNCHANGED <<pending, batch, stack>>
          /\ \A j \in Jobs : status'[j] = IF status[j] \in {"queued", "expired"} /\ ScopeOf[j] = s
                                          THEN "abandoned" ELSE status[j]
      BY <2>2, <1>s DEF CancelDrain
    <3>2. /\ Distinct(queue')
          /\ \A i \in 1..Len(queue') : /\ ScopeOf[queue'[i]] # s
                                       /\ \E k \in 1..Len(queue) : queue'[i] = queue[k]
      BY <3>1, <1>s, SurvivorsKept DEF PlaceInv
    <3>3. HeldAs(queue, {"queued", "expired"})'
      BY <3>1, <3>2, <1>s, <1>k DEF HeldAs
    <3>4. HeldAs(pending, {"pending"})' /\ HeldAs(batch, {"flushing"})'
      BY <3>1, <1>s, <1>k DEF HeldAs
    <3>5. HeldAs(stack, {"claimed", "cleared", "running", "done", "abandoned"})'
      BY <3>1, <1>s, <1>k DEF HeldAs
    <3> QED BY <3>1, <3>2, <3>3, <3>4, <3>5, <1>k DEF PlaceInv
  <2>3. CASE CancelPending(s)
    <3>1. /\ pending' = Survivors(pending, s) /\ UNCHANGED <<queue, batch, stack>>
          /\ \A j \in Jobs : status'[j] = IF status[j] = "pending" /\ ScopeOf[j] = s
                                          THEN "dropped" ELSE status[j]
      BY <2>3, <1>s DEF CancelPending
    <3>2. /\ Distinct(pending')
          /\ \A i \in 1..Len(pending') : /\ ScopeOf[pending'[i]] # s
                                         /\ \E k \in 1..Len(pending) : pending'[i] = pending[k]
      BY <3>1, <1>s, SurvivorsKept DEF PlaceInv
    <3>3. HeldAs(pending, {"pending"})'
      BY <3>1, <3>2, <1>s, <1>k DEF HeldAs
    <3>4. HeldAs(queue, {"queued", "expired"})' /\ HeldAs(batch, {"flushing"})'
      BY <3>1, <1>s, <1>k DEF HeldAs
    <3>5. HeldAs(stack, {"claimed", "cleared", "running", "done", "abandoned"})'
      BY <3>1, <1>s, <1>k DEF HeldAs
    <3> QED BY <3>1, <3>2, <3>3, <3>4, <3>5, <1>k DEF PlaceInv
  <2> QED BY <1>c, <2>1, <2>2, <2>3 DEF CancelStep
<1>b. CASE SetContext \/ WakePending
  BY <1>b DEF SetContext, WakePending, PlaceInv, HeldAs
<1>u. CASE UNCHANGED vars
  BY <1>u DEF vars, PlaceInv, HeldAs
<1> QED BY <1>t, <1>f, <1>m, <1>p, <1>c, <1>b, <1>u, StepSplit DEF OtherStep

-----------------------------------------------------------------------------
LEMMA ClaimStep ==
  ASSUME TypeOK, ProgramInv, PlaceInv, ClaimInv, [Next]_vars
  PROVE  ClaimInv'
<1> DEFINE Seen == Claimed \cup {"abandoned"}
<1>c. \A j \in Jobs : OldMove(j) /\ status[j] \in Seen => status'[j] \in Seen
  BY DEF OldMove, SecondCheck, Claimed
<1>1. CASE OtherStep
  <2> SUFFICES ASSUME NEW t \in Threads, pc'[t] = "sawClaim"
               PROVE  status'[Program[t][idx'[t]]] \in Seen
    BY DEF ClaimInv, Job
  <2>1. pc[t] = "sawClaim" /\ idx'[t] = idx[t]
    BY <1>1, OtherPcs
  <2>2. Job(t) \in Jobs /\ status[Job(t)] \in Seen /\ Job(t) = Program[t][idx[t]]
    BY <2>1, BusyJob DEF ClaimInv
  <2>3. OldMove(Job(t))
    BY <1>1, <2>2, OtherMoves DEF OtherStep
  <2> QED BY <2>1, <2>2, <2>3, <1>c
<1>2. ASSUME NEW t \in Threads, ThreadStep(t) PROVE ClaimInv'
  <2> SUFFICES ASSUME NEW u \in Threads, pc'[u] = "sawClaim"
               PROVE  status'[Program[u][idx'[u]]] \in Seen
    BY DEF ClaimInv, Job
  <2>0. /\ Job(t) \in Jobs /\ idx[t] \in 1..Len(Program[t]) /\ Job(t) = Program[t][idx[t]]
        /\ \A j \in Jobs \ {Job(t)} : status'[j] = status[j]
    BY <1>2, ThreadMoves DEF ThreadStep
  <2>1. CASE u # t
    <3>1. pc[u] = "sawClaim" /\ idx'[u] = idx[u]
      BY <1>2, <2>1, ThreadPcs DEF Actors
    <3>2. /\ Job(u) \in Jobs /\ status[Job(u)] \in Seen
          /\ Job(u) = Program[u][idx[u]] /\ idx[u] \in 1..Len(Program[u])
      BY <3>1, BusyJob DEF ClaimInv
    <3>3. Job(u) # Job(t)
      BY <2>0, <2>1, <3>2, JobsAssumption, LenProperties
    <3> QED BY <2>0, <3>1, <3>2, <3>3
  <2>2. CASE u = t
    <3>1. GiveUpOrWait(t) /\ idx'[t] = idx[t] /\ status' = status
             /\ status[Job(t)] \in Claimed
      <4>1. pc \in [Actors -> {"idle", "slot", "flush", "flushing", "flushPoke", "enqueue",
                        "put", "poke", "wait", "expired", "sawClaim", "inflight",
                        "wakePending"}] /\ t \in Actors
        BY DEF TypeOK, Actors
      <4> QED
        BY <1>2, <2>2, <4>1 DEF ThreadStep, CallerStep, CheckCallback, StorePending, SlotTimeout,
           EnqueueBind, EnqueuePut, EnqueuePoke, Wakeup, GiveUpOrWait, RereadClaim,
           WaitExpires, Return, Goto
    <3> QED BY <2>0, <2>2, <3>1
  <2> QED BY <2>1, <2>2
<1> QED BY <1>1, <1>2, StepSplit

LEMMA AnswerStep ==
  ASSUME TypeOK, ProgramInv, PlaceInv, ClaimInv, AnswerInv, [Next]_vars
  PROVE  AnswerInv'
<1> DEFINE Errors == {"TimeoutError", "SendCancelled", "RuntimeError"}
           True(j) == /\ ret'[j] = "result" => status'[j] = "done"
                      /\ ret'[j] \in Errors => status'[j] \in Dead
<1> SUFFICES ASSUME NEW j \in Jobs PROVE True(j)
  BY DEF AnswerInv
<1>0. /\ ret[j] = "result" => status[j] = "done"
      /\ ret[j] \in Errors => status[j] \in Dead
  BY DEF AnswerInv
<1>1. CASE OtherStep
  <2>1. ret' = ret /\ OldMove(j)
    BY <1>1, OtherMoves DEF OtherStep
  <2> QED BY <2>1, <1>0 DEF OldMove, Dead
<1>2. ASSUME NEW t \in Threads, ThreadStep(t) PROVE True(j)
  <2>0. /\ Job(t) \in Jobs /\ idx[t] \in 1..Len(Program[t]) /\ Job(t) = Program[t][idx[t]]
        /\ \A k \in Jobs \ {Job(t)} : status'[k] = status[k] /\ ret'[k] = ret[k]
    BY <1>2, ThreadMoves DEF ThreadStep
  <2>1. CASE j # Job(t)
    BY <2>0, <2>1, <1>0
  <2>2. CASE j = Job(t)
    <3>1. ret[j] = "none" /\ ret \in [Jobs -> Outcomes] /\ status \in [Jobs -> Status]
      <4>1. idx[t] \in Nat
        BY DEF TypeOK, Actors
      <4> QED BY <2>0, <2>2, <4>1 DEF ProgramInv, TypeOK
    <3>r. ASSUME NEW r, Return(t, r) PROVE ret'[j] = r
      BY <3>r, <3>1, <2>2 DEF Return
    <3> USE DEF SetStatus
    <3>2. CASE CheckCallback(t)
      BY <3>2, <3>1, <3>r, <2>2 DEF CheckCallback, Dead
    <3>3. CASE StorePending(t) \/ EnqueuePoke(t)
      BY <3>3, <3>1, <3>r, <2>2 DEF StorePending, EnqueuePoke
    <3>4. CASE SlotTimeout(t)
      BY <3>4, <3>1, <3>r, <2>2 DEF SlotTimeout, Dead
    <3>5. CASE EnqueueBind(t) \/ EnqueuePut(t) \/ WaitExpires(t)
      BY <3>5, <3>1 DEF EnqueueBind, EnqueuePut, WaitExpires, qvars, tvars
    <3>6. CASE Wakeup(t)
      BY <3>6, <3>r, <2>2 DEF Wakeup, Finished, Dead
    <3>7. CASE GiveUpOrWait(t)
      BY <3>7, <3>1, <3>r, <2>2 DEF GiveUpOrWait, Dead
    <3>8. CASE RereadClaim(t)
      BY <3>8, <3>1, <3>r, <2>2 DEF RereadClaim, ClaimInv, Dead
    <3> QED
      BY <1>2, <3>2, <3>3, <3>4, <3>5, <3>6, <3>7, <3>8 DEF ThreadStep, CallerStep
  <2> QED BY <2>1, <2>2
<1> QED BY <1>1, <1>2, StepSplit

LEMMA DoomStep ==
  ASSUME TypeOK, ProgramInv, PlaceInv, DoomInv, [Next]_vars
  PROVE  DoomInv'
<1> DEFINE Live == {"cleared", "running", "done"}
<1>m. ASSUME NEW j \in doomed, OldMove(j) \/ NewMove(j) PROVE status'[j] \notin Live
  BY <1>m DEF OldMove, NewMove, SecondCheck, DoomInv
<1>d. \A j \in doomed : j \in Jobs /\ IsCancelled(j)
  BY DEF DoomInv, TypeOK
<1>k. ASSUME cancelled \subseteq cancelled', doomed' = doomed,
             \A j \in Jobs : OldMove(j) \/ NewMove(j)
      PROVE  DoomInv'
  BY <1>m, <1>d, <1>k DEF DoomInv, IsCancelled
<1>1. CASE \E s \in Scopes : CancelFlag(s)
  <2>1. PICK s \in Scopes : CancelFlag(s)
    BY <1>1
  <2>2. /\ cancelled' = cancelled \cup {s} /\ status' = status
        /\ doomed' = doomed \cup {j \in Jobs : ScopeOf[j] = s /\
                  status[j] \in {"new", "pending", "flushing", "queued", "claimed"}}
    BY <2>1 DEF CancelFlag
  <2> QED BY <2>2 DEF DoomInv, IsCancelled
<1>2. CASE OtherStep /\ ~ \E s \in Scopes : CancelFlag(s)
  <2>1. \A j \in Jobs : OldMove(j)
    BY <1>2, OtherMoves DEF OtherStep
  <2>2. UNCHANGED <<cancelled, doomed>>
    BY <1>2 DEF OtherStep, FlushStep, FlushBegin, FlushPut, FlushFail, FlushEnd, FlushPoke,
       SetContext, WakePending, Notify, PumpQueue, ProcessStep, RecheckCancel, StartFn,
       FinishFn, Repoke, SessionBind, CancelStep, CancelDrain, CancelPoke, CancelPending,
       vars, cvars
  <2> QED BY <2>1, <2>2, <1>k
<1>3. ASSUME NEW t \in Threads, ThreadStep(t) PROVE DoomInv'
  <2>1. /\ \A j \in Jobs : OldMove(j) \/ NewMove(j)
        /\ UNCHANGED <<cancelled, doomed>>
    BY <1>3, ThreadMoves DEF ThreadStep, OldMove
  <2> QED BY <2>1, <1>k
<1> QED BY <1>1, <1>2, <1>3, StepSplit

-----------------------------------------------------------------------------
(* The places and the threads, further: what the contract and the order of *)
(* one thread's jobs rest on.                                              *)

\* The converse of PlaceInv: a job is in the place its status tells.
HeldInv ==
  \A j \in Jobs :
    /\ status[j] = "pending" => Contains(pending, j)
    /\ status[j] = "flushing" => Contains(batch, j)
    /\ status[j] = "queued" => Contains(queue, j)
    /\ status[j] \in {"claimed", "cleared", "running"} => Contains(stack, j)

\* Only the innermost process_queue may be between its claim and its fn.
StackInv == \A i \in 2..Len(stack) : status[stack[i]] = "running"

\* Stop comes once for a scope.
StopInv == \A s \in Scopes : cpc[s] = "idle" => s \notin cancelled

\* The converse of ProgramInv: what a thread has handed over is not new.
GoneInv ==
  \A t \in Threads : \A i \in 1..Len(Program[t]) :
    i < idx[t] \/ (i = idx[t] /\ pc[t] \notin Before) => status[Program[t][i]] # "new"

PlacesInv == HeldInv /\ StackInv /\ StopInv /\ GoneInv

\* set_context is called with one context only, as often as it is called.
OneCtx == \A i, k \in DOMAIN BootProgram : BootProgram[i] = BootProgram[k]

\* Then the callback stays once it is there, and nothing gets past the pending
\* list without it.
ReadyInv ==
  /\ ctx # NoCtx => \A i \in DOMAIN BootProgram : ctx = BootProgram[i]
  /\ service = "ready" => ctx # NoCtx
  /\ queue # <<>> => service = "ready"
  /\ \A a \in Actors : pc[a] \in {"flushing", "flushPoke"} => service = "ready"
  /\ \A t \in Threads : pc[t] \in {"flush", "enqueue", "put", "poke"} => service = "ready"

\* One thread hands over p before q.
Earlier(p, q) ==
  \E t \in Threads : \E i, k \in 1..Len(Program[t]) :
    i < k /\ p = Program[t][i] /\ q = Program[t][k]

Taken == {"claimed", "cleared", "running", "done"}

\* No job is further on its way than an earlier one of its thread ...
StageInv ==
  \A p, q \in Jobs : Earlier(p, q) =>
    /\ status[q] # "new" => status[p] # "new"
    /\ status[q] = "flushing" => status[p] # "pending"
    /\ status[q] \in {"queued", "expired", "abandoned"} \cup Taken
         => status[p] \notin {"pending", "flushing"}
    /\ status[q] \in Taken => status[p] # "queued"

\* ... nor in front of it in the same list ...
RowsInv ==
  \A p, q \in Jobs : Earlier(p, q) =>
    ~Precedes(pending, q, p) /\ ~Precedes(batch, q, p) /\ ~Precedes(queue, q, p)

\* ... because a thread flushes before it puts.
FlushedInv ==
  \A t \in Threads : \A i \in 1..Len(Program[t]) : i < idx[t] =>
    /\ pc[t] = "flushing" => status[Program[t][i]] # "pending"
    /\ pc[t] \in {"flushPoke", "enqueue", "put"}
         => status[Program[t][i]] \notin {"pending", "flushing"}

OrderInv == StageInv /\ RowsInv /\ FlushedInv

\* What process_queue does when it takes an item, and when it ends.
LEMMA TakeEffect ==
  ASSUME TypeOK, PlaceInv, TakeItem, queue # <<>>
  PROVE  /\ Head(queue) \in Jobs /\ status[Head(queue)] \in {"queued", "expired"}
         /\ queue' = Tail(queue)
         /\ stack' = <<Head(queue)>> \o stack
         /\ status'[Head(queue)] = FirstCheck(Head(queue))
         /\ \A j \in Jobs \ {Head(queue)} : status'[j] = status[j]
         /\ \A j : Contains(queue, j) <=> Contains(queue', j) \/ j = Head(queue)
         /\ \A j : Contains(stack', j) <=> Contains(stack, j) \/ j = Head(queue)
<1>1. queue \in Seq(Jobs) /\ stack \in Seq(Jobs) /\ status \in [Jobs -> Status]
  BY DEF TypeOK
<1>2. /\ Head(queue) \in Jobs /\ Tail(queue) \in Seq(Jobs)
      /\ \A j : Contains(queue, j) <=> Contains(Tail(queue), j) \/ j = Head(queue)
  BY <1>1, TailContains
<1>3. status[Head(queue)] \in {"queued", "expired"}
  BY <1>1, DistinctTail DEF PlaceInv, HeldAs
<1>4. /\ queue' = Tail(queue) /\ stack' = <<Head(queue)>> \o stack
      /\ status' = [status EXCEPT ![Head(queue)] = FirstCheck(Head(queue))]
  BY DEF TakeItem, SetStatus
<1>5. /\ status'[Head(queue)] = FirstCheck(Head(queue))
      /\ \A j \in Jobs \ {Head(queue)} : status'[j] = status[j]
  BY <1>1, <1>2, <1>4
<1>6. \A j : Contains(stack', j) <=> Contains(stack, j) \/ j = Head(queue)
  <2> DEFINE p == <<Head(queue)>>
  <2>1. p \in Seq(Jobs) /\ \A j : Contains(p, j) <=> j = Head(queue)
    BY <1>2, DistinctOne DEF Contains
  <2>2. stack' = p \o stack
    BY <1>4
  <2> HIDE DEF p
  <2> QED BY <2>1, <2>2, <1>1, ConcatContains
<1> QED BY <1>2, <1>3, <1>4, <1>5, <1>6

LEMMA HeldStep ==
  ASSUME TypeOK, ProgramInv, FlushInv, PlaceInv, HeldInv, [Next]_vars
  PROVE  HeldInv'
<1> USE DEF tvars, qvars, cvars, SetStatus
<1>s. /\ status \in [Jobs -> Status]
      /\ pending \in Seq(Jobs) /\ batch \in Seq(Jobs)
      /\ queue \in Seq(Jobs) /\ stack \in Seq(Jobs)
  BY DEF TypeOK
<1>h. \A j \in Jobs :
        /\ status[j] = "pending" => Contains(pending, j)
        /\ status[j] = "flushing" => Contains(batch, j)
        /\ status[j] = "queued" => Contains(queue, j)
        /\ status[j] \in {"claimed", "cleared", "running"} => Contains(stack, j)
  BY DEF HeldInv
<1>t. ASSUME NEW t \in Threads, ThreadStep(t) PROVE HeldInv'
  <2>1. /\ Job(t) \in Jobs
        /\ \A j \in Jobs \ {Job(t)} : status'[j] = status[j]
        /\ UNCHANGED <<stack, batch>>
    BY <1>t, ThreadMoves DEF ThreadStep
  <2>2. CASE StorePending(t)
    <3>1. /\ \A j : Contains(pending', j) <=> Contains(pending, j) \/ j = Job(t)
          /\ queue' = queue /\ status'[Job(t)] = "pending"
      BY <2>1, <2>2, <1>s, AppendContains DEF StorePending
    <3> QED BY <2>1, <3>1, <1>h DEF HeldInv
  <2>3. CASE EnqueuePut(t)
    <3>1. /\ \A j : Contains(queue', j) <=> Contains(queue, j) \/ j = Job(t)
          /\ pending' = pending /\ status'[Job(t)] = "queued"
      BY <2>1, <2>3, <1>s, AppendContains DEF EnqueuePut
    <3> QED BY <2>1, <3>1, <1>h DEF HeldInv
  <2>4. CASE ~StorePending(t) /\ ~EnqueuePut(t)
    <3>1. /\ UNCHANGED <<pending, queue>>
          /\ status'[Job(t)] = status[Job(t)] \/ status'[Job(t)] \in {"refused", "expired"}
      BY <1>t, <2>1, <2>4, <1>s DEF ThreadStep, CheckCallback, CallerStep, SlotTimeout,
         EnqueueBind, EnqueuePoke, Wakeup, GiveUpOrWait, RereadClaim, WaitExpires
    <3> QED BY <2>1, <3>1, <1>h DEF HeldInv
  <2> QED BY <2>2, <2>3, <2>4
<1>f. ASSUME NEW a \in Actors, FlushStep(a) PROVE HeldInv'
  <2>1. CASE FlushBegin(a)
    <3>1. CASE service = "ready" /\ pending # <<>>
      <4>1. /\ batch' = pending /\ UNCHANGED <<queue, stack>> /\ batch = <<>>
            /\ \A j \in Jobs : status'[j] = IF status[j] = "pending" THEN "flushing"
                                                                    ELSE status[j]
        BY <2>1, <3>1, <1>s DEF FlushBegin, SwapPending, OrderFree, FlushInv
      <4>2. \A j \in Jobs : status[j] # "flushing"
        BY <4>1, <1>h, EmptyContains
      <4> QED BY <4>1, <4>2, <1>h DEF HeldInv
    <3>2. CASE ~(service = "ready" /\ pending # <<>>)
      BY <2>1, <3>2, <1>h DEF FlushBegin, HeldInv
    <3> QED BY <3>1, <3>2
  <2>2. CASE FlushPut(a)
    <3> DEFINE j == Head(batch)
    <3>1. /\ j \in Jobs /\ \A k : Contains(batch, k) <=> Contains(Tail(batch), k) \/ k = j
      BY <2>2, <1>s, TailContains DEF FlushPut
    <3>2. /\ batch' = Tail(batch) /\ queue' = Append(queue, j) /\ UNCHANGED <<pending, stack>>
          /\ status'[j] = "queued" /\ \A k \in Jobs \ {j} : status'[k] = status[k]
      BY <2>2, <3>1, <1>s DEF FlushPut
    <3>3. \A k : Contains(queue', k) <=> Contains(queue, k) \/ k = j
      BY <3>1, <3>2, <1>s, AppendContains
    <3> HIDE DEF j
    <3> QED BY <3>1, <3>2, <3>3, <1>h DEF HeldInv
  <2>3. CASE FlushFail(a)
    <3>1. /\ pending' = batch \o pending /\ UNCHANGED <<queue, stack>>
          /\ \A j \in Jobs : status'[j] = IF status[j] = "flushing" THEN "pending"
                                                                   ELSE status[j]
      BY <2>3, <1>s DEF FlushFail
    <3>2. \A j : Contains(pending', j) <=> Contains(batch, j) \/ Contains(pending, j)
      BY <3>1, <1>s, ConcatContains
    <3> QED BY <3>1, <3>2, <1>h DEF HeldInv
  <2>4. CASE FlushEnd(a) \/ FlushPoke(a)
    BY <2>4, <1>h DEF FlushEnd, FlushPoke, HeldInv
  <2> QED BY <1>f, <2>1, <2>2, <2>3, <2>4 DEF FlushStep
<1>m. CASE Notify \/ PumpQueue
  <2>1. TakeItem /\ UNCHANGED <<pending, batch>>
    BY <1>m DEF Notify, PumpQueue
  <2>2. CASE queue = <<>>
    BY <2>1, <2>2, <1>h DEF TakeItem, HeldInv
  <2>3. CASE queue # <<>>
    <3>1. /\ Head(queue) \in Jobs
          /\ status'[Head(queue)] \in {"abandoned", "claimed"}
          /\ \A j \in Jobs \ {Head(queue)} : status'[j] = status[j]
          /\ \A j : Contains(queue, j) <=> Contains(queue', j) \/ j = Head(queue)
          /\ \A j : Contains(stack', j) <=> Contains(stack, j) \/ j = Head(queue)
      BY <2>1, <2>3, TakeEffect DEF FirstCheck
    <3> QED BY <2>1, <3>1, <1>h DEF HeldInv
  <2> QED BY <2>2, <2>3
<1>p. CASE ProcessStep
  <2>0. stack # <<>> =>
          /\ Head(stack) \in Jobs
          /\ \A j : Contains(stack, j) <=> Contains(Tail(stack), j) \/ j = Head(stack)
    BY <1>s, TailContains
  <2>1. CASE RecheckCancel \/ StartFn \/ FinishFn
    <3>1. /\ stack # <<>>
          /\ status'[Head(stack)] \in {"cleared", "abandoned", "running", "done"}
          /\ \A k \in Jobs \ {Head(stack)} : status'[k] = status[k]
          /\ UNCHANGED <<pending, batch, queue, stack>>
      BY <2>1, <2>0, <1>s DEF RecheckCancel, StartFn, FinishFn, SecondCheck
    <3> QED BY <2>0, <3>1, <1>h DEF HeldInv
  <2>2. CASE Repoke
    <3>1. /\ stack # <<>> /\ stack' = Tail(stack) /\ UNCHANGED <<pending, batch, queue, status>>
          /\ status[Head(stack)] \in {"done", "abandoned"}
      BY <2>2 DEF Repoke, Finished
    <3> QED BY <2>0, <3>1, <1>h DEF HeldInv
  <2> QED BY <1>p, <2>1, <2>2 DEF ProcessStep
<1>c. ASSUME NEW s \in Scopes, SessionBind(s) \/ CancelFlag(s) \/ CancelStep(s)
      PROVE  HeldInv'
  <2>1. CASE SessionBind(s) \/ CancelFlag(s) \/ CancelPoke(s)
    BY <2>1, <1>h DEF SessionBind, CancelFlag, CancelPoke, HeldInv
  <2>2. CASE CancelDrain(s)
    <3>1. /\ queue' = Survivors(queue, s) /\ UNCHANGED <<pending, batch, stack>>
          /\ \A j \in Jobs : status'[j] = IF status[j] \in {"queued", "expired"} /\ ScopeOf[j] = s
                                          THEN "abandoned" ELSE status[j]
      BY <2>2, <1>s DEF CancelDrain
    <3>2. \A j \in Jobs : Contains(queue', j) <=> Contains(queue, j) /\ ScopeOf[j] # s
      BY <3>1, <1>s, SurvivorsKept
    <3> QED BY <3>1, <3>2, <1>h DEF HeldInv
  <2>3. CASE CancelPending(s)
    <3>1. /\ pending' = Survivors(pending, s) /\ UNCHANGED <<queue, batch, stack>>
          /\ \A j \in Jobs : status'[j] = IF status[j] = "pending" /\ ScopeOf[j] = s
                                          THEN "dropped" ELSE status[j]
      BY <2>3, <1>s DEF CancelPending
    <3>2. \A j \in Jobs : Contains(pending', j) <=> Contains(pending, j) /\ ScopeOf[j] # s
      BY <3>1, <1>s, SurvivorsKept
    <3> QED BY <3>1, <3>2, <1>h DEF HeldInv
  <2> QED BY <1>c, <2>1, <2>2, <2>3 DEF CancelStep
<1>b. CASE SetContext \/ WakePending
  BY <1>b, <1>h DEF SetContext, WakePending, HeldInv
<1>u. CASE UNCHANGED vars
  BY <1>u, <1>h DEF vars, HeldInv
<1> QED BY <1>t, <1>f, <1>m, <1>p, <1>c, <1>b, <1>u, StepSplit DEF OtherStep

LEMMA StackStep ==
  ASSUME TypeOK, ProgramInv, PlaceInv, StackInv, [Next]_vars
  PROVE  StackInv'
<1> USE DEF tvars, qvars, cvars, SetStatus
<1>s. /\ status \in [Jobs -> Status] /\ stack \in Seq(Jobs) /\ Len(stack) \in Nat
      /\ \A i \in 1..Len(stack) : stack[i] \in Jobs
      /\ \A i \in 2..Len(stack) : i \in 1..Len(stack)
      /\ Distinct(stack)
  BY ElementOfSeq, LenProperties DEF TypeOK, PlaceInv
<1>k. ASSUME stack' = stack, \A j \in Jobs : status[j] = "running" => status'[j] = "running"
      PROVE  StackInv'
  BY <1>k, <1>s DEF StackInv
<1>m. CASE Notify \/ PumpQueue
  <2>1. TakeItem /\ MainMayEnter
    BY <1>m DEF Notify, PumpQueue
  <2>2. CASE queue = <<>>
    BY <2>1, <2>2, <1>k DEF TakeItem
  <2>3. CASE queue # <<>>
    <3> DEFINE j == Head(queue)
    <3>1. /\ j \in Jobs /\ status[j] \in {"queued", "expired"} /\ stack' = <<j>> \o stack
          /\ \A k \in Jobs \ {j} : status'[k] = status[k]
      BY <2>1, <2>3, TakeEffect
    <3>2. /\ Len(stack') = Len(stack) + 1
          /\ \A i \in 2..Len(stack) + 1 : stack'[i] = stack[i - 1]
      <4> HIDE DEF j
      <4>1. <<j>> \in Seq(Jobs) /\ Len(<<j>>) = 1
        BY <3>1, DistinctOne
      <4> QED BY <3>1, <4>1, <1>s, ConcatProperties
    <3>3. \A i \in 1..Len(stack) : status[stack[i]] = "running"
      <4>1. stack # <<>> => status[Head(stack)] = "running" /\ Head(stack) = stack[1]
        BY <2>1, <1>s, HeadTailProperties DEF MainMayEnter
      <4>2. \A i \in 1..Len(stack) : i = 1 \/ i \in 2..Len(stack)
        BY <1>s
      <4>3. Len(stack) # 0 => stack # <<>>
        BY <1>s
      <4> QED BY <4>1, <4>2, <4>3, <1>s DEF StackInv
    <3> HIDE DEF j
    <3>4. \A i \in 2..Len(stack) + 1 : i - 1 \in 1..Len(stack)
      BY <1>s
    <3> QED BY <3>1, <3>2, <3>3, <3>4, <1>s DEF StackInv
  <2> QED BY <2>2, <2>3
<1>p. CASE RecheckCancel \/ StartFn \/ FinishFn
  <2>1. /\ stack # <<>> /\ stack' = stack /\ Head(stack) = stack[1]
        /\ \A k \in Jobs \ {Head(stack)} : status'[k] = status[k]
    BY <1>p, <1>s, HeadTailProperties DEF RecheckCancel, StartFn, FinishFn
  <2>2. \A i \in 2..Len(stack) : stack[i] # stack[1] /\ 1 \in 1..Len(stack)
    BY <1>s DEF Distinct
  <2> QED BY <2>1, <2>2, <1>s DEF StackInv
<1>r. CASE Repoke
  <2>1. /\ stack' = Tail(stack) /\ status' = status /\ Len(stack') = Len(stack) - 1
        /\ \A i \in 1..Len(stack') : stack'[i] = stack[i + 1]
    BY <1>r, <1>s, HeadTailProperties DEF Repoke
  <2>2. \A i \in 2..Len(stack') : i + 1 \in 2..Len(stack) /\ i \in 1..Len(stack')
    BY <2>1, <1>s
  <2> QED BY <2>1, <2>2 DEF StackInv
<1>t. ASSUME NEW t \in Threads, ThreadStep(t) PROVE StackInv'
  <2>1. /\ stack' = stack /\ Job(t) \in Jobs
        /\ \A j \in Jobs \ {Job(t)} : status'[j] = status[j]
    BY <1>t, ThreadMoves DEF ThreadStep
  <2>2. status[Job(t)] = "running" => status'[Job(t)] = "running"
    <3>1. pc[t] \in {"idle", "slot", "put"} => status[Job(t)] = "new"
      BY <1>t, ThreadMoves DEF ThreadStep, ProgramInv, Before
    <3> QED
      BY <1>t, <1>s, <2>1, <3>1 DEF ThreadStep, CheckCallback, CallerStep, StorePending,
         SlotTimeout, EnqueueBind, EnqueuePut, EnqueuePoke, Wakeup, GiveUpOrWait, RereadClaim,
         WaitExpires
  <2> QED BY <2>1, <2>2, <1>k
<1>f. ASSUME NEW a \in Actors, FlushStep(a) PROVE StackInv'
  <2>1. stack' = stack
    BY <1>f DEF FlushStep, FlushBegin, FlushPut, FlushFail, FlushEnd, FlushPoke
  <2>2. CASE FlushPut(a)
    <3>1. Head(batch) \in Jobs /\ status[Head(batch)] = "flushing"
      BY <2>2, DistinctTail DEF FlushPut, TypeOK, PlaceInv, HeldAs
    <3> QED BY <2>1, <2>2, <3>1, <1>s, <1>k DEF FlushPut
  <2>3. CASE FlushBegin(a) \/ FlushFail(a)
    <3>1. \A j \in Jobs : status[j] = "running" => status'[j] = "running"
      BY <2>3, <1>s DEF FlushBegin, FlushFail
    <3> QED BY <2>1, <3>1, <1>k
  <2>4. CASE FlushEnd(a) \/ FlushPoke(a)
    BY <2>1, <2>4, <1>k DEF FlushEnd, FlushPoke
  <2> QED BY <1>f, <2>2, <2>3, <2>4 DEF FlushStep
<1>b. CASE SetContext \/ WakePending
  BY <1>b, <1>k DEF SetContext, WakePending
<1>c. ASSUME NEW s \in Scopes, SessionBind(s) \/ CancelFlag(s) \/ CancelStep(s)
      PROVE  StackInv'
  <2>1. stack' = stack
    BY <1>c DEF SessionBind, CancelFlag, CancelStep, CancelDrain, CancelPoke, CancelPending
  <2>2. \A j \in Jobs : status[j] = "running" => status'[j] = "running"
    BY <1>c, <1>s DEF SessionBind, CancelFlag, CancelStep, CancelDrain, CancelPoke, CancelPending
  <2> QED BY <2>1, <2>2, <1>k
<1>u. CASE UNCHANGED vars
  BY <1>u, <1>k DEF vars
<1> QED BY <1>m, <1>p, <1>r, <1>t, <1>f, <1>b, <1>c, <1>u, StepSplit DEF OtherStep, ProcessStep

LEMMA StopStep ==
  ASSUME TypeOK, StopInv, [Next]_vars
  PROVE  StopInv'
<1> USE DEF tvars, qvars, cvars
<1>s. cpc \in [Scopes -> {"idle", "drain", "poke", "clear", "over"}]
  BY DEF TypeOK
<1>c. ASSUME NEW s \in Scopes, CancelFlag(s) \/ CancelStep(s) PROVE StopInv'
  <2>1. CASE CancelFlag(s)
    BY <2>1, <1>s DEF CancelFlag, StopInv
  <2>2. CASE CancelStep(s)
    BY <2>2, <1>s DEF CancelStep, CancelDrain, CancelPoke, CancelPending, StopInv
  <2> QED BY <1>c, <2>1, <2>2
<1>t. ASSUME NEW t \in Threads, ThreadStep(t) PROVE UNCHANGED <<cpc, cancelled>>
  BY <1>t DEF ThreadStep, CheckCallback, CallerStep, StorePending, SlotTimeout,
     EnqueueBind, EnqueuePut, EnqueuePoke, Wakeup, GiveUpOrWait, RereadClaim, WaitExpires
<1>o. CASE \/ \E a \in Actors : FlushStep(a)
           \/ SetContext \/ WakePending \/ Notify \/ PumpQueue \/ ProcessStep
           \/ \E s \in Scopes : SessionBind(s)
           \/ UNCHANGED vars
  <2>1. UNCHANGED <<cpc, cancelled>>
    BY <1>o DEF FlushStep, FlushBegin, FlushPut, FlushFail, FlushEnd, FlushPoke,
       SetContext, WakePending, Notify, PumpQueue, ProcessStep, RecheckCancel, StartFn,
       FinishFn, Repoke, SessionBind, vars
  <2> QED BY <2>1 DEF StopInv
<1> QED BY <1>c, <1>t, <1>o, StepSplit DEF OtherStep, StopInv

LEMMA GoneStep ==
  ASSUME TypeOK, ProgramInv, PlaceInv, GoneInv, [Next]_vars
  PROVE  GoneInv'
<1> USE DEF tvars, qvars, cvars, SetStatus
<1>p. \A t \in Threads : \A i \in 1..Len(Program[t]) : Program[t][i] \in Jobs
  BY JobsAssumption, ElementOfSeq
<1>s. /\ idx \in [Actors -> Nat \ {0}] /\ status \in [Jobs -> Status]
      /\ pc \in [Actors -> {"idle", "slot", "flush", "flushing", "flushPoke", "enqueue",
                        "put", "poke", "wait", "expired", "sawClaim", "inflight",
                        "wakePending"}]
      /\ Threads \subseteq Actors
      /\ \A t \in Threads : \A i \in 1..Len(Program[t]) : i \in Nat
  BY DEF TypeOK, Actors
<1>1. CASE OtherStep
  <2>1. \A j \in Jobs : OldMove(j)
    BY <1>1, OtherMoves DEF OtherStep
  <2>2. \A j \in Jobs : status[j] # "new" => status'[j] # "new"
    BY <2>1 DEF OldMove, SecondCheck
  <2>3. \A t \in Threads : idx'[t] = idx[t] /\ (pc'[t] \notin Before => pc[t] \notin Before)
    BY <1>1, OtherPcs DEF Before
  <2> QED BY <2>2, <2>3, <1>p DEF GoneInv
<1>2. ASSUME NEW t \in Threads, ThreadStep(t) PROVE GoneInv'
  <2>1. /\ Job(t) \in Jobs /\ idx[t] \in 1..Len(Program[t])
        /\ Job(t) = Program[t][idx[t]]
        /\ \A j \in Jobs \ {Job(t)} : status'[j] = status[j]
        /\ OldMove(Job(t)) \/ NewMove(Job(t))
    BY <1>2, ThreadMoves DEF ThreadStep
  <2>2. \A j \in Jobs : status[j] # "new" => status'[j] # "new"
    BY <2>1 DEF OldMove, NewMove, SecondCheck
  <2>3. \A u \in Threads \ {t} : pc'[u] = pc[u] /\ idx'[u] = idx[u]
    BY <1>2, <1>s, ThreadPcs
  <2>4. pc[t] \notin Before => status[Job(t)] # "new"
    BY <2>1, <1>s DEF GoneInv
  <2>5. \/ idx'[t] = idx[t] /\ pc'[t] \in Before
        \/ /\ idx'[t] = idx[t] /\ pc'[t] \notin Before /\ status'[Job(t)] # "new"
        \/ /\ idx'[t] = idx[t] + 1 /\ pc'[t] = "idle" /\ status'[Job(t)] # "new"
    <3>r. ASSUME NEW r, Return(t, r) PROVE idx'[t] = idx[t] + 1 /\ pc'[t] = "idle"
      BY <3>r, <1>s DEF Return, Goto
    <3>1. CASE CheckCallback(t)
      BY <3>1, <3>r, <2>1, <1>s DEF CheckCallback, Goto, Before
    <3>2. CASE StorePending(t) \/ SlotTimeout(t)
      BY <3>2, <3>r, <2>1, <1>s DEF StorePending, SlotTimeout
    <3>3. CASE EnqueueBind(t) \/ EnqueuePut(t)
      BY <3>3, <2>1, <1>s DEF EnqueueBind, EnqueuePut, Goto, Before
    <3>4. CASE EnqueuePoke(t) \/ Wakeup(t) \/ WaitExpires(t) \/ RereadClaim(t)
      BY <3>4, <3>r, <2>2, <2>1, <2>4, <1>s
      DEF EnqueuePoke, Wakeup, WaitExpires, RereadClaim, Goto, Before
    <3>5. CASE GiveUpOrWait(t)
      BY <3>5, <3>r, <2>2, <2>1, <2>4, <1>s DEF GiveUpOrWait, Goto, Before
    <3> QED BY <1>2, <3>1, <3>2, <3>3, <3>4, <3>5 DEF ThreadStep, CallerStep
  <2> SUFFICES ASSUME NEW u \in Threads, NEW i \in 1..Len(Program[u]),
                      i < idx'[u] \/ (i = idx'[u] /\ pc'[u] \notin Before)
               PROVE  status'[Program[u][i]] # "new"
    BY DEF GoneInv
  <2>6. CASE u # t
    BY <2>6, <2>2, <2>3, <1>p DEF GoneInv
  <2>7. CASE u = t /\ i < idx[t]
    BY <2>7, <2>2, <1>p DEF GoneInv
  <2>8. CASE u = t /\ ~(i < idx[t])
    BY <2>8, <2>1, <2>5, <1>s DEF Before
  <2> QED BY <2>6, <2>7, <2>8
<1> QED BY <1>1, <1>2, StepSplit

-----------------------------------------------------------------------------
(* MainThread implements MarshalContract.                                  *)

Life == [j \in Jobs |-> LifeOf(status[j])]

LEMMA LifeValues ==
  /\ LifeOf("new") = "new"
  /\ \A s \in {"pending", "flushing", "queued", "claimed", "cleared"} : LifeOf(s) = "waiting"
  /\ LifeOf("running") = "running" /\ LifeOf("done") = "ran"
  /\ \A s \in {"expired", "abandoned", "dropped", "refused"} : LifeOf(s) = "dead"
BY DEF LifeOf

\* The steps of the contract, in the terms of the marshal.
LEMMA ContractSteps ==
  /\ \A j \in Jobs :
       /\ Life[j] = "new" /\ Life' = [Life EXCEPT ![j] = "waiting"]
            /\ UNCHANGED <<ret, cancelled, doomed>> => Contract!Next
       /\ Life[j] = "waiting" /\ ret[j] = "none" /\ j \notin doomed
            /\ Life' = [Life EXCEPT ![j] = "running"]
            /\ UNCHANGED <<ret, cancelled, doomed>> => Contract!Next
       /\ Life[j] = "running" /\ Life' = [Life EXCEPT ![j] = "ran"]
            /\ UNCHANGED <<ret, cancelled, doomed>> => Contract!Next
       /\ Life[j] = "ran" /\ ret[j] = "none" /\ ret' = [ret EXCEPT ![j] = "result"]
            /\ Life' = Life /\ UNCHANGED <<cancelled, doomed>> => Contract!Next
       /\ \A e \in {"TimeoutError", "SendCancelled", "RuntimeError"} :
            Life[j] \in {"new", "waiting", "dead"} /\ ret[j] = "none"
            /\ ret' = [ret EXCEPT ![j] = e] /\ Life' = [Life EXCEPT ![j] = "dead"]
            /\ UNCHANGED <<cancelled, doomed>> => Contract!Next
  /\ \A J \in SUBSET Jobs :
       J # {} /\ (\A j \in J : Life[j] = "waiting")
       /\ Life' = [j \in Jobs |-> IF j \in J THEN "dead" ELSE Life[j]]
       /\ UNCHANGED <<ret, cancelled, doomed>> => Contract!Next
  /\ Life' = Life /\ UNCHANGED <<ret, cancelled, doomed>> => UNCHANGED Contract!cvars
<1>1. ASSUME NEW j \in Jobs, Life[j] = "new", Life' = [Life EXCEPT ![j] = "waiting"],
             UNCHANGED <<ret, cancelled, doomed>>
      PROVE  Contract!Next
  <2>1. Contract!Accept(j)
    BY <1>1 DEF Contract!Accept, Life
  <2> QED BY <2>1 DEF Contract!Next
<1>2. ASSUME NEW j \in Jobs, Life[j] = "waiting", ret[j] = "none", j \notin doomed,
             Life' = [Life EXCEPT ![j] = "running"], UNCHANGED <<ret, cancelled, doomed>>
      PROVE  Contract!Next
  <2>1. Contract!Start(j)
    BY <1>2 DEF Contract!Start, Life
  <2> QED BY <2>1 DEF Contract!Next
<1>3. ASSUME NEW j \in Jobs, Life[j] = "running", Life' = [Life EXCEPT ![j] = "ran"],
             UNCHANGED <<ret, cancelled, doomed>>
      PROVE  Contract!Next
  <2>1. Contract!Finish(j)
    BY <1>3 DEF Contract!Finish, Life
  <2> QED BY <2>1 DEF Contract!Next
<1>4. ASSUME NEW j \in Jobs, Life[j] = "ran", ret[j] = "none",
             ret' = [ret EXCEPT ![j] = "result"], Life' = Life, UNCHANGED <<cancelled, doomed>>
      PROVE  Contract!Next
  <2>1. Contract!TellResult(j)
    BY <1>4 DEF Contract!TellResult, Life
  <2> QED BY <2>1 DEF Contract!Next
<1>5. ASSUME NEW j \in Jobs, NEW e \in {"TimeoutError", "SendCancelled", "RuntimeError"},
             Life[j] \in {"new", "waiting", "dead"}, ret[j] = "none",
             ret' = [ret EXCEPT ![j] = e], Life' = [Life EXCEPT ![j] = "dead"],
             UNCHANGED <<cancelled, doomed>>
      PROVE  Contract!Next
  <2>1. Contract!TellError(j)
    BY <1>5 DEF Contract!TellError, Contract!Errors, Life
  <2> QED BY <2>1 DEF Contract!Next
<1>6. ASSUME NEW J \in SUBSET Jobs, J # {}, \A j \in J : Life[j] = "waiting",
             Life' = [j \in Jobs |-> IF j \in J THEN "dead" ELSE Life[j]],
             UNCHANGED <<ret, cancelled, doomed>>
      PROVE  Contract!Next
  <2>1. Contract!GiveUp(J)
    BY <1>6 DEF Contract!GiveUp, Life
  <2> QED BY <2>1 DEF Contract!Next
<1>7. ASSUME Life' = Life, UNCHANGED <<ret, cancelled, doomed>> PROVE UNCHANGED Contract!cvars
  BY <1>7 DEF Contract!cvars, Life
<1> QED BY <1>1, <1>2, <1>3, <1>4, <1>5, <1>6, <1>7

\* How a change of the status of some jobs looks in the contract.
LEMMA LifeStep ==
  ASSUME TypeOK, TypeOK'
  PROVE  /\ Life \in [Jobs -> {"new", "waiting", "running", "ran", "dead"}]
         /\ \A j \in Jobs : Life[j] = LifeOf(status[j]) /\ Life'[j] = LifeOf(status'[j])
         /\ (\A j \in Jobs : Life'[j] = Life[j]) => Life' = Life
         /\ \A j \in Jobs : \A l :
              (Life'[j] = l /\ \A k \in Jobs \ {j} : status'[k] = status[k])
                => Life' = [Life EXCEPT ![j] = l]
<1>1. \A j \in Jobs : Life[j] = LifeOf(status[j]) /\ Life'[j] = LifeOf(status'[j])
  BY DEF Life
<1>2. \A j \in Jobs : LifeOf(status[j]) \in {"new", "waiting", "running", "ran", "dead"}
  BY LifeValues DEF TypeOK, Status
<1>3. Life = [j \in Jobs |-> Life[j]] /\ Life' = [j \in Jobs |-> Life'[j]]
  BY DEF Life
<1>4. Life \in [Jobs -> {"new", "waiting", "running", "ran", "dead"}]
  BY <1>1, <1>2, <1>3
<1>5. ASSUME \A j \in Jobs : Life'[j] = Life[j] PROVE Life' = Life
  BY <1>3, <1>5
<1>6. ASSUME NEW j \in Jobs, NEW l, Life'[j] = l,
             \A k \in Jobs \ {j} : status'[k] = status[k]
      PROVE  Life' = [Life EXCEPT ![j] = l]
  <2>1. \A k \in Jobs \ {j} : Life'[k] = Life[k]
    BY <1>1, <1>6
  <2> HIDE DEF Life
  <2> QED BY <1>3, <1>4, <1>6, <2>1
<1> QED BY <1>1, <1>4, <1>5, <1>6

\* The steps of a thread.
LEMMA ThreadImplements ==
  ASSUME IInv, TypeOK', NEW t \in Threads, ThreadStep(t)
  PROVE  Contract!Next \/ UNCHANGED Contract!cvars
<1> DEFINE j == Job(t)
<1>1. TypeOK /\ ProgramInv /\ ClaimInv
  BY DEF IInv
<1>2. /\ j \in Jobs /\ idx[t] \in 1..Len(Program[t]) /\ j = Program[t][idx[t]]
      /\ \A k \in Jobs \ {j} : status'[k] = status[k]
      /\ UNCHANGED <<cancelled, doomed>>
  BY <1>1, ThreadMoves DEF ThreadStep
<1>3. /\ ret \in [Jobs -> Outcomes] /\ status \in [Jobs -> Status] /\ idx[t] \in Nat
  BY <1>1 DEF TypeOK, Actors
<1>4. ret[j] = "none" /\ (pc[t] \in Before => status[j] = "new")
  BY <1>1, <1>2, <1>3 DEF ProgramInv
<1>5. /\ \A k \in Jobs : Life[k] = LifeOf(status[k]) /\ Life'[k] = LifeOf(status'[k])
      /\ (\A k \in Jobs : Life'[k] = Life[k]) => Life' = Life
      /\ \A l : Life'[j] = l => Life' = [Life EXCEPT ![j] = l]
  BY <1>1, <1>2, LifeStep
<1>6. \A r : Return(t, r) => ret' = [ret EXCEPT ![j] = r]
  BY DEF Return
<1>s. ASSUME status'[j] = status[j], ret' = ret \/ ret' = [ret EXCEPT ![j] = "none"]
      PROVE  UNCHANGED Contract!cvars
  <2>1. ret' = ret
    BY <1>s, <1>3, <1>4
  <2>2. Life' = Life
    BY <1>s, <1>2, <1>5
  <2> QED BY <2>1, <2>2, <1>2, ContractSteps
<1>a. ASSUME status[j] = "new", Life'[j] = "waiting",
             ret' = ret \/ ret' = [ret EXCEPT ![j] = "none"]
      PROVE  Contract!Next
  <2>1. ret' = ret
    BY <1>a, <1>3, <1>4
  <2>2. Life[j] = "new" /\ Life' = [Life EXCEPT ![j] = "waiting"]
    BY <1>a, <1>2, <1>5, LifeValues
  <2> QED BY <2>1, <2>2, <1>2, ContractSteps
<1>e. ASSUME NEW e \in {"TimeoutError", "SendCancelled", "RuntimeError"},
             ret' = [ret EXCEPT ![j] = e], Life[j] \in {"new", "waiting", "dead"},
             Life'[j] = "dead"
      PROVE  Contract!Next
  <2>1. Life' = [Life EXCEPT ![j] = "dead"]
    BY <1>e, <1>5
  <2> QED BY <2>1, <1>e, <1>2, <1>4, ContractSteps
<1> HIDE DEF j
<1> USE DEF SetStatus, tvars, qvars, cvars
<1>c. pc[t] \in Before => Life[j] = "new"
  BY <1>2, <1>4, <1>5, LifeValues
<1>7. CASE CheckCallback(t)
  <2>1. pc[t] \in Before
    BY <1>7 DEF CheckCallback, Before
  <2>2. CASE UNCHANGED <<idx, ret, status>>
    BY <2>2, <1>s
  <2>3. CASE SetStatus(j, "refused") /\ Return(t, "RuntimeError")
    <3>1. Life'[j] = "dead"
      BY <2>3, <1>2, <1>3, <1>5, LifeValues
    <3> QED BY <2>1, <2>3, <3>1, <1>c, <1>e, <1>6
  <2> QED BY <1>7, <2>2, <2>3 DEF CheckCallback, j
<1>8. CASE StorePending(t)
  <2>1. pc[t] \in Before /\ SetStatus(j, "pending") /\ Return(t, "none")
    BY <1>8 DEF StorePending, Before, j
  <2>2. Life'[j] = "waiting"
    BY <2>1, <1>2, <1>3, <1>5, LifeValues
  <2> QED BY <2>1, <2>2, <1>4, <1>6, <1>a
<1>9. CASE SlotTimeout(t)
  <2>1. pc[t] \in Before /\ SetStatus(j, "refused") /\ Return(t, "TimeoutError")
    BY <1>9 DEF SlotTimeout, Before, j
  <2>2. Life'[j] = "dead"
    BY <2>1, <1>2, <1>3, <1>5, LifeValues
  <2> QED BY <2>1, <2>2, <1>c, <1>6, <1>e
<1>10. CASE EnqueuePut(t)
  <2>1. pc[t] \in Before /\ SetStatus(j, "queued") /\ ret' = ret
    BY <1>10 DEF EnqueuePut, Before, j
  <2>2. Life'[j] = "waiting"
    BY <2>1, <1>2, <1>3, <1>5, LifeValues
  <2> QED BY <2>1, <2>2, <1>4, <1>a
<1>11. CASE EnqueueBind(t) \/ EnqueuePoke(t) \/ WaitExpires(t)
  <2>1. status' = status
    BY <1>11 DEF EnqueueBind, EnqueuePoke, WaitExpires
  <2>2. ret' = ret \/ Return(t, "none")
    BY <1>11 DEF EnqueueBind, EnqueuePoke, WaitExpires
  <2> QED BY <2>1, <2>2, <1>6, <1>s
<1>12. CASE Wakeup(t)
  <2>1. status' = status /\ status[j] \in Finished
    BY <1>12 DEF Wakeup, j
  <2>2. Life' = Life
    BY <2>1, <1>5
  <2>3. CASE status[j] = "done"
    <3>1. Return(t, "result")
      BY <1>12, <2>3 DEF Wakeup, j
    <3>2. Life[j] = "ran"
      BY <2>3, <1>2, <1>5, LifeValues
    <3> QED BY <3>1, <3>2, <2>2, <1>2, <1>4, <1>6, ContractSteps
  <2>4. CASE status[j] # "done"
    <3>1. Return(t, "SendCancelled")
      BY <1>12, <2>4 DEF Wakeup, j
    <3>2. Life[j] = "dead" /\ Life'[j] = "dead"
      BY <2>1, <2>4, <1>2, <1>5, LifeValues DEF Finished
    <3> QED BY <3>1, <3>2, <1>6, <1>e
  <2> QED BY <2>3, <2>4
<1>13. CASE GiveUpOrWait(t)
  <2>1. CASE UNCHANGED <<idx, ret, status>>
    BY <2>1, <1>s
  <2>2. CASE status[j] = "queued" /\ SetStatus(j, "expired") /\ Return(t, "TimeoutError")
    <3>1. Life[j] = "waiting" /\ Life'[j] = "dead"
      BY <2>2, <1>2, <1>3, <1>5, LifeValues
    <3> QED BY <2>2, <3>1, <1>6, <1>e
  <2> QED BY <1>13, <2>1, <2>2 DEF GiveUpOrWait, j
<1>14. CASE RereadClaim(t)
  <2>1. status' = status
    BY <1>14 DEF RereadClaim
  <2>2. CASE ret' = ret
    BY <2>1, <2>2, <1>s
  <2>3. CASE Return(t, "TimeoutError") /\ status[j] \notin Claimed
    <3>1. status[j] = "abandoned"
      BY <1>1, <1>14, <2>3 DEF RereadClaim, ClaimInv, j
    <3>2. Life[j] = "dead" /\ Life'[j] = "dead"
      BY <2>1, <3>1, <1>2, <1>5, LifeValues
    <3> QED BY <2>3, <3>2, <1>6, <1>e
  <2> QED BY <1>14, <2>2, <2>3 DEF RereadClaim, j
<1> QED
  BY <1>7, <1>8, <1>9, <1>10, <1>11, <1>12, <1>13, <1>14 DEF ThreadStep, CallerStep

\* The main thread, the flusher and the drains of Stop.
LEMMA OtherImplements ==
  ASSUME IInv, HeldInv, TypeOK', OtherStep, ~ \E s \in Scopes : CancelFlag(s)
  PROVE  Contract!Next \/ UNCHANGED Contract!cvars
<1> USE DEF SetStatus, tvars, qvars, cvars
<1>1. TypeOK /\ PlaceInv /\ AnswerInv /\ DoomInv
  BY DEF IInv
<1>2. ret' = ret /\ UNCHANGED <<cancelled, doomed>> /\ \A j \in Jobs : OldMove(j)
  <2>1. ret' = ret /\ \A j \in Jobs : OldMove(j)
    BY <1>1, OtherMoves DEF OtherStep
  <2>2. UNCHANGED <<cancelled, doomed>>
    BY DEF OtherStep, FlushStep, FlushBegin, FlushPut, FlushFail, FlushEnd, FlushPoke,
       SetContext, WakePending, Notify, PumpQueue, ProcessStep, RecheckCancel, StartFn,
       FinishFn, Repoke, SessionBind, CancelStep, CancelDrain, CancelPoke, CancelPending,
       vars
  <2> QED BY <2>1, <2>2
<1>3. status \in [Jobs -> Status]
  BY <1>1 DEF TypeOK
<1>4. /\ \A k \in Jobs : Life[k] = LifeOf(status[k]) /\ Life'[k] = LifeOf(status'[k])
      /\ (\A k \in Jobs : Life'[k] = Life[k]) => Life' = Life
      /\ \A j \in Jobs : \A l : (Life'[j] = l /\ \A k \in Jobs \ {j} : status'[k] = status[k])
                              => Life' = [Life EXCEPT ![j] = l]
  BY <1>1, LifeStep
\* Jobs of some set are given up, the others keep their life.
<1>g. ASSUME NEW J \in SUBSET Jobs,
             \A k \in J : Life[k] = "waiting" /\ Life'[k] = "dead",
             \A k \in Jobs \ J : Life'[k] = Life[k]
      PROVE  Contract!Next \/ UNCHANGED Contract!cvars
  <2>1. CASE J = {}
    <3>1. Life' = Life
      BY <2>1, <1>g, <1>4
    <3> QED BY <3>1, <1>2, ContractSteps
  <2>2. CASE J # {}
    <3>1. Life' = [k \in Jobs |-> Life'[k]]
      BY DEF Life
    <3>2. Life' = [k \in Jobs |-> IF k \in J THEN "dead" ELSE Life[k]]
      <4> HIDE DEF Life
      <4> QED BY <3>1, <1>g
    <3> QED BY <3>2, <2>2, <1>g, <1>2, ContractSteps
  <2> QED BY <2>1, <2>2
\* Nobody starts or ends, and what dies was waiting.
<1>w. ASSUME \A k \in Jobs : status'[k] \notin {"running", "done"} \/ status'[k] = status[k]
      PROVE  Contract!Next \/ UNCHANGED Contract!cvars
  <2> DEFINE J == {k \in Jobs : Life[k] = "waiting" /\ Life'[k] = "dead"}
  <2>1. ASSUME NEW k \in Jobs \ J PROVE Life'[k] = Life[k]
    <3>1. OldMove(k) /\ k \in Jobs /\ ~(Life[k] = "waiting" /\ Life'[k] = "dead")
      BY <1>2, <2>1
    <3>2. Life[k] = LifeOf(status[k]) /\ Life'[k] = LifeOf(status'[k])
      BY <1>4
    <3> HIDE DEF J
    <3> QED BY <3>1, <3>2, <1>w, <2>1, LifeValues DEF OldMove, SecondCheck
  <2>2. J \in SUBSET Jobs /\ \A k \in J : Life[k] = "waiting" /\ Life'[k] = "dead"
    OBVIOUS
  <2>3. \A k \in Jobs \ J : Life'[k] = Life[k]
    BY <2>1
  <2> HIDE DEF Life, J
  <2> QED BY <2>2, <2>3, <1>g
<1>5. CASE StartFn
  <2> DEFINE j == Head(stack)
  <2>1. /\ j \in Jobs /\ status[j] = "cleared" /\ status'[j] = "running"
        /\ \A k \in Jobs \ {j} : status'[k] = status[k]
    BY <1>1, <1>3, <1>5, HeadTailProperties DEF StartFn, TypeOK
  <2> HIDE DEF j
  <2>2. j \notin doomed
    BY <1>1, <2>1 DEF DoomInv
  <2>3. ret[j] = "none"
    BY <1>1, <2>1 DEF AnswerInv, Dead, TypeOK, Outcomes
  <2>4. Life[j] = "waiting" /\ Life' = [Life EXCEPT ![j] = "running"]
    BY <1>4, <2>1, LifeValues
  <2> QED BY <2>1, <2>2, <2>3, <2>4, <1>2, ContractSteps
<1>6. CASE FinishFn
  <2> DEFINE j == Head(stack)
  <2>1. /\ j \in Jobs /\ status[j] = "running" /\ status'[j] = "done"
        /\ \A k \in Jobs \ {j} : status'[k] = status[k]
    BY <1>1, <1>3, <1>6, HeadTailProperties DEF FinishFn, TypeOK
  <2> HIDE DEF j
  <2>2. Life[j] = "running" /\ Life' = [Life EXCEPT ![j] = "ran"]
    BY <1>4, <2>1, LifeValues
  <2> QED BY <2>1, <2>2, <1>2, ContractSteps
<1>7. CASE ~StartFn /\ ~FinishFn
  <2> SUFFICES \A k \in Jobs :
                 status'[k] \notin {"running", "done"} \/ status'[k] = status[k]
    BY <1>w
  <2>1. CASE \E a \in Actors : FlushStep(a)
    <3>1. PICK a \in Actors : FlushStep(a)
      BY <2>1
    <3> QED BY <3>1, <1>3
        DEF FlushStep, FlushBegin, FlushPut, FlushFail, FlushEnd, FlushPoke
  <2>2. CASE SetContext \/ WakePending \/ UNCHANGED vars
    BY <2>2 DEF SetContext, WakePending, vars
  <2>3. CASE Notify \/ PumpQueue
    BY <2>3, <1>3 DEF Notify, PumpQueue, TakeItem, FirstCheck
  <2>4. CASE RecheckCancel \/ Repoke
    BY <2>4, <1>3 DEF RecheckCancel, Repoke, SecondCheck
  <2>5. CASE \E s \in Scopes : SessionBind(s) \/ CancelStep(s)
    <3>1. PICK s \in Scopes : SessionBind(s) \/ CancelStep(s)
      BY <2>5
    <3> QED BY <3>1, <1>3 DEF SessionBind, CancelStep, CancelDrain, CancelPoke, CancelPending
  <2> QED BY <1>7, <2>1, <2>2, <2>3, <2>4, <2>5 DEF OtherStep, ProcessStep
<1> QED BY <1>5, <1>6, <1>7

\* Stop bars what waits, except a job past the last check: the one on top of
\* the main thread's stack.
LEMMA StopImplements ==
  ASSUME IInv, PlacesInv, TypeOK', NEW s \in Scopes, CancelFlag(s)
  PROVE  Contract!Next
<1>1. TypeOK /\ PlaceInv /\ HeldInv /\ StackInv /\ StopInv
  BY DEF IInv, PlacesInv
<1>2. /\ cancelled' = cancelled \cup {s} /\ UNCHANGED <<status, ret>> /\ s \notin cancelled
      /\ doomed' = doomed \cup {j \in Jobs : ScopeOf[j] = s /\
                  status[j] \in {"new", "pending", "flushing", "queued", "claimed"}}
  BY <1>1 DEF CancelFlag, StopInv, tvars
<1>3. /\ \A k \in Jobs : Life[k] = LifeOf(status[k]) /\ Life'[k] = LifeOf(status'[k])
      /\ (\A k \in Jobs : Life'[k] = Life[k]) => Life' = Life
      /\ Life \in [Jobs -> {"new", "waiting", "running", "ran", "dead"}]
  BY <1>1, LifeStep
<1>4. Life' = Life
  BY <1>2, <1>3
<1> DEFINE waiting == {j \in Jobs : ScopeOf[j] = s /\ Life[j] = "waiting"}
           unborn == {j \in Jobs : ScopeOf[j] = s /\ Life[j] = "new"}
           J == {j \in Jobs : ScopeOf[j] = s /\ status[j] = "cleared"}
<1>5. \A j \in Jobs :
        /\ Life[j] = "waiting" <=>
             status[j] \in {"pending", "flushing", "queued", "claimed", "cleared"}
        /\ Life[j] = "new" <=> status[j] = "new"
  <2>1. \A j \in Jobs : Life[j] = LifeOf(status[j]) /\ status[j] \in Status
    BY <1>1, <1>3 DEF TypeOK
  <2> HIDE DEF Life
  <2> QED BY <2>1, LifeValues DEF Status
<1>6. J \in SUBSET waiting
  BY <1>5
<1>7. \A j, k \in J : j = k
  <2>1. \A j \in J : stack # <<>> /\ j = Head(stack)
    <3> SUFFICES ASSUME NEW j \in J PROVE stack # <<>> /\ j = Head(stack)
      OBVIOUS
    <3>1. PICK i \in 1..Len(stack) : stack[i] = j
      BY <1>1 DEF HeldInv, Contains
    <3>2. i \notin 2..Len(stack)
      BY <1>1, <3>1 DEF StackInv
    <3>3. stack \in Seq(Jobs) /\ Len(stack) \in Nat
      BY <1>1, LenProperties DEF TypeOK
    <3>4. i = 1 /\ stack # <<>>
      BY <3>1, <3>2, <3>3
    <3> QED BY <3>1, <3>3, <3>4, HeadTailProperties
  <2> QED BY <2>1
<1>8. doomed' = doomed \cup unborn \cup (waiting \ J)
  BY <1>2, <1>5
<1>9. Contract!Stop(s)
  <2> DEFINE W == {j \in Jobs : ScopeOf[j] = s /\ [k \in Jobs |-> LifeOf(status[k])][j] = "waiting"}
             U == {j \in Jobs : ScopeOf[j] = s /\ [k \in Jobs |-> LifeOf(status[k])][j] = "new"}
  <2>1. waiting = W /\ unborn = U
    BY DEF Life
  <2>2. [k \in Jobs |-> LifeOf(status[k])]' = [k \in Jobs |-> LifeOf(status[k])]
    BY <1>4 DEF Life
  <2>3. J \in SUBSET W /\ (\A j, k \in J : j = k) /\ doomed' = doomed \cup U \cup (W \ J)
    BY <2>1, <1>6, <1>7, <1>8
  <2>4. \E K \in SUBSET W : (\A j, k \in K : j = k) /\ doomed' = doomed \cup U \cup (W \ K)
    <3> HIDE DEF J, W, U
    <3> QED BY <2>3
  <2> QED BY <2>2, <2>4, <1>2 DEF Contract!Stop
<1> QED BY <1>9 DEF Contract!Next

LEMMA InitPlaces == Init => PlacesInv
<1> SUFFICES ASSUME Init PROVE PlacesInv
  OBVIOUS
<1>1. HeldInv /\ StackInv /\ StopInv
  BY DEF Init, HeldInv, StackInv, StopInv
<1>2. GoneInv
  BY DEF Init, GoneInv, Before, Actors
<1> QED BY <1>1, <1>2 DEF PlacesInv

LEMMA PlacesStep == IInv /\ PlacesInv /\ [Next]_vars => PlacesInv'
<1> SUFFICES ASSUME IInv, PlacesInv, [Next]_vars PROVE PlacesInv'
  OBVIOUS
<1>1. TypeOK /\ ProgramInv /\ FlushInv /\ PlaceInv
  BY DEF IInv
<1>2. HeldInv /\ StackInv /\ StopInv /\ GoneInv
  BY DEF PlacesInv
<1>3. HeldInv' /\ StackInv'
  BY <1>1, <1>2, HeldStep, StackStep
<1>4. StopInv' /\ GoneInv'
  BY <1>1, <1>2, StopStep, GoneStep
<1> QED BY <1>3, <1>4 DEF PlacesInv

LEMMA InitImplements == Init => Contract!Init
<1> SUFFICES ASSUME Init PROVE Contract!Init
  OBVIOUS
<1>1. [j \in Jobs |-> LifeOf(status[j])] = [j \in Jobs |-> "new"]
  BY LifeValues DEF Init
<1> QED BY <1>1 DEF Init, Contract!Init

LEMMA StepImplements ==
  IInv /\ PlacesInv /\ IInv' /\ [Next]_vars => [Contract!Next]_(Contract!cvars)
<1> SUFFICES ASSUME IInv, PlacesInv, IInv', [Next]_vars
             PROVE  Contract!Next \/ UNCHANGED Contract!cvars
  OBVIOUS
<1>1. TypeOK' /\ HeldInv
  BY DEF IInv, PlacesInv
<1>2. CASE \E t \in Threads : ThreadStep(t)
  BY <1>1, <1>2, ThreadImplements
<1>3. CASE \E s \in Scopes : CancelFlag(s)
  BY <1>1, <1>3, StopImplements
<1>4. CASE OtherStep /\ ~ \E s \in Scopes : CancelFlag(s)
  BY <1>1, <1>4, OtherImplements
<1> QED BY <1>2, <1>3, <1>4, StepSplit

-----------------------------------------------------------------------------
(* One context only: the callback stays, and no wakeup is lost.            *)

LEMMA InitReady == Init => ReadyInv
<1> SUFFICES ASSUME Init PROVE ReadyInv
  OBVIOUS
<1>1. ctx = NoCtx /\ service = "unset" /\ queue = <<>> /\ \A a \in Actors : pc[a] = "idle"
  BY DEF Init
<1> QED BY <1>1 DEF ReadyInv, Actors

\* The callback is not given up, because the context stays the same.
LEMMA ReadyStays ==
  ASSUME OneCtx, TypeOK, ReadyInv, [Next]_vars
  PROVE  /\ service = "ready" => service' = "ready"
         /\ ctx' # NoCtx => \A i \in DOMAIN BootProgram : ctx' = BootProgram[i]
         /\ service' = "ready" => ctx' # NoCtx
<1> USE DEF tvars, qvars, cvars
<1>r. /\ ctx # NoCtx => \A i \in DOMAIN BootProgram : ctx = BootProgram[i]
      /\ service = "ready" => ctx # NoCtx
  BY DEF ReadyInv
<1>1. CASE SetContext
  <2> DEFINE i == idx[Boot]
  <2>1. i \in DOMAIN BootProgram /\ ctx' = BootProgram[i]
    <3>1. i \in Nat \ {0} /\ i <= Len(BootProgram)
      BY <1>1 DEF SetContext, TypeOK, Actors
    <3> QED BY <1>1, <3>1, ActorAssumption, LenProperties DEF SetContext
  <2>2. ctx' # NoCtx
    <3>1. BootProgram[i] \in Contexts
      BY <2>1, ActorAssumption, ElementOfSeq, LenProperties
    <3> QED BY <2>1, <3>1, ActorAssumption
  <2>3. service = "ready" => service' = "ready"
    BY <1>1, <1>r, <2>1 DEF SetContext
  <2> QED BY <2>1, <2>2, <2>3 DEF OneCtx
<1>2. CASE ctx' = ctx /\ (CallbackReady \/ CallbackMissing)
  BY <1>2, <1>r DEF CallbackReady, CallbackMissing
<1>3. CASE UNCHANGED <<ctx, service>>
  BY <1>3, <1>r
<1>t. ASSUME NEW t \in Threads, ThreadStep(t)
      PROVE  ctx' = ctx /\ (CallbackReady \/ CallbackMissing \/ UNCHANGED service)
  BY <1>t DEF ThreadStep, CheckCallback, CallerStep, StorePending, SlotTimeout,
     EnqueueBind, EnqueuePut, EnqueuePoke, Wakeup, GiveUpOrWait, RereadClaim, WaitExpires
<1>o. CASE OtherStep /\ ~SetContext
  <2>1. ctx' = ctx /\ (CallbackReady \/ CallbackMissing \/ UNCHANGED service)
    BY <1>o DEF OtherStep, FlushStep, FlushBegin, FlushPut, FlushFail, FlushEnd, FlushPoke,
       WakePending, Notify, PumpQueue, ProcessStep, RecheckCancel, StartFn, FinishFn, Repoke,
       SessionBind, CancelFlag, CancelStep, CancelDrain, CancelPoke, CancelPending, vars
  <2> QED BY <2>1, <1>2, <1>3
<1> QED BY <1>1, <1>2, <1>3, <1>t, <1>o, StepSplit

Past == {"flush", "enqueue", "put", "poke"}

LEMMA ReadyStep ==
  ASSUME OneCtx, TypeOK, ReadyInv, [Next]_vars
  PROVE  ReadyInv'
<1> USE ActorAssumption DEF tvars, qvars, cvars, Goto
<1>s. /\ pc \in [Actors -> {"idle", "slot", "flush", "flushing", "flushPoke", "enqueue",
                        "put", "poke", "wait", "expired", "sawClaim", "inflight",
                        "wakePending"}]
      /\ Threads \subseteq Actors /\ Boot \in Actors /\ Boot \notin Threads
  BY DEF TypeOK, Actors
<1>r. /\ service = "ready" => service' = "ready"
      /\ ctx' # NoCtx => \A i \in DOMAIN BootProgram : ctx' = BootProgram[i]
      /\ service' = "ready" => ctx' # NoCtx
  BY ReadyStays
<1>i. /\ queue # <<>> => service' = "ready"
      /\ \A a \in Actors : pc[a] \in {"flushing", "flushPoke"} => service' = "ready"
      /\ \A t \in Threads : pc[t] \in Past => service' = "ready"
  BY <1>r DEF ReadyInv, Past
<1>k. ASSUME queue' # <<>> => service' = "ready",
             \A a \in Actors : pc'[a] \in {"flushing", "flushPoke"} => service' = "ready",
             \A t \in Threads : pc'[t] \in Past => service' = "ready"
      PROVE  ReadyInv'
  BY <1>k, <1>r DEF ReadyInv, Past
<1>u. ASSUME queue' = queue \/ queue' = <<>>, pc' = pc PROVE ReadyInv'
  BY <1>u, <1>i, <1>k
<1>t. ASSUME NEW t \in Threads, ThreadStep(t) PROVE ReadyInv'
  <2>1. \A a \in Actors \ {t} : pc'[a] = pc[a]
    BY <1>t, <1>s, ThreadPcs
  <2>2. /\ pc'[t] \notin {"flushing"}
        /\ pc'[t] \in Past \cup {"flushPoke"} => service' = "ready"
    <3>r. \A r : Return(t, r) => pc'[t] = "idle"
      BY <1>s DEF Return
    <3>1. CASE CheckCallback(t)
      BY <3>1, <1>s, <3>r DEF CheckCallback, CallbackReady, Past
    <3>2. CASE StorePending(t) \/ SlotTimeout(t) \/ Wakeup(t) \/ RereadClaim(t)
      BY <3>2, <1>s, <3>r DEF StorePending, SlotTimeout, Wakeup, RereadClaim, Past
    <3>3. CASE EnqueueBind(t) \/ EnqueuePut(t)
      BY <3>3, <1>s, <1>i DEF EnqueueBind, EnqueuePut, Past
    <3>4. CASE EnqueuePoke(t)
      BY <3>4, <1>s, <3>r DEF EnqueuePoke, Past
    <3>5. CASE WaitExpires(t) \/ GiveUpOrWait(t)
      BY <3>5, <1>s, <3>r DEF WaitExpires, GiveUpOrWait, Past
    <3> QED BY <1>t, <3>1, <3>2, <3>3, <3>4, <3>5 DEF ThreadStep, CallerStep
  <2>3. queue' # <<>> => service' = "ready"
    <3>1. CASE EnqueuePut(t)
      BY <3>1, <1>i DEF EnqueuePut, Past
    <3>2. CASE ~EnqueuePut(t)
      <4>1. queue' = queue
        BY <1>t, <3>2 DEF ThreadStep, CheckCallback, CallerStep, StorePending, SlotTimeout,
           EnqueueBind, EnqueuePoke, Wakeup, GiveUpOrWait, RereadClaim, WaitExpires
      <4> QED BY <4>1, <1>i
    <3> QED BY <3>1, <3>2
  <2> QED BY <2>1, <2>2, <2>3, <1>i, <1>k, <1>s
<1>f. ASSUME NEW a \in Actors, FlushStep(a) PROVE ReadyInv'
  <2>1. /\ pc[a] \in {"flushing", "flushPoke"} \/ (a \in Threads /\ pc[a] \in Past)
             \/ service = "ready" => service' = "ready"
        /\ a \notin Threads => a = Boot
    BY <1>i, <1>r DEF Actors
  <2>2. CASE FlushBegin(a)
    <3>1. queue' = queue /\ pc[a] = "flush"
      BY <2>2 DEF FlushBegin
    <3>2. \/ service = "ready" /\ pc' = [pc EXCEPT ![a] = "flushing"]
          \/ a \in Threads /\ pc' = [pc EXCEPT ![a] = "enqueue"]
          \/ pc' = [pc EXCEPT ![a] = "idle"]
      BY <2>1, <2>2 DEF FlushBegin, AfterFlush
    <3> QED BY <3>1, <3>2, <2>1, <1>i, <1>k, <1>s DEF Past
  <2>3. CASE FlushPut(a)
    BY <2>3, <2>1, <1>i, <1>k, <1>s DEF FlushPut
  <2>4. CASE FlushFail(a)
    BY <2>4, <1>u DEF FlushFail
  <2>5. CASE FlushEnd(a) \/ FlushPoke(a)
    <3>1. queue' = queue /\ pc[a] \in {"flushing", "flushPoke"}
      BY <2>5 DEF FlushEnd, FlushPoke
    <3>2. \E l : pc' = [pc EXCEPT ![a] = l]
      BY <2>5 DEF FlushEnd, FlushPoke
    <3> QED BY <3>1, <3>2, <2>1, <1>i, <1>k, <1>s
  <2> QED BY <1>f, <2>2, <2>3, <2>4, <2>5 DEF FlushStep
<1>b. CASE SetContext \/ WakePending
  <2>1. /\ queue' = queue
        /\ pc' = [pc EXCEPT ![Boot] = "wakePending"] \/ pc' = [pc EXCEPT ![Boot] = "flush"]
    BY <1>b DEF SetContext, WakePending
  <2> QED BY <2>1, <1>i, <1>k, <1>s
<1>m. CASE Notify \/ PumpQueue
  <2>1. pc' = pc /\ TakeItem
    BY <1>m DEF Notify, PumpQueue
  <2>2. queue' # <<>> => queue # <<>>
    BY <2>1 DEF TakeItem
  <2> QED BY <2>1, <2>2, <1>i, <1>k
<1>p. CASE ProcessStep
  BY <1>p, <1>u DEF ProcessStep, RecheckCancel, StartFn, FinishFn, Repoke
<1>c. ASSUME NEW s \in Scopes, SessionBind(s) \/ CancelFlag(s) \/ CancelStep(s)
      PROVE  ReadyInv'
  <2>1. CASE CancelDrain(s)
    <3>1. queue \in Seq(Jobs) /\ queue' = Survivors(queue, s) /\ pc' = pc
      BY <2>1 DEF CancelDrain, TypeOK
    <3>2. queue' # <<>> => queue # <<>>
      BY <3>1, SurvivorsEmpty
    <3> QED BY <3>1, <3>2, <1>i, <1>k
  <2>2. CASE SessionBind(s) \/ CancelFlag(s) \/ CancelPoke(s) \/ CancelPending(s)
    BY <2>2, <1>u DEF SessionBind, CancelFlag, CancelPoke, CancelPending
  <2> QED BY <1>c, <2>1, <2>2 DEF CancelStep
<1>v. CASE UNCHANGED vars
  BY <1>v, <1>u DEF vars
<1> QED BY <1>t, <1>f, <1>b, <1>m, <1>p, <1>c, <1>v, StepSplit DEF OtherStep

\* Every step that takes a notification away, or its promise, leaves another.
LEMMA WakeupStep ==
  ASSUME ~FlakyToolkit, TypeOK, FlushInv, ReadyInv, NoLostWakeup, [Next]_vars
  PROVE  NoLostWakeup'
<1> USE DEF tvars, qvars, cvars, Goto
<1>s. /\ pc \in [Actors -> {"idle", "slot", "flush", "flushing", "flushPoke", "enqueue",
                        "put", "poke", "wait", "expired", "sawClaim", "inflight",
                        "wakePending"}]
      /\ cpc \in [Scopes -> {"idle", "drain", "poke", "clear", "over"}]
      /\ Threads \subseteq Actors /\ pokes \in Nat
  BY DEF TypeOK, Actors
<1>p. ASSUME Poke, service = "ready" PROVE pokes' > 0
  BY <1>p, <1>s DEF Poke
<1>q. queue # <<>> => service = "ready"
  BY DEF ReadyInv
<1> DEFINE Promise(l, m) == l \in {"poke", "flushPoke"} \/ (l = "flushing" /\ m)
<1>w. queue # <<>> => \/ pokes > 0
                      \/ stack # <<>>
                      \/ \E a \in Actors : Promise(pc[a], moved)
                      \/ \E s \in Scopes : cpc[s] = "poke"
  BY DEF NoLostWakeup
<1>a. ASSUME pokes' > 0 PROVE NoLostWakeup'
  BY <1>a DEF NoLostWakeup
<1>b. ASSUME NEW a \in Actors, Promise(pc'[a], moved') PROVE NoLostWakeup'
  BY <1>b DEF NoLostWakeup
\* The steps that keep what there is.
<1>k. ASSUME queue' # <<>> => queue # <<>>, pokes' = pokes, stack # <<>> => stack' # <<>>,
             \A a \in Actors : Promise(pc[a], moved) => Promise(pc'[a], moved'),
             \A s \in Scopes : cpc[s] = "poke" => cpc'[s] = "poke"
      PROVE  NoLostWakeup'
  BY <1>k, <1>w DEF NoLostWakeup
<1>t. ASSUME NEW t \in Threads, ThreadStep(t) PROVE NoLostWakeup'
  <2>1. CASE EnqueuePut(t)
    BY <2>1, <1>b, <1>s DEF EnqueuePut
  <2>2. CASE EnqueuePoke(t)
    BY <2>2, <1>a, <1>p, <1>s DEF EnqueuePoke, ReadyInv
  <2>3. CASE ~EnqueuePut(t) /\ ~EnqueuePoke(t)
    <3>1. UNCHANGED <<queue, pokes, stack, cpc, moved>>
      BY <1>t, <2>3 DEF ThreadStep, CheckCallback, CallerStep, StorePending, SlotTimeout,
           EnqueueBind, Wakeup, GiveUpOrWait, RereadClaim, WaitExpires
    <3>2. \A a \in Actors \ {t} : pc'[a] = pc[a]
      BY <1>t, ThreadPcs
    <3>3. pc[t] \notin {"poke", "flushPoke", "flushing"}
      BY <1>t, <2>3 DEF ThreadStep, CheckCallback, CallerStep, StorePending, SlotTimeout,
           EnqueueBind, Wakeup, GiveUpOrWait, RereadClaim, WaitExpires
    <3> QED BY <3>1, <3>2, <3>3, <1>k
  <2> QED BY <2>1, <2>2, <2>3
<1>f. ASSUME NEW a \in Actors, FlushStep(a) PROVE NoLostWakeup'
  <2>1. CASE FlushBegin(a)
    <3>1. \A b \in Actors : pc[b] # "flushing"
      BY <2>1, ActorAssumption DEF FlushBegin, OrderFree, FlushInv
    <3>2. /\ UNCHANGED <<queue, pokes, stack, cpc>> /\ pc[a] = "flush"
          /\ \E l : pc' = [pc EXCEPT ![a] = l]
      BY <2>1 DEF FlushBegin
    <3>3. \A b \in Actors : Promise(pc[b], moved) => Promise(pc'[b], moved')
      BY <3>1, <3>2, <1>s
    <3> HIDE DEF Promise
    <3> QED BY <3>2, <3>3, <1>k
  <2>2. CASE FlushPut(a)
    BY <2>2, <1>b DEF FlushPut
  <2>3. CASE FlushFail(a)
    BY <2>3, <1>k DEF FlushFail
  <2>4. CASE FlushEnd(a)
    <3>1. /\ UNCHANGED <<queue, pokes, stack, cpc, moved>> /\ pc[a] = "flushing"
          /\ moved => pc'[a] = "flushPoke"
          /\ \A b \in Actors \ {a} : pc'[b] = pc[b]
      BY <2>4, <1>s DEF FlushEnd
    <3> QED BY <3>1, <1>k
  <2>5. CASE FlushPoke(a)
    BY <2>5, <1>a, <1>p DEF FlushPoke, ReadyInv
  <2> QED BY <1>f, <2>1, <2>2, <2>3, <2>4, <2>5 DEF FlushStep
<1>c. CASE SetContext \/ WakePending
  <2>1. /\ UNCHANGED <<queue, pokes, stack, cpc, moved>>
        /\ pc[Boot] \in {"idle", "wakePending"} /\ \A b \in Actors \ {Boot} : pc'[b] = pc[b]
    BY <1>c, <1>s DEF SetContext, WakePending
  <2> QED BY <2>1, <1>k
<1>m. CASE Notify \/ PumpQueue
  <2>1. TakeItem
    BY <1>m DEF Notify, PumpQueue
  <2>2. CASE queue = <<>>
    BY <2>1, <2>2 DEF TakeItem, NoLostWakeup
  <2>3. CASE queue # <<>>
    <3>1. stack \in Seq(Jobs) /\ Head(queue) \in Jobs
      BY <2>3, HeadTailProperties DEF TypeOK
    <3>2. stack' = <<Head(queue)>> \o stack
      BY <2>1, <2>3 DEF TakeItem
    <3>3. Len(stack') = 1 + Len(stack) /\ stack' \in Seq(Jobs)
      BY <3>1, <3>2, DistinctOne, ConcatProperties
    <3>4. stack' # <<>>
      BY <3>1, <3>3, LenProperties
    <3> QED BY <3>4 DEF NoLostWakeup
  <2> QED BY <2>2, <2>3
<1>r. CASE RecheckCancel \/ StartFn \/ FinishFn
  BY <1>r, <1>k DEF RecheckCancel, StartFn, FinishFn
<1>e. CASE Repoke
  <2>1. queue' = queue /\ (queue # <<>> => Poke)
    BY <1>e DEF Repoke, PokeIfMore
  <2> QED BY <2>1, <1>a, <1>p, <1>q DEF NoLostWakeup
<1>d. ASSUME NEW s \in Scopes, SessionBind(s) \/ CancelFlag(s) \/ CancelStep(s)
      PROVE  NoLostWakeup'
  <2>1. CASE SessionBind(s)
    BY <2>1, <1>k DEF SessionBind
  <2>2. CASE CancelFlag(s) \/ CancelPending(s)
    <3>1. /\ UNCHANGED <<queue, pokes, stack, pc, moved>> /\ cpc[s] # "poke"
          /\ \A u \in Scopes \ {s} : cpc'[u] = cpc[u]
      BY <2>2, <1>s DEF CancelFlag, CancelPending
    <3> QED BY <3>1, <1>k
  <2>3. CASE CancelDrain(s)
    BY <2>3, <1>s DEF CancelDrain, NoLostWakeup
  <2>4. CASE CancelPoke(s)
    <3>1. Poke /\ queue' = queue
      BY <2>4 DEF CancelPoke
    <3> QED BY <3>1, <1>a, <1>p, <1>q DEF NoLostWakeup
  <2> QED BY <1>d, <2>1, <2>2, <2>3, <2>4 DEF CancelStep
<1>u. CASE UNCHANGED vars
  BY <1>u, <1>k DEF vars
<1> QED BY <1>t, <1>f, <1>c, <1>m, <1>r, <1>e, <1>d, <1>u, StepSplit DEF OtherStep, ProcessStep

-----------------------------------------------------------------------------
(* One context and flushes that do not fail: a thread's jobs stay in order. *)

LEMMA EarlierJobs ==
  ASSUME NEW p, NEW q, Earlier(p, q)
  PROVE  /\ p \in Jobs /\ q \in Jobs /\ p # q
         /\ \A t \in Threads : \A n \in 1..Len(Program[t]) :
              /\ q = Program[t][n] => \E i \in 1..Len(Program[t]) : i < n /\ p = Program[t][i]
              /\ p = Program[t][n] => \E k \in 1..Len(Program[t]) : n < k /\ q = Program[t][k]
<1>0. PICK u \in Threads : \E i, k \in 1..Len(Program[u]) :
        i < k /\ p = Program[u][i] /\ q = Program[u][k]
  BY DEF Earlier
<1>1. PICK i \in 1..Len(Program[u]), k \in 1..Len(Program[u]) :
        i < k /\ p = Program[u][i] /\ q = Program[u][k]
  BY <1>0
<1>2. \A t \in Threads : /\ Program[t] \in Seq(Jobs)
                         /\ \A n \in 1..Len(Program[t]) :
                              Program[t][n] \in Jobs /\ n \in DOMAIN Program[t] /\ n \in Nat
  BY JobsAssumption, ElementOfSeq, LenProperties
<1>3. \A t \in Threads : \A n \in 1..Len(Program[t]) :
        /\ q = Program[t][n] => t = u /\ n = k
        /\ p = Program[t][n] => t = u /\ n = i
  BY <1>1, <1>2, JobsAssumption
<1>4. p # q
  BY <1>1, <1>2, <1>3
<1> QED BY <1>1, <1>2, <1>3, <1>4

\* Where a thread changes the status of its job, and the lists.
LEMMA ThreadChanges ==
  ASSUME TypeOK, ProgramInv, NEW t \in Threads, ThreadStep(t)
  PROVE  /\ Job(t) \in Jobs /\ idx[t] \in 1..Len(Program[t]) /\ Job(t) = Program[t][idx[t]]
         /\ \A j \in Jobs \ {Job(t)} : status'[j] = status[j]
         /\ batch' = batch
         /\ \/ /\ UNCHANGED <<pending, queue>>
               /\ \/ status'[Job(t)] = status[Job(t)]
                  \/ status[Job(t)] = "queued" /\ status'[Job(t)] = "expired"
                  \/ status[Job(t)] = "new" /\ status'[Job(t)] = "refused"
            \/ /\ pc[t] = "slot" /\ status[Job(t)] = "new" /\ status'[Job(t)] = "pending"
               /\ pending' = Append(pending, Job(t)) /\ queue' = queue
            \/ /\ pc[t] = "put" /\ status[Job(t)] = "new" /\ status'[Job(t)] = "queued"
               /\ queue' = Append(queue, Job(t)) /\ pending' = pending
<1> USE DEF tvars, qvars, cvars, SetStatus
<1>1. /\ Job(t) \in Jobs /\ idx[t] \in 1..Len(Program[t]) /\ Job(t) = Program[t][idx[t]]
      /\ \A j \in Jobs \ {Job(t)} : status'[j] = status[j]
      /\ batch' = batch
  BY ThreadMoves DEF ThreadStep
<1>2. pc[t] \in {"idle", "slot", "put"} => status[Job(t)] = "new"
  BY <1>1 DEF ProgramInv, Before
<1>3. status \in [Jobs -> Status]
  BY DEF TypeOK
<1>4. CASE StorePending(t)
  BY <1>1, <1>2, <1>3, <1>4 DEF StorePending
<1>5. CASE EnqueuePut(t)
  BY <1>1, <1>2, <1>3, <1>5 DEF EnqueuePut
<1>6. CASE ~StorePending(t) /\ ~EnqueuePut(t)
  <2>1. /\ UNCHANGED <<pending, queue>>
        /\ \/ status' = status
           \/ status[Job(t)] = "queued" /\ status'[Job(t)] = "expired"
           \/ status[Job(t)] = "new" /\ status'[Job(t)] = "refused"
    BY <1>1, <1>2, <1>3, <1>6 DEF ThreadStep, CheckCallback, CallerStep, SlotTimeout,
       EnqueueBind, EnqueuePoke, Wakeup, GiveUpOrWait, RereadClaim, WaitExpires
  <2> QED BY <1>1, <2>1
<1> QED BY <1>4, <1>5, <1>6

\* The moves of the others that matter for the order.
LEMMA OtherChanges ==
  ASSUME ~FlushMayFail, TypeOK, PlaceInv, OtherStep
  PROVE  /\ \A j \in Jobs : OldMove(j)
         /\ \A j \in Jobs : status'[j] = "pending" => status[j] = "pending"
         /\ \A j \in Jobs : status[j] = "pending" /\ status'[j] = "flushing" =>
                              \A k \in Jobs : status'[k] # "pending"
         /\ \A j \in Jobs : status[j] = "flushing" /\ status'[j] = "queued" =>
                              batch # <<>> /\ j = Head(batch)
         /\ \A j \in Jobs : status[j] = "queued" /\ status'[j] = "claimed" =>
                              queue # <<>> /\ j = Head(queue)
<1> USE DEF tvars, qvars, cvars, SetStatus
<1>1. \A j \in Jobs : OldMove(j)
  BY OtherMoves DEF OtherStep
<1>2. status \in [Jobs -> Status]
  BY DEF TypeOK
<1> DEFINE Goal == /\ \A j \in Jobs : status'[j] = "pending" => status[j] = "pending"
                   /\ \A j \in Jobs : status[j] = "pending" /\ status'[j] = "flushing" =>
                              \A k \in Jobs : status'[k] # "pending"
                   /\ \A j \in Jobs : status[j] = "flushing" /\ status'[j] = "queued" =>
                              batch # <<>> /\ j = Head(batch)
                   /\ \A j \in Jobs : status[j] = "queued" /\ status'[j] = "claimed" =>
                              queue # <<>> /\ j = Head(queue)
<1>f. ASSUME NEW a \in Actors, FlushStep(a) PROVE Goal
  <2>1. CASE FlushBegin(a)
    BY <2>1, <1>2 DEF FlushBegin
  <2>2. CASE FlushPut(a)
    <3>1. Head(batch) \in Jobs
      BY <2>2, HeadTailProperties DEF FlushPut, TypeOK
    <3> QED BY <2>2, <3>1, <1>2 DEF FlushPut
  <2>3. CASE FlushEnd(a) \/ FlushPoke(a)
    BY <2>3 DEF FlushEnd, FlushPoke
  <2> QED BY <1>f, <2>1, <2>2, <2>3 DEF FlushStep, FlushFail
<1>m. ASSUME Notify \/ PumpQueue PROVE Goal
  <2>1. TakeItem
    BY <1>m DEF Notify, PumpQueue
  <2>2. CASE queue = <<>>
    BY <2>1, <2>2 DEF TakeItem
  <2>3. CASE queue # <<>>
    <3>1. /\ Head(queue) \in Jobs /\ status'[Head(queue)] \in {"abandoned", "claimed"}
          /\ \A j \in Jobs \ {Head(queue)} : status'[j] = status[j]
      BY <2>1, <2>3, TakeEffect DEF FirstCheck
    <3> QED BY <2>3, <3>1
  <2> QED BY <2>2, <2>3
<1>p. ASSUME ProcessStep PROVE Goal
  <2>1. stack # <<>> => Head(stack) \in Jobs
    BY HeadTailProperties DEF TypeOK
  <2> QED BY <1>p, <1>2, <2>1 DEF ProcessStep, RecheckCancel, StartFn, FinishFn, Repoke, SecondCheck
<1>c. ASSUME NEW s \in Scopes, SessionBind(s) \/ CancelFlag(s) \/ CancelStep(s) PROVE Goal
  BY <1>c, <1>2 DEF SessionBind, CancelFlag, CancelStep, CancelDrain, CancelPoke, CancelPending
<1>b. ASSUME SetContext \/ WakePending \/ UNCHANGED vars PROVE Goal
  BY <1>b DEF SetContext, WakePending, vars
<1> HIDE DEF Goal
<1>3. Goal
  BY <1>f, <1>m, <1>p, <1>c, <1>b DEF OtherStep
<1> QED BY <1>1, <1>3 DEF Goal

\* No step carries a job past an earlier one.
LEMMA StageStep ==
  ASSUME ~FlushMayFail, TypeOK, ProgramInv, PlaceInv, HeldInv, GoneInv, OrderInv, [Next]_vars
  PROVE  StageInv'
<1> SUFFICES ASSUME NEW p \in Jobs, NEW q \in Jobs, Earlier(p, q)
             PROVE  /\ status'[q] # "new" => status'[p] # "new"
                    /\ status'[q] = "flushing" => status'[p] # "pending"
                    /\ status'[q] \in {"queued", "expired", "abandoned"} \cup Taken
                         => status'[p] \notin {"pending", "flushing"}
                    /\ status'[q] \in Taken => status'[p] # "queued"
  BY DEF StageInv, Earlier
<1>0. /\ status[q] # "new" => status[p] # "new"
      /\ status[q] = "flushing" => status[p] # "pending"
      /\ status[q] \in {"queued", "expired", "abandoned"} \cup Taken
           => status[p] \notin {"pending", "flushing"}
      /\ status[q] \in Taken => status[p] # "queued"
      /\ p # q
  BY EarlierJobs DEF OrderInv, StageInv
<1>r. ~Precedes(batch, q, p) /\ ~Precedes(queue, q, p)
  BY DEF OrderInv, RowsInv
<1>1. CASE OtherStep
  <2>1. /\ OldMove(p) /\ OldMove(q)
        /\ status'[p] = "pending" => status[p] = "pending"
        /\ status[q] = "pending" /\ status'[q] = "flushing" => status'[p] # "pending"
        /\ status[q] = "flushing" /\ status'[q] = "queued" => batch # <<>> /\ q = Head(batch)
        /\ status[q] = "queued" /\ status'[q] = "claimed" => queue # <<>> /\ q = Head(queue)
    BY <1>1, OtherChanges
  <2>2. batch # <<>> /\ q = Head(batch) => status[p] # "flushing"
    <3>1. batch \in Seq(Jobs) /\ (status[p] = "flushing" => Contains(batch, p))
      BY DEF TypeOK, HeldInv
    <3>2. batch # <<>> /\ status[p] = "flushing" => p = Head(batch) \/ Precedes(batch, Head(batch), p)
      BY <3>1, TailContains, TailOrder
    <3> QED BY <3>2, <1>0, <1>r
  <2>3. queue # <<>> /\ q = Head(queue) => status[p] # "queued"
    <3>1. queue \in Seq(Jobs) /\ (status[p] = "queued" => Contains(queue, p))
      BY DEF TypeOK, HeldInv
    <3>2. queue # <<>> /\ status[p] = "queued" => p = Head(queue) \/ Precedes(queue, Head(queue), p)
      BY <3>1, TailContains, TailOrder
    <3> QED BY <3>2, <1>0, <1>r
  <2>4. status'[q] # "new" => status'[p] # "new"
    BY <2>1, <1>0 DEF OldMove, SecondCheck
  <2>5. status'[q] = "flushing" => status'[p] # "pending"
    BY <2>1, <1>0 DEF OldMove, SecondCheck
  <2>6. status'[q] \in {"queued", "expired", "abandoned"} \cup Taken
          => status'[p] \notin {"pending", "flushing"}
    BY <2>1, <2>2, <1>0 DEF OldMove, SecondCheck, Taken
  <2>7. status'[q] \in Taken => status'[p] # "queued"
    BY <2>1, <2>3, <1>0 DEF OldMove, SecondCheck, Taken
  <2> QED BY <2>4, <2>5, <2>6, <2>7
<1>2. ASSUME NEW t \in Threads, ThreadStep(t)
      PROVE  /\ status'[q] # "new" => status'[p] # "new"
             /\ status'[q] = "flushing" => status'[p] # "pending"
             /\ status'[q] \in {"queued", "expired", "abandoned"} \cup Taken
                  => status'[p] \notin {"pending", "flushing"}
             /\ status'[q] \in Taken => status'[p] # "queued"
  <2> DEFINE j == Job(t)
  <2>1. /\ j \in Jobs /\ idx[t] \in 1..Len(Program[t]) /\ j = Program[t][idx[t]]
        /\ \A k \in Jobs \ {j} : status'[k] = status[k]
        /\ \/ status'[j] = status[j]
           \/ status[j] = "queued" /\ status'[j] = "expired"
           \/ status[j] = "new" /\ status'[j] \in {"refused", "pending"}
           \/ pc[t] = "put" /\ status[j] = "new" /\ status'[j] = "queued"
    BY <1>2, ThreadChanges
  <2>2. CASE q = j
    <3>1. PICK i \in 1..Len(Program[t]) : i < idx[t] /\ p = Program[t][i]
      BY <2>1, <2>2, EarlierJobs
    <3>2. status[p] # "new" /\ (pc[t] = "put" => status[p] \notin {"pending", "flushing"})
      BY <3>1 DEF GoneInv, OrderInv, FlushedInv
    <3> HIDE DEF j
    <3> QED BY <2>1, <2>2, <3>2, <1>0 DEF Taken
  <2>3. CASE q # j
    <3> HIDE DEF j
    <3> QED BY <2>1, <2>3, <1>0 DEF Taken
  <2> QED BY <2>2, <2>3
<1> QED BY <1>1, <1>2, StepSplit

\* Jobs enter a list behind what is there, and leave it in front or in place.
LEMMA RowsStep ==
  ASSUME ~FlushMayFail, TypeOK, ProgramInv, PlaceInv, OrderInv, [Next]_vars
  PROVE  RowsInv'
<1> USE DEF tvars, qvars, cvars
<1>s. pending \in Seq(Jobs) /\ batch \in Seq(Jobs) /\ queue \in Seq(Jobs)
  BY DEF TypeOK
<1> DEFINE Row(l) == \A p, q \in Jobs : Earlier(p, q) => ~Precedes(l, q, p)
<1>r. Row(pending) /\ Row(batch) /\ Row(queue)
  BY DEF OrderInv, RowsInv
<1>k. ASSUME Row(pending'), Row(batch'), Row(queue') PROVE RowsInv'
  BY <1>k DEF RowsInv, Earlier
<1>a. ASSUME NEW l \in Seq(Jobs), Row(l), NEW j \in Jobs,
             \A q \in Jobs : Earlier(j, q) => ~Contains(l, q)
      PROVE  Row(Append(l, j))
  <2>1. \A x, y : Precedes(Append(l, j), x, y) <=> Precedes(l, x, y) \/ (Contains(l, x) /\ y = j)
    BY AppendOrder
  <2> QED BY <2>1, <1>a
<1>d. ASSUME NEW l \in Seq(Jobs), Row(l), l # <<>> PROVE Row(Tail(l))
  BY <1>d, TailOrder
<1>f. ASSUME NEW l \in Seq(Jobs), Row(l), NEW s \in Scopes PROVE Row(Survivors(l, s))
  BY <1>f, SurvivorsKept
<1>e. Row(<<>>)
  BY EmptyOrder
<1> HIDE DEF Row
<1>1. ASSUME NEW t \in Threads, ThreadStep(t) PROVE RowsInv'
  <2> DEFINE j == Job(t)
  <2>1. /\ j \in Jobs /\ idx[t] \in 1..Len(Program[t]) /\ j = Program[t][idx[t]]
        /\ batch' = batch
        /\ \/ UNCHANGED <<pending, queue>>
           \/ pending' = Append(pending, j) /\ queue' = queue
           \/ queue' = Append(queue, j) /\ pending' = pending
    BY <1>1, ThreadChanges
  <2>2. \A q \in Jobs : Earlier(j, q) => status[q] = "new"
    <3> SUFFICES ASSUME NEW q \in Jobs, Earlier(j, q) PROVE status[q] = "new"
      OBVIOUS
    <3>1. PICK k \in 1..Len(Program[t]) : idx[t] < k /\ q = Program[t][k]
      BY <2>1, EarlierJobs
    <3>2. k > idx[t]
      BY <3>1, <2>1
    <3> QED BY <3>1, <3>2 DEF ProgramInv
  <2>3. \A q \in Jobs : Contains(pending, q) \/ Contains(queue, q) => status[q] # "new"
    BY DEF PlaceInv, HeldAs, Contains
  <2> HIDE DEF j
  <2>4. Row(Append(pending, j)) /\ Row(Append(queue, j))
    BY <2>1, <2>2, <2>3, <1>s, <1>r, <1>a
  <2> QED BY <2>1, <2>4, <1>r, <1>k
<1>2. ASSUME NEW a \in Actors, FlushStep(a) PROVE RowsInv'
  <2>1. CASE FlushBegin(a)
    <3>1. /\ queue' = queue /\ batch' \in {batch, pending} /\ pending' \in {pending, <<>>}
      BY <2>1 DEF FlushBegin, SwapPending
    <3> QED BY <3>1, <1>r, <1>e, <1>k
  <2>2. CASE FlushPut(a)
    <3> DEFINE j == Head(batch)
    <3>1. /\ batch # <<>> /\ batch' = Tail(batch) /\ queue' = Append(queue, j)
          /\ pending' = pending
      BY <2>2 DEF FlushPut
    <3>2. j \in Jobs /\ status[j] = "flushing"
      BY <3>1, <1>s, DistinctTail DEF PlaceInv, HeldAs
    <3>3. \A q \in Jobs : Contains(queue, q) => status[q] \in {"queued", "expired"}
      BY DEF PlaceInv, HeldAs, Contains
    <3>4. \A q \in Jobs : Earlier(j, q) => ~Contains(queue, q)
      BY <3>2, <3>3 DEF OrderInv, StageInv
    <3> HIDE DEF j
    <3>5. Row(Append(queue, j)) /\ Row(Tail(batch))
      BY <3>1, <3>2, <3>4, <1>s, <1>r, <1>a, <1>d
    <3> QED BY <3>1, <3>5, <1>r, <1>k
  <2>3. CASE FlushEnd(a) \/ FlushPoke(a)
    BY <2>3, <1>r, <1>k DEF FlushEnd, FlushPoke
  <2> QED BY <1>2, <2>1, <2>2, <2>3 DEF FlushStep, FlushFail
<1>3. CASE Notify \/ PumpQueue
  <2>1. UNCHANGED <<pending, batch>> /\ (queue' = queue \/ (queue # <<>> /\ queue' = Tail(queue)))
    BY <1>3 DEF Notify, PumpQueue, TakeItem
  <2> QED BY <2>1, <1>s, <1>r, <1>d, <1>k
<1>4. CASE ProcessStep \/ SetContext \/ WakePending \/ UNCHANGED vars
  <2>1. UNCHANGED <<pending, batch, queue>>
    BY <1>4 DEF ProcessStep, RecheckCancel, StartFn, FinishFn, Repoke, SetContext, WakePending, vars
  <2> QED BY <2>1, <1>r, <1>k
<1>5. ASSUME NEW s \in Scopes, SessionBind(s) \/ CancelFlag(s) \/ CancelStep(s) PROVE RowsInv'
  <2>1. /\ batch' = batch
        /\ queue' = queue \/ queue' = Survivors(queue, s)
        /\ pending' = pending \/ pending' = Survivors(pending, s)
    BY <1>5 DEF SessionBind, CancelFlag, CancelStep, CancelDrain, CancelPoke, CancelPending
  <2> QED BY <2>1, <1>s, <1>r, <1>f, <1>k
<1> QED BY <1>1, <1>2, <1>3, <1>4, <1>5, StepSplit DEF OtherStep

LEMMA FlushedStep ==
  ASSUME ~FlushMayFail, TypeOK, ProgramInv, FlushInv, PlaceInv, HeldInv, ReadyInv, OrderInv,
         [Next]_vars
  PROVE  FlushedInv'
<1> USE DEF tvars, qvars, cvars, Goto
<1> DEFINE Gone == {"flushPoke", "enqueue", "put"}
<1>p. \A t \in Threads : \A i \in 1..Len(Program[t]) : Program[t][i] \in Jobs /\ i \in Nat
  BY JobsAssumption, ElementOfSeq
<1>d. \A t, u \in Threads : \A i \in 1..Len(Program[t]), k \in 1..Len(Program[u]) :
        Program[t][i] = Program[u][k] => t = u /\ i = k
  BY JobsAssumption, LenProperties
<1>s. /\ pc \in [Actors -> {"idle", "slot", "flush", "flushing", "flushPoke", "enqueue",
                        "put", "poke", "wait", "expired", "sawClaim", "inflight",
                        "wakePending"}]
      /\ Threads \subseteq Actors /\ idx \in [Actors -> Nat \ {0}]
  BY DEF TypeOK, Actors
<1> SUFFICES ASSUME NEW t \in Threads, NEW i \in 1..Len(Program[t]), i < idx'[t]
             PROVE  /\ pc'[t] = "flushing" => status'[Program[t][i]] # "pending"
                    /\ pc'[t] \in Gone => status'[Program[t][i]] \notin {"pending", "flushing"}
  BY DEF FlushedInv
<1> DEFINE j == Program[t][i]
           Goal == /\ pc'[t] = "flushing" => status'[j] # "pending"
                   /\ pc'[t] \in Gone => status'[j] \notin {"pending", "flushing"}
<1>0. i < idx[t] => /\ pc[t] = "flushing" => status[j] # "pending"
                    /\ pc[t] \in Gone => status[j] \notin {"pending", "flushing"}
  BY DEF OrderInv, FlushedInv
<1>1. CASE OtherStep
  <2>1. /\ OldMove(j) /\ (status'[j] = "pending" => status[j] = "pending")
        /\ j \in Jobs /\ idx'[t] = idx[t]
    BY <1>1, <1>p, OtherChanges, OtherPcs
  <2>2. CASE pc'[t] = pc[t]
    BY <2>1, <2>2, <1>0 DEF OldMove, SecondCheck
  <2>3. CASE pc'[t] # pc[t]
    <3>1. FlushStep(t)
      <4>1. ASSUME NEW a \in Actors, FlushStep(a) PROVE a = t
        <5>1. \E l : pc' = pc \/ pc' = [pc EXCEPT ![a] = l]
          BY <4>1 DEF FlushStep, FlushBegin, FlushPut, FlushFail, FlushEnd, FlushPoke
        <5> QED BY <5>1, <2>3, <1>s
      <4>2. ~SetContext /\ ~WakePending
        BY <2>3, <1>s, ActorAssumption DEF SetContext, WakePending
      <4>3. ~Notify /\ ~PumpQueue /\ ~ProcessStep /\ ~UNCHANGED vars
        BY <2>3 DEF Notify, PumpQueue, ProcessStep, RecheckCancel, StartFn, FinishFn, Repoke, vars
      <4>4. ~ \E s \in Scopes : SessionBind(s) \/ CancelFlag(s) \/ CancelStep(s)
        BY <2>3 DEF SessionBind, CancelFlag, CancelStep, CancelDrain, CancelPoke, CancelPending
      <4> QED BY <1>1, <4>1, <4>2, <4>3, <4>4 DEF OtherStep
    <3>2. CASE FlushBegin(t)
      <4>1. OrderFree /\ pc[t] = "flush" /\ service = "ready"
        BY <3>2 DEF FlushBegin, ReadyInv
      <4>2. CASE pending # <<>>
        <5>1. pc'[t] = "flushing" /\ status'[j] # "pending"
          BY <3>2, <4>1, <4>2, <1>s, <2>1 DEF FlushBegin
        <5> QED BY <5>1
      <4>3. CASE pending = <<>>
        <5>1. batch = <<>> /\ status' = status
          BY <3>2, <4>1, <4>3 DEF FlushBegin, OrderFree, FlushInv
        <5>2. status[j] \notin {"pending", "flushing"}
          BY <4>3, <5>1, <2>1, EmptyContains DEF HeldInv
        <5> QED BY <5>1, <5>2
      <4> QED BY <4>2, <4>3
    <3>3. CASE FlushEnd(t)
      <4>1. batch = <<>> /\ status' = status /\ pc[t] = "flushing"
        BY <3>3 DEF FlushEnd
      <4>2. status[j] # "flushing"
        BY <4>1, <2>1, EmptyContains DEF HeldInv
      <4> QED BY <4>1, <4>2, <2>1, <1>0
    <3>4. CASE FlushPoke(t)
      <4>1. status' = status /\ pc[t] \in Gone
        BY <3>4 DEF FlushPoke
      <4> QED BY <4>1, <2>1, <1>0
    <3>5. CASE FlushPut(t) \/ FlushFail(t)
      BY <2>3, <3>5 DEF FlushPut, FlushFail
    <3> QED BY <3>1, <3>2, <3>3, <3>4, <3>5 DEF FlushStep
  <2> QED BY <2>2, <2>3
<1>2. ASSUME NEW u \in Threads, ThreadStep(u) PROVE Goal
  <2>1. /\ Job(u) = Program[u][idx[u]] /\ idx[u] \in 1..Len(Program[u])
        /\ \A k \in Jobs \ {Job(u)} : status'[k] = status[k]
    BY <1>2, ThreadChanges
  <2>2. CASE t # u
    <3>1. pc'[t] = pc[t] /\ idx'[t] = idx[t]
      BY <1>2, <2>2, <1>s, ThreadPcs
    <3>2. status'[j] = status[j]
      BY <2>1, <2>2, <1>p, <1>d
    <3> QED BY <3>1, <3>2, <1>0
  <2>3. CASE t = u
    <3>1. pc'[t] \in Gone \cup {"flushing"} => EnqueueBind(t)
      <4>r. \A r : Return(t, r) => pc'[t] = "idle"
        BY <1>s DEF Return
      <4>1. CASE CheckCallback(t)
        BY <4>1, <4>r, <1>s DEF CheckCallback
      <4>2. CASE StorePending(t) \/ SlotTimeout(t) \/ Wakeup(t) \/ RereadClaim(t)
        BY <4>2, <4>r, <1>s DEF StorePending, SlotTimeout, Wakeup, RereadClaim
      <4>3. CASE EnqueuePut(t) \/ EnqueuePoke(t)
        BY <4>3, <4>r, <1>s DEF EnqueuePut, EnqueuePoke
      <4>4. CASE WaitExpires(t) \/ GiveUpOrWait(t)
        BY <4>4, <4>r, <1>s DEF WaitExpires, GiveUpOrWait
      <4> QED BY <1>2, <2>3, <4>1, <4>2, <4>3, <4>4 DEF ThreadStep, CallerStep
    <3>2. CASE EnqueueBind(t)
      <4>1. pc[t] \in Gone /\ idx' = idx /\ status' = status
        BY <3>2 DEF EnqueueBind
      <4> QED BY <4>1, <1>0
    <3> QED BY <3>1, <3>2
  <2> QED BY <2>2, <2>3
<1> QED BY <1>1, <1>2, StepSplit

LEMMA InitOrder == Init => OrderInv
<1> SUFFICES ASSUME Init PROVE OrderInv
  OBVIOUS
<1>1. StageInv
  BY DEF Init, StageInv, Taken
<1>2. RowsInv
  BY EmptyOrder DEF Init, RowsInv
<1>3. FlushedInv
  BY DEF Init, FlushedInv, Actors
<1> QED BY <1>1, <1>2, <1>3 DEF OrderInv

\* The order of the program is the order in which work is taken.
LEMMA OrderedJobs ==
  ASSUME TypeOK, StageInv
  PROVE  FifoPerThread
<1> SUFFICES ASSUME NEW t \in Threads, NEW i \in DOMAIN Program[t], NEW k \in DOMAIN Program[t],
                    i < k, status[Program[t][k]] \in Started \cup {"claimed", "cleared"}
             PROVE  status[Program[t][i]] \notin {"new", "pending", "flushing", "queued"}
  BY DEF FifoPerThread
<1>1. /\ Program[t] \in Seq(Jobs) /\ i \in 1..Len(Program[t]) /\ k \in 1..Len(Program[t])
  BY JobsAssumption, LenProperties
<1>2. Program[t][i] \in Jobs /\ Program[t][k] \in Jobs
  BY <1>1, ElementOfSeq
<1>3. Earlier(Program[t][i], Program[t][k])
  BY <1>1 DEF Earlier
<1> QED BY <1>2, <1>3 DEF StageInv, Taken, Started

-----------------------------------------------------------------------------
LEMMA InitInv == Init => IInv
<1> SUFFICES ASSUME Init PROVE IInv
  OBVIOUS
<1> USE ActorAssumption, JobsAssumption DEF Init
<1>1. TypeOK
  <2>1. /\ pending \in Seq(Jobs) /\ batch \in Seq(Jobs) /\ queue \in Seq(Jobs)
        /\ stack \in Seq(Jobs)
    BY EmptySeq
  <2>2. /\ pc \in [Actors -> {"idle"}] /\ idx \in [Actors -> Nat \ {0}]
        /\ cpc \in [Scopes -> {"idle", "drain", "poke", "clear", "over"}]
        /\ status \in [Jobs -> Status] /\ ret \in [Jobs -> Outcomes]
    BY DEF Status, Outcomes
  <2>3. moved \in BOOLEAN /\ order \in Actors \cup {NoOne} /\ pokes \in Nat
    OBVIOUS
  <2> QED BY <2>1, <2>2, <2>3 DEF TypeOK
<1>2. ProgramInv
  <2>1. \A t \in Threads : \A i \in 1..Len(Program[t]) : Program[t][i] \in Jobs
    BY ElementOfSeq
  <2>2. \A t \in Threads : pc[t] = "idle" /\ idx[t] = 1
    BY DEF Actors
  <2>3. pc[Boot] = "idle"
    BY DEF Actors
  <2> QED BY <2>1, <2>2, <2>3 DEF ProgramInv
<1>3. FlushInv
  BY DEF FlushInv, Actors
<1>4. PlaceInv
  BY DEF PlaceInv, Distinct, HeldAs
<1>5. ClaimInv /\ AnswerInv /\ DoomInv
  BY DEF ClaimInv, AnswerInv, DoomInv, Actors
<1> QED BY <1>1, <1>2, <1>3, <1>4, <1>5 DEF IInv

LEMMA NextInv == IInv /\ [Next]_vars => IInv'
<1> SUFFICES ASSUME IInv, [Next]_vars PROVE IInv'
  OBVIOUS
<1>1. TypeOK /\ ProgramInv /\ FlushInv /\ PlaceInv /\ ClaimInv /\ AnswerInv /\ DoomInv
  BY DEF IInv
<1>2. TypeOK' /\ ProgramInv' /\ FlushInv'
  BY <1>1, TypeStep, ProgramStep, FlushInvStep
<1>3. PlaceInv' /\ ClaimInv' /\ AnswerInv' /\ DoomInv'
  BY <1>1, PlaceStep, ClaimStep, AnswerStep, DoomStep
<1> QED BY <1>2, <1>3 DEF IInv

\* Every reachable state satisfies the inductive invariant.
THEOREM Invariance == Spec => []IInv
BY InitInv, NextInv, PTL DEF Spec

\* The variables of the marshal keep their types.
THEOREM TypeCorrect == Spec => []TypeOK
<1>1. IInv => TypeOK
  BY DEF IInv
<1> QED BY <1>1, Invariance, PTL

\* A caller is never told an outcome that later turns out wrong: a result only
\* for work that ran to its end, an error only for work that never starts.
THEOREM OutcomesAreTrue == Spec => []OutcomeIsTrue
<1>1. IInv => OutcomeIsTrue
  BY DEF IInv, AnswerInv, OutcomeIsTrue, Dead, Started
<1> QED BY <1>1, Invariance, PTL

\* Work of a stopped send that had not passed the last cancel check when Stop
\* came never starts.
THEOREM StopIsFinal == Spec => []DoomedNeverStarts
<1>1. IInv => DoomedNeverStarts
  BY DEF IInv, DoomInv, DoomedNeverStarts, Started
<1> QED BY <1>1, Invariance, PTL

\* A job is in one place, once: nothing makes a second copy that would run
\* again.
THEOREM JobsHeldOnce == Spec => []HeldOnce
<1>1. IInv => HeldOnce
  <2> SUFFICES ASSUME IInv PROVE HeldOnce
    OBVIOUS
  <2>1. TypeOK /\ PlaceInv
    BY DEF IInv
  <2>2. /\ pending \in Seq(Jobs) /\ batch \in Seq(Jobs)
        /\ queue \in Seq(Jobs) /\ stack \in Seq(Jobs)
    BY <2>1 DEF TypeOK
  <2> DEFINE pb == pending \o batch
             pbq == pb \o queue
             all == pbq \o stack
  <2>3. /\ pb \in Seq(Jobs) /\ Distinct(pb)
        /\ \A i \in 1..Len(pb) : status[pb[i]] \in {"pending", "flushing"}
    <3>1. \A i \in 1..Len(pending), k \in 1..Len(batch) : pending[i] # batch[k]
      BY <2>1 DEF PlaceInv, HeldAs
    <3>2. /\ pb \in Seq(Jobs) /\ Distinct(pb)
          /\ \A i \in 1..Len(pb) : \/ i \in 1..Len(pending) /\ pb[i] = pending[i]
                                   \/ \E k \in 1..Len(batch) : pb[i] = batch[k]
      <4>1. Distinct(pending) /\ Distinct(batch)
        BY <2>1 DEF PlaceInv
      <4> QED BY <2>2, <3>1, <4>1, DistinctConcat, Zenon
    <3> HIDE DEF pb
    <3> QED BY <2>1, <3>2 DEF PlaceInv, HeldAs
  <2> HIDE DEF pb
  <2>4. /\ pbq \in Seq(Jobs) /\ Distinct(pbq)
        /\ \A i \in 1..Len(pbq) : status[pbq[i]] \in {"pending", "flushing", "queued", "expired"}
    <3>1. \A i \in 1..Len(pb), k \in 1..Len(queue) : pb[i] # queue[k]
      BY <2>1, <2>3 DEF PlaceInv, HeldAs
    <3>2. /\ pbq \in Seq(Jobs) /\ Distinct(pbq)
          /\ \A i \in 1..Len(pbq) : \/ i \in 1..Len(pb) /\ pbq[i] = pb[i]
                                    \/ \E k \in 1..Len(queue) : pbq[i] = queue[k]
      <4>1. Distinct(queue)
        BY <2>1 DEF PlaceInv
      <4> QED BY <2>2, <2>3, <3>1, <4>1, DistinctConcat, Zenon
    <3> HIDE DEF pbq
    <3> QED BY <2>1, <2>3, <3>2 DEF PlaceInv, HeldAs
  <2> HIDE DEF pbq
  <2>5. all \in Seq(Jobs) /\ Distinct(all)
    <3>1. \A i \in 1..Len(pbq), k \in 1..Len(stack) : pbq[i] # stack[k]
      BY <2>1, <2>4 DEF PlaceInv, HeldAs
    <3>2. Distinct(stack)
      BY <2>1 DEF PlaceInv
    <3> QED BY <2>2, <2>4, <3>1, <3>2, DistinctConcat, Zenon
  <2>6. all = pending \o batch \o queue \o stack
    BY DEF pb, pbq
  <2> HIDE DEF all
  <2> QED BY <2>5, <2>6, LenProperties DEF HeldOnce, Distinct
<1> QED BY <1>1, Invariance, PTL

\* The places and the threads stay in step.
THEOREM PlacesAgree == Spec => []PlacesInv
BY InitInv, NextInv, InitPlaces, PlacesStep, PTL DEF Spec

\* The marshal keeps its promise to callers and to Stop: every behaviour of
\* call, post, process_queue, set_context and cancel is, with the places
\* forgotten, one of MarshalContract.
THEOREM Implements == Spec => ContractSpec
<1>1. Init => Contract!Init
  BY InitImplements
<1>2. IInv /\ PlacesInv /\ IInv' /\ [Next]_vars => [Contract!Next]_(Contract!cvars)
  BY StepImplements
<1> QED
  BY <1>1, <1>2, Invariance, PlacesAgree, PTL DEF Spec, ContractSpec, Contract!Spec

\* With one context and a toolkit that works, as the code expects them, no
\* wakeup is lost: whenever items wait in the queue, somebody will come for
\* them.
THEOREM NoWakeupLost ==
  ASSUME OneCtx, ~FlakyToolkit
  PROVE  Spec => []NoLostWakeup
<1>1. Init => ReadyInv
  BY InitReady
<1>2. IInv /\ ReadyInv /\ [Next]_vars => ReadyInv'
  BY ReadyStep DEF IInv
<1>3. Spec => []ReadyInv
  BY <1>1, <1>2, Invariance, PTL DEF Spec
<1>4. Init => NoLostWakeup
  BY DEF Init, NoLostWakeup
<1>5. IInv /\ ReadyInv /\ NoLostWakeup /\ [Next]_vars => NoLostWakeup'
  BY WakeupStep DEF IInv
<1> QED BY <1>3, <1>4, <1>5, Invariance, PTL DEF Spec

\* With one context and flushes that put every job they took, a thread's jobs
\* are taken in the order it handed them over.
THEOREM JobsInOrder ==
  ASSUME OneCtx, ~FlushMayFail
  PROVE  Spec => []FifoPerThread
<1>1. Init => ReadyInv /\ OrderInv
  BY InitReady, InitOrder
<1>2. ASSUME IInv, PlacesInv, ReadyInv, OrderInv, [Next]_vars
      PROVE  ReadyInv' /\ OrderInv'
  <2>1. /\ TypeOK /\ ProgramInv /\ FlushInv /\ PlaceInv /\ HeldInv /\ GoneInv
    BY <1>2 DEF IInv, PlacesInv
  <2>2. ReadyInv' /\ StageInv'
    BY <1>2, <2>1, ReadyStep, StageStep
  <2>3. RowsInv' /\ FlushedInv'
    BY <1>2, <2>1, RowsStep, FlushedStep
  <2> QED BY <2>2, <2>3 DEF OrderInv
<1>3. IInv /\ OrderInv => FifoPerThread
  BY OrderedJobs DEF IInv, OrderInv
<1> QED BY <1>1, <1>2, <1>3, Invariance, PlacesAgree, PTL DEF Spec
=============================================================================
