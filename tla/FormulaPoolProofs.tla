-------------------------- MODULE FormulaPoolProofs --------------------------
(***************************************************************************)
(* Proofs about FormulaPool: for any number of workers, callers, sessions  *)
(* and any limits, slots are exclusive and never lost, a session has one   *)
(* namespace, a reset is told, and nothing outlives shutdown().            *)
(***************************************************************************)
EXTENDS FormulaPool, SequencesExt, SequenceTheorems,
        FiniteSetTheorems, WellFoundedInduction, TLAPS

-----------------------------------------------------------------------------
(* Lists: what the operations on them keep.                                *)

\* Every non-empty set of natural numbers has a least element: < on Nat is
\* well-founded, which the library states without an operator parameter.
LEMMA LeastNat ==
  ASSUME NEW T \in SUBSET Nat, T # {}
  PROVE  \E n \in T : \A m \in T : n <= m
<1> DEFINE R == {ss \in Nat \X Nat : ss[1] < ss[2]}
<1>1. IsWellFoundedOn(R, Nat)
  BY NatLessThanWellFounded, Zenon DEF OpToRel
<1>2. PICK x \in T : \A y \in T : <<y, x>> \notin R
  <2> HIDE DEF R
  <2> QED BY <1>1, WFMin
<1>3. \A y \in T : ~(y < x)
  BY <1>2
<1> QED BY <1>2, <1>3

\* Induction up to a bound: a set that has 0 and, with every n below the
\* bound, n + 1.
LEMMA BoundedInduction ==
  ASSUME NEW N \in Nat, NEW G,
         0 \in G, \A n \in 1 .. N : n - 1 \in G => n \in G
  PROVE  0 .. N \subseteq G
<1> DEFINE Bad == (0 .. N) \ G
<1> SUFFICES ASSUME Bad # {} PROVE FALSE
  OBVIOUS
<1>1. Bad \in SUBSET Nat
  OBVIOUS
<1>2. PICK m \in Bad : \A k \in Bad : m <= k
  <2> HIDE DEF Bad
  <2> QED BY <1>1, LeastNat
<1>3. m \in 1 .. N /\ m - 1 \in 0 .. N
  OBVIOUS
<1>4. m - 1 \in G
  <2> SUFFICES ASSUME m - 1 \notin G PROVE FALSE
    OBVIOUS
  <2>1. m - 1 \in Bad
    BY <1>3
  <2>2. m <= m - 1
    BY <2>1, <1>2
  <2> QED BY <2>2, <1>3
<1> QED BY <1>3, <1>4

\* The recursive function in Without exists.
LEMMA WithoutExists ==
  ASSUME NEW X, NEW q \in Seq(X), NEW S
  PROVE  \E f : f = [n \in 0 .. Len(q) |-> WithoutStep(q, S, f, n)]
<1> DEFINE Solves(f, m) == /\ f \in [0 .. m -> Seq(X)]
                           /\ \A n \in 0 .. m : f[n] = WithoutStep(q, S, f, n)
           G == {m \in 0 .. Len(q) : \E f : Solves(f, m)}
<1>0. Len(q) \in Nat
  BY LenProperties
<1>1. 0 \in G
  <2> DEFINE g == [n \in 0 .. 0 |-> <<>>]
  <2>1. Solves(g, 0)
    BY EmptySeq DEF WithoutStep
  <2>2. 0 \in 0 .. Len(q)
    BY <1>0
  <2> QED BY <2>1, <2>2
<1>2. ASSUME NEW m \in 1 .. Len(q), m - 1 \in G PROVE m \in G
  <2>1. PICK f : Solves(f, m - 1)
    BY <1>2
  <2> DEFINE g == [n \in 0 .. m |-> IF n < m THEN f[n] ELSE WithoutStep(q, S, f, m)]
  <2>2. m \in Nat /\ m # 0 /\ m - 1 \in 0 .. m - 1
    BY <1>0
  <2>3. q[m] \in X /\ f[m - 1] \in Seq(X)
    BY <2>1, <2>2, ElementOfSeq
  <2>4. WithoutStep(q, S, f, m) \in Seq(X)
    BY <2>2, <2>3, AppendProperties DEF WithoutStep
  <2>5. \A n \in 0 .. m : n < m => n \in 0 .. m - 1
    BY <2>2
  <2>6. g \in [0 .. m -> Seq(X)]
    BY <2>1, <2>4, <2>5
  <2>7. ASSUME NEW n \in 0 .. m PROVE g[n] = WithoutStep(q, S, g, n)
    <3>1. n = 0 \/ (n - 1 \in 0 .. m - 1 /\ n - 1 \in 0 .. m /\ n - 1 < m)
      BY <2>2
    <3>2. g[n] = WithoutStep(q, S, f, n)
      BY <2>1, <2>5, <2>2
    <3>3. n # 0 => g[n - 1] = f[n - 1]
      BY <3>1
    <3> HIDE DEF g
    <3> QED BY <3>2, <3>3 DEF WithoutStep
  <2>8. Solves(g, m)
    BY <2>6, <2>7
  <2> HIDE DEF Solves
  <2> QED BY <2>8, <1>0
<1>3. Len(q) \in G
  <2> HIDE DEF G
  <2>1. 0 .. Len(q) \subseteq G
    BY <1>0, <1>1, <1>2, BoundedInduction
  <2> QED BY <2>1, <1>0
<1>4. PICK f : Solves(f, Len(q))
  BY <1>3
<1>5. f = [n \in 0 .. Len(q) |-> WithoutStep(q, S, f, n)]
  BY <1>4
<1> QED BY <1>5

\* What is left is a sequence of the elements of q that are not in S, and none
\* comes more often than before.
LEMMA WithoutProperties ==
  ASSUME NEW X, NEW q \in Seq(X), NEW S
  PROVE  /\ Without(q, S) \in Seq(X)
         /\ \A x : Contains(Without(q, S), x) <=> Contains(q, x) /\ x \notin S
         /\ IsDistinct(q) => IsDistinct(Without(q, S))
<1> DEFINE f == CHOOSE f : f = [n \in 0 .. Len(q) |-> WithoutStep(q, S, f, n)]
<1>0. Len(q) \in Nat /\ \A n \in 1 .. Len(q) : q[n] \in X
  BY LenProperties, ElementOfSeq
<1>1. f = [n \in 0 .. Len(q) |-> WithoutStep(q, S, f, n)]
  BY WithoutExists
<1>2. Without(q, S) = f[Len(q)]
  BY DEF Without
<1> HIDE DEF f
<1> DEFINE Has(n, x) == \E i \in 1 .. n : q[i] = x
           Good(n) == /\ f[n] \in Seq(X)
                      /\ \A x : Contains(f[n], x) <=> Has(n, x) /\ x \notin S
                      /\ IsDistinct(q) => IsDistinct(f[n])
           G == {n \in 0 .. Len(q) : Good(n)}
<1>3. 0 \in G
  <2>1. f[0] = <<>> /\ 0 \in 0 .. Len(q)
    BY <1>0, <1>1 DEF WithoutStep
  <2>2. <<>> \in Seq(X) /\ Len(<<>>) = 0
    BY EmptySeq
  <2>3. \A x : ~Contains(<<>>, x) /\ ~Has(0, x)
    BY <2>2 DEF Contains
  <2>4. IsDistinct(<<>>)
    BY <2>2 DEF IsDistinct
  <2> HIDE DEF Has
  <2> QED BY <2>1, <2>2, <2>3, <2>4
<1>4. ASSUME NEW n \in 1 .. Len(q), n - 1 \in G PROVE n \in G
  <2>1. Good(n - 1) /\ n \in 0 .. Len(q) /\ n - 1 \in Nat
    BY <1>4, <1>0
  <2>2. f[n] = IF q[n] \in S THEN f[n - 1] ELSE Append(f[n - 1], q[n])
    <3>1. n \in 0 .. Len(q) /\ n # 0
      BY <1>0
    <3>2. f[n] = WithoutStep(q, S, f, n)
      BY <1>1, <3>1
    <3> QED BY <3>1, <3>2 DEF WithoutStep
  <2>3. \A x : Has(n, x) <=> Has(n - 1, x) \/ q[n] = x
    BY <2>1
  <2>4. CASE q[n] \in S
    <3>1. f[n] = f[n - 1]
      BY <2>2, <2>4
    <3>2. \A x : Contains(f[n], x) <=> Has(n, x) /\ x \notin S
      BY <3>1, <2>1, <2>3, <2>4
    <3> HIDE DEF Has
    <3> QED BY <3>1, <3>2, <2>1
  <2>5. CASE q[n] \notin S
    <3> DEFINE p == f[n - 1]
    <3>1. p \in Seq(X) /\ Len(p) \in Nat /\ f[n] = Append(p, q[n]) /\ q[n] \in X
      BY <2>1, <2>2, <2>5, <1>0, LenProperties
    <3>2. /\ f[n] \in Seq(X) /\ Len(f[n]) = Len(p) + 1
          /\ f[n][Len(p) + 1] = q[n]
          /\ \A i \in 1 .. Len(p) : f[n][i] = p[i]
      BY <3>1, AppendProperties
    <3>3. \A x : Contains(f[n], x) <=> Contains(p, x) \/ x = q[n]
      BY <3>1, <3>2 DEF Contains
    <3>4. \A x : Contains(f[n], x) <=> Has(n, x) /\ x \notin S
      <4> HIDE DEF Has
      <4> QED BY <3>3, <2>1, <2>3, <2>5
    <3>5. ASSUME IsDistinct(q) PROVE IsDistinct(f[n])
      <4>1. ~Has(n - 1, q[n])
        BY <3>5, <2>1, <1>0 DEF IsDistinct
      <4>2. \A i \in 1 .. Len(p) : p[i] # q[n]
        <5> HIDE DEF Has
        <5> QED BY <4>1, <2>1 DEF Contains
      <4>3. IsDistinct(p)
        BY <3>5, <2>1
      <4>4. \A i \in 1 .. Len(f[n]) : i \in 1 .. Len(p) \/ i = Len(p) + 1
        BY <3>1, <3>2
      <4> HIDE DEF p
      <4> QED BY <4>2, <4>3, <4>4, <3>1, <3>2 DEF IsDistinct
    <3> HIDE DEF Has
    <3> QED BY <3>2, <3>4, <3>5, <2>1
  <2> QED BY <2>4, <2>5
<1>5. Len(q) \in G
  <2> HIDE DEF G
  <2>1. 0 .. Len(q) \subseteq G
    BY <1>0, <1>3, <1>4, BoundedInduction
  <2> QED BY <2>1, <1>0
<1>6. \A x : Has(Len(q), x) <=> Contains(q, x)
  BY DEF Contains
<1> HIDE DEF Has
<1> QED BY <1>2, <1>5, <1>6

LEMMA AppendContains ==
  ASSUME NEW X, NEW q \in Seq(X), NEW e \in X
  PROVE  /\ Append(q, e) \in Seq(X)
         /\ \A x : Contains(Append(q, e), x) <=> Contains(q, x) \/ x = e
         /\ IsDistinct(q) /\ ~Contains(q, e) => IsDistinct(Append(q, e))
<1>1. /\ Append(q, e) \in Seq(X) /\ Len(q) \in Nat
      /\ Len(Append(q, e)) = Len(q) + 1 /\ Append(q, e)[Len(q) + 1] = e
      /\ \A i \in 1 .. Len(q) : Append(q, e)[i] = q[i]
  BY AppendProperties, LenProperties
<1>2. \A i \in 1 .. Len(Append(q, e)) : i \in 1 .. Len(q) \/ i = Len(q) + 1
  BY <1>1
<1>3. \A x : Contains(Append(q, e), x) <=> Contains(q, x) \/ x = e
  BY <1>1, <1>2 DEF Contains
<1>4. IsDistinct(q) /\ ~Contains(q, e) => IsDistinct(Append(q, e))
  BY <1>1, <1>2 DEF IsDistinct, Contains
<1> QED BY <1>1, <1>3, <1>4

LEMMA TailContains ==
  ASSUME NEW X, NEW q \in Seq(X), q # <<>>
  PROVE  /\ Head(q) \in X /\ Tail(q) \in Seq(X)
         /\ \A x : Contains(q, x) <=> Contains(Tail(q), x) \/ x = Head(q)
         /\ IsDistinct(q) => IsDistinct(Tail(q)) /\ ~Contains(Tail(q), Head(q))
<1>1. /\ Head(q) \in X /\ Tail(q) \in Seq(X) /\ Head(q) = q[1]
      /\ Len(q) \in Nat /\ Len(q) # 0 /\ Len(Tail(q)) = Len(q) - 1
      /\ \A i \in 1 .. Len(Tail(q)) : Tail(q)[i] = q[i + 1]
  BY HeadTailProperties, LenProperties, EmptySeq
<1>2. \A i \in 1 .. Len(q) : i = 1 \/ i - 1 \in 1 .. Len(Tail(q))
  BY <1>1
<1>3. \A i \in 1 .. Len(Tail(q)) : i + 1 \in 1 .. Len(q)
  BY <1>1
<1>4. \A x : Contains(q, x) <=> Contains(Tail(q), x) \/ x = Head(q)
  <2> SUFFICES ASSUME NEW x PROVE Contains(q, x) <=> Contains(Tail(q), x) \/ x = Head(q)
    OBVIOUS
  <2>1. ASSUME Contains(q, x) PROVE Contains(Tail(q), x) \/ x = Head(q)
    <3>1. PICK i \in 1 .. Len(q) : q[i] = x
      BY <2>1 DEF Contains
    <3>2. i # 1 => i - 1 \in 1 .. Len(Tail(q)) /\ Tail(q)[i - 1] = x
      BY <1>1, <1>2, <3>1
    <3> QED BY <3>1, <3>2, <1>1 DEF Contains
  <2>2. ASSUME Contains(Tail(q), x) \/ x = Head(q) PROVE Contains(q, x)
    BY <2>2, <1>1, <1>3 DEF Contains
  <2> QED BY <2>1, <2>2
<1>5. ASSUME IsDistinct(q) PROVE IsDistinct(Tail(q)) /\ ~Contains(Tail(q), Head(q))
  BY <1>1, <1>3, <1>5 DEF IsDistinct, Contains
<1> QED BY <1>1, <1>4, <1>5

LEMMA EmptyContains ==
  /\ \A x : ~Contains(<<>>, x)
  /\ IsDistinct(<<>>)
  /\ \A X : <<>> \in Seq(X)
BY EmptySeq DEF Contains, IsDistinct

\* A sequence cut in two (SubSeq from 1 to n, and from n + 1 on).
LEMMA SplitContains ==
  ASSUME NEW X, NEW q \in Seq(X), NEW n \in 1 .. Len(q)
  PROVE  /\ SubSeq(q, 1, n) \in Seq(X) /\ SubSeq(q, n + 1, Len(q)) \in Seq(X)
         /\ \A x : Contains(q, x) <=>
              Contains(SubSeq(q, 1, n), x) \/ Contains(SubSeq(q, n + 1, Len(q)), x)
         /\ IsDistinct(q) => IsDistinct(SubSeq(q, n + 1, Len(q)))
<1> DEFINE a == SubSeq(q, 1, n)
           b == SubSeq(q, n + 1, Len(q))
<1>1. /\ Len(q) \in Nat /\ n \in Nat /\ n <= Len(q)
      /\ \A i \in 1 .. Len(q) : q[i] \in X
  BY LenProperties, ElementOfSeq
<1>2. /\ a \in Seq(X) /\ Len(a) = n
      /\ \A i \in 1 .. n : a[i] = q[i]
  BY <1>1, SubSeqProperties
<1>3. /\ b \in Seq(X) /\ Len(b) = Len(q) - n
      /\ \A i \in 1 .. Len(q) - n : b[i] = q[n + i]
  BY <1>1, SubSeqProperties
<1> HIDE DEF a, b
<1>4. ASSUME NEW x, Contains(q, x) PROVE Contains(a, x) \/ Contains(b, x)
  <2>1. PICK i \in 1 .. Len(q) : q[i] = x
    BY <1>4 DEF Contains
  <2>2. CASE i <= n
    BY <1>1, <1>2, <2>1, <2>2 DEF Contains
  <2>3. CASE ~(i <= n)
    <3>1. i - n \in 1 .. Len(q) - n /\ n + (i - n) = i
      BY <1>1, <2>3
    <3>2. b[i - n] = x
      BY <1>3, <2>1, <3>1
    <3> QED BY <1>3, <3>1, <3>2 DEF Contains
  <2> QED BY <2>2, <2>3
<1>5. ASSUME NEW x, Contains(a, x) \/ Contains(b, x) PROVE Contains(q, x)
  <2>1. ASSUME NEW i \in 1 .. Len(q) - n PROVE n + i \in 1 .. Len(q)
    BY <1>1
  <2>2. \A i \in 1 .. n : i \in 1 .. Len(q)
    BY <1>1
  <2>3. CASE Contains(a, x)
    <3> PICK i \in 1 .. n : a[i] = x
      BY <2>3, <1>2 DEF Contains
    <3> QED BY <1>2, <2>2 DEF Contains
  <2>4. CASE Contains(b, x)
    <3> PICK i \in 1 .. Len(q) - n : b[i] = x
      BY <2>4, <1>3 DEF Contains
    <3> QED BY <1>3, <2>1 DEF Contains
  <2> QED BY <1>5, <2>3, <2>4
<1>6. ASSUME IsDistinct(q) PROVE IsDistinct(b)
  <2> SUFFICES ASSUME NEW i \in 1 .. Len(b), NEW k \in 1 .. Len(b), b[i] = b[k]
               PROVE  i = k
    BY DEF IsDistinct
  <2>1. q[n + i] = q[n + k] /\ n + i \in 1 .. Len(q) /\ n + k \in 1 .. Len(q)
    BY <1>1, <1>3
  <2>2. n + i = n + k
    BY <1>6, <2>1 DEF IsDistinct
  <2> QED BY <1>1, <1>3, <2>2
<1> QED BY <1>2, <1>3, <1>4, <1>5, <1>6 DEF a, b

\* A sequence without repetition has as many elements as positions.
LEMMA DistinctCount ==
  ASSUME NEW X, NEW q \in Seq(X), IsDistinct(q)
  PROVE  Cardinality(ToSet(q)) = Len(q)
<1> DEFINE f == [i \in 1 .. Len(q) |-> q[i]]
<1>1. Len(q) \in Nat /\ DOMAIN q = 1 .. Len(q)
  BY LenProperties
<1>2. ToSet(q) = {q[i] : i \in 1 .. Len(q)}
  BY <1>1 DEF ToSet
<1>3. f \in Bijection(1 .. Len(q), ToSet(q))
  <2>1. f \in [1 .. Len(q) -> ToSet(q)]
    BY <1>2
  <2>2. \A i, k \in 1 .. Len(q) : f[i] = f[k] => i = k
    BY DEF IsDistinct
  <2>3. \A x \in ToSet(q) : \E i \in 1 .. Len(q) : f[i] = x
    BY <1>2
  <2> HIDE DEF f
  <2> QED BY <2>1, <2>2, <2>3 DEF Bijection, Injection, IsInjective, Surjection
<1> HIDE DEF f
<1>4. ExistsBijection(1 .. Len(q), ToSet(q))
  BY <1>3 DEF ExistsBijection
<1> QED BY <1>1, <1>4, FS_CountingElements

-----------------------------------------------------------------------------
(* FormulaPool.                                                            *)

Placed == Holding \cup {"lease"}    \* past the gate
Asking == {"held", "shake", "send", "wait", "ran", "final"}
Holds(c, w) == call[c].pc \in Holding /\ call[c].slot = w
IsCell(c, s) == call[c].op = "cell" /\ call[c].sid = s

\* A dead child has no namespaces and owes no frame.
DeadInv ==
  \A w \in Workers : ~slot[w].alive => ~slot[w].due /\ slot[w].spaces = {}

\* What the record of a call says at each point.
PathInv ==
  \A c \in Callers :
    /\ call[c].pc \in Holding => call[c].slot \in Workers
    /\ call[c].pc = "gate" => call[c].sid # NoSession
    /\ call[c].pc = "lease" /\ call[c].sid # NoSession => call[c].slot \in Workers
    /\ call[c].op = "reset" => call[c].sid # NoSession
    /\ call[c].code # "none" => call[c].pc = "final"

\* A slot has one caller, and the pool's sets agree with it while it is open.
HolderInv ==
  /\ \A c, d \in Callers, w \in Workers : Holds(c, w) /\ Holds(d, w) => c = d
  /\ closing = 0 =>
       /\ \A c \in Callers : call[c].pc \in Holding => call[c].slot \in leased
       /\ \A w \in leased : \E c \in Callers : Holds(c, w)
       /\ IsDistinct(idle)
       /\ \A w \in leased : ~Contains(idle, w)
       /\ \A w \in Workers : slot[w].alive =>
            Contains(idle, w) \/ w \in leased \/ Contains(reaping, w)

\* A caller past the gate has it while the pool is open; of one session only
\* one caller is inside a request at any time.
GateInv ==
  /\ closing = 0 => \A c \in Callers :
       call[c].pc \in Placed /\ call[c].sid # NoSession => gate[call[c].sid] = c
  /\ \A c, d \in Callers :
       /\ call[c].pc \in Asking /\ call[d].pc \in Asking
       /\ call[c].sid = call[d].sid /\ call[c].sid # NoSession
       => c = d

\* Where the namespace of a session can be, by its row or by its call, ...
SpaceInv ==
  closing = 0 => \A s \in Sessions, w \in Workers : s \in slot[w].spaces =>
    \/ rows[s] = [worker |-> w, child |-> slot[w].child]
    \/ \E c \in Callers : Holds(c, w) /\ IsCell(c, s) /\ call[c].pc \in {"ran", "final"}
                          /\ call[c].code \notin Unrun

\* ... and a caller inside a request looks for it where it is.
AskInv ==
  \A c \in Callers, s \in Sessions, w \in Workers :
    call[c].pc \in Asking /\ call[c].sid = s /\ s \in slot[w].spaces => w = call[c].slot

\* The row a call was placed by is still the row of its session.
RowInv ==
  closing = 0 => \A c \in Callers, s \in Sessions :
    call[c].pc \in {"lease"} \cup Asking /\ call[c].sid = s /\ rows[s] # NoRow
      => rows[s].worker = call[c].slot

\* A caller that may write finds the pipe clean.
DueInv ==
  /\ closing = 0 => \A w \in Workers : slot[w].due =>
       \E c \in Callers : Holds(c, w) /\ call[c].pc \in {"wait", "ran"}
  /\ \A c \in Callers, w \in Workers :
       Holds(c, w) /\ call[c].pc \in {"held", "shake", "send"} => ~slot[w].due

\* A slot that is retired for max_tasks hosts nothing, and is dead when its
\* lease is dropped.
RetireInv ==
  \A c \in Callers, w \in Workers :
    /\ Holds(c, w) /\ call[c].pc = "reap" /\ call[c].why = "recycle" => slot[w].spaces = {}
    /\ Holds(c, w) /\ call[c].pc = "drop" => ~slot[w].alive

\* Slots behind shutdown()'s second pass stay dead.
ShutInv == \A w \in Workers : closing > NumWorkers + w => ~slot[w].alive

\* A session that is owed the news has a row to be told by, or its cell is
\* about to make one; ...
TellInv ==
  closing = 0 => \A s \in owed :
    \/ rows[s] # NoRow
    \/ \E c \in Callers : IsCell(c, s) /\ call[c].code \notin Unrun
                          /\ call[c].pc \in {"ran", "final"}

\* ... a cell that met a row knows it; ...
BoundInv ==
  closing = 0 => \A c \in Callers, s \in Sessions :
    call[c].pc \in {"lease", "held", "shake", "send", "wait"} /\ IsCell(c, s)
      /\ rows[s] # NoRow => call[c].bound

\* ... the cell that brings the namespace back carries the news; ...
FreshInv ==
  closing = 0 => \A c \in Callers, s \in owed, w \in Workers :
    call[c].pc = "ran" /\ IsCell(c, s) /\ s \in slot[w].spaces \ slot[w].untold
      => call[c].bound /\ call[c].fresh

\* ... and a reset leaves no namespace, and nobody to be told.
ResetInv ==
  closing = 0 => \A c \in Callers, s \in Sessions :
    /\ call[c].pc \in {"ran", "final"} /\ call[c].op = "reset" /\ call[c].sid = s
         /\ (call[c].pc = "final" => call[c].code = "ok")
         => \A w \in Workers : s \notin slot[w].spaces
    /\ call[c].pc = "final" /\ call[c].op = "reset" /\ call[c].sid = s
         /\ call[c].code = "ok" => s \notin owed

IInv ==
  /\ TypeOK /\ DeadInv /\ PathInv /\ HolderInv /\ GateInv /\ SpaceInv /\ AskInv
  /\ OneNamespace /\ RowInv /\ DueInv /\ RetireInv /\ ShutInv /\ TellInv /\ BoundInv
  /\ ResetInv /\ FreshInv /\ ResetTold

-----------------------------------------------------------------------------
(* The operators that choose a slot.                                       *)

\* The sessions a slot hosts are finitely many.
LEMMA HostedCount ==
  ASSUME NEW w
  PROVE  Cardinality(Hosted(w)) \in Nat
<1>1. IsFiniteSet(Sessions)
  BY PoolAssumption
<1>2. Hosted(w) \subseteq Sessions
  BY DEF Hosted
<1>3. IsFiniteSet(Hosted(w))
  BY <1>1, <1>2, FS_Subset
<1> QED BY <1>3, FS_CardinalityType

\* The idle list without its dead slots.
LEMMA LivingIdleProperties ==
  ASSUME TypeOK
  PROVE  /\ LivingIdle \in Seq(Workers)
         /\ \A w \in Workers : Contains(LivingIdle, w) <=> Contains(idle, w) /\ slot[w].alive
         /\ IsDistinct(idle) => IsDistinct(LivingIdle)
<1> DEFINE dead == {w \in Workers : ~slot[w].alive}
<1>1. /\ Without(idle, dead) \in Seq(Workers)
      /\ \A x : Contains(Without(idle, dead), x) <=> Contains(idle, x) /\ x \notin dead
      /\ IsDistinct(idle) => IsDistinct(Without(idle, dead))
  <2> HIDE DEF dead
  <2> QED BY WithoutProperties DEF TypeOK
<1>2. LivingIdle = Without(idle, dead)
  BY DEF LivingIdle
<1> QED BY <1>1, <1>2

LEMMA LeastHostIn ==
  ASSUME TypeOK, LivingIdle # <<>>
  PROVE  LeastHost \in Workers /\ Contains(LivingIdle, LeastHost)
<1> DEFINE q == LivingIdle
           D == DOMAIN q
           n(i) == Cardinality(Hosted(q[i]))
           Best == {i \in D : \A k \in D : n(i) <= n(k)}
           Ok(i) == (\A k \in D : n(i) <= n(k)) /\ (\A k \in 1 .. i - 1 : n(i) < n(k))
<1>1. q \in Seq(Workers) /\ D = 1 .. Len(q) /\ Len(q) \in Nat \ {0}
  BY LivingIdleProperties, LenProperties, EmptySeq
<1>2. \A i : n(i) \in Nat
  BY HostedCount
<1> HIDE DEF q, D, n
<1>3. PICK m \in {n(i) : i \in D} : \A k \in {n(i) : i \in D} : m <= k
  <2>1. {n(i) : i \in D} \in SUBSET Nat /\ n(1) \in {n(i) : i \in D}
    BY <1>1, <1>2
  <2> QED BY <2>1, LeastNat
<1>4. Best # {} /\ Best \in SUBSET Nat
  BY <1>1, <1>3
<1>5. PICK i \in Best : \A k \in Best : i <= k
  <2> HIDE DEF Best
  <2> QED BY <1>4, LeastNat
<1>6. Ok(i)
  <2> SUFFICES ASSUME NEW k \in 1 .. i - 1 PROVE n(i) < n(k)
    OBVIOUS
  <2>1. k \in D /\ k \notin Best
    BY <1>1, <1>5
  <2>2. PICK j \in D : ~(n(k) <= n(j))
    BY <2>1
  <2>3. n(i) <= n(j) /\ n(i) <= n(k) /\ n(j) \in Nat /\ n(k) \in Nat /\ n(i) \in Nat
    BY <1>2, <1>5, <2>1
  <2> QED BY <2>2, <2>3
<1>7. PICK i0 \in D : i0 = CHOOSE j \in D : Ok(j)
  <2> HIDE DEF Ok
  <2> QED BY <1>5, <1>6
<1>8. LeastHost = q[i0]
  BY <1>7 DEF LeastHost, q, D, n
<1> QED BY <1>1, <1>7, <1>8, ElementOfSeq DEF Contains, q

LEMMA ColdFirstIn ==
  ASSUME Cold # {}
  PROVE  ColdFirst \in Cold
<1>1. Cold \in SUBSET Nat
  BY PoolAssumption DEF Cold, Workers
<1>2. \E w \in Cold : \A v \in Cold : w <= v
  BY <1>1, LeastNat
<1> QED BY <1>2 DEF ColdFirst

\* The least natural number that f takes on a set.
LEMMA LeastOf ==
  ASSUME NEW S, S # {}, NEW f \in [S -> Nat]
  PROVE  \E x \in S : \A y \in S : f[x] <= f[y]
<1>1. {f[x] : x \in S} \in SUBSET Nat /\ {f[x] : x \in S} # {}
  OBVIOUS
<1>2. PICK m \in {f[x] : x \in S} : \A k \in {f[x] : x \in S} : m <= k
  BY <1>1, LeastNat
<1> QED BY <1>2

\* w comes before v by the first of four measures that tells them apart.
Ahead(f, g, h, w, v) ==
  \/ f[w] < f[v]
  \/ f[w] = f[v] /\ g[w] < g[v]
  \/ f[w] = f[v] /\ g[w] = g[v] /\ h[w] < h[v]
  \/ f[w] = f[v] /\ g[w] = g[v] /\ h[w] = h[v] /\ w < v

\* Some slot comes before all others.
LEMMA LeastHostOf ==
  ASSUME NEW E \in SUBSET Nat, E # {},
         NEW f \in [E -> Nat], NEW g \in [E -> Nat], NEW h \in [E -> Nat]
  PROVE  \E w \in E : \A v \in E \ {w} : Ahead(f, g, h, w, v)
<1>1. PICK a \in E : \A y \in E : f[a] <= f[y]
  BY LeastOf
<1> DEFINE E1 == {x \in E : f[x] = f[a]}
<1>2. PICK b \in E1 : \A y \in E1 : g[b] <= g[y]
  <2>1. E1 # {} /\ [x \in E1 |-> g[x]] \in [E1 -> Nat]
    OBVIOUS
  <2>2. \E x \in E1 : \A y \in E1 : [z \in E1 |-> g[z]][x] <= [z \in E1 |-> g[z]][y]
    <3> HIDE DEF E1
    <3> QED BY <2>1, LeastOf
  <2> HIDE DEF E1
  <2> QED BY <2>2
<1> DEFINE E2 == {x \in E1 : g[x] = g[b]}
<1>3. PICK c \in E2 : \A y \in E2 : h[c] <= h[y]
  <2>1. E2 # {} /\ [x \in E2 |-> h[x]] \in [E2 -> Nat]
    OBVIOUS
  <2>2. \E x \in E2 : \A y \in E2 : [z \in E2 |-> h[z]][x] <= [z \in E2 |-> h[z]][y]
    <3> HIDE DEF E2
    <3> QED BY <2>1, LeastOf
  <2> HIDE DEF E2
  <2> QED BY <2>2
<1> DEFINE E3 == {x \in E2 : h[x] = h[c]}
<1>4. PICK w \in E3 : \A y \in E3 : w <= y
  <2>1. E3 # {} /\ E3 \in SUBSET Nat
    OBVIOUS
  <2> HIDE DEF E3
  <2> QED BY <2>1, LeastNat
<1>5. ASSUME NEW v \in E \ {w}
      PROVE  Ahead(f, g, h, w, v)
  <2>1. f[w] = f[a] /\ g[w] = g[b] /\ h[w] = h[c] /\ w \in E
    OBVIOUS
  <2>2. /\ f[a] \in Nat /\ f[v] \in Nat /\ g[b] \in Nat /\ g[v] \in Nat
        /\ h[c] \in Nat /\ h[v] \in Nat /\ w \in Nat /\ v \in Nat
    BY <2>1
  <2>3. f[w] < f[v] \/ v \in E1
    BY <1>1, <2>1, <2>2
  <2>4. v \in E1 => g[w] < g[v] \/ v \in E2
    BY <1>2, <2>1, <2>2
  <2>5. v \in E2 => h[w] < h[v] \/ v \in E3
    BY <1>3, <2>1, <2>2
  <2>6. v \in E3 => w < v
    BY <1>4, <2>1, <2>2
  <2> QED BY <2>1, <2>3, <2>4, <2>5, <2>6 DEF Ahead
<1> HIDE DEF E1, E2, E3
<1> QED BY <1>4, <1>5 DEF E1, E2, E3

LEMMA NewHostIn ==
  ASSUME TypeOK
  PROVE  NewHost \in Workers
<1> DEFINE steady == {w \in Workers : w \notin recycling /\ ~slot[w].exiting}
           E == IF steady = {} THEN Workers ELSE steady
           f == [x \in E |-> IF slot[x].alive THEN 0 ELSE 1]
           g == [x \in E |-> Cardinality(Hosted(x))]
           h == [x \in E |-> IF x \in ToSet(idle) THEN 0 ELSE 1]
<1>1. E # {} /\ E \subseteq Workers /\ Workers \subseteq Nat
  BY PoolAssumption DEF Workers
<1>2. f \in [E -> Nat] /\ g \in [E -> Nat] /\ h \in [E -> Nat]
  BY HostedCount
<1>3. PICK w \in E : \A v \in E \ {w} : Ahead(f, g, h, w, v)
  <2>1. E \in SUBSET Nat
    BY <1>1
  <2> HIDE DEF E, f, g, h
  <2> QED BY <1>1, <1>2, <2>1, LeastHostOf
<1>4. ASSUME NEW v \in E \ {w} PROVE Better(w, v)
  <2> DEFINE rank(x) == <<IF slot[x].alive THEN 0 ELSE 1, Cardinality(Hosted(x)),
                          IF x \in ToSet(idle) THEN 0 ELSE 1, x>>
  <2>1. /\ rank(w)[1] = f[w] /\ rank(w)[2] = g[w] /\ rank(w)[3] = h[w] /\ rank(w)[4] = w
        /\ rank(v)[1] = f[v] /\ rank(v)[2] = g[v] /\ rank(v)[3] = h[v] /\ rank(v)[4] = v
    OBVIOUS
  <2> HIDE DEF rank, f, g, h
  <2>2. \E i \in 1 .. 4 : /\ rank(w)[i] < rank(v)[i]
                          /\ \A k \in 1 .. i - 1 : rank(w)[k] = rank(v)[k]
    <3>1. CASE f[w] < f[v]
      <4>1. 1 \in 1 .. 4 /\ 1 .. 1 - 1 = {}
        OBVIOUS
      <4> QED BY <2>1, <3>1, <4>1
    <3>2. CASE f[w] = f[v] /\ g[w] < g[v]
      <4>1. 2 \in 1 .. 4 /\ \A k \in 1 .. 2 - 1 : k = 1
        OBVIOUS
      <4> QED BY <2>1, <3>2, <4>1
    <3>3. CASE f[w] = f[v] /\ g[w] = g[v] /\ h[w] < h[v]
      <4>1. 3 \in 1 .. 4 /\ \A k \in 1 .. 3 - 1 : k = 1 \/ k = 2
        OBVIOUS
      <4> QED BY <2>1, <3>3, <4>1
    <3>4. CASE f[w] = f[v] /\ g[w] = g[v] /\ h[w] = h[v] /\ w < v
      <4>1. 4 \in 1 .. 4 /\ \A k \in 1 .. 4 - 1 : k = 1 \/ k = 2 \/ k = 3
        OBVIOUS
      <4> QED BY <2>1, <3>4, <4>1
    <3> QED BY <1>3, <1>4, <3>1, <3>2, <3>3, <3>4 DEF Ahead
  <2> QED BY <2>2 DEF Better, rank
<1>5. NewHost \in E
  <2>1. NewHost = CHOOSE x \in E : \A v \in E \ {x} : Better(x, v)
    BY DEF NewHost
  <2> HIDE DEF E
  <2> QED BY <1>3, <1>4, <2>1
<1> QED BY <1>1, <1>5

-----------------------------------------------------------------------------
(* One lemma per action: it keeps the inductive invariant.                 *)

LEMMA CallType ==
  ASSUME NEW T, NEW f \in [Callers -> T], NEW c \in Callers, NEW r \in T,
         NEW g, g = [f EXCEPT ![c] = r]
  PROVE  g \in [Callers -> T]
OBVIOUS

LEMMA SlotType ==
  ASSUME NEW T, NEW f \in [Workers -> T], NEW w \in Workers, NEW r \in T,
         NEW g, g = [f EXCEPT ![w] = r]
  PROVE  g \in [Workers -> T]
OBVIOUS

\* A dead slot is a slot.
LEMMA DeadType ==
  ASSUME TypeOK, NEW w \in Workers
  PROVE  /\ DeadSlot(w) \in Slots
         /\ ~DeadSlot(w).alive /\ ~DeadSlot(w).due /\ DeadSlot(w).spaces = {}
         /\ DeadSlot(w).child = slot[w].child
<1>1. slot[w] \in Slots
  BY DEF TypeOK
<1>2. DeadSlot(w) \in Slots
  <2>1. ASSUME NEW x \in Slots
        PROVE  [x EXCEPT !.alive = FALSE, !.due = FALSE, !.tasks = 0, !.leaving = FALSE,
                         !.spaces = {}, !.untold = {}] \in Slots
    <3>1. 0 \in 0 .. MaxTasks
      BY PoolAssumption
    <3> QED BY <3>1 DEF Slots
  <2> QED BY <1>1, <2>1 DEF DeadSlot
<1>3. /\ ~DeadSlot(w).alive /\ ~DeadSlot(w).due /\ DeadSlot(w).spaces = {}
      /\ DeadSlot(w).child = slot[w].child
  BY <1>1 DEF DeadSlot, Slots
<1> QED BY <1>2, <1>3

\* What a death of the child does.
LEMMA KillFacts ==
  ASSUME TypeOK, NEW w \in Workers, Kill(w)
  PROVE  /\ slot' \in [Workers -> Slots]
         /\ \A v \in Workers \ {w} : slot'[v] = slot[v]
         /\ ~slot'[w].alive /\ ~slot'[w].due /\ slot'[w].spaces = {}
         /\ slot'[w].child = slot[w].child
         /\ owed' = owed \cup slot[w].spaces /\ owed' \subseteq Sessions
<1>1. slot' = [slot EXCEPT ![w] = DeadSlot(w)] /\ owed' = owed \cup slot[w].spaces
  BY DEF Kill
<1>2. slot' \in [Workers -> Slots]
  BY <1>1, DeadType, SlotType DEF TypeOK
<1>3. slot'[w] = DeadSlot(w) /\ \A v \in Workers \ {w} : slot'[v] = slot[v]
  BY <1>1 DEF TypeOK
<1>4. slot[w].spaces \subseteq Sessions
  BY DEF TypeOK, Slots
<1> QED BY <1>1, <1>2, <1>3, <1>4, DeadType DEF TypeOK

\* What the fields of a call can be.
LEMMA FieldTypes ==
  ASSUME TypeOK
  PROVE  /\ \A d \in Callers : /\ call[d].sid \in Sessions \cup {NoSession}
                              /\ call[d].slot \in Workers \cup {0}
                              /\ call[d].op \in {"cell", "reset"}
         /\ \A v \in Workers : slot[v].spaces \subseteq Sessions
BY DEF TypeOK, Calls, Slots

LEMMA TargetIn ==
  ASSUME TypeOK, NEW s \in Sessions
  PROVE  /\ Target(s) \in Workers
         /\ rows[s] # NoRow => Target(s) = rows[s].worker
<1>1. rows[s] # NoRow => rows[s].worker \in Workers
  BY DEF TypeOK, Rows
<1> QED BY <1>1, NewHostIn DEF Target

\* The sessions a death takes can all be told, and live nowhere else.
LEMMA KillTells ==
  ASSUME IInv, NEW w \in Workers, closing = 0, NEW s \in slot[w].spaces
  PROVE  /\ s \in Sessions
         /\ \/ rows[s] # NoRow
            \/ \E d \in Callers : Holds(d, w) /\ IsCell(d, s) /\ call[d].code \notin Unrun
                                  /\ call[d].pc \in {"ran", "final"}
         /\ \A v \in Workers \ {w} : s \notin slot[v].spaces
<1> USE DEF IInv
<1>1. s \in Sessions
  BY FieldTypes
<1>2. [worker |-> w, child |-> slot[w].child] # NoRow
  BY PoolAssumption DEF NoRow, Workers
<1>3. \A v \in Workers \ {w} : s \notin slot[v].spaces
  BY <1>1 DEF OneNamespace
<1> QED BY <1>1, <1>2, <1>3 DEF SpaceInv

\* The decision of Settle.
Retires(c) == \/ call[c].why = "exit"
              \/ call[c].why = "recycle" /\ DueRecycle(call[c].slot)

\* What the child did to the namespaces of slot w for the request of c.
Ran(c, w, f, new, kept, hid) ==
  /\ call' = [call EXCEPT ![c].pc = "ran", ![c].ran = TRUE, ![c].frame = f,
                          ![c].fresh = new]
  /\ slot' = [slot EXCEPT ![w].spaces = kept, ![w].untold = hid]
  /\ \A s \in slot[w].untold : s \in hid \/ s \notin kept
  /\ \A s \in kept : s \in slot[w].spaces \/ IsCell(c, s)
  /\ \A s \in kept : s \notin slot[w].spaces => new
  /\ call[c].op = "reset" => call[c].sid \notin kept
  /\ call[c].op = "cell" => slot[w].spaces \subseteq kept
  /\ f = "abandoned" => crashes < MaxCrashes

LEMMA ArriveStep ==
  ASSUME IInv, NEW c \in Callers, Arrive(c)
  PROVE  IInv'
<1> USE PoolAssumption DEF IInv
<1>pick. PICK op \in {"cell", "reset"}, s \in Sessions \cup {NoSession} :
           /\ op = "reset" => s # NoSession
           /\ op = "cell" => closing = 0
           /\ call' = [call EXCEPT ![c] =
                [Free EXCEPT !.pc = IF s = NoSession THEN "lease" ELSE "gate",
                             !.op = op, !.sid = s]]
  BY DEF Arrive
<1>rec. call' = [call EXCEPT ![c] = [Free EXCEPT !.pc = IF s = NoSession THEN "lease" ELSE
          "gate", !.op = op, !.sid = s]]
  BY <1>pick DEF Arrive
<1>call. /\ \A d \in Callers \ {c} : call'[d] = call[d]
         /\ call'[c].pc = IF s = NoSession THEN "lease" ELSE "gate"
         /\ call'[c].op = op
         /\ call'[c].sid = s
         /\ call'[c].slot = 0
         /\ call'[c].bound = FALSE
         /\ call'[c].fresh = FALSE
         /\ call'[c].frame = "none"
         /\ call'[c].code = "none"
         /\ call'[c].why = "keep"
  BY <1>rec, <1>pick DEF TypeOK, Calls, Free
<1>same. /\ UNCHANGED <<slot, idle, leased, recycling, rows, gate, reaping, closing, crashes, owed>>
         /\ op \in {"cell", "reset"} /\ s \in Sessions \cup {NoSession}
         /\ op = "reset" => s # NoSession
         /\ call[c].pc = "free"
  BY <1>pick DEF Arrive, poolvars, outside
<1>1. TypeOK'
  <2>1. call' \in [Callers -> Calls]
    <3>1. Free \in Calls
      BY DEF Free, Calls, Holding, Frames, Codes
    <3>2. ASSUME NEW x \in Calls, NEW pc \in {"lease", "gate"}
          PROVE  [x EXCEPT !.pc = pc, !.op = op, !.sid = s] \in Calls
      BY <1>same DEF Calls, Holding
    <3>3. [Free EXCEPT !.pc = IF s = NoSession THEN "lease" ELSE "gate", !.op = op, !.sid = s]
          \in Calls
      BY <3>1, <3>2, <1>call, <1>same
    <3> QED BY <1>rec, <3>3, CallType DEF TypeOK
  <2> QED BY <2>1, <1>call, <1>same DEF TypeOK
<1>2. DeadInv'
  BY <1>call, <1>same DEF DeadInv
<1>3. PathInv'
  BY <1>call, <1>same DEF PathInv, Holding
<1>4. HolderInv'
  BY <1>call, <1>same DEF HolderInv, Holds, Holding, PathInv
<1>5. GateInv'
  BY <1>call, <1>same, FieldTypes DEF GateInv, Placed, Asking, Holding, PathInv
<1>6. SpaceInv'
  BY <1>call, <1>same, FieldTypes DEF SpaceInv, Holds, IsCell, Holding
<1>7. AskInv'
  BY <1>call, <1>same DEF AskInv, Asking
<1>8. OneNamespace'
  BY <1>call, <1>same DEF OneNamespace
<1>9. RowInv'
  BY <1>call, <1>same DEF RowInv, Asking, PathInv
<1>10. DueInv'
  BY <1>call, <1>same DEF DueInv, Holds, Holding, HolderInv
<1>11. RetireInv'
  BY <1>call, <1>same DEF RetireInv, Holds, Holding, HolderInv
<1>12. ShutInv'
  BY <1>call, <1>same DEF ShutInv
<1>13. TellInv'
  BY <1>call, <1>same DEF TellInv, IsCell
<1>14. BoundInv'
  BY <1>call, <1>same DEF BoundInv, IsCell
<1>15. ResetInv'
  BY <1>call, <1>same DEF ResetInv
<1>16. FreshInv'
  BY <1>call, <1>same DEF FreshInv, IsCell
<1>17. ResetTold'
  BY <1>call, <1>same DEF ResetTold, Holders, Holding
<1> QED BY <1>1, <1>2, <1>3, <1>4, <1>5, <1>6, <1>7, <1>8, <1>9, <1>10, <1>11, <1>12, <1>13,
        <1>14, <1>15, <1>16, <1>17

LEMMA GateTimeoutStep ==
  ASSUME IInv, NEW c \in Callers, GateTimeout(c)
  PROVE  IInv'
<1> USE PoolAssumption DEF IInv
<1>rec. call' = [call EXCEPT ![c] = Free]
  BY DEF GateTimeout, Return
<1>call. /\ \A d \in Callers \ {c} : call'[d] = call[d]
         /\ call'[c].pc = "free"
         /\ call'[c].op = "cell"
         /\ call'[c].sid = NoSession
         /\ call'[c].slot = 0
         /\ call'[c].bound = FALSE
         /\ call'[c].fresh = FALSE
         /\ call'[c].frame = "none"
         /\ call'[c].code = "none"
         /\ call'[c].why = "keep"
  BY <1>rec DEF TypeOK, Calls, Free
<1>same. /\ UNCHANGED <<slot, idle, leased, recycling, rows, reaping, closing, crashes, owed>>
         /\ gate' = [s \in Sessions |-> IF gate[s] = c THEN Nobody ELSE gate[s]]
         /\ call[c].pc = "gate"
  BY DEF GateTimeout, Return, poolvars, outside
<1>1. TypeOK'
  <2>1. call' \in [Callers -> Calls]
    <3>1. Free \in Calls
      BY DEF Free, Calls, Holding, Frames, Codes
    <3> QED BY <1>rec, <3>1, CallType DEF TypeOK
  <2> QED BY <2>1, <1>call, <1>same DEF TypeOK
<1>2. DeadInv'
  BY <1>call, <1>same DEF DeadInv
<1>3. PathInv'
  BY <1>call, <1>same DEF PathInv, Holding
<1>4. HolderInv'
  BY <1>call, <1>same DEF HolderInv, Holds, Holding, PathInv
<1>5. GateInv'
  BY <1>call, <1>same, FieldTypes DEF GateInv, Placed, Asking, Holding, PathInv
<1>6. SpaceInv'
  BY <1>call, <1>same, FieldTypes DEF SpaceInv, Holds, IsCell, Holding
<1>7. AskInv'
  BY <1>call, <1>same DEF AskInv, Asking
<1>8. OneNamespace'
  BY <1>call, <1>same DEF OneNamespace
<1>9. RowInv'
  BY <1>call, <1>same DEF RowInv, Asking, PathInv
<1>10. DueInv'
  BY <1>call, <1>same DEF DueInv, Holds, Holding, HolderInv
<1>11. RetireInv'
  BY <1>call, <1>same DEF RetireInv, Holds, Holding, HolderInv
<1>12. ShutInv'
  BY <1>call, <1>same DEF ShutInv
<1>13. TellInv'
  BY <1>call, <1>same DEF TellInv, IsCell
<1>14. BoundInv'
  BY <1>call, <1>same DEF BoundInv, IsCell
<1>15. ResetInv'
  BY <1>call, <1>same DEF ResetInv
<1>16. FreshInv'
  BY <1>call, <1>same DEF FreshInv, IsCell
<1>17. ResetTold'
  BY <1>call, <1>same DEF ResetTold, Holders, Holding
<1> QED BY <1>1, <1>2, <1>3, <1>4, <1>5, <1>6, <1>7, <1>8, <1>9, <1>10, <1>11, <1>12, <1>13,
        <1>14, <1>15, <1>16, <1>17

LEMMA AdmitCellStep ==
  ASSUME IInv, NEW c \in Callers, AdmitCell(c)
  PROVE  IInv'
<1> USE PoolAssumption DEF IInv
<1>sid. call[c].sid \in Sessions
  BY FieldTypes DEF AdmitCell, EnterGate, PathInv
<1>rec. call' = [call EXCEPT ![c] = [call[c] EXCEPT !.pc = "lease", !.slot =
          Target(call[c].sid), !.bound = Bound(call[c].sid)]]
  BY <1>sid DEF AdmitCell, EnterGate
<1>call. /\ \A d \in Callers \ {c} : call'[d] = call[d]
         /\ call'[c].pc = "lease"
         /\ call'[c].slot = Target(call[c].sid)
         /\ call'[c].bound = Bound(call[c].sid)
         /\ call'[c].op = call[c].op /\ call'[c].sid = call[c].sid
         /\ call'[c].fresh = call[c].fresh /\ call'[c].frame = call[c].frame
         /\ call'[c].code = call[c].code /\ call'[c].why = call[c].why
  BY <1>rec, <1>sid DEF TypeOK, Calls
<1>same. /\ UNCHANGED <<slot, idle, leased, recycling, rows, reaping, closing, crashes, owed>>
         /\ call[c].pc = "gate" /\ call[c].op = "cell" /\ closing = 0
         /\ call[c].sid \in Sessions
         /\ gate[call[c].sid] = Nobody
         /\ gate' = [gate EXCEPT ![call[c].sid] = c]
         /\ \A s \in Sessions : gate'[s] = IF s = call[c].sid THEN c ELSE gate[s]
         /\ Target(call[c].sid) \in Workers
         /\ rows[call[c].sid] # NoRow => Target(call[c].sid) = rows[call[c].sid].worker
         /\ Bound(call[c].sid) \in BOOLEAN
         /\ Bound(call[c].sid) <=> rows[call[c].sid] # NoRow
  BY <1>sid, TargetIn DEF AdmitCell, EnterGate, poolvars, outside, Bound, TypeOK
<1>1. TypeOK'
  <2>1. call' \in [Callers -> Calls]
    <3>1. call[c] \in Calls
      BY DEF TypeOK
    <3>2. ASSUME NEW x \in Calls, NEW t \in Workers, NEW b \in BOOLEAN
          PROVE  [x EXCEPT !.pc = "lease", !.slot = t, !.bound = b] \in Calls
      BY <1>same DEF Calls, Holding
    <3>3. [call[c] EXCEPT !.pc = "lease", !.slot = Target(call[c].sid), !.bound =
          Bound(call[c].sid)] \in Calls
      BY <3>1, <3>2, <1>call, <1>same
    <3> QED BY <1>rec, <3>3, CallType DEF TypeOK
  <2> QED BY <2>1, <1>call, <1>same DEF TypeOK
<1>2. DeadInv'
  BY <1>call, <1>same DEF DeadInv
<1>3. PathInv'
  BY <1>call, <1>same DEF PathInv, Holding
<1>4. HolderInv'
  BY <1>call, <1>same DEF HolderInv, Holds, Holding, PathInv
<1>5. GateInv'
  BY <1>call, <1>same, FieldTypes DEF GateInv, Placed, Asking, Holding, PathInv
<1>6. SpaceInv'
  BY <1>call, <1>same, FieldTypes DEF SpaceInv, Holds, IsCell, Holding
<1>7. AskInv'
  BY <1>call, <1>same DEF AskInv, Asking
<1>8. OneNamespace'
  BY <1>call, <1>same DEF OneNamespace
<1>9. RowInv'
  BY <1>call, <1>same DEF RowInv, Asking, PathInv
<1>10. DueInv'
  BY <1>call, <1>same DEF DueInv, Holds, Holding, HolderInv
<1>11. RetireInv'
  BY <1>call, <1>same DEF RetireInv, Holds, Holding, HolderInv
<1>12. ShutInv'
  BY <1>call, <1>same DEF ShutInv
<1>13. TellInv'
  BY <1>call, <1>same DEF TellInv, IsCell
<1>14. BoundInv'
  BY <1>call, <1>same DEF BoundInv, IsCell
<1>15. ResetInv'
  BY <1>call, <1>same DEF ResetInv
<1>16. FreshInv'
  BY <1>call, <1>same DEF FreshInv, IsCell
<1>17. ResetTold'
  BY <1>call, <1>same DEF ResetTold, Holders, Holding
<1> QED BY <1>1, <1>2, <1>3, <1>4, <1>5, <1>6, <1>7, <1>8, <1>9, <1>10, <1>11, <1>12, <1>13,
        <1>14, <1>15, <1>16, <1>17

LEMMA AdmitClosedStep ==
  ASSUME IInv, NEW c \in Callers, AdmitClosed(c)
  PROVE  IInv'
<1> USE PoolAssumption DEF IInv
<1>sid. call[c].sid \in Sessions
  BY FieldTypes DEF AdmitClosed, PathInv
<1>rec. call' = [call EXCEPT ![c] = Free]
  BY <1>sid DEF AdmitClosed, Return
<1>call. /\ \A d \in Callers \ {c} : call'[d] = call[d]
         /\ call'[c].pc = "free"
         /\ call'[c].op = "cell"
         /\ call'[c].sid = NoSession
         /\ call'[c].slot = 0
         /\ call'[c].bound = FALSE
         /\ call'[c].fresh = FALSE
         /\ call'[c].frame = "none"
         /\ call'[c].code = "none"
         /\ call'[c].why = "keep"
  BY <1>rec, <1>sid DEF TypeOK, Calls, Free
<1>same. /\ UNCHANGED <<slot, idle, leased, recycling, reaping, closing, crashes, owed>>
         /\ gate' = [s \in Sessions |-> IF gate[s] = c THEN Nobody ELSE gate[s]]
         /\ call[c].pc = "gate" /\ closing > 0
         /\ rows' = [rows EXCEPT ![call[c].sid] = NoRow]
  BY <1>sid DEF AdmitClosed, Return, poolvars, outside
<1>1. TypeOK'
  <2>1. call' \in [Callers -> Calls]
    <3>1. Free \in Calls
      BY DEF Free, Calls, Holding, Frames, Codes
    <3> QED BY <1>rec, <3>1, CallType DEF TypeOK
  <2> QED BY <2>1, <1>call, <1>same DEF TypeOK
<1>2. DeadInv'
  BY <1>call, <1>same DEF DeadInv
<1>3. PathInv'
  BY <1>call, <1>same DEF PathInv, Holding
<1>4. HolderInv'
  BY <1>call, <1>same DEF HolderInv, Holds, Holding, PathInv
<1>5. GateInv'
  BY <1>call, <1>same, FieldTypes DEF GateInv, Placed, Asking, Holding, PathInv
<1>6. SpaceInv'
  BY <1>call, <1>same, FieldTypes DEF SpaceInv, Holds, IsCell, Holding
<1>7. AskInv'
  BY <1>call, <1>same DEF AskInv, Asking
<1>8. OneNamespace'
  BY <1>call, <1>same DEF OneNamespace
<1>9. RowInv'
  BY <1>call, <1>same DEF RowInv, Asking, PathInv
<1>10. DueInv'
  BY <1>call, <1>same DEF DueInv, Holds, Holding, HolderInv
<1>11. RetireInv'
  BY <1>call, <1>same DEF RetireInv, Holds, Holding, HolderInv
<1>12. ShutInv'
  BY <1>call, <1>same DEF ShutInv
<1>13. TellInv'
  BY <1>call, <1>same DEF TellInv, IsCell
<1>14. BoundInv'
  BY <1>call, <1>same DEF BoundInv, IsCell
<1>15. ResetInv'
  BY <1>call, <1>same DEF ResetInv
<1>16. FreshInv'
  BY <1>call, <1>same DEF FreshInv, IsCell
<1>17. ResetTold'
  BY <1>call, <1>same DEF ResetTold, Holders, Holding
<1> QED BY <1>1, <1>2, <1>3, <1>4, <1>5, <1>6, <1>7, <1>8, <1>9, <1>10, <1>11, <1>12, <1>13,
        <1>14, <1>15, <1>16, <1>17

LEMMA AdmitResetStep ==
  ASSUME IInv, NEW c \in Callers, AdmitReset(c)
  PROVE  IInv'
<1> USE PoolAssumption DEF IInv
<1>sid. call[c].sid \in Sessions
  BY FieldTypes DEF AdmitReset, EnterGate, PathInv
<1>rec. call' = [call EXCEPT ![c] = [call[c] EXCEPT !.pc = "lease", !.slot =
          rows[call[c].sid].worker]]
  BY <1>sid DEF AdmitReset, EnterGate
<1>call. /\ \A d \in Callers \ {c} : call'[d] = call[d]
         /\ call'[c].pc = "lease"
         /\ call'[c].slot = rows[call[c].sid].worker
         /\ call'[c].op = call[c].op /\ call'[c].sid = call[c].sid
         /\ call'[c].bound = call[c].bound /\ call'[c].fresh = call[c].fresh
         /\ call'[c].frame = call[c].frame /\ call'[c].code = call[c].code
         /\ call'[c].why = call[c].why
  BY <1>rec, <1>sid DEF TypeOK, Calls
<1>same. /\ UNCHANGED <<slot, idle, leased, recycling, rows, reaping, closing, crashes, owed>>
         /\ call[c].pc = "gate" /\ call[c].op = "reset"
         /\ call[c].sid \in Sessions
         /\ gate[call[c].sid] = Nobody
         /\ gate' = [gate EXCEPT ![call[c].sid] = c]
         /\ \A s \in Sessions : gate'[s] = IF s = call[c].sid THEN c ELSE gate[s]
         /\ rows[call[c].sid].worker \in Workers
  BY <1>sid DEF AdmitReset, EnterGate, poolvars, outside, Live, TypeOK, Rows
<1>1. TypeOK'
  <2>1. call' \in [Callers -> Calls]
    <3>1. call[c] \in Calls
      BY DEF TypeOK
    <3>2. ASSUME NEW x \in Calls, NEW t \in Workers
          PROVE  [x EXCEPT !.pc = "lease", !.slot = t] \in Calls
      BY <1>same DEF Calls, Holding
    <3>3. [call[c] EXCEPT !.pc = "lease", !.slot = rows[call[c].sid].worker] \in Calls
      BY <3>1, <3>2, <1>call, <1>same
    <3> QED BY <1>rec, <3>3, CallType DEF TypeOK
  <2> QED BY <2>1, <1>call, <1>same DEF TypeOK
<1>2. DeadInv'
  BY <1>call, <1>same DEF DeadInv
<1>3. PathInv'
  BY <1>call, <1>same DEF PathInv, Holding
<1>4. HolderInv'
  BY <1>call, <1>same DEF HolderInv, Holds, Holding, PathInv
<1>5. GateInv'
  BY <1>call, <1>same, FieldTypes DEF GateInv, Placed, Asking, Holding, PathInv
<1>6. SpaceInv'
  BY <1>call, <1>same, FieldTypes DEF SpaceInv, Holds, IsCell, Holding
<1>7. AskInv'
  BY <1>call, <1>same DEF AskInv, Asking
<1>8. OneNamespace'
  BY <1>call, <1>same DEF OneNamespace
<1>9. RowInv'
  BY <1>call, <1>same DEF RowInv, Asking, PathInv
<1>10. DueInv'
  BY <1>call, <1>same DEF DueInv, Holds, Holding, HolderInv
<1>11. RetireInv'
  BY <1>call, <1>same DEF RetireInv, Holds, Holding, HolderInv
<1>12. ShutInv'
  BY <1>call, <1>same DEF ShutInv
<1>13. TellInv'
  BY <1>call, <1>same DEF TellInv, IsCell
<1>14. BoundInv'
  BY <1>call, <1>same DEF BoundInv, IsCell
<1>15. ResetInv'
  BY <1>call, <1>same DEF ResetInv
<1>16. FreshInv'
  BY <1>call, <1>same DEF FreshInv, IsCell
<1>17. ResetTold'
  BY <1>call, <1>same DEF ResetTold, Holders, Holding
<1> QED BY <1>1, <1>2, <1>3, <1>4, <1>5, <1>6, <1>7, <1>8, <1>9, <1>10, <1>11, <1>12, <1>13,
        <1>14, <1>15, <1>16, <1>17

LEMMA ResetNothingStep ==
  ASSUME IInv, NEW c \in Callers, ResetNothing(c)
  PROVE  IInv'
<1> USE PoolAssumption DEF IInv
<1>sid. call[c].sid \in Sessions
  BY FieldTypes DEF ResetNothing, PathInv
<1>rec. call' = [call EXCEPT ![c] = Free]
  BY <1>sid DEF ResetNothing, Return
<1>call. /\ \A d \in Callers \ {c} : call'[d] = call[d]
         /\ call'[c].pc = "free"
         /\ call'[c].op = "cell"
         /\ call'[c].sid = NoSession
         /\ call'[c].slot = 0
         /\ call'[c].bound = FALSE
         /\ call'[c].fresh = FALSE
         /\ call'[c].frame = "none"
         /\ call'[c].code = "none"
         /\ call'[c].why = "keep"
  BY <1>rec, <1>sid DEF TypeOK, Calls, Free
<1>same. /\ UNCHANGED <<slot, idle, leased, recycling, reaping, closing, crashes>>
         /\ gate' = [s \in Sessions |-> IF gate[s] = c THEN Nobody ELSE gate[s]]
         /\ call[c].pc = "gate" /\ gate[call[c].sid] = Nobody
         /\ call[c].sid \in Sessions
         /\ ~Live(rows[call[c].sid])
         /\ rows' = [rows EXCEPT ![call[c].sid] = NoRow]
         /\ owed' = owed \ {call[c].sid}
  BY <1>sid DEF ResetNothing, Return, poolvars, outside
<1>none. closing = 0 => \A w \in Workers : call[c].sid \notin slot[w].spaces
  <2> SUFFICES ASSUME closing = 0, NEW w \in Workers, call[c].sid \in slot[w].spaces
               PROVE  FALSE
    OBVIOUS
  <2>1. rows[call[c].sid] # [worker |-> w, child |-> slot[w].child]
    BY <1>same DEF Live, DeadInv, NoRow, Workers
  <2>2. PICK d \in Callers : IsCell(d, call[c].sid) /\ call[d].pc \in {"ran", "final"}
    BY <2>1, <1>same DEF SpaceInv
  <2>3. gate[call[c].sid] = d
    BY <2>2, <1>same DEF GateInv, Placed, Holding, IsCell, PathInv
  <2> QED BY <2>3, <1>same
<1>1. TypeOK'
  <2>1. call' \in [Callers -> Calls]
    <3>1. Free \in Calls
      BY DEF Free, Calls, Holding, Frames, Codes
    <3> QED BY <1>rec, <3>1, CallType DEF TypeOK
  <2> QED BY <2>1, <1>call, <1>same, <1>none DEF TypeOK
<1>2. DeadInv'
  BY <1>call, <1>same, <1>none DEF DeadInv
<1>3. PathInv'
  BY <1>call, <1>same, <1>none DEF PathInv, Holding
<1>4. HolderInv'
  BY <1>call, <1>same, <1>none DEF HolderInv, Holds, Holding, PathInv
<1>5. GateInv'
  BY <1>call, <1>same, <1>none, FieldTypes DEF GateInv, Placed, Asking, Holding, PathInv
<1>6. SpaceInv'
  BY <1>call, <1>same, <1>none, FieldTypes DEF SpaceInv, Holds, IsCell, Holding
<1>7. AskInv'
  BY <1>call, <1>same, <1>none DEF AskInv, Asking
<1>8. OneNamespace'
  BY <1>call, <1>same, <1>none DEF OneNamespace
<1>9. RowInv'
  BY <1>call, <1>same, <1>none DEF RowInv, Asking, PathInv
<1>10. DueInv'
  BY <1>call, <1>same, <1>none DEF DueInv, Holds, Holding, HolderInv
<1>11. RetireInv'
  BY <1>call, <1>same, <1>none DEF RetireInv, Holds, Holding, HolderInv
<1>12. ShutInv'
  BY <1>call, <1>same, <1>none DEF ShutInv
<1>13. TellInv'
  BY <1>call, <1>same, <1>none DEF TellInv, IsCell
<1>14. BoundInv'
  BY <1>call, <1>same, <1>none DEF BoundInv, IsCell
<1>15. ResetInv'
  BY <1>call, <1>same, <1>none DEF ResetInv
<1>16. FreshInv'
  BY <1>call, <1>same, <1>none DEF FreshInv, IsCell
<1>17. ResetTold'
  BY <1>call, <1>same, <1>none DEF ResetTold, Holders, Holding
<1> QED BY <1>1, <1>2, <1>3, <1>4, <1>5, <1>6, <1>7, <1>8, <1>9, <1>10, <1>11, <1>12, <1>13,
        <1>14, <1>15, <1>16, <1>17

LEMMA LeaseStep ==
  ASSUME IInv, NEW c \in Callers, Lease(c)
  PROVE  IInv'
<1> USE PoolAssumption DEF IInv
<1>pick. PICK w \in Workers, seen \in {idle, LivingIdle} :
           /\ idle' = Without(seen, {w}) /\ leased' = leased \cup {w}
           /\ call' = [call EXCEPT ![c].pc = "held", ![c].slot = w]
           /\ w \notin leased
           /\ call[c].slot = w \/ call[c].slot = 0
  <2> DEFINE any == call[c].slot = 0
             w0 == IF ~any THEN call[c].slot
                   ELSE IF LivingIdle # <<>> THEN LeastHost ELSE ColdFirst
             seen0 == IF any THEN LivingIdle ELSE idle
  <2>1. /\ idle' = Without(seen0, {w0}) /\ leased' = leased \cup {w0}
        /\ call' = [call EXCEPT ![c].pc = "held", ![c].slot = w0]
        /\ closing = 0
    BY DEF Lease, CanLease
  <2>2. CASE ~any
    <3>1. SlotFree(call[c].slot) /\ call[c].slot \in Workers
      BY <2>2, FieldTypes DEF Lease, CanLease
    <3>2. call[c].slot \in ToSet(idle) => Contains(idle, call[c].slot)
      BY DEF ToSet, Contains, TypeOK
    <3> QED BY <2>1, <2>2, <3>1, <3>2 DEF SlotFree, HolderInv
  <2>3. CASE any /\ LivingIdle # <<>>
    <3>1. LeastHost \in Workers /\ Contains(idle, LeastHost)
      BY <2>3, LeastHostIn, LivingIdleProperties
    <3> QED BY <2>1, <2>3, <3>1 DEF HolderInv
  <2>4. CASE any /\ LivingIdle = <<>>
    <3>1. ColdFirst \in Cold
      BY <2>4, ColdFirstIn DEF Lease, CanLease, AnyFree
    <3> QED BY <2>1, <2>4, <3>1 DEF Cold
  <2> QED BY <2>2, <2>3, <2>4
<1>idle. /\ idle' \in Seq(Workers) /\ (IsDistinct(idle) => IsDistinct(idle'))
         /\ \A v \in Workers : Contains(idle', v) => Contains(idle, v) /\ v # w
         /\ \A v \in Workers : Contains(idle, v) /\ slot[v].alive /\ v # w => Contains(idle', v)
  <2>1. /\ seen \in Seq(Workers)
        /\ \A v \in Workers : Contains(seen, v) => Contains(idle, v)
        /\ \A v \in Workers : Contains(idle, v) /\ slot[v].alive => Contains(seen, v)
        /\ IsDistinct(idle) => IsDistinct(seen)
    BY <1>pick, LivingIdleProperties DEF TypeOK
  <2>2. /\ Without(seen, {w}) \in Seq(Workers)
        /\ \A v : Contains(Without(seen, {w}), v) <=> Contains(seen, v) /\ v \notin {w}
        /\ IsDistinct(seen) => IsDistinct(Without(seen, {w}))
    BY <2>1, WithoutProperties
  <2> QED BY <1>pick, <2>1, <2>2
<1>rec. call' = [call EXCEPT ![c] = [call[c] EXCEPT !.pc = "held", !.slot = w]]
  BY <1>pick DEF Lease
<1>call. /\ \A d \in Callers \ {c} : call'[d] = call[d]
         /\ call'[c].pc = "held"
         /\ call'[c].slot = w
         /\ call'[c].op = call[c].op /\ call'[c].sid = call[c].sid
         /\ call'[c].bound = call[c].bound /\ call'[c].fresh = call[c].fresh
         /\ call'[c].frame = call[c].frame /\ call'[c].code = call[c].code
         /\ call'[c].why = call[c].why
  BY <1>rec, <1>pick DEF TypeOK, Calls
<1>same. /\ UNCHANGED <<slot, recycling, rows, gate, reaping, closing, crashes, owed>>
         /\ w \in Workers /\ w \notin leased /\ leased' = leased \cup {w}
         /\ call[c].pc = "lease" /\ closing = 0
         /\ call[c].sid # NoSession => call[c].slot = w
  BY <1>pick DEF Lease, poolvars, outside, CanLease, PathInv, Workers
<1>1. TypeOK'
  <2>1. call' \in [Callers -> Calls]
    <3>1. call[c] \in Calls
      BY DEF TypeOK
    <3>2. ASSUME NEW x \in Calls
          PROVE  [x EXCEPT !.pc = "held", !.slot = w] \in Calls
      BY <1>same DEF Calls, Holding
    <3>3. [call[c] EXCEPT !.pc = "held", !.slot = w] \in Calls
      BY <3>1, <3>2, <1>call, <1>same, <1>idle
    <3> QED BY <1>rec, <3>3, CallType DEF TypeOK
  <2> QED BY <2>1, <1>call, <1>same, <1>idle DEF TypeOK
<1>2. DeadInv'
  BY <1>call, <1>same, <1>idle DEF DeadInv
<1>3. PathInv'
  BY <1>call, <1>same, <1>idle DEF PathInv, Holding
<1>4. HolderInv'
  BY <1>call, <1>same, <1>idle DEF HolderInv, Holds, Holding, PathInv
<1>5. GateInv'
  BY <1>call, <1>same, <1>idle, FieldTypes DEF GateInv, Placed, Asking, Holding, PathInv
<1>6. SpaceInv'
  BY <1>call, <1>same, <1>idle, FieldTypes DEF SpaceInv, Holds, IsCell, Holding
<1>7. AskInv'
  <2>1. ASSUME NEW s \in Sessions, NEW v \in Workers, call[c].sid = s, s \in slot[v].spaces
        PROVE  v = w
    <3>1. CASE rows[s] = [worker |-> v, child |-> slot[v].child]
      <4>1. rows[s] # NoRow /\ rows[s].worker = v
        BY <3>1 DEF NoRow, Workers
      <4> QED BY <4>1, <2>1, <1>same DEF RowInv
    <3>2. CASE \E d \in Callers : IsCell(d, s) /\ call[d].pc \in {"ran", "final"}
      BY <3>2, <2>1, <1>same DEF GateInv, IsCell, Placed, Holding
    <3> QED BY <2>1, <3>1, <3>2, <1>same DEF SpaceInv
  <2> QED BY <2>1, <1>call, <1>same DEF AskInv, Asking
<1>8. OneNamespace'
  BY <1>call, <1>same, <1>idle DEF OneNamespace
<1>9. RowInv'
  BY <1>call, <1>same, <1>idle DEF RowInv, Asking, PathInv
<1>10. DueInv'
  BY <1>call, <1>same, <1>idle DEF DueInv, Holds, Holding, HolderInv
<1>11. RetireInv'
  BY <1>call, <1>same, <1>idle DEF RetireInv, Holds, Holding, HolderInv
<1>12. ShutInv'
  BY <1>call, <1>same, <1>idle DEF ShutInv
<1>13. TellInv'
  BY <1>call, <1>same, <1>idle DEF TellInv, IsCell
<1>14. BoundInv'
  BY <1>call, <1>same, <1>idle DEF BoundInv, IsCell
<1>15. ResetInv'
  BY <1>call, <1>same, <1>idle DEF ResetInv
<1>16. FreshInv'
  BY <1>call, <1>same, <1>idle DEF FreshInv, IsCell
<1>17. ResetTold'
  BY <1>call, <1>same, <1>idle DEF ResetTold, Holders, Holding
<1> QED BY <1>1, <1>2, <1>3, <1>4, <1>5, <1>6, <1>7, <1>8, <1>9, <1>10, <1>11, <1>12, <1>13,
        <1>14, <1>15, <1>16, <1>17

LEMMA LeaseFailsStep ==
  ASSUME IInv, NEW c \in Callers, LeaseFails(c)
  PROVE  IInv'
<1> USE PoolAssumption DEF IInv
<1>rec. call' = [call EXCEPT ![c] = Free]
  BY DEF LeaseFails, Return
<1>call. /\ \A d \in Callers \ {c} : call'[d] = call[d]
         /\ call'[c].pc = "free"
         /\ call'[c].op = "cell"
         /\ call'[c].sid = NoSession
         /\ call'[c].slot = 0
         /\ call'[c].bound = FALSE
         /\ call'[c].fresh = FALSE
         /\ call'[c].frame = "none"
         /\ call'[c].code = "none"
         /\ call'[c].why = "keep"
  BY <1>rec DEF TypeOK, Calls, Free
<1>same. /\ UNCHANGED <<slot, idle, leased, recycling, rows, reaping, closing, crashes, owed>>
         /\ gate' = [s \in Sessions |-> IF gate[s] = c THEN Nobody ELSE gate[s]]
         /\ call[c].pc = "lease"
  BY DEF LeaseFails, Return, poolvars, outside
<1>1. TypeOK'
  <2>1. call' \in [Callers -> Calls]
    <3>1. Free \in Calls
      BY DEF Free, Calls, Holding, Frames, Codes
    <3> QED BY <1>rec, <3>1, CallType DEF TypeOK
  <2> QED BY <2>1, <1>call, <1>same DEF TypeOK
<1>2. DeadInv'
  BY <1>call, <1>same DEF DeadInv
<1>3. PathInv'
  BY <1>call, <1>same DEF PathInv, Holding
<1>4. HolderInv'
  BY <1>call, <1>same DEF HolderInv, Holds, Holding, PathInv
<1>5. GateInv'
  BY <1>call, <1>same, FieldTypes DEF GateInv, Placed, Asking, Holding, PathInv
<1>6. SpaceInv'
  BY <1>call, <1>same, FieldTypes DEF SpaceInv, Holds, IsCell, Holding
<1>7. AskInv'
  BY <1>call, <1>same DEF AskInv, Asking
<1>8. OneNamespace'
  BY <1>call, <1>same DEF OneNamespace
<1>9. RowInv'
  BY <1>call, <1>same DEF RowInv, Asking, PathInv
<1>10. DueInv'
  BY <1>call, <1>same DEF DueInv, Holds, Holding, HolderInv
<1>11. RetireInv'
  BY <1>call, <1>same DEF RetireInv, Holds, Holding, HolderInv
<1>12. ShutInv'
  BY <1>call, <1>same DEF ShutInv
<1>13. TellInv'
  BY <1>call, <1>same DEF TellInv, IsCell
<1>14. BoundInv'
  BY <1>call, <1>same DEF BoundInv, IsCell
<1>15. ResetInv'
  BY <1>call, <1>same DEF ResetInv
<1>16. FreshInv'
  BY <1>call, <1>same DEF FreshInv, IsCell
<1>17. ResetTold'
  BY <1>call, <1>same DEF ResetTold, Holders, Holding
<1> QED BY <1>1, <1>2, <1>3, <1>4, <1>5, <1>6, <1>7, <1>8, <1>9, <1>10, <1>11, <1>12, <1>13,
        <1>14, <1>15, <1>16, <1>17

LEMMA RefuseStep ==
  ASSUME IInv, NEW c \in Callers, Refuse(c)
  PROVE  IInv'
<1> USE PoolAssumption DEF IInv
<1>pick. PICK code \in {"EXECUTION_TIMEOUT", "QUEUE_TIMEOUT", "PAYLOAD_TOO_LARGE"} :
           call' = [call EXCEPT ![c].pc = "final", ![c].code = code]
  BY DEF Refuse, Outcome
<1>rec. call' = [call EXCEPT ![c] = [call[c] EXCEPT !.pc = "final", !.code = code]]
  BY <1>pick DEF Refuse, Outcome
<1>call. /\ \A d \in Callers \ {c} : call'[d] = call[d]
         /\ call'[c].pc = "final"
         /\ call'[c].code = code
         /\ call'[c].op = call[c].op /\ call'[c].sid = call[c].sid /\ call'[c].slot = call[c].slot
         /\ call'[c].bound = call[c].bound /\ call'[c].fresh = call[c].fresh
         /\ call'[c].frame = call[c].frame /\ call'[c].why = call[c].why
  BY <1>rec, <1>pick DEF TypeOK, Calls
<1>same. /\ UNCHANGED <<slot, idle, leased, recycling, rows, gate, reaping, closing, crashes, owed>>
         /\ code \in {"EXECUTION_TIMEOUT", "QUEUE_TIMEOUT", "PAYLOAD_TOO_LARGE"}
         /\ call[c].pc \in {"held", "send"}
  BY <1>pick DEF Refuse, Outcome, poolvars, outside
<1>1. TypeOK'
  <2>1. call' \in [Callers -> Calls]
    <3>1. call[c] \in Calls
      BY DEF TypeOK
    <3>2. ASSUME NEW x \in Calls, NEW m \in Codes
          PROVE  [x EXCEPT !.pc = "final", !.code = m] \in Calls
      BY DEF Calls, Holding
    <3>3. [call[c] EXCEPT !.pc = "final", !.code = code] \in Calls
      BY <3>1, <3>2, <1>call, <1>same DEF Codes, Unrun
    <3> QED BY <1>rec, <3>3, CallType DEF TypeOK
  <2> QED BY <2>1, <1>call, <1>same DEF TypeOK
<1>2. DeadInv'
  BY <1>call, <1>same DEF DeadInv
<1>3. PathInv'
  BY <1>call, <1>same DEF PathInv, Holding
<1>4. HolderInv'
  BY <1>call, <1>same DEF HolderInv, Holds, Holding, PathInv
<1>5. GateInv'
  BY <1>call, <1>same, FieldTypes DEF GateInv, Placed, Asking, Holding, PathInv
<1>6. SpaceInv'
  BY <1>call, <1>same, FieldTypes DEF SpaceInv, Holds, IsCell, Holding
<1>7. AskInv'
  BY <1>call, <1>same DEF AskInv, Asking
<1>8. OneNamespace'
  BY <1>call, <1>same DEF OneNamespace
<1>9. RowInv'
  BY <1>call, <1>same DEF RowInv, Asking, PathInv
<1>10. DueInv'
  BY <1>call, <1>same DEF DueInv, Holds, Holding, HolderInv
<1>11. RetireInv'
  BY <1>call, <1>same DEF RetireInv, Holds, Holding, HolderInv
<1>12. ShutInv'
  BY <1>call, <1>same DEF ShutInv
<1>13. TellInv'
  BY <1>call, <1>same DEF TellInv, IsCell
<1>14. BoundInv'
  BY <1>call, <1>same DEF BoundInv, IsCell
<1>15. ResetInv'
  BY <1>call, <1>same DEF ResetInv
<1>16. FreshInv'
  BY <1>call, <1>same DEF FreshInv, IsCell
<1>17. ResetTold'
  BY <1>call, <1>same DEF ResetTold, Holders, Holding
<1> QED BY <1>1, <1>2, <1>3, <1>4, <1>5, <1>6, <1>7, <1>8, <1>9, <1>10, <1>11, <1>12, <1>13,
        <1>14, <1>15, <1>16, <1>17

LEMMA FindLiveStep ==
  ASSUME IInv, NEW c \in Callers, FindLive(c)
  PROVE  IInv'
<1> USE PoolAssumption DEF IInv
<1>rec. call' = [call EXCEPT ![c] = [call[c] EXCEPT !.pc = "send"]]
  BY DEF FindLive, To
<1>call. /\ \A d \in Callers \ {c} : call'[d] = call[d]
         /\ call'[c].pc = "send"
         /\ call'[c].op = call[c].op /\ call'[c].sid = call[c].sid /\ call'[c].slot = call[c].slot
         /\ call'[c].bound = call[c].bound /\ call'[c].fresh = call[c].fresh
         /\ call'[c].frame = call[c].frame /\ call'[c].code = call[c].code
         /\ call'[c].why = call[c].why
  BY <1>rec DEF TypeOK, Calls
<1>same. /\ UNCHANGED <<slot, idle, leased, recycling, rows, gate, reaping, closing, crashes, owed>>
         /\ call[c].pc = "held"
         /\ slot[call[c].slot].alive
  BY DEF FindLive, To, poolvars, outside
<1>1. TypeOK'
  <2>1. call' \in [Callers -> Calls]
    <3>1. call[c] \in Calls
      BY DEF TypeOK
    <3>2. ASSUME NEW x \in Calls
          PROVE  [x EXCEPT !.pc = "send"] \in Calls
      BY <1>same DEF Calls, Holding
    <3>3. [call[c] EXCEPT !.pc = "send"] \in Calls
      BY <3>1, <3>2, <1>call, <1>same
    <3> QED BY <1>rec, <3>3, CallType DEF TypeOK
  <2> QED BY <2>1, <1>call, <1>same DEF TypeOK
<1>2. DeadInv'
  BY <1>call, <1>same DEF DeadInv
<1>3. PathInv'
  BY <1>call, <1>same DEF PathInv, Holding
<1>4. HolderInv'
  BY <1>call, <1>same DEF HolderInv, Holds, Holding, PathInv
<1>5. GateInv'
  BY <1>call, <1>same, FieldTypes DEF GateInv, Placed, Asking, Holding, PathInv
<1>6. SpaceInv'
  BY <1>call, <1>same, FieldTypes DEF SpaceInv, Holds, IsCell, Holding
<1>7. AskInv'
  BY <1>call, <1>same DEF AskInv, Asking
<1>8. OneNamespace'
  BY <1>call, <1>same DEF OneNamespace
<1>9. RowInv'
  BY <1>call, <1>same DEF RowInv, Asking, PathInv
<1>10. DueInv'
  BY <1>call, <1>same DEF DueInv, Holds, Holding, HolderInv
<1>11. RetireInv'
  BY <1>call, <1>same DEF RetireInv, Holds, Holding, HolderInv
<1>12. ShutInv'
  BY <1>call, <1>same DEF ShutInv
<1>13. TellInv'
  BY <1>call, <1>same DEF TellInv, IsCell
<1>14. BoundInv'
  BY <1>call, <1>same DEF BoundInv, IsCell
<1>15. ResetInv'
  BY <1>call, <1>same DEF ResetInv
<1>16. FreshInv'
  BY <1>call, <1>same DEF FreshInv, IsCell
<1>17. ResetTold'
  BY <1>call, <1>same DEF ResetTold, Holders, Holding
<1> QED BY <1>1, <1>2, <1>3, <1>4, <1>5, <1>6, <1>7, <1>8, <1>9, <1>10, <1>11, <1>12, <1>13,
        <1>14, <1>15, <1>16, <1>17

LEMMA SpawnStep ==
  ASSUME IInv, NEW c \in Callers, Spawn(c)
  PROVE  IInv'
<1> USE PoolAssumption DEF IInv
<1>at. PICK w \in Workers : w = call[c].slot
  BY DEF PathInv, Holding, Spawn, MayAdopt, Stopping, To
<1>rec. call' = [call EXCEPT ![c] = [call[c] EXCEPT !.pc = "shake"]]
  BY <1>at DEF Spawn, MayAdopt, Stopping, To
<1>call. /\ \A d \in Callers \ {c} : call'[d] = call[d]
         /\ call'[c].pc = "shake"
         /\ call'[c].op = call[c].op /\ call'[c].sid = call[c].sid /\ call'[c].slot = call[c].slot
         /\ call'[c].bound = call[c].bound /\ call'[c].fresh = call[c].fresh
         /\ call'[c].frame = call[c].frame /\ call'[c].code = call[c].code
         /\ call'[c].why = call[c].why
  BY <1>rec, <1>at DEF TypeOK, Calls
<1>new. slot' = [slot EXCEPT ![w] = [slot[w] EXCEPT !.child = @ + 1, !.alive = TRUE]]
  BY <1>at DEF Spawn, MayAdopt, Stopping, To
<1>slot. /\ \A v \in Workers \ {w} : slot'[v] = slot[v]
         /\ slot'[w].child = slot[w].child + 1
         /\ slot'[w].alive = TRUE
         /\ slot'[w].due = slot[w].due /\ slot'[w].leaving = slot[w].leaving
         /\ slot'[w].exiting = slot[w].exiting /\ slot'[w].tasks = slot[w].tasks
         /\ slot'[w].spaces = slot[w].spaces /\ slot'[w].untold = slot[w].untold
  BY <1>new, <1>at DEF TypeOK, Slots
<1>same. /\ UNCHANGED <<idle, leased, recycling, rows, gate, reaping, closing, crashes, owed>>
         /\ call[c].pc = "held" /\ ~slot[w].alive /\ closing \leq w
         /\ slot[w].child + 1 \in 1 .. MaxSpawns
  BY <1>at DEF Spawn, MayAdopt, Stopping, To, poolvars, outside, TypeOK, Workers, Slots
<1>1. TypeOK'
  <2>1. call' \in [Callers -> Calls]
    <3>1. call[c] \in Calls
      BY DEF TypeOK
    <3>2. ASSUME NEW x \in Calls
          PROVE  [x EXCEPT !.pc = "shake"] \in Calls
      BY <1>same DEF Calls, Holding
    <3>3. [call[c] EXCEPT !.pc = "shake"] \in Calls
      BY <3>1, <3>2, <1>at, <1>call, <1>slot, <1>same
    <3> QED BY <1>rec, <3>3, CallType DEF TypeOK
  <2>2. slot' \in [Workers -> Slots]
    <3>1. slot[w] \in Slots
      BY DEF TypeOK
    <3>2. ASSUME NEW x \in Slots, NEW n \in 1 .. MaxSpawns
          PROVE  [x EXCEPT !.child = n, !.alive = TRUE] \in Slots
      BY DEF Slots
    <3>3. [slot[w] EXCEPT !.child = @ + 1, !.alive = TRUE] \in Slots
      BY <3>1, <3>2, <1>at, <1>call, <1>slot, <1>same
    <3> QED BY <1>new, <3>3, SlotType DEF TypeOK
  <2> QED BY <2>1, <2>2, <1>at, <1>call, <1>slot, <1>same DEF TypeOK
<1>2. DeadInv'
  BY <1>at, <1>call, <1>slot, <1>same DEF DeadInv
<1>3. PathInv'
  BY <1>at, <1>call, <1>slot, <1>same DEF PathInv, Holding
<1>4. HolderInv'
  BY <1>at, <1>call, <1>slot, <1>same DEF HolderInv, Holds, Holding, PathInv
<1>5. GateInv'
  BY <1>at, <1>call, <1>slot, <1>same, FieldTypes DEF GateInv, Placed, Asking, Holding, PathInv
<1>6. SpaceInv'
  BY <1>at, <1>call, <1>slot, <1>same, FieldTypes DEF SpaceInv, Holds, IsCell, Holding, DeadInv
<1>7. AskInv'
  BY <1>at, <1>call, <1>slot, <1>same DEF AskInv, Asking
<1>8. OneNamespace'
  BY <1>at, <1>call, <1>slot, <1>same DEF OneNamespace
<1>9. RowInv'
  BY <1>at, <1>call, <1>slot, <1>same DEF RowInv, Asking, PathInv
<1>10. DueInv'
  BY <1>at, <1>call, <1>slot, <1>same DEF DueInv, Holds, Holding, HolderInv
<1>11. RetireInv'
  BY <1>at, <1>call, <1>slot, <1>same DEF RetireInv, Holds, Holding, HolderInv
<1>12. ShutInv'
  BY <1>at, <1>call, <1>slot, <1>same DEF ShutInv, TypeOK, Workers
<1>13. TellInv'
  BY <1>at, <1>call, <1>slot, <1>same DEF TellInv, IsCell
<1>14. BoundInv'
  BY <1>at, <1>call, <1>slot, <1>same DEF BoundInv, IsCell
<1>15. ResetInv'
  BY <1>at, <1>call, <1>slot, <1>same DEF ResetInv
<1>16. FreshInv'
  BY <1>at, <1>call, <1>slot, <1>same DEF FreshInv, IsCell
<1>17. ResetTold'
  BY <1>at, <1>call, <1>slot, <1>same DEF ResetTold, Holders, Holding
<1> QED BY <1>1, <1>2, <1>3, <1>4, <1>5, <1>6, <1>7, <1>8, <1>9, <1>10, <1>11, <1>12, <1>13,
        <1>14, <1>15, <1>16, <1>17

LEMMA SpawnFailsStep ==
  ASSUME IInv, NEW c \in Callers, SpawnFails(c)
  PROVE  IInv'
<1> USE PoolAssumption DEF IInv
<1>pick. PICK code \in {"SERVICE_SHUTDOWN", "WORKER_SPAWN_FAILED"} :
           call' = [call EXCEPT ![c].pc = "final", ![c].code = code]
  BY DEF SpawnFails, Outcome
<1>at. PICK w \in Workers : w = call[c].slot
  BY DEF PathInv, Holding, SpawnFails, Stopping, Outcome
<1>rec. call' = [call EXCEPT ![c] = [call[c] EXCEPT !.pc = "final", !.code = code]]
  BY <1>pick, <1>at DEF SpawnFails, Stopping, Outcome
<1>call. /\ \A d \in Callers \ {c} : call'[d] = call[d]
         /\ call'[c].pc = "final"
         /\ call'[c].code = code
         /\ call'[c].op = call[c].op /\ call'[c].sid = call[c].sid /\ call'[c].slot = call[c].slot
         /\ call'[c].bound = call[c].bound /\ call'[c].fresh = call[c].fresh
         /\ call'[c].frame = call[c].frame /\ call'[c].why = call[c].why
  BY <1>rec, <1>pick, <1>at DEF TypeOK, Calls
<1>same. /\ UNCHANGED <<slot, idle, leased, recycling, rows, gate, reaping, closing, crashes, owed>>
         /\ code \in {"SERVICE_SHUTDOWN", "WORKER_SPAWN_FAILED"}
         /\ call[c].pc = "held"
  BY <1>pick, <1>at DEF SpawnFails, Stopping, Outcome, poolvars, outside
<1>1. TypeOK'
  <2>1. call' \in [Callers -> Calls]
    <3>1. call[c] \in Calls
      BY DEF TypeOK
    <3>2. ASSUME NEW x \in Calls, NEW m \in Codes
          PROVE  [x EXCEPT !.pc = "final", !.code = m] \in Calls
      BY DEF Calls, Holding
    <3>3. [call[c] EXCEPT !.pc = "final", !.code = code] \in Calls
      BY <3>1, <3>2, <1>at, <1>call, <1>same DEF Codes, Unrun
    <3> QED BY <1>rec, <3>3, CallType DEF TypeOK
  <2> QED BY <2>1, <1>at, <1>call, <1>same DEF TypeOK
<1>2. DeadInv'
  BY <1>at, <1>call, <1>same DEF DeadInv
<1>3. PathInv'
  BY <1>at, <1>call, <1>same DEF PathInv, Holding
<1>4. HolderInv'
  BY <1>at, <1>call, <1>same DEF HolderInv, Holds, Holding, PathInv
<1>5. GateInv'
  BY <1>at, <1>call, <1>same, FieldTypes DEF GateInv, Placed, Asking, Holding, PathInv
<1>6. SpaceInv'
  BY <1>at, <1>call, <1>same, FieldTypes DEF SpaceInv, Holds, IsCell, Holding
<1>7. AskInv'
  BY <1>at, <1>call, <1>same DEF AskInv, Asking
<1>8. OneNamespace'
  BY <1>at, <1>call, <1>same DEF OneNamespace
<1>9. RowInv'
  BY <1>at, <1>call, <1>same DEF RowInv, Asking, PathInv
<1>10. DueInv'
  BY <1>at, <1>call, <1>same DEF DueInv, Holds, Holding, HolderInv
<1>11. RetireInv'
  BY <1>at, <1>call, <1>same DEF RetireInv, Holds, Holding, HolderInv
<1>12. ShutInv'
  BY <1>at, <1>call, <1>same DEF ShutInv
<1>13. TellInv'
  BY <1>at, <1>call, <1>same DEF TellInv, IsCell
<1>14. BoundInv'
  BY <1>at, <1>call, <1>same DEF BoundInv, IsCell
<1>15. ResetInv'
  BY <1>at, <1>call, <1>same DEF ResetInv
<1>16. FreshInv'
  BY <1>at, <1>call, <1>same DEF FreshInv, IsCell
<1>17. ResetTold'
  BY <1>at, <1>call, <1>same DEF ResetTold, Holders, Holding
<1> QED BY <1>1, <1>2, <1>3, <1>4, <1>5, <1>6, <1>7, <1>8, <1>9, <1>10, <1>11, <1>12, <1>13,
        <1>14, <1>15, <1>16, <1>17

LEMMA ReadyStep ==
  ASSUME IInv, NEW c \in Callers, Ready(c)
  PROVE  IInv'
<1> USE PoolAssumption DEF IInv
<1>zero. 0 \in 0 .. MaxTasks
  OBVIOUS
<1>at. PICK w \in Workers : w = call[c].slot
  BY DEF PathInv, Holding, Ready, To
<1>rec. call' = [call EXCEPT ![c] = [call[c] EXCEPT !.pc = "send"]]
  BY <1>at DEF Ready, To
<1>call. /\ \A d \in Callers \ {c} : call'[d] = call[d]
         /\ call'[c].pc = "send"
         /\ call'[c].op = call[c].op /\ call'[c].sid = call[c].sid /\ call'[c].slot = call[c].slot
         /\ call'[c].bound = call[c].bound /\ call'[c].fresh = call[c].fresh
         /\ call'[c].frame = call[c].frame /\ call'[c].code = call[c].code
         /\ call'[c].why = call[c].why
  BY <1>rec, <1>at DEF TypeOK, Calls
<1>new. slot' = [slot EXCEPT ![w] = [slot[w] EXCEPT !.tasks = 0, !.exiting = FALSE]]
  BY <1>at DEF Ready, To
<1>slot. /\ \A v \in Workers \ {w} : slot'[v] = slot[v]
         /\ slot'[w].tasks = 0
         /\ slot'[w].exiting = FALSE
         /\ slot'[w].child = slot[w].child /\ slot'[w].alive = slot[w].alive
         /\ slot'[w].due = slot[w].due /\ slot'[w].leaving = slot[w].leaving
         /\ slot'[w].spaces = slot[w].spaces /\ slot'[w].untold = slot[w].untold
  BY <1>new, <1>at DEF TypeOK, Slots
<1>same. /\ UNCHANGED <<idle, leased, recycling, rows, gate, reaping, closing, crashes, owed>>
         /\ call[c].pc = "shake" /\ slot[w].alive
         /\ slot'[w].alive
  BY <1>at, <1>slot DEF Ready, To, poolvars, outside
<1>1. TypeOK'
  <2>1. call' \in [Callers -> Calls]
    <3>1. call[c] \in Calls
      BY DEF TypeOK
    <3>2. ASSUME NEW x \in Calls
          PROVE  [x EXCEPT !.pc = "send"] \in Calls
      BY <1>same DEF Calls, Holding
    <3>3. [call[c] EXCEPT !.pc = "send"] \in Calls
      BY <3>1, <3>2, <1>at, <1>call, <1>slot, <1>same
    <3> QED BY <1>rec, <3>3, CallType DEF TypeOK
  <2>2. slot' \in [Workers -> Slots]
    <3>1. slot[w] \in Slots
      BY DEF TypeOK
    <3>2. ASSUME NEW x \in Slots
          PROVE  [x EXCEPT !.tasks = 0, !.exiting = FALSE] \in Slots
      BY <1>zero DEF Slots
    <3>3. [slot[w] EXCEPT !.tasks = 0, !.exiting = FALSE] \in Slots
      BY <3>1, <3>2, <1>at, <1>call, <1>slot, <1>same
    <3> QED BY <1>new, <3>3, SlotType DEF TypeOK
  <2> QED BY <2>1, <2>2, <1>at, <1>call, <1>slot, <1>same DEF TypeOK
<1>2. DeadInv'
  BY <1>at, <1>call, <1>slot, <1>same DEF DeadInv
<1>3. PathInv'
  BY <1>at, <1>call, <1>slot, <1>same DEF PathInv, Holding
<1>4. HolderInv'
  BY <1>at, <1>call, <1>slot, <1>same DEF HolderInv, Holds, Holding, PathInv
<1>5. GateInv'
  BY <1>at, <1>call, <1>slot, <1>same, FieldTypes DEF GateInv, Placed, Asking, Holding, PathInv
<1>6. SpaceInv'
  BY <1>at, <1>call, <1>slot, <1>same, FieldTypes DEF SpaceInv, Holds, IsCell, Holding
<1>7. AskInv'
  BY <1>at, <1>call, <1>slot, <1>same DEF AskInv, Asking
<1>8. OneNamespace'
  BY <1>at, <1>call, <1>slot, <1>same DEF OneNamespace
<1>9. RowInv'
  BY <1>at, <1>call, <1>slot, <1>same DEF RowInv, Asking, PathInv
<1>10. DueInv'
  BY <1>at, <1>call, <1>slot, <1>same DEF DueInv, Holds, Holding, HolderInv
<1>11. RetireInv'
  BY <1>at, <1>call, <1>slot, <1>same DEF RetireInv, Holds, Holding, HolderInv
<1>12. ShutInv'
  BY <1>at, <1>call, <1>slot, <1>same DEF ShutInv
<1>13. TellInv'
  BY <1>at, <1>call, <1>slot, <1>same DEF TellInv, IsCell
<1>14. BoundInv'
  BY <1>at, <1>call, <1>slot, <1>same DEF BoundInv, IsCell
<1>15. ResetInv'
  BY <1>at, <1>call, <1>slot, <1>same DEF ResetInv
<1>16. FreshInv'
  BY <1>at, <1>call, <1>slot, <1>same DEF FreshInv, IsCell
<1>17. ResetTold'
  BY <1>at, <1>call, <1>slot, <1>same DEF ResetTold, Holders, Holding
<1> QED BY <1>1, <1>2, <1>3, <1>4, <1>5, <1>6, <1>7, <1>8, <1>9, <1>10, <1>11, <1>12, <1>13,
        <1>14, <1>15, <1>16, <1>17

LEMMA NotReadyStep ==
  ASSUME IInv, NEW c \in Callers, NotReady(c)
  PROVE  IInv'
<1> USE PoolAssumption DEF IInv
<1>pick. PICK code \in {"SERVICE_SHUTDOWN", "WORKER_SPAWN_FAILED", "EXECUTION_TIMEOUT"} :
           call' = [call EXCEPT ![c].pc = "final", ![c].code = code]
  BY DEF NotReady, Outcome
<1>at. PICK w \in Workers : w = call[c].slot
  BY DEF PathInv, Holding, NotReady, Outcome, Stopping
<1>rec. call' = [call EXCEPT ![c] = [call[c] EXCEPT !.pc = "final", !.code = code]]
  BY <1>pick, <1>at DEF NotReady, Outcome, Stopping
<1>call. /\ \A d \in Callers \ {c} : call'[d] = call[d]
         /\ call'[c].pc = "final"
         /\ call'[c].code = code
         /\ call'[c].op = call[c].op /\ call'[c].sid = call[c].sid /\ call'[c].slot = call[c].slot
         /\ call'[c].bound = call[c].bound /\ call'[c].fresh = call[c].fresh
         /\ call'[c].frame = call[c].frame /\ call'[c].why = call[c].why
  BY <1>rec, <1>pick, <1>at DEF TypeOK, Calls
<1>kill. /\ slot' \in [Workers -> Slots]
         /\ \A v \in Workers \ {w} : slot'[v] = slot[v]
         /\ ~slot'[w].alive /\ ~slot'[w].due /\ slot'[w].spaces = {}
         /\ slot'[w].child = slot[w].child
         /\ owed' = owed \cup slot[w].spaces /\ owed' \subseteq Sessions
  <2>1. Kill(w)
    BY <1>pick, <1>at DEF NotReady, Outcome, Stopping
  <2> QED BY <2>1, KillFacts
<1>same. /\ UNCHANGED <<idle, leased, recycling, rows, gate, reaping, closing, crashes>>
         /\ code \in {"SERVICE_SHUTDOWN", "WORKER_SPAWN_FAILED", "EXECUTION_TIMEOUT"}
         /\ call[c].pc = "shake"
  BY <1>pick, <1>at DEF NotReady, Outcome, Stopping, poolvars, outside
<1>1. TypeOK'
  <2>1. call' \in [Callers -> Calls]
    <3>1. call[c] \in Calls
      BY DEF TypeOK
    <3>2. ASSUME NEW x \in Calls, NEW m \in Codes
          PROVE  [x EXCEPT !.pc = "final", !.code = m] \in Calls
      BY DEF Calls, Holding
    <3>3. [call[c] EXCEPT !.pc = "final", !.code = code] \in Calls
      BY <3>1, <3>2, <1>at, <1>call, <1>kill, <1>same DEF Codes, Unrun
    <3> QED BY <1>rec, <3>3, CallType DEF TypeOK
  <2> QED BY <2>1, <1>at, <1>call, <1>kill, <1>same DEF TypeOK
<1>2. DeadInv'
  BY <1>at, <1>call, <1>kill, <1>same DEF DeadInv
<1>3. PathInv'
  BY <1>at, <1>call, <1>kill, <1>same DEF PathInv, Holding
<1>4. HolderInv'
  BY <1>at, <1>call, <1>kill, <1>same DEF HolderInv, Holds, Holding, PathInv
<1>5. GateInv'
  BY <1>at, <1>call, <1>kill, <1>same, FieldTypes DEF GateInv, Placed, Asking, Holding, PathInv
<1>6. SpaceInv'
  BY <1>at, <1>call, <1>kill, <1>same, FieldTypes DEF SpaceInv, Holds, IsCell, Holding
<1>7. AskInv'
  BY <1>at, <1>call, <1>kill, <1>same DEF AskInv, Asking
<1>8. OneNamespace'
  BY <1>at, <1>call, <1>kill, <1>same DEF OneNamespace
<1>9. RowInv'
  BY <1>at, <1>call, <1>kill, <1>same DEF RowInv, Asking, PathInv
<1>10. DueInv'
  BY <1>at, <1>call, <1>kill, <1>same DEF DueInv, Holds, Holding, HolderInv
<1>11. RetireInv'
  BY <1>at, <1>call, <1>kill, <1>same DEF RetireInv, Holds, Holding, HolderInv
<1>12. ShutInv'
  BY <1>at, <1>call, <1>kill, <1>same DEF ShutInv
<1>13. TellInv'
  BY <1>at, <1>call, <1>kill, <1>same, KillTells DEF TellInv, IsCell
<1>14. BoundInv'
  BY <1>at, <1>call, <1>kill, <1>same DEF BoundInv, IsCell
<1>15. ResetInv'
  BY <1>at, <1>call, <1>kill, <1>same, KillTells DEF ResetInv
<1>16. FreshInv'
  BY <1>at, <1>call, <1>kill, <1>same, KillTells DEF FreshInv, IsCell
<1>17. ResetTold'
  BY <1>at, <1>call, <1>kill, <1>same, KillTells DEF ResetTold, Holders, Holding
<1> QED BY <1>1, <1>2, <1>3, <1>4, <1>5, <1>6, <1>7, <1>8, <1>9, <1>10, <1>11, <1>12, <1>13,
        <1>14, <1>15, <1>16, <1>17

LEMMA WriteStep ==
  ASSUME IInv, NEW c \in Callers, Write(c)
  PROVE  IInv'
<1> USE PoolAssumption DEF IInv
<1>at. PICK w \in Workers : w = call[c].slot
  BY DEF PathInv, Holding, Write, To
<1>rec. call' = [call EXCEPT ![c] = [call[c] EXCEPT !.pc = "wait"]]
  BY <1>at DEF Write, To
<1>call. /\ \A d \in Callers \ {c} : call'[d] = call[d]
         /\ call'[c].pc = "wait"
         /\ call'[c].op = call[c].op /\ call'[c].sid = call[c].sid /\ call'[c].slot = call[c].slot
         /\ call'[c].bound = call[c].bound /\ call'[c].fresh = call[c].fresh
         /\ call'[c].frame = call[c].frame /\ call'[c].code = call[c].code
         /\ call'[c].why = call[c].why
  BY <1>rec, <1>at DEF TypeOK, Calls
<1>new. slot' = [slot EXCEPT ![w] = [slot[w] EXCEPT !.due = TRUE]]
  BY <1>at DEF Write, To
<1>slot. /\ \A v \in Workers \ {w} : slot'[v] = slot[v]
         /\ slot'[w].due = TRUE
         /\ slot'[w].child = slot[w].child /\ slot'[w].alive = slot[w].alive
         /\ slot'[w].leaving = slot[w].leaving /\ slot'[w].exiting = slot[w].exiting
         /\ slot'[w].tasks = slot[w].tasks /\ slot'[w].spaces = slot[w].spaces
         /\ slot'[w].untold = slot[w].untold
  BY <1>new, <1>at DEF TypeOK, Slots
<1>same. /\ UNCHANGED <<idle, leased, recycling, rows, gate, reaping, closing, crashes, owed>>
         /\ call[c].pc = "send" /\ slot[w].alive
         /\ slot'[w].alive
  BY <1>at, <1>slot DEF Write, To, poolvars, outside
<1>1. TypeOK'
  <2>1. call' \in [Callers -> Calls]
    <3>1. call[c] \in Calls
      BY DEF TypeOK
    <3>2. ASSUME NEW x \in Calls
          PROVE  [x EXCEPT !.pc = "wait"] \in Calls
      BY <1>same DEF Calls, Holding
    <3>3. [call[c] EXCEPT !.pc = "wait"] \in Calls
      BY <3>1, <3>2, <1>at, <1>call, <1>slot, <1>same
    <3> QED BY <1>rec, <3>3, CallType DEF TypeOK
  <2>2. slot' \in [Workers -> Slots]
    <3>1. slot[w] \in Slots
      BY DEF TypeOK
    <3>2. ASSUME NEW x \in Slots
          PROVE  [x EXCEPT !.due = TRUE] \in Slots
      BY DEF Slots
    <3>3. [slot[w] EXCEPT !.due = TRUE] \in Slots
      BY <3>1, <3>2, <1>at, <1>call, <1>slot, <1>same
    <3> QED BY <1>new, <3>3, SlotType DEF TypeOK
  <2> QED BY <2>1, <2>2, <1>at, <1>call, <1>slot, <1>same DEF TypeOK
<1>2. DeadInv'
  BY <1>at, <1>call, <1>slot, <1>same DEF DeadInv
<1>3. PathInv'
  BY <1>at, <1>call, <1>slot, <1>same DEF PathInv, Holding
<1>4. HolderInv'
  BY <1>at, <1>call, <1>slot, <1>same DEF HolderInv, Holds, Holding, PathInv
<1>5. GateInv'
  BY <1>at, <1>call, <1>slot, <1>same, FieldTypes DEF GateInv, Placed, Asking, Holding, PathInv
<1>6. SpaceInv'
  BY <1>at, <1>call, <1>slot, <1>same, FieldTypes DEF SpaceInv, Holds, IsCell, Holding
<1>7. AskInv'
  BY <1>at, <1>call, <1>slot, <1>same DEF AskInv, Asking
<1>8. OneNamespace'
  BY <1>at, <1>call, <1>slot, <1>same DEF OneNamespace
<1>9. RowInv'
  BY <1>at, <1>call, <1>slot, <1>same DEF RowInv, Asking, PathInv
<1>10. DueInv'
  BY <1>at, <1>call, <1>slot, <1>same DEF DueInv, Holds, Holding, HolderInv
<1>11. RetireInv'
  BY <1>at, <1>call, <1>slot, <1>same DEF RetireInv, Holds, Holding, HolderInv
<1>12. ShutInv'
  BY <1>at, <1>call, <1>slot, <1>same DEF ShutInv
<1>13. TellInv'
  BY <1>at, <1>call, <1>slot, <1>same DEF TellInv, IsCell
<1>14. BoundInv'
  BY <1>at, <1>call, <1>slot, <1>same DEF BoundInv, IsCell
<1>15. ResetInv'
  BY <1>at, <1>call, <1>slot, <1>same DEF ResetInv
<1>16. FreshInv'
  BY <1>at, <1>call, <1>slot, <1>same DEF FreshInv, IsCell
<1>17. ResetTold'
  BY <1>at, <1>call, <1>slot, <1>same DEF ResetTold, Holders, Holding
<1> QED BY <1>1, <1>2, <1>3, <1>4, <1>5, <1>6, <1>7, <1>8, <1>9, <1>10, <1>11, <1>12, <1>13,
        <1>14, <1>15, <1>16, <1>17

LEMMA SparedFailsStep ==
  ASSUME IInv, NEW c \in Callers, RequestFails(c), Spares(call[c].slot)
  PROVE  IInv'
<1> USE PoolAssumption DEF IInv
<1>at. PICK w \in Workers : w = call[c].slot
  BY DEF PathInv, Holding, RequestFails, Spares, Stopping, Outcome
<1>rec. call' = [call EXCEPT ![c] = [call[c] EXCEPT !.pc = "final", !.code =
          "SERVICE_SHUTDOWN"]]
  BY <1>at DEF RequestFails, Spares, Stopping, Outcome
<1>call. /\ \A d \in Callers \ {c} : call'[d] = call[d]
         /\ call'[c].pc = "final"
         /\ call'[c].code = "SERVICE_SHUTDOWN"
         /\ call'[c].op = call[c].op /\ call'[c].sid = call[c].sid /\ call'[c].slot = call[c].slot
         /\ call'[c].bound = call[c].bound /\ call'[c].fresh = call[c].fresh
         /\ call'[c].frame = call[c].frame /\ call'[c].why = call[c].why
  BY <1>rec, <1>at DEF TypeOK, Calls
<1>same. /\ UNCHANGED <<slot, idle, leased, recycling, rows, gate, reaping, closing, crashes, owed>>
         /\ call[c].pc \in {"send", "wait", "ran"} /\ closing > 0
  BY <1>at DEF RequestFails, Spares, Stopping, Outcome, poolvars, outside, Workers, TypeOK
<1>1. TypeOK'
  <2>1. call' \in [Callers -> Calls]
    <3>1. call[c] \in Calls
      BY DEF TypeOK
    <3>2. ASSUME NEW x \in Calls
          PROVE  [x EXCEPT !.pc = "final", !.code = "SERVICE_SHUTDOWN"] \in Calls
      BY <1>same DEF Calls, Holding, Codes
    <3>3. [call[c] EXCEPT !.pc = "final", !.code = "SERVICE_SHUTDOWN"] \in Calls
      BY <3>1, <3>2, <1>at, <1>call, <1>same
    <3> QED BY <1>rec, <3>3, CallType DEF TypeOK
  <2> QED BY <2>1, <1>at, <1>call, <1>same DEF TypeOK
<1>2. DeadInv'
  BY <1>at, <1>call, <1>same DEF DeadInv
<1>3. PathInv'
  BY <1>at, <1>call, <1>same DEF PathInv, Holding
<1>4. HolderInv'
  BY <1>at, <1>call, <1>same DEF HolderInv, Holds, Holding, PathInv
<1>5. GateInv'
  BY <1>at, <1>call, <1>same, FieldTypes DEF GateInv, Placed, Asking, Holding, PathInv
<1>6. SpaceInv'
  BY <1>at, <1>call, <1>same, FieldTypes DEF SpaceInv, Holds, IsCell, Holding
<1>7. AskInv'
  BY <1>at, <1>call, <1>same DEF AskInv, Asking
<1>8. OneNamespace'
  BY <1>at, <1>call, <1>same DEF OneNamespace
<1>9. RowInv'
  BY <1>at, <1>call, <1>same DEF RowInv, Asking, PathInv
<1>10. DueInv'
  BY <1>at, <1>call, <1>same DEF DueInv, Holds, Holding, HolderInv
<1>11. RetireInv'
  BY <1>at, <1>call, <1>same DEF RetireInv, Holds, Holding, HolderInv
<1>12. ShutInv'
  BY <1>at, <1>call, <1>same DEF ShutInv
<1>13. TellInv'
  BY <1>at, <1>call, <1>same DEF TellInv, IsCell
<1>14. BoundInv'
  BY <1>at, <1>call, <1>same DEF BoundInv, IsCell
<1>15. ResetInv'
  BY <1>at, <1>call, <1>same DEF ResetInv
<1>16. FreshInv'
  BY <1>at, <1>call, <1>same DEF FreshInv, IsCell
<1>17. ResetTold'
  BY <1>at, <1>call, <1>same DEF ResetTold, Holders, Holding
<1> QED BY <1>1, <1>2, <1>3, <1>4, <1>5, <1>6, <1>7, <1>8, <1>9, <1>10, <1>11, <1>12, <1>13,
        <1>14, <1>15, <1>16, <1>17

LEMMA KilledFailsStep ==
  ASSUME IInv, NEW c \in Callers, RequestFails(c), ~Spares(call[c].slot)
  PROVE  IInv'
<1> USE PoolAssumption DEF IInv
<1>at. PICK w \in Workers : w = call[c].slot
  BY DEF PathInv, Holding, RequestFails, Spares, Stopping, Outcome
<1>rec. call' = [call EXCEPT ![c] = [call[c] EXCEPT !.pc = "final", !.code = Failure(c)]]
  BY <1>at DEF RequestFails, Spares, Stopping, Outcome
<1>call. /\ \A d \in Callers \ {c} : call'[d] = call[d]
         /\ call'[c].pc = "final"
         /\ call'[c].code = Failure(c)
         /\ call'[c].op = call[c].op /\ call'[c].sid = call[c].sid /\ call'[c].slot = call[c].slot
         /\ call'[c].bound = call[c].bound /\ call'[c].fresh = call[c].fresh
         /\ call'[c].frame = call[c].frame /\ call'[c].why = call[c].why
  BY <1>rec, <1>at DEF TypeOK, Calls
<1>kill. /\ slot' \in [Workers -> Slots]
         /\ \A v \in Workers \ {w} : slot'[v] = slot[v]
         /\ ~slot'[w].alive /\ ~slot'[w].due /\ slot'[w].spaces = {}
         /\ slot'[w].child = slot[w].child
         /\ owed' = owed \cup slot[w].spaces /\ owed' \subseteq Sessions
  <2>1. Kill(w)
    BY <1>at DEF RequestFails, Spares, Stopping, Outcome
  <2> QED BY <2>1, KillFacts
<1>same. /\ UNCHANGED <<idle, leased, recycling, rows, gate, reaping, closing, crashes>>
         /\ call[c].pc \in {"send", "wait", "ran"}
         /\ Failure(c) \in Codes \ {"ok", "none"}
         /\ Failure(c) \in Unrun => call[c].pc = "send"
  BY <1>at DEF RequestFails, Spares, Stopping, Outcome, poolvars, outside, Failure, Codes, Unrun
<1>1. TypeOK'
  <2>1. call' \in [Callers -> Calls]
    <3>1. call[c] \in Calls
      BY DEF TypeOK
    <3>2. ASSUME NEW x \in Calls, NEW m \in Codes
          PROVE  [x EXCEPT !.pc = "final", !.code = m] \in Calls
      BY DEF Calls, Holding
    <3>3. [call[c] EXCEPT !.pc = "final", !.code = Failure(c)] \in Calls
      BY <3>1, <3>2, <1>at, <1>call, <1>kill, <1>same
    <3> QED BY <1>rec, <3>3, CallType DEF TypeOK
  <2> QED BY <2>1, <1>at, <1>call, <1>kill, <1>same DEF TypeOK
<1>2. DeadInv'
  BY <1>at, <1>call, <1>kill, <1>same DEF DeadInv
<1>3. PathInv'
  BY <1>at, <1>call, <1>kill, <1>same DEF PathInv, Holding
<1>4. HolderInv'
  BY <1>at, <1>call, <1>kill, <1>same DEF HolderInv, Holds, Holding, PathInv
<1>5. GateInv'
  BY <1>at, <1>call, <1>kill, <1>same, FieldTypes DEF GateInv, Placed, Asking, Holding, PathInv
<1>6. SpaceInv'
  BY <1>at, <1>call, <1>kill, <1>same, FieldTypes DEF SpaceInv, Holds, IsCell, Holding
<1>7. AskInv'
  BY <1>at, <1>call, <1>kill, <1>same DEF AskInv, Asking
<1>8. OneNamespace'
  BY <1>at, <1>call, <1>kill, <1>same DEF OneNamespace
<1>9. RowInv'
  BY <1>at, <1>call, <1>kill, <1>same DEF RowInv, Asking, PathInv
<1>10. DueInv'
  BY <1>at, <1>call, <1>kill, <1>same DEF DueInv, Holds, Holding, HolderInv
<1>11. RetireInv'
  BY <1>at, <1>call, <1>kill, <1>same DEF RetireInv, Holds, Holding, HolderInv
<1>12. ShutInv'
  BY <1>at, <1>call, <1>kill, <1>same DEF ShutInv
<1>13. TellInv'
  BY <1>at, <1>call, <1>kill, <1>same, KillTells DEF TellInv, IsCell
<1>14. BoundInv'
  BY <1>at, <1>call, <1>kill, <1>same DEF BoundInv, IsCell
<1>15. ResetInv'
  BY <1>at, <1>call, <1>kill, <1>same, KillTells DEF ResetInv
<1>16. FreshInv'
  BY <1>at, <1>call, <1>kill, <1>same, KillTells DEF FreshInv, IsCell
<1>17. ResetTold'
  BY <1>at, <1>call, <1>kill, <1>same, KillTells DEF ResetTold, Holders, Holding
<1> QED BY <1>1, <1>2, <1>3, <1>4, <1>5, <1>6, <1>7, <1>8, <1>9, <1>10, <1>11, <1>12, <1>13,
        <1>14, <1>15, <1>16, <1>17

LEMMA RunStep ==
  ASSUME IInv, NEW c \in Callers, Run(c)
  PROVE  IInv'
<1> USE PoolAssumption DEF IInv
<1>at. PICK w \in Workers : w = call[c].slot
  BY DEF PathInv, Holding, Run
<1>pick. PICK f \in Frames \ {"none"}, new \in BOOLEAN, kept \in SUBSET Sessions,
              hid \in SUBSET Sessions :
           Ran(c, w, f, new, kept, hid)
  <2>1. /\ call[c].sid \in Sessions \cup {NoSession}
        /\ slot[w].spaces \subseteq Sessions /\ slot[w].untold \subseteq Sessions
    BY FieldTypes DEF TypeOK, Slots
  <2>2. PICK i : i = call[c].sid
    OBVIOUS
  <2>3. ASSUME call[c].op = "cell", NEW f \in CellFrames,
               call' = [call EXCEPT ![c].pc = "ran", ![c].ran = TRUE, ![c].frame = f,
                 ![c].fresh = i # NoSession /\ i \notin slot[w].spaces],
               slot' = [slot EXCEPT ![w].spaces = @ \cup ({i} \ {NoSession})]
        PROVE  \E new \in BOOLEAN, kept \in SUBSET Sessions, hid \in SUBSET Sessions :
                 Ran(c, w, f, new, kept, hid)
    <3>1. PICK new \in BOOLEAN : new = (i # NoSession /\ i \notin slot[w].spaces)
      OBVIOUS
    <3>2. PICK kept \in SUBSET Sessions : kept = slot[w].spaces \cup ({i} \ {NoSession})
      BY <2>1, <2>2
    <3>3. f = "abandoned" => crashes < MaxCrashes
      BY DEF CellFrames
    <3>4. slot' = [slot EXCEPT ![w].spaces = kept, ![w].untold = slot[w].untold]
      BY <2>3, <3>2 DEF TypeOK, Slots
    <3>5. Ran(c, w, f, new, kept, slot[w].untold)
      BY <2>2, <2>3, <3>1, <3>2, <3>3, <3>4 DEF Ran, IsCell
    <3> QED BY <2>1, <3>5
  <2>4. ASSUME call[c].op = "cell", call[c].sid \notin slot[w].spaces,
               call' = [call EXCEPT ![c].pc = "ran", ![c].ran = TRUE, ![c].frame = "error",
                                   ![c].fresh = FALSE], slot' = slot
        PROVE  Ran(c, w, "error", FALSE, slot[w].spaces, slot[w].untold)
    <3>1. slot' = [slot EXCEPT ![w].spaces = slot[w].spaces, ![w].untold = slot[w].untold]
      BY <2>4 DEF TypeOK, Slots
    <3> QED BY <2>4, <3>1 DEF Ran
  <2>5. ASSUME call[c].op = "reset",
               call' = [call EXCEPT ![c].pc = "ran", ![c].ran = TRUE, ![c].frame = "ok",
                                   ![c].fresh = FALSE],
               slot' = [slot EXCEPT ![w].spaces = @ \ {i}, ![w].untold = @ \ {i}]
        PROVE  Ran(c, w, "ok", FALSE, slot[w].spaces \ {i}, slot[w].untold \ {i})
    <3>1. slot' = [slot EXCEPT ![w].spaces = slot[w].spaces \ {i},
                               ![w].untold = slot[w].untold \ {i}]
      BY <2>5 DEF TypeOK, Slots
    <3> QED BY <2>2, <2>5, <3>1 DEF Ran
  <2>6. CellFrames \subseteq Frames \ {"none"} /\ {"error", "ok"} \subseteq Frames \ {"none"}
    BY DEF CellFrames, Frames
  <2> QED BY ZenonT(60), <1>at, <2>1, <2>2, <2>3, <2>4, <2>5, <2>6 DEF Run
<1>rec. call' = [call EXCEPT ![c] = [call[c] EXCEPT !.pc = "ran", !.ran = TRUE, !.frame = f,
          !.fresh = new]]
  BY <1>pick, <1>at DEF Run, Ran
<1>call. /\ \A d \in Callers \ {c} : call'[d] = call[d]
         /\ call'[c].pc = "ran"
         /\ call'[c].frame = f
         /\ call'[c].fresh = new
         /\ call'[c].op = call[c].op /\ call'[c].sid = call[c].sid /\ call'[c].slot = call[c].slot
         /\ call'[c].bound = call[c].bound /\ call'[c].code = call[c].code
         /\ call'[c].why = call[c].why
  BY <1>rec, <1>pick, <1>at DEF TypeOK, Calls
<1>new. slot' = [slot EXCEPT ![w] = [slot[w] EXCEPT !.spaces = kept, !.untold = hid]]
  BY <1>pick, <1>at DEF Run, Ran
<1>slot. /\ \A v \in Workers \ {w} : slot'[v] = slot[v]
         /\ slot'[w].spaces = kept /\ slot'[w].untold = hid
         /\ slot'[w].child = slot[w].child /\ slot'[w].alive = slot[w].alive
         /\ slot'[w].due = slot[w].due /\ slot'[w].leaving = slot[w].leaving
         /\ slot'[w].exiting = slot[w].exiting /\ slot'[w].tasks = slot[w].tasks
  BY <1>new, <1>pick, <1>at DEF TypeOK, Slots
<1>same. /\ UNCHANGED <<idle, leased, recycling, rows, gate, reaping, closing, owed>>
         /\ call[c].pc = "wait" /\ slot[w].alive
         /\ slot'[w].alive
  BY <1>pick, <1>at, <1>slot DEF Run, Ran, poolvars, outside
<1>did. /\ kept \subseteq Sessions
        /\ \A s \in kept : s \in slot[w].spaces \/ IsCell(c, s)
        /\ \A s \in kept : s \notin slot[w].spaces => new
        /\ call[c].op = "reset" => call[c].sid \notin kept
        /\ call[c].op = "cell" => slot[w].spaces \subseteq kept
        /\ hid \subseteq Sessions
        /\ \A s \in slot[w].untold : s \in hid \/ s \notin kept
        /\ crashes' \in 0 .. MaxCrashes
  <2>1. crashes' = IF f = "abandoned" THEN crashes + 1 ELSE crashes
    BY <1>call, <1>same DEF Run
  <2>2. crashes' \in 0 .. MaxCrashes
    BY <1>pick, <2>1 DEF TypeOK, Ran
  <2> QED BY <1>pick, <2>2 DEF Ran
<1>1. TypeOK'
  <2>1. call' \in [Callers -> Calls]
    <3>1. call[c] \in Calls
      BY DEF TypeOK
    <3>2. ASSUME NEW x \in Calls, NEW g \in Frames, NEW b \in BOOLEAN
          PROVE  [x EXCEPT !.pc = "ran", !.ran = TRUE, !.frame = g, !.fresh = b] \in Calls
      BY DEF Calls, Holding
    <3>3. [call[c] EXCEPT !.pc = "ran", !.ran = TRUE, !.frame = f, !.fresh = new] \in Calls
      BY <3>1, <3>2, <1>at, <1>call, <1>slot, <1>same, <1>did, <1>pick
    <3> QED BY <1>rec, <3>3, CallType DEF TypeOK
  <2>2. slot' \in [Workers -> Slots]
    <3>1. slot[w] \in Slots
      BY DEF TypeOK
    <3>2. ASSUME NEW x \in Slots, NEW k \in SUBSET Sessions, NEW h \in SUBSET Sessions
          PROVE  [x EXCEPT !.spaces = k, !.untold = h] \in Slots
      BY DEF Slots
    <3>3. [slot[w] EXCEPT !.spaces = kept, !.untold = hid] \in Slots
      BY <3>1, <3>2, <1>at, <1>call, <1>slot, <1>same, <1>did
    <3> QED BY <1>new, <3>3, SlotType DEF TypeOK
  <2> QED BY <2>1, <2>2, <1>at, <1>call, <1>slot, <1>same, <1>did DEF TypeOK
<1>2. DeadInv'
  BY <1>at, <1>call, <1>slot, <1>same, <1>did DEF DeadInv
<1>3. PathInv'
  BY <1>at, <1>call, <1>slot, <1>same, <1>did DEF PathInv, Holding
<1>4. HolderInv'
  BY <1>at, <1>call, <1>slot, <1>same, <1>did DEF HolderInv, Holds, Holding, PathInv
<1>5. GateInv'
  BY <1>at, <1>call, <1>slot, <1>same, <1>did, FieldTypes DEF GateInv, Placed, Asking, Holding,
       PathInv
<1>6. SpaceInv'
  BY <1>at, <1>call, <1>slot, <1>same, <1>did, FieldTypes DEF SpaceInv, Holds, IsCell, Holding,
       PathInv, Unrun
<1>7. AskInv'
  BY <1>at, <1>call, <1>slot, <1>same, <1>did DEF AskInv, Asking, GateInv, IsCell
<1>8. OneNamespace'
  BY <1>at, <1>call, <1>slot, <1>same, <1>did DEF OneNamespace, AskInv, Asking, IsCell
<1>9. RowInv'
  BY <1>at, <1>call, <1>slot, <1>same, <1>did DEF RowInv, Asking, PathInv
<1>10. DueInv'
  BY <1>at, <1>call, <1>slot, <1>same, <1>did DEF DueInv, Holds, Holding, HolderInv
<1>11. RetireInv'
  BY <1>at, <1>call, <1>slot, <1>same, <1>did DEF RetireInv, Holds, Holding, HolderInv
<1>12. ShutInv'
  BY <1>at, <1>call, <1>slot, <1>same, <1>did DEF ShutInv
<1>13. TellInv'
  BY <1>at, <1>call, <1>slot, <1>same, <1>did DEF TellInv, IsCell
<1>14. BoundInv'
  BY <1>at, <1>call, <1>slot, <1>same, <1>did DEF BoundInv, IsCell
<1>15. ResetInv'
  BY <1>at, <1>call, <1>slot, <1>same, <1>did DEF ResetInv, GateInv, AskInv, Asking, IsCell
<1>16. FreshInv'
  <2> SUFFICES ASSUME closing' = 0, NEW d \in Callers, NEW s \in owed',
                      NEW v \in Workers, call'[d].pc = "ran", IsCell(d, s)',
                      s \in slot'[v].spaces \ slot'[v].untold
               PROVE  call'[d].bound /\ call'[d].fresh
    BY DEF FreshInv
  <2>1. s \in owed /\ closing = 0 /\ s \in Sessions
    BY <1>same DEF TypeOK
  <2>2. CASE d # c
    <3>1. call'[d] = call[d]
      BY <2>2, <1>call
    <3>2. ~IsCell(c, s)
      BY <2>2, <2>1, <3>1, <1>same DEF GateInv, Asking, IsCell
    <3>3. s \in slot[v].spaces \ slot[v].untold
      BY <1>slot, <1>did, <3>2
    <3> QED BY <2>1, <3>1, <3>3 DEF FreshInv, IsCell
  <2>3. CASE d = c
    <3>1. IsCell(c, s) /\ s # NoSession
      BY <2>1, <2>3, <1>call DEF IsCell
    <3>2. \A e \in Callers : call[e].pc \in {"ran", "final"} => call[e].sid # s
      BY <3>1, <2>1, <1>same DEF GateInv, Asking, IsCell
    <3>3. rows[s] # NoRow
      BY <2>1, <3>2 DEF TellInv, IsCell
    <3>4. call[c].bound
      BY <2>1, <3>1, <3>3, <1>same DEF BoundInv
    <3>5. \A u \in Workers : s \notin slot[u].spaces \ slot[u].untold
      BY <2>1, <3>2 DEF ResetTold, Holders
    <3>6. v = w /\ s \in kept /\ s \notin hid
      BY <1>slot, <3>5
    <3>7. new
      BY <1>did, <3>5, <3>6
    <3> QED BY <2>3, <3>4, <3>7, <1>call
  <2> QED BY <2>2, <2>3
<1>17. ResetTold'
  BY <1>at, <1>call, <1>slot, <1>same, <1>did, FieldTypes DEF ResetTold, Holders, Holding,
       IsCell
<1> QED BY <1>1, <1>2, <1>3, <1>4, <1>5, <1>6, <1>7, <1>8, <1>9, <1>10, <1>11, <1>12, <1>13,
        <1>14, <1>15, <1>16, <1>17

LEMMA AnswerStep ==
  ASSUME IInv, NEW c \in Callers, Answer(c)
  PROVE  IInv'
<1> USE PoolAssumption DEF IInv
<1>at. PICK w \in Workers : w = call[c].slot
  BY DEF PathInv, Holding, Answer, Outcome
<1>hid. PICK hid \in SUBSET Sessions :
          hid = IF Silent(c) THEN slot[w].untold \cup {call[c].sid} ELSE slot[w].untold
  <2>1. slot[w].untold \subseteq Sessions /\ (Silent(c) => call[c].sid \in Sessions)
    BY DEF TypeOK, Slots, Silent
  <2> QED BY <2>1
<1>pick. PICK t \in 0 .. MaxTasks :
           slot' = [slot EXCEPT ![w] = [slot[w] EXCEPT
                      !.due = FALSE, !.leaving = call[c].frame = "abandoned", !.tasks = t,
                      !.untold = hid]]
  <2>1. /\ slot[w] \in Slots
        /\ slot' = [slot EXCEPT ![w] = [Consumed(w, call[c].frame) EXCEPT
                      !.untold = IF Silent(c) THEN @ \cup {call[c].sid} ELSE @]]
    BY <1>at DEF TypeOK, Answer
  <2>2. \E t \in 0 .. MaxTasks : Consumed(w, call[c].frame) =
          [slot[w] EXCEPT !.due = FALSE, !.leaving = call[c].frame = "abandoned", !.tasks = t]
    <3>1. PICK r : r = [slot[w] EXCEPT !.due = FALSE,
                                       !.leaving = call[c].frame = "abandoned"]
      OBVIOUS
    <3>2. r.tasks = slot[w].tasks /\ slot[w].tasks \in 0 .. MaxTasks
      BY <2>1, <3>1 DEF Slots
    <3>3. PICK n \in 0 .. MaxTasks : n = IF r.tasks < MaxTasks THEN r.tasks + 1 ELSE r.tasks
      <4>1. \A k \in 0 .. MaxTasks : (IF k < MaxTasks THEN k + 1 ELSE k) \in 0 .. MaxTasks
        OBVIOUS
      <4> QED BY <3>2, <4>1
    <3>4. Consumed(w, call[c].frame) =
            IF call[c].frame # "ok" THEN r ELSE [r EXCEPT !.tasks = n]
      BY <3>1, <3>3 DEF Consumed
    <3>5. \A k : [r EXCEPT !.tasks = k] =
            [slot[w] EXCEPT !.due = FALSE, !.leaving = call[c].frame = "abandoned", !.tasks = k]
      BY <2>1, <3>1 DEF Slots
    <3>6. r = [r EXCEPT !.tasks = r.tasks]
      BY <2>1, <3>1 DEF Slots
    <3> QED BY <3>2, <3>3, <3>4, <3>5, <3>6
  <2>3. PICK k \in 0 .. MaxTasks : Consumed(w, call[c].frame) =
          [slot[w] EXCEPT !.due = FALSE, !.leaving = call[c].frame = "abandoned", !.tasks = k]
    BY <2>2
  <2>4. PICK r : r = Consumed(w, call[c].frame)
    OBVIOUS
  <2>5. r.untold = slot[w].untold
    BY <2>1, <2>3, <2>4 DEF Slots
  <2>6. [r EXCEPT !.untold = IF Silent(c) THEN @ \cup {call[c].sid} ELSE @]
          = [r EXCEPT !.untold = hid]
    BY <1>hid, <2>5
  <2>7. [r EXCEPT !.untold = hid] =
          [slot[w] EXCEPT !.due = FALSE, !.leaving = call[c].frame = "abandoned", !.tasks = k,
                          !.untold = hid]
    BY <2>1, <2>3, <2>4 DEF Slots
  <2> QED BY <2>1, <2>4, <2>6, <2>7
<1>rec. call' = [call EXCEPT ![c] = [call[c] EXCEPT !.pc = "final", !.code =
          FrameCode(call[c].frame)]]
  BY <1>pick, <1>at DEF Answer, Outcome
<1>call. /\ \A d \in Callers \ {c} : call'[d] = call[d]
         /\ call'[c].pc = "final"
         /\ call'[c].code = FrameCode(call[c].frame)
         /\ call'[c].op = call[c].op /\ call'[c].sid = call[c].sid /\ call'[c].slot = call[c].slot
         /\ call'[c].bound = call[c].bound /\ call'[c].fresh = call[c].fresh
         /\ call'[c].frame = call[c].frame /\ call'[c].why = call[c].why
  BY <1>rec, <1>pick, <1>at DEF TypeOK, Calls
<1>new. slot' = [slot EXCEPT ![w] = [slot[w] EXCEPT !.due = FALSE, !.leaving = call[c].frame =
          "abandoned", !.tasks = t, !.untold = hid]]
  BY <1>pick, <1>at DEF Answer, Outcome
<1>slot. /\ \A v \in Workers \ {w} : slot'[v] = slot[v]
         /\ slot'[w].due = FALSE
         /\ slot'[w].leaving = (call[c].frame = "abandoned")
         /\ slot'[w].tasks = t
         /\ slot'[w].child = slot[w].child /\ slot'[w].alive = slot[w].alive
         /\ slot'[w].exiting = slot[w].exiting /\ slot'[w].spaces = slot[w].spaces
         /\ slot[w].untold \subseteq slot'[w].untold /\ (Silent(c) => call[c].sid \in slot'[w].untold)
  BY <1>new, <1>hid, <1>pick, <1>at DEF TypeOK, Slots
<1>same. /\ UNCHANGED <<idle, leased, recycling, rows, gate, reaping, closing, crashes>>
         /\ call[c].pc = "ran"
         /\ FrameCode(call[c].frame) \in Codes \ Unrun
         /\ owed' \subseteq owed /\ \A s \in owed : s # call[c].sid => s \in owed'
         /\ call[c].op = "reset" => call[c].sid \notin owed'
         /\ call[c].bound /\ call[c].fresh /\ ~Silent(c) => call[c].sid \notin owed'
  BY <1>pick, <1>at DEF Answer, Outcome, poolvars, outside, FrameCode, Codes, Unrun, Flagged,
       Silent
<1>1. TypeOK'
  <2>1. call' \in [Callers -> Calls]
    <3>1. call[c] \in Calls
      BY DEF TypeOK
    <3>2. ASSUME NEW x \in Calls, NEW m \in Codes
          PROVE  [x EXCEPT !.pc = "final", !.code = m] \in Calls
      BY DEF Calls, Holding
    <3>3. [call[c] EXCEPT !.pc = "final", !.code = FrameCode(call[c].frame)] \in Calls
      BY <3>1, <3>2, <1>at, <1>call, <1>slot, <1>same
    <3> QED BY <1>rec, <3>3, CallType DEF TypeOK
  <2>2. slot' \in [Workers -> Slots]
    <3>1. slot[w] \in Slots
      BY DEF TypeOK
    <3>2. ASSUME NEW x \in Slots, NEW b \in BOOLEAN, NEW n \in 0 .. MaxTasks,
                 NEW h \in SUBSET Sessions
          PROVE  [x EXCEPT !.due = FALSE, !.leaving = b, !.tasks = n, !.untold = h] \in Slots
      BY DEF Slots
    <3>3. [slot[w] EXCEPT !.due = FALSE, !.leaving = call[c].frame = "abandoned", !.tasks = t,
                          !.untold = hid] \in Slots
      BY <3>1, <3>2, <1>at, <1>call, <1>slot, <1>same, <1>pick
    <3> QED BY <1>new, <3>3, SlotType DEF TypeOK
  <2> QED BY <2>1, <2>2, <1>at, <1>call, <1>slot, <1>same DEF TypeOK
<1>2. DeadInv'
  BY <1>at, <1>call, <1>slot, <1>same DEF DeadInv
<1>3. PathInv'
  BY <1>at, <1>call, <1>slot, <1>same DEF PathInv, Holding
<1>4. HolderInv'
  BY <1>at, <1>call, <1>slot, <1>same DEF HolderInv, Holds, Holding, PathInv
<1>5. GateInv'
  BY <1>at, <1>call, <1>slot, <1>same, FieldTypes DEF GateInv, Placed, Asking, Holding, PathInv
<1>6. SpaceInv'
  BY <1>at, <1>call, <1>slot, <1>same, FieldTypes DEF SpaceInv, Holds, IsCell, Holding
<1>7. AskInv'
  BY <1>at, <1>call, <1>slot, <1>same DEF AskInv, Asking
<1>8. OneNamespace'
  BY <1>at, <1>call, <1>slot, <1>same DEF OneNamespace
<1>9. RowInv'
  BY <1>at, <1>call, <1>slot, <1>same DEF RowInv, Asking, PathInv
<1>10. DueInv'
  BY <1>at, <1>call, <1>slot, <1>same DEF DueInv, Holds, Holding, HolderInv
<1>11. RetireInv'
  BY <1>at, <1>call, <1>slot, <1>same DEF RetireInv, Holds, Holding, HolderInv
<1>12. ShutInv'
  BY <1>at, <1>call, <1>slot, <1>same DEF ShutInv
<1>13. TellInv'
  BY <1>at, <1>call, <1>slot, <1>same DEF TellInv, IsCell
<1>14. BoundInv'
  BY <1>at, <1>call, <1>slot, <1>same DEF BoundInv, IsCell
<1>15. ResetInv'
  BY <1>at, <1>call, <1>slot, <1>same DEF ResetInv
<1>16. FreshInv'
  BY <1>at, <1>call, <1>slot, <1>same DEF FreshInv, IsCell
<1>17. ResetTold'
  <2> SUFFICES ASSUME closing' = 0, NEW s \in owed', NEW v \in Workers,
                      s \in slot'[v].spaces \ slot'[v].untold
               PROVE  \E d \in Holders(v)' : call'[d].pc = "ran" /\ call'[d].sid = s
    BY DEF ResetTold
  <2>1. closing = 0 /\ s \in owed /\ s \in Sessions /\ s \in slot[v].spaces \ slot[v].untold
    BY <1>slot, <1>same DEF TypeOK
  <2>2. PICK d \in Callers : call[d].pc = "ran" /\ call[d].slot = v /\ call[d].sid = s
    BY <2>1 DEF ResetTold, Holders
  <2>3. d # c
    <3> SUFFICES ASSUME d = c PROVE FALSE
      OBVIOUS
    <3>1. IsCell(c, s)
      BY <2>2, <1>same, FieldTypes DEF IsCell
    <3>2. call[c].bound /\ call[c].fresh
      BY <2>1, <3>1, <1>same DEF FreshInv
    <3>3. v = w /\ Silent(c)
      BY <2>2, <3>2, <1>at, <1>same
    <3> QED BY <2>2, <3>3, <1>slot
  <2> QED BY <2>2, <2>3, <1>call DEF Holders, Holding
<1> QED BY <1>1, <1>2, <1>3, <1>4, <1>5, <1>6, <1>7, <1>8, <1>9, <1>10, <1>11, <1>12, <1>13,
        <1>14, <1>15, <1>16, <1>17

LEMMA FinalizeStep ==
  ASSUME IInv, NEW c \in Callers, Finalize(c)
  PROVE  IInv'
<1> USE PoolAssumption DEF IInv
<1>at. PICK w \in Workers : w = call[c].slot
  BY DEF PathInv, Holding, Finalize
<1>rec. call' = [call EXCEPT ![c] = [Free EXCEPT !.pc = "release", !.sid = call[c].sid, !.slot
          = w]]
  BY <1>at DEF Finalize
<1>call. /\ \A d \in Callers \ {c} : call'[d] = call[d]
         /\ call'[c].pc = "release"
         /\ call'[c].op = "cell"
         /\ call'[c].sid = call[c].sid
         /\ call'[c].slot = w
         /\ call'[c].bound = FALSE
         /\ call'[c].fresh = FALSE
         /\ call'[c].frame = "none"
         /\ call'[c].code = "none"
         /\ call'[c].why = "keep"
  BY <1>rec, <1>at DEF TypeOK, Calls, Free
<1>same. /\ UNCHANGED <<slot, idle, leased, recycling, gate, reaping, closing, crashes, owed>>
         /\ call[c].pc = "final"
  BY <1>at DEF Finalize, poolvars, outside
<1>rows. /\ rows' \in [Sessions -> Rows \cup {NoRow}]
         /\ \A s \in Sessions : s # call[c].sid => rows'[s] = rows[s]
         /\ \A s \in Sessions : IsCell(c, s) /\ call[c].code \notin Unrun =>
              rows'[s] = [worker |-> w, child |-> slot[w].child] /\ rows'[s] # NoRow
         /\ \A s \in Sessions : call[c].sid = s /\ ~(IsCell(c, s) /\ call[c].code \notin Unrun) =>
              \/ rows'[s] = rows[s]
              \/ rows'[s] = NoRow /\ call[c].op = "reset" /\ call[c].code = "ok"
  <2>1. /\ rows \in [Sessions -> Rows \cup {NoRow}]
        /\ [worker |-> w, child |-> slot[w].child] \in Rows
        /\ [worker |-> w, child |-> slot[w].child] # NoRow
    BY DEF TypeOK, Slots, Rows, NoRow, Workers
  <2>2. rows' = IF call[c].sid = NoSession THEN rows
                ELSE IF call[c].op = "cell" /\ call[c].code \notin Unrun
                THEN [rows EXCEPT ![call[c].sid] = [worker |-> w, child |-> slot[w].child]]
                ELSE IF call[c].op = "reset" /\ call[c].code = "ok" /\ rows[call[c].sid].worker = w
                THEN [rows EXCEPT ![call[c].sid] = NoRow]
                ELSE rows
    BY <1>at DEF Finalize
  <2> QED BY <2>1, <2>2 DEF IsCell
<1>1. TypeOK'
  <2>1. call' \in [Callers -> Calls]
    <3>1. Free \in Calls
      BY DEF Free, Calls, Holding, Frames, Codes
    <3>2. ASSUME NEW x \in Calls, NEW i \in Sessions \cup {NoSession}, NEW n \in Workers
          PROVE  [x EXCEPT !.pc = "release", !.sid = i, !.slot = n] \in Calls
      BY DEF Calls, Holding
    <3>3. [Free EXCEPT !.pc = "release", !.sid = call[c].sid, !.slot = w] \in Calls
      BY <3>1, <3>2, <1>at, <1>call, <1>same, <1>rows, FieldTypes
    <3> QED BY <1>rec, <3>3, CallType DEF TypeOK
  <2> QED BY <2>1, <1>at, <1>call, <1>same, <1>rows DEF TypeOK
<1>2. DeadInv'
  BY <1>at, <1>call, <1>same, <1>rows DEF DeadInv
<1>3. PathInv'
  BY <1>at, <1>call, <1>same, <1>rows DEF PathInv, Holding
<1>4. HolderInv'
  BY <1>at, <1>call, <1>same, <1>rows DEF HolderInv, Holds, Holding, PathInv
<1>5. GateInv'
  BY <1>at, <1>call, <1>same, <1>rows, FieldTypes DEF GateInv, Placed, Asking, Holding, PathInv
<1>6. SpaceInv'
  <2> SUFFICES ASSUME closing = 0, NEW s \in Sessions, NEW v \in Workers, s \in slot[v].spaces
               PROVE  \/ rows'[s] = [worker |-> v, child |-> slot[v].child]
                      \/ \E d \in Callers : Holds(d, v)' /\ IsCell(d, s)'
                                            /\ call'[d].pc \in {"ran", "final"}
                                            /\ call'[d].code \notin Unrun
    BY <1>same DEF SpaceInv
  <2>1. \/ rows[s] = [worker |-> v, child |-> slot[v].child]
        \/ \E d \in Callers : Holds(d, v) /\ IsCell(d, s) /\ call[d].pc \in {"ran", "final"}
                              /\ call[d].code \notin Unrun
    BY DEF SpaceInv
  <2>2. CASE call[c].sid # s
    BY <2>1, <2>2, <1>call, <1>rows DEF IsCell, Holds
  <2>3. CASE call[c].sid = s /\ IsCell(c, s) /\ call[c].code \notin Unrun
    BY <2>3, <1>at, <1>rows, <1>same DEF AskInv, Asking
  <2>4. CASE call[c].sid = s /\ ~(IsCell(c, s) /\ call[c].code \notin Unrun)
    <3>1. rows[s] = [worker |-> v, child |-> slot[v].child]
      BY <2>1, <2>4, <1>same, FieldTypes DEF GateInv, Asking, IsCell
    <3>2. ~(call[c].op = "reset" /\ call[c].code = "ok")
      BY <2>4, <1>same DEF ResetInv
    <3> QED BY <2>4, <3>1, <3>2, <1>rows
  <2> QED BY <2>2, <2>3, <2>4
<1>7. AskInv'
  BY <1>at, <1>call, <1>same, <1>rows DEF AskInv, Asking
<1>8. OneNamespace'
  BY <1>at, <1>call, <1>same, <1>rows DEF OneNamespace
<1>9. RowInv'
  BY <1>at, <1>call, <1>same, <1>rows, FieldTypes DEF RowInv, Asking, PathInv, GateInv, Placed,
       Holding
<1>10. DueInv'
  BY <1>at, <1>call, <1>same, <1>rows DEF DueInv, Holds, Holding, HolderInv
<1>11. RetireInv'
  BY <1>at, <1>call, <1>same, <1>rows DEF RetireInv, Holds, Holding, HolderInv
<1>12. ShutInv'
  BY <1>at, <1>call, <1>same, <1>rows DEF ShutInv
<1>13. TellInv'
  <2> SUFFICES ASSUME closing = 0, NEW s \in owed, s \in Sessions
               PROVE  \/ rows'[s] # NoRow
                      \/ \E d \in Callers : IsCell(d, s)' /\ call'[d].code \notin Unrun
                                            /\ call'[d].pc \in {"ran", "final"}
    BY <1>same DEF TellInv, TypeOK
  <2>1. \/ rows[s] # NoRow
        \/ \E d \in Callers : IsCell(d, s) /\ call[d].code \notin Unrun
                              /\ call[d].pc \in {"ran", "final"}
    BY DEF TellInv
  <2>2. CASE call[c].sid # s
    BY <2>1, <2>2, <1>call, <1>rows DEF IsCell
  <2>3. CASE call[c].sid = s /\ IsCell(c, s) /\ call[c].code \notin Unrun
    BY <2>3, <1>rows
  <2>4. CASE call[c].sid = s /\ ~(IsCell(c, s) /\ call[c].code \notin Unrun)
    <3>1. rows[s] # NoRow
      BY <2>1, <2>4, <1>same, FieldTypes DEF GateInv, Asking, IsCell
    <3>2. ~(call[c].op = "reset" /\ call[c].code = "ok")
      BY <2>4, <1>same DEF ResetInv
    <3> QED BY <2>4, <3>1, <3>2, <1>rows
  <2> QED BY <2>2, <2>3, <2>4
<1>14. BoundInv'
  BY <1>at, <1>call, <1>same, <1>rows, FieldTypes DEF BoundInv, IsCell, GateInv, Placed, Holding
<1>15. ResetInv'
  BY <1>at, <1>call, <1>same, <1>rows DEF ResetInv
<1>16. FreshInv'
  BY <1>at, <1>call, <1>same, <1>rows DEF FreshInv, IsCell
<1>17. ResetTold'
  BY <1>at, <1>call, <1>same, <1>rows DEF ResetTold, Holders, Holding
<1> QED BY <1>1, <1>2, <1>3, <1>4, <1>5, <1>6, <1>7, <1>8, <1>9, <1>10, <1>11, <1>12, <1>13,
        <1>14, <1>15, <1>16, <1>17

LEMMA WeighStep ==
  ASSUME IInv, NEW c \in Callers, Weigh(c)
  PROVE  IInv'
<1> USE PoolAssumption DEF IInv
<1>pick. PICK y \in {"keep", "exit", "recycle"} :
           call' = [call EXCEPT ![c].pc = "settle", ![c].why = y]
  BY DEF Weigh
<1>at. PICK w \in Workers : w = call[c].slot
  BY DEF PathInv, Holding, Weigh
<1>rec. call' = [call EXCEPT ![c] = [call[c] EXCEPT !.pc = "settle", !.why = y]]
  BY <1>pick, <1>at DEF Weigh
<1>call. /\ \A d \in Callers \ {c} : call'[d] = call[d]
         /\ call'[c].pc = "settle"
         /\ call'[c].why = y
         /\ call'[c].op = call[c].op /\ call'[c].sid = call[c].sid /\ call'[c].slot = call[c].slot
         /\ call'[c].bound = call[c].bound /\ call'[c].fresh = call[c].fresh
         /\ call'[c].frame = call[c].frame /\ call'[c].code = call[c].code
  BY <1>rec, <1>pick, <1>at DEF TypeOK, Calls
<1>same. /\ UNCHANGED <<slot, idle, leased, rows, gate, reaping, closing, crashes, owed>>
         /\ call[c].pc = "release"
         /\ recycling' \subseteq Workers
  BY <1>pick, <1>at DEF Weigh, poolvars, outside, Marked, TypeOK
<1>1. TypeOK'
  <2>1. call' \in [Callers -> Calls]
    <3>1. call[c] \in Calls
      BY DEF TypeOK
    <3>2. ASSUME NEW x \in Calls, NEW z \in {"keep", "exit", "recycle"}
          PROVE  [x EXCEPT !.pc = "settle", !.why = z] \in Calls
      BY DEF Calls, Holding
    <3>3. [call[c] EXCEPT !.pc = "settle", !.why = y] \in Calls
      BY <3>1, <3>2, <1>at, <1>call, <1>same, <1>pick
    <3> QED BY <1>rec, <3>3, CallType DEF TypeOK
  <2> QED BY <2>1, <1>at, <1>call, <1>same DEF TypeOK
<1>2. DeadInv'
  BY <1>at, <1>call, <1>same DEF DeadInv
<1>3. PathInv'
  BY <1>at, <1>call, <1>same DEF PathInv, Holding
<1>4. HolderInv'
  BY <1>at, <1>call, <1>same DEF HolderInv, Holds, Holding, PathInv
<1>5. GateInv'
  BY <1>at, <1>call, <1>same, FieldTypes DEF GateInv, Placed, Asking, Holding, PathInv
<1>6. SpaceInv'
  BY <1>at, <1>call, <1>same, FieldTypes DEF SpaceInv, Holds, IsCell, Holding
<1>7. AskInv'
  BY <1>at, <1>call, <1>same DEF AskInv, Asking
<1>8. OneNamespace'
  BY <1>at, <1>call, <1>same DEF OneNamespace
<1>9. RowInv'
  BY <1>at, <1>call, <1>same DEF RowInv, Asking, PathInv
<1>10. DueInv'
  BY <1>at, <1>call, <1>same DEF DueInv, Holds, Holding, HolderInv
<1>11. RetireInv'
  BY <1>at, <1>call, <1>same DEF RetireInv, Holds, Holding, HolderInv
<1>12. ShutInv'
  BY <1>at, <1>call, <1>same DEF ShutInv
<1>13. TellInv'
  BY <1>at, <1>call, <1>same DEF TellInv, IsCell
<1>14. BoundInv'
  BY <1>at, <1>call, <1>same DEF BoundInv, IsCell
<1>15. ResetInv'
  BY <1>at, <1>call, <1>same DEF ResetInv
<1>16. FreshInv'
  BY <1>at, <1>call, <1>same DEF FreshInv, IsCell
<1>17. ResetTold'
  BY <1>at, <1>call, <1>same DEF ResetTold, Holders, Holding
<1> QED BY <1>1, <1>2, <1>3, <1>4, <1>5, <1>6, <1>7, <1>8, <1>9, <1>10, <1>11, <1>12, <1>13,
        <1>14, <1>15, <1>16, <1>17

LEMMA SettleRetireStep ==
  ASSUME IInv, NEW c \in Callers, Settle(c), Retires(c)
  PROVE  IInv'
<1> USE PoolAssumption DEF IInv
<1>at. PICK w \in Workers : w = call[c].slot
  BY DEF PathInv, Holding, Settle, Retires, To
<1>rec. call' = [call EXCEPT ![c] = [call[c] EXCEPT !.pc = "reap"]]
  BY <1>at DEF Settle, Retires, To
<1>call. /\ \A d \in Callers \ {c} : call'[d] = call[d]
         /\ call'[c].pc = "reap"
         /\ call'[c].op = call[c].op /\ call'[c].sid = call[c].sid /\ call'[c].slot = call[c].slot
         /\ call'[c].bound = call[c].bound /\ call'[c].fresh = call[c].fresh
         /\ call'[c].frame = call[c].frame /\ call'[c].code = call[c].code
         /\ call'[c].why = call[c].why
  BY <1>rec, <1>at DEF TypeOK, Calls
<1>same. /\ UNCHANGED <<slot, idle, leased, rows, gate, reaping, closing, crashes, owed>>
         /\ call[c].pc = "settle" /\ closing = 0
         /\ recycling' \subseteq Workers
  BY <1>at DEF Settle, Retires, To, poolvars, outside, Marked, TypeOK
<1>empty. call[c].why = "recycle" => slot[w].spaces = {}
  <2> SUFFICES ASSUME call[c].why = "recycle", NEW s \in slot[w].spaces PROVE FALSE
    OBVIOUS
  <2>1. Hosted(w) = {} /\ slot[w].alive
    BY <1>at DEF Retires, DueRecycle
  <2>2. rows[s] # [worker |-> w, child |-> slot[w].child] /\ s \in Sessions
    BY <2>1, FieldTypes DEF Hosted, Live, NoRow, Workers
  <2>3. PICK d \in Callers : Holds(d, w) /\ call[d].pc \in {"ran", "final"}
    BY <2>2, <1>same DEF SpaceInv
  <2> QED BY <2>3, <1>at, <1>same DEF HolderInv, Holds, Holding
<1>1. TypeOK'
  <2>1. call' \in [Callers -> Calls]
    <3>1. call[c] \in Calls
      BY DEF TypeOK
    <3>2. ASSUME NEW x \in Calls
          PROVE  [x EXCEPT !.pc = "reap"] \in Calls
      BY <1>same DEF Calls, Holding
    <3>3. [call[c] EXCEPT !.pc = "reap"] \in Calls
      BY <3>1, <3>2, <1>at, <1>call, <1>same, <1>empty
    <3> QED BY <1>rec, <3>3, CallType DEF TypeOK
  <2> QED BY <2>1, <1>at, <1>call, <1>same, <1>empty DEF TypeOK
<1>2. DeadInv'
  BY <1>at, <1>call, <1>same, <1>empty DEF DeadInv
<1>3. PathInv'
  BY <1>at, <1>call, <1>same, <1>empty DEF PathInv, Holding
<1>4. HolderInv'
  BY <1>at, <1>call, <1>same, <1>empty DEF HolderInv, Holds, Holding, PathInv
<1>5. GateInv'
  BY <1>at, <1>call, <1>same, <1>empty, FieldTypes DEF GateInv, Placed, Asking, Holding, PathInv
<1>6. SpaceInv'
  BY <1>at, <1>call, <1>same, <1>empty, FieldTypes DEF SpaceInv, Holds, IsCell, Holding
<1>7. AskInv'
  BY <1>at, <1>call, <1>same, <1>empty DEF AskInv, Asking
<1>8. OneNamespace'
  BY <1>at, <1>call, <1>same, <1>empty DEF OneNamespace
<1>9. RowInv'
  BY <1>at, <1>call, <1>same, <1>empty DEF RowInv, Asking, PathInv
<1>10. DueInv'
  BY <1>at, <1>call, <1>same, <1>empty DEF DueInv, Holds, Holding, HolderInv
<1>11. RetireInv'
  BY <1>at, <1>call, <1>same, <1>empty DEF RetireInv, Holds, Holding, HolderInv
<1>12. ShutInv'
  BY <1>at, <1>call, <1>same, <1>empty DEF ShutInv
<1>13. TellInv'
  BY <1>at, <1>call, <1>same, <1>empty DEF TellInv, IsCell
<1>14. BoundInv'
  BY <1>at, <1>call, <1>same, <1>empty DEF BoundInv, IsCell
<1>15. ResetInv'
  BY <1>at, <1>call, <1>same, <1>empty DEF ResetInv
<1>16. FreshInv'
  BY <1>at, <1>call, <1>same, <1>empty DEF FreshInv, IsCell
<1>17. ResetTold'
  BY <1>at, <1>call, <1>same, <1>empty DEF ResetTold, Holders, Holding
<1> QED BY <1>1, <1>2, <1>3, <1>4, <1>5, <1>6, <1>7, <1>8, <1>9, <1>10, <1>11, <1>12, <1>13,
        <1>14, <1>15, <1>16, <1>17

LEMMA SettleReturnStep ==
  ASSUME IInv, NEW c \in Callers, Settle(c), ~Retires(c)
  PROVE  IInv'
<1> USE PoolAssumption DEF IInv
<1>at. PICK w \in Workers : w = call[c].slot
  BY DEF PathInv, Holding, Settle, Retires, Return
<1>rec. call' = [call EXCEPT ![c] = Free]
  BY <1>at DEF Settle, Retires, Return
<1>call. /\ \A d \in Callers \ {c} : call'[d] = call[d]
         /\ call'[c].pc = "free"
         /\ call'[c].op = "cell"
         /\ call'[c].sid = NoSession
         /\ call'[c].slot = 0
         /\ call'[c].bound = FALSE
         /\ call'[c].fresh = FALSE
         /\ call'[c].frame = "none"
         /\ call'[c].code = "none"
         /\ call'[c].why = "keep"
  BY <1>rec, <1>at DEF TypeOK, Calls, Free
<1>same. /\ UNCHANGED <<slot, rows, reaping, closing, crashes, owed>>
         /\ gate' = [s \in Sessions |-> IF gate[s] = c THEN Nobody ELSE gate[s]]
         /\ call[c].pc = "settle" /\ closing = 0
         /\ recycling' \subseteq Workers
         /\ leased' = leased \ {w}
         /\ w \in leased
  BY <1>at DEF Settle, Retires, Return, poolvars, outside, Marked, TypeOK, HolderInv, Holding
<1>idle. /\ idle' \in Seq(Workers) /\ IsDistinct(idle')
         /\ \A v \in Workers : v # w => (Contains(idle', v) <=> Contains(idle, v))
         /\ slot[w].alive => Contains(idle', w)
  <2>1. idle \in Seq(Workers) /\ IsDistinct(idle) /\ ~Contains(idle, w)
    BY <1>same DEF TypeOK, HolderInv
  <2>2. idle' = IF slot[w].alive THEN Append(idle, w) ELSE idle
    BY <1>at DEF Settle, Retires, GoesIdle
  <2> QED BY <2>1, <2>2, AppendContains
<1>1. TypeOK'
  <2>1. call' \in [Callers -> Calls]
    <3>1. Free \in Calls
      BY DEF Free, Calls, Holding, Frames, Codes
    <3> QED BY <1>rec, <3>1, CallType DEF TypeOK
  <2> QED BY <2>1, <1>at, <1>call, <1>same, <1>idle DEF TypeOK
<1>2. DeadInv'
  BY <1>at, <1>call, <1>same, <1>idle DEF DeadInv
<1>3. PathInv'
  BY <1>at, <1>call, <1>same, <1>idle DEF PathInv, Holding
<1>4. HolderInv'
  BY <1>at, <1>call, <1>same, <1>idle DEF HolderInv, Holds, Holding, PathInv
<1>5. GateInv'
  BY <1>at, <1>call, <1>same, <1>idle, FieldTypes DEF GateInv, Placed, Asking, Holding, PathInv
<1>6. SpaceInv'
  BY <1>at, <1>call, <1>same, <1>idle, FieldTypes DEF SpaceInv, Holds, IsCell, Holding
<1>7. AskInv'
  BY <1>at, <1>call, <1>same, <1>idle DEF AskInv, Asking
<1>8. OneNamespace'
  BY <1>at, <1>call, <1>same, <1>idle DEF OneNamespace
<1>9. RowInv'
  BY <1>at, <1>call, <1>same, <1>idle DEF RowInv, Asking, PathInv
<1>10. DueInv'
  BY <1>at, <1>call, <1>same, <1>idle DEF DueInv, Holds, Holding, HolderInv
<1>11. RetireInv'
  BY <1>at, <1>call, <1>same, <1>idle DEF RetireInv, Holds, Holding, HolderInv
<1>12. ShutInv'
  BY <1>at, <1>call, <1>same, <1>idle DEF ShutInv
<1>13. TellInv'
  BY <1>at, <1>call, <1>same, <1>idle DEF TellInv, IsCell
<1>14. BoundInv'
  BY <1>at, <1>call, <1>same, <1>idle DEF BoundInv, IsCell
<1>15. ResetInv'
  BY <1>at, <1>call, <1>same, <1>idle DEF ResetInv
<1>16. FreshInv'
  BY <1>at, <1>call, <1>same, <1>idle DEF FreshInv, IsCell
<1>17. ResetTold'
  BY <1>at, <1>call, <1>same, <1>idle DEF ResetTold, Holders, Holding
<1> QED BY <1>1, <1>2, <1>3, <1>4, <1>5, <1>6, <1>7, <1>8, <1>9, <1>10, <1>11, <1>12, <1>13,
        <1>14, <1>15, <1>16, <1>17

LEMMA SettleClosedStep ==
  ASSUME IInv, NEW c \in Callers, SettleClosed(c)
  PROVE  IInv'
<1> USE PoolAssumption DEF IInv
<1>at. PICK w \in Workers : w = call[c].slot
  BY DEF PathInv, Holding, SettleClosed, Return
<1>rec. call' = [call EXCEPT ![c] = Free]
  BY <1>at DEF SettleClosed, Return
<1>call. /\ \A d \in Callers \ {c} : call'[d] = call[d]
         /\ call'[c].pc = "free"
         /\ call'[c].op = "cell"
         /\ call'[c].sid = NoSession
         /\ call'[c].slot = 0
         /\ call'[c].bound = FALSE
         /\ call'[c].fresh = FALSE
         /\ call'[c].frame = "none"
         /\ call'[c].code = "none"
         /\ call'[c].why = "keep"
  BY <1>rec, <1>at DEF TypeOK, Calls, Free
<1>kill. /\ slot' \in [Workers -> Slots]
         /\ \A v \in Workers \ {w} : slot'[v] = slot[v]
         /\ ~slot'[w].alive /\ ~slot'[w].due /\ slot'[w].spaces = {}
         /\ slot'[w].child = slot[w].child
         /\ owed' = owed \cup slot[w].spaces /\ owed' \subseteq Sessions
  <2>1. Kill(w)
    BY <1>at DEF SettleClosed, Return
  <2> QED BY <2>1, KillFacts
<1>same. /\ UNCHANGED <<idle, recycling, rows, reaping, closing, crashes>>
         /\ gate' = [s \in Sessions |-> IF gate[s] = c THEN Nobody ELSE gate[s]]
         /\ call[c].pc = "settle" /\ closing > 0
         /\ leased' = leased \ {w}
  BY <1>at DEF SettleClosed, Return, poolvars, outside
<1>1. TypeOK'
  <2>1. call' \in [Callers -> Calls]
    <3>1. Free \in Calls
      BY DEF Free, Calls, Holding, Frames, Codes
    <3> QED BY <1>rec, <3>1, CallType DEF TypeOK
  <2> QED BY <2>1, <1>at, <1>call, <1>kill, <1>same DEF TypeOK
<1>2. DeadInv'
  BY <1>at, <1>call, <1>kill, <1>same DEF DeadInv
<1>3. PathInv'
  BY <1>at, <1>call, <1>kill, <1>same DEF PathInv, Holding
<1>4. HolderInv'
  BY <1>at, <1>call, <1>kill, <1>same DEF HolderInv, Holds, Holding, PathInv
<1>5. GateInv'
  BY <1>at, <1>call, <1>kill, <1>same, FieldTypes DEF GateInv, Placed, Asking, Holding, PathInv
<1>6. SpaceInv'
  BY <1>at, <1>call, <1>kill, <1>same, FieldTypes DEF SpaceInv, Holds, IsCell, Holding
<1>7. AskInv'
  BY <1>at, <1>call, <1>kill, <1>same DEF AskInv, Asking
<1>8. OneNamespace'
  BY <1>at, <1>call, <1>kill, <1>same DEF OneNamespace
<1>9. RowInv'
  BY <1>at, <1>call, <1>kill, <1>same DEF RowInv, Asking, PathInv
<1>10. DueInv'
  BY <1>at, <1>call, <1>kill, <1>same DEF DueInv, Holds, Holding, HolderInv
<1>11. RetireInv'
  BY <1>at, <1>call, <1>kill, <1>same DEF RetireInv, Holds, Holding, HolderInv
<1>12. ShutInv'
  BY <1>at, <1>call, <1>kill, <1>same DEF ShutInv
<1>13. TellInv'
  BY <1>at, <1>call, <1>kill, <1>same, KillTells DEF TellInv, IsCell
<1>14. BoundInv'
  BY <1>at, <1>call, <1>kill, <1>same DEF BoundInv, IsCell
<1>15. ResetInv'
  BY <1>at, <1>call, <1>kill, <1>same, KillTells DEF ResetInv
<1>16. FreshInv'
  BY <1>at, <1>call, <1>kill, <1>same, KillTells DEF FreshInv, IsCell
<1>17. ResetTold'
  BY <1>at, <1>call, <1>kill, <1>same, KillTells DEF ResetTold, Holders, Holding
<1> QED BY <1>1, <1>2, <1>3, <1>4, <1>5, <1>6, <1>7, <1>8, <1>9, <1>10, <1>11, <1>12, <1>13,
        <1>14, <1>15, <1>16, <1>17

LEMMA ReapStep ==
  ASSUME IInv, NEW c \in Callers, Reap(c)
  PROVE  IInv'
<1> USE PoolAssumption DEF IInv
<1>at. PICK w \in Workers : w = call[c].slot
  BY DEF PathInv, Holding, Reap, To
<1>rec. call' = [call EXCEPT ![c] = [call[c] EXCEPT !.pc = "drop"]]
  BY <1>at DEF Reap, To
<1>call. /\ \A d \in Callers \ {c} : call'[d] = call[d]
         /\ call'[c].pc = "drop"
         /\ call'[c].op = call[c].op /\ call'[c].sid = call[c].sid /\ call'[c].slot = call[c].slot
         /\ call'[c].bound = call[c].bound /\ call'[c].fresh = call[c].fresh
         /\ call'[c].frame = call[c].frame /\ call'[c].code = call[c].code
         /\ call'[c].why = call[c].why
  BY <1>rec, <1>at DEF TypeOK, Calls
<1>same. /\ UNCHANGED <<idle, leased, rows, gate, reaping, closing, crashes>>
         /\ call[c].pc = "reap"
         /\ recycling' \subseteq Workers
  BY <1>at DEF Reap, To, poolvars, outside, TypeOK
<1>kill. /\ slot' \in [Workers -> Slots]
         /\ \A v \in Workers \ {w} : slot'[v] = slot[v]
         /\ ~slot'[w].alive /\ ~slot'[w].due /\ slot'[w].spaces = {}
         /\ slot'[w].child = slot[w].child
         /\ owed' = owed \cup slot[w].spaces /\ owed' \subseteq Sessions
  <2>1. slot[w].spaces \subseteq Sessions
    BY FieldTypes
  <2>2. ASSUME NEW x \in Slots
        PROVE  /\ [x EXCEPT !.exiting = FALSE] \in Slots
               /\ [x EXCEPT !.exiting = FALSE].alive = x.alive
               /\ [x EXCEPT !.exiting = FALSE].due = x.due
               /\ [x EXCEPT !.exiting = FALSE].spaces = x.spaces
               /\ [x EXCEPT !.exiting = FALSE].child = x.child
    BY DEF Slots
  <2>3. PICK r \in Slots : r = [DeadSlot(w) EXCEPT !.exiting = FALSE]
    BY <2>2, DeadType
  <2>4. ~r.alive /\ ~r.due /\ r.spaces = {} /\ r.child = slot[w].child
    BY <2>2, <2>3, DeadType
  <2>5. slot' = [slot EXCEPT ![w] = r] /\ owed' = owed \cup slot[w].spaces
    BY <1>at, <2>3 DEF Reap
  <2> QED BY <2>1, <2>4, <2>5 DEF TypeOK
<1>1. TypeOK'
  <2>1. call' \in [Callers -> Calls]
    <3>1. call[c] \in Calls
      BY DEF TypeOK
    <3>2. ASSUME NEW x \in Calls
          PROVE  [x EXCEPT !.pc = "drop"] \in Calls
      BY <1>same DEF Calls, Holding
    <3>3. [call[c] EXCEPT !.pc = "drop"] \in Calls
      BY <3>1, <3>2, <1>at, <1>call, <1>same, <1>kill
    <3> QED BY <1>rec, <3>3, CallType DEF TypeOK
  <2> QED BY <2>1, <1>at, <1>call, <1>same, <1>kill DEF TypeOK
<1>2. DeadInv'
  BY <1>at, <1>call, <1>same, <1>kill DEF DeadInv
<1>3. PathInv'
  BY <1>at, <1>call, <1>same, <1>kill DEF PathInv, Holding
<1>4. HolderInv'
  BY <1>at, <1>call, <1>same, <1>kill DEF HolderInv, Holds, Holding, PathInv
<1>5. GateInv'
  BY <1>at, <1>call, <1>same, <1>kill, FieldTypes DEF GateInv, Placed, Asking, Holding, PathInv
<1>6. SpaceInv'
  BY <1>at, <1>call, <1>same, <1>kill, FieldTypes DEF SpaceInv, Holds, IsCell, Holding
<1>7. AskInv'
  BY <1>at, <1>call, <1>same, <1>kill DEF AskInv, Asking
<1>8. OneNamespace'
  BY <1>at, <1>call, <1>same, <1>kill DEF OneNamespace
<1>9. RowInv'
  BY <1>at, <1>call, <1>same, <1>kill DEF RowInv, Asking, PathInv
<1>10. DueInv'
  BY <1>at, <1>call, <1>same, <1>kill DEF DueInv, Holds, Holding, HolderInv
<1>11. RetireInv'
  BY <1>at, <1>call, <1>same, <1>kill DEF RetireInv, Holds, Holding, HolderInv
<1>12. ShutInv'
  BY <1>at, <1>call, <1>same, <1>kill DEF ShutInv
<1>13. TellInv'
  BY <1>at, <1>call, <1>same, <1>kill, KillTells DEF TellInv, IsCell
<1>14. BoundInv'
  BY <1>at, <1>call, <1>same, <1>kill DEF BoundInv, IsCell
<1>15. ResetInv'
  BY <1>at, <1>call, <1>same, <1>kill, KillTells DEF ResetInv
<1>16. FreshInv'
  BY <1>at, <1>call, <1>same, <1>kill, KillTells DEF FreshInv, IsCell
<1>17. ResetTold'
  BY <1>at, <1>call, <1>same, <1>kill, KillTells DEF ResetTold, Holders, Holding
<1> QED BY <1>1, <1>2, <1>3, <1>4, <1>5, <1>6, <1>7, <1>8, <1>9, <1>10, <1>11, <1>12, <1>13,
        <1>14, <1>15, <1>16, <1>17

LEMMA DropLeaseStep ==
  ASSUME IInv, NEW c \in Callers, DropLease(c)
  PROVE  IInv'
<1> USE PoolAssumption DEF IInv
<1>at. PICK w \in Workers : w = call[c].slot
  BY DEF PathInv, Holding, DropLease, Return
<1>rec. call' = [call EXCEPT ![c] = Free]
  BY <1>at DEF DropLease, Return
<1>call. /\ \A d \in Callers \ {c} : call'[d] = call[d]
         /\ call'[c].pc = "free"
         /\ call'[c].op = "cell"
         /\ call'[c].sid = NoSession
         /\ call'[c].slot = 0
         /\ call'[c].bound = FALSE
         /\ call'[c].fresh = FALSE
         /\ call'[c].frame = "none"
         /\ call'[c].code = "none"
         /\ call'[c].why = "keep"
  BY <1>rec, <1>at DEF TypeOK, Calls, Free
<1>same. /\ UNCHANGED <<slot, idle, recycling, rows, reaping, closing, crashes, owed>>
         /\ gate' = [s \in Sessions |-> IF gate[s] = c THEN Nobody ELSE gate[s]]
         /\ call[c].pc = "drop"
         /\ leased' = leased \ {w}
  BY <1>at DEF DropLease, Return, poolvars, outside
<1>1. TypeOK'
  <2>1. call' \in [Callers -> Calls]
    <3>1. Free \in Calls
      BY DEF Free, Calls, Holding, Frames, Codes
    <3> QED BY <1>rec, <3>1, CallType DEF TypeOK
  <2> QED BY <2>1, <1>at, <1>call, <1>same DEF TypeOK
<1>2. DeadInv'
  BY <1>at, <1>call, <1>same DEF DeadInv
<1>3. PathInv'
  BY <1>at, <1>call, <1>same DEF PathInv, Holding
<1>4. HolderInv'
  BY <1>at, <1>call, <1>same DEF HolderInv, Holds, Holding, PathInv, RetireInv
<1>5. GateInv'
  BY <1>at, <1>call, <1>same, FieldTypes DEF GateInv, Placed, Asking, Holding, PathInv
<1>6. SpaceInv'
  BY <1>at, <1>call, <1>same, FieldTypes DEF SpaceInv, Holds, IsCell, Holding
<1>7. AskInv'
  BY <1>at, <1>call, <1>same DEF AskInv, Asking
<1>8. OneNamespace'
  BY <1>at, <1>call, <1>same DEF OneNamespace
<1>9. RowInv'
  BY <1>at, <1>call, <1>same DEF RowInv, Asking, PathInv
<1>10. DueInv'
  BY <1>at, <1>call, <1>same DEF DueInv, Holds, Holding, HolderInv
<1>11. RetireInv'
  BY <1>at, <1>call, <1>same DEF RetireInv, Holds, Holding, HolderInv
<1>12. ShutInv'
  BY <1>at, <1>call, <1>same DEF ShutInv
<1>13. TellInv'
  BY <1>at, <1>call, <1>same DEF TellInv, IsCell
<1>14. BoundInv'
  BY <1>at, <1>call, <1>same DEF BoundInv, IsCell
<1>15. ResetInv'
  BY <1>at, <1>call, <1>same DEF ResetInv
<1>16. FreshInv'
  BY <1>at, <1>call, <1>same DEF FreshInv, IsCell
<1>17. ResetTold'
  BY <1>at, <1>call, <1>same DEF ResetTold, Holders, Holding
<1> QED BY <1>1, <1>2, <1>3, <1>4, <1>5, <1>6, <1>7, <1>8, <1>9, <1>10, <1>11, <1>12, <1>13,
        <1>14, <1>15, <1>16, <1>17

LEMMA ExpireRowStep ==
  ASSUME IInv, NEW s \in Sessions, ExpireRow(s)
  PROVE  IInv'
<1> USE PoolAssumption DEF IInv
<1>same. /\ UNCHANGED <<slot, idle, leased, recycling, gate, call, reaping, closing, crashes>>
         /\ closing = 0 /\ ~Live(rows[s])
         /\ rows' = [rows EXCEPT ![s] = NoRow]
         /\ owed' = owed \ {s}
         /\ rows'[s] = NoRow /\ \A r \in Sessions \ {s} : rows'[r] = rows[r]
  BY DEF ExpireRow, poolvars, outside, TypeOK
<1>dead. \A w \in Workers : s \in slot[w].spaces =>
            rows[s] # [worker |-> w, child |-> slot[w].child]
  BY <1>same DEF DeadInv, Live, NoRow, Workers
<1>1. TypeOK'
  <2> QED BY <1>same, <1>dead DEF TypeOK
<1>2. DeadInv'
  BY <1>same, <1>dead DEF DeadInv
<1>3. PathInv'
  BY <1>same, <1>dead DEF PathInv, Holding
<1>4. HolderInv'
  BY <1>same, <1>dead DEF HolderInv, Holds, Holding, PathInv
<1>5. GateInv'
  BY <1>same, <1>dead, FieldTypes DEF GateInv, Placed, Asking, Holding, PathInv
<1>6. SpaceInv'
  BY <1>same, <1>dead, FieldTypes DEF SpaceInv, Holds, IsCell, Holding
<1>7. AskInv'
  BY <1>same, <1>dead DEF AskInv, Asking
<1>8. OneNamespace'
  BY <1>same, <1>dead DEF OneNamespace
<1>9. RowInv'
  BY <1>same, <1>dead DEF RowInv, Asking, PathInv
<1>10. DueInv'
  BY <1>same, <1>dead DEF DueInv, Holds, Holding, HolderInv
<1>11. RetireInv'
  BY <1>same, <1>dead DEF RetireInv, Holds, Holding, HolderInv
<1>12. ShutInv'
  BY <1>same, <1>dead DEF ShutInv
<1>13. TellInv'
  BY <1>same, <1>dead DEF TellInv, IsCell
<1>14. BoundInv'
  BY <1>same, <1>dead DEF BoundInv, IsCell
<1>15. ResetInv'
  BY <1>same, <1>dead DEF ResetInv
<1>16. FreshInv'
  BY <1>same, <1>dead DEF FreshInv, IsCell
<1>17. ResetTold'
  BY <1>same, <1>dead DEF ResetTold, Holders, Holding
<1> QED BY <1>1, <1>2, <1>3, <1>4, <1>5, <1>6, <1>7, <1>8, <1>9, <1>10, <1>11, <1>12, <1>13,
        <1>14, <1>15, <1>16, <1>17

LEMMA EvictStep ==
  ASSUME IInv, Evict
  PROVE  IInv'
<1> USE PoolAssumption DEF IInv
<1>pick. PICK n \in 1 .. Len(LivingIdle) :
           /\ reaping' = SubSeq(LivingIdle, 1, n)
           /\ idle' = SubSeq(LivingIdle, n + 1, Len(LivingIdle))
  BY DEF Evict
<1>idle. /\ idle' \in Seq(Workers) /\ reaping' \in Seq(Workers)
         /\ (IsDistinct(idle) => IsDistinct(idle'))
         /\ \A w \in Workers : Contains(idle', w) => Contains(idle, w)
         /\ \A w \in Workers : Contains(idle, w) /\ slot[w].alive =>
              Contains(idle', w) \/ Contains(reaping', w)
  BY <1>pick, LivingIdleProperties, SplitContains
<1>same. /\ UNCHANGED <<slot, leased, recycling, rows, gate, call, closing, crashes, owed>>
         /\ closing = 0 /\ reaping = <<>>
  BY DEF Evict, poolvars, outside
<1>1. TypeOK'
  <2> QED BY <1>same, <1>idle DEF TypeOK
<1>2. DeadInv'
  BY <1>same, <1>idle DEF DeadInv
<1>3. PathInv'
  BY <1>same, <1>idle DEF PathInv, Holding
<1>4. HolderInv'
  BY <1>same, <1>idle, EmptyContains DEF HolderInv, Holds, Holding, PathInv
<1>5. GateInv'
  BY <1>same, <1>idle, FieldTypes DEF GateInv, Placed, Asking, Holding, PathInv
<1>6. SpaceInv'
  BY <1>same, <1>idle, FieldTypes DEF SpaceInv, Holds, IsCell, Holding
<1>7. AskInv'
  BY <1>same, <1>idle DEF AskInv, Asking
<1>8. OneNamespace'
  BY <1>same, <1>idle DEF OneNamespace
<1>9. RowInv'
  BY <1>same, <1>idle DEF RowInv, Asking, PathInv
<1>10. DueInv'
  BY <1>same, <1>idle DEF DueInv, Holds, Holding, HolderInv
<1>11. RetireInv'
  BY <1>same, <1>idle DEF RetireInv, Holds, Holding, HolderInv
<1>12. ShutInv'
  BY <1>same, <1>idle DEF ShutInv
<1>13. TellInv'
  BY <1>same, <1>idle DEF TellInv, IsCell
<1>14. BoundInv'
  BY <1>same, <1>idle DEF BoundInv, IsCell
<1>15. ResetInv'
  BY <1>same, <1>idle DEF ResetInv
<1>16. FreshInv'
  BY <1>same, <1>idle DEF FreshInv, IsCell
<1>17. ResetTold'
  BY <1>same, <1>idle DEF ResetTold, Holders, Holding
<1> QED BY <1>1, <1>2, <1>3, <1>4, <1>5, <1>6, <1>7, <1>8, <1>9, <1>10, <1>11, <1>12, <1>13,
        <1>14, <1>15, <1>16, <1>17

LEMMA EvictKillStep ==
  ASSUME IInv, EvictKill
  PROVE  IInv'
<1> USE PoolAssumption DEF IInv
<1>pick. PICK w \in Workers : w = Head(reaping)
  BY TailContains DEF EvictKill, TypeOK
<1>reaping. /\ reaping' \in Seq(Workers)
            /\ \A v \in Workers : Contains(reaping, v) => Contains(reaping', v) \/ v = w
  BY <1>pick, TailContains DEF EvictKill, TypeOK
<1>kill. /\ slot' \in [Workers -> Slots]
         /\ \A v \in Workers \ {w} : slot'[v] = slot[v]
         /\ ~slot'[w].alive /\ ~slot'[w].due /\ slot'[w].spaces = {}
         /\ slot'[w].child = slot[w].child
         /\ owed' = owed \cup slot[w].spaces /\ owed' \subseteq Sessions
  <2>1. Kill(w)
    BY <1>pick DEF EvictKill
  <2> QED BY <2>1, KillFacts
<1>same. /\ UNCHANGED <<idle, leased, recycling, rows, gate, call, closing, crashes>>
  BY <1>pick DEF EvictKill, poolvars, outside
<1>1. TypeOK'
  <2> QED BY <1>kill, <1>same, <1>reaping DEF TypeOK
<1>2. DeadInv'
  BY <1>kill, <1>same, <1>reaping DEF DeadInv
<1>3. PathInv'
  BY <1>kill, <1>same, <1>reaping DEF PathInv, Holding
<1>4. HolderInv'
  BY <1>kill, <1>same, <1>reaping DEF HolderInv, Holds, Holding, PathInv
<1>5. GateInv'
  BY <1>kill, <1>same, <1>reaping, FieldTypes DEF GateInv, Placed, Asking, Holding, PathInv
<1>6. SpaceInv'
  BY <1>kill, <1>same, <1>reaping, FieldTypes DEF SpaceInv, Holds, IsCell, Holding
<1>7. AskInv'
  BY <1>kill, <1>same, <1>reaping DEF AskInv, Asking
<1>8. OneNamespace'
  BY <1>kill, <1>same, <1>reaping DEF OneNamespace
<1>9. RowInv'
  BY <1>kill, <1>same, <1>reaping DEF RowInv, Asking, PathInv
<1>10. DueInv'
  BY <1>kill, <1>same, <1>reaping DEF DueInv, Holds, Holding, HolderInv
<1>11. RetireInv'
  BY <1>kill, <1>same, <1>reaping DEF RetireInv, Holds, Holding, HolderInv
<1>12. ShutInv'
  BY <1>kill, <1>same, <1>reaping DEF ShutInv
<1>13. TellInv'
  BY <1>kill, <1>same, <1>reaping, KillTells DEF TellInv, IsCell
<1>14. BoundInv'
  BY <1>kill, <1>same, <1>reaping DEF BoundInv, IsCell
<1>15. ResetInv'
  BY <1>kill, <1>same, <1>reaping, KillTells DEF ResetInv
<1>16. FreshInv'
  <2> SUFFICES ASSUME closing' = 0, NEW d \in Callers, NEW s \in owed', NEW v \in Workers,
                      call'[d].pc = "ran", IsCell(d, s)', s \in slot'[v].spaces \ slot'[v].untold
               PROVE  call'[d].bound /\ call'[d].fresh
    BY DEF FreshInv
  <2>1. closing = 0 /\ v # w /\ slot'[v] = slot[v]
    BY <1>kill, <1>same
  <2>2. s \in owed
    BY <2>1, <1>kill, KillTells
  <2> QED BY <2>1, <2>2, <1>same DEF FreshInv, IsCell
<1>17. ResetTold'
  <2> SUFFICES ASSUME closing' = 0, NEW s \in owed', NEW v \in Workers,
                      s \in slot'[v].spaces \ slot'[v].untold
               PROVE  \E d \in Holders(v)' : call'[d].pc = "ran" /\ call'[d].sid = s
    BY DEF ResetTold
  <2>1. closing = 0 /\ v # w /\ slot'[v] = slot[v]
    BY <1>kill, <1>same
  <2>2. s \in owed
    BY <2>1, <1>kill, KillTells
  <2> QED BY <2>1, <2>2, <1>same DEF ResetTold, Holders
<1> QED BY <1>1, <1>2, <1>3, <1>4, <1>5, <1>6, <1>7, <1>8, <1>9, <1>10, <1>11, <1>12, <1>13,
        <1>14, <1>15, <1>16, <1>17

LEMMA CrashStep ==
  ASSUME IInv, NEW w \in Workers, Crash(w)
  PROVE  IInv'
<1> USE PoolAssumption DEF IInv
<1>kill. /\ slot' \in [Workers -> Slots]
         /\ \A v \in Workers \ {w} : slot'[v] = slot[v]
         /\ ~slot'[w].alive /\ ~slot'[w].due /\ slot'[w].spaces = {}
         /\ slot'[w].child = slot[w].child
         /\ owed' = owed \cup slot[w].spaces /\ owed' \subseteq Sessions
  <2>1. Kill(w)
    BY DEF Crash
  <2> QED BY <2>1, KillFacts
<1>same. /\ UNCHANGED <<idle, leased, recycling, rows, gate, call, reaping, closing>>
         /\ crashes' \in 0 .. MaxCrashes
  BY DEF Crash, poolvars, outside, TypeOK
<1>1. TypeOK'
  <2> QED BY <1>kill, <1>same DEF TypeOK
<1>2. DeadInv'
  BY <1>kill, <1>same DEF DeadInv
<1>3. PathInv'
  BY <1>kill, <1>same DEF PathInv, Holding
<1>4. HolderInv'
  BY <1>kill, <1>same DEF HolderInv, Holds, Holding, PathInv
<1>5. GateInv'
  BY <1>kill, <1>same, FieldTypes DEF GateInv, Placed, Asking, Holding, PathInv
<1>6. SpaceInv'
  BY <1>kill, <1>same, FieldTypes DEF SpaceInv, Holds, IsCell, Holding
<1>7. AskInv'
  BY <1>kill, <1>same DEF AskInv, Asking
<1>8. OneNamespace'
  BY <1>kill, <1>same DEF OneNamespace
<1>9. RowInv'
  BY <1>kill, <1>same DEF RowInv, Asking, PathInv
<1>10. DueInv'
  BY <1>kill, <1>same DEF DueInv, Holds, Holding, HolderInv
<1>11. RetireInv'
  BY <1>kill, <1>same DEF RetireInv, Holds, Holding, HolderInv
<1>12. ShutInv'
  BY <1>kill, <1>same DEF ShutInv
<1>13. TellInv'
  BY <1>kill, <1>same, KillTells DEF TellInv, IsCell
<1>14. BoundInv'
  BY <1>kill, <1>same DEF BoundInv, IsCell
<1>15. ResetInv'
  BY <1>kill, <1>same, KillTells DEF ResetInv
<1>16. FreshInv'
  BY <1>kill, <1>same, KillTells DEF FreshInv, IsCell
<1>17. ResetTold'
  BY <1>kill, <1>same, KillTells DEF ResetTold, Holders, Holding
<1> QED BY <1>1, <1>2, <1>3, <1>4, <1>5, <1>6, <1>7, <1>8, <1>9, <1>10, <1>11, <1>12, <1>13,
        <1>14, <1>15, <1>16, <1>17

LEMMA ExitStep ==
  ASSUME IInv, NEW w \in Workers, Exit(w)
  PROVE  IInv'
<1> USE PoolAssumption DEF IInv
<1>kill. /\ slot' \in [Workers -> Slots]
         /\ \A v \in Workers \ {w} : slot'[v] = slot[v]
         /\ ~slot'[w].alive /\ ~slot'[w].due /\ slot'[w].spaces = {}
         /\ slot'[w].child = slot[w].child
         /\ owed' = owed \cup slot[w].spaces /\ owed' \subseteq Sessions
  <2>1. Kill(w)
    BY DEF Exit
  <2> QED BY <2>1, KillFacts
<1>same. /\ UNCHANGED <<idle, leased, recycling, rows, gate, call, reaping, closing, crashes>>
  BY DEF Exit, poolvars, outside
<1>1. TypeOK'
  <2> QED BY <1>kill, <1>same DEF TypeOK
<1>2. DeadInv'
  BY <1>kill, <1>same DEF DeadInv
<1>3. PathInv'
  BY <1>kill, <1>same DEF PathInv, Holding
<1>4. HolderInv'
  BY <1>kill, <1>same DEF HolderInv, Holds, Holding, PathInv
<1>5. GateInv'
  BY <1>kill, <1>same, FieldTypes DEF GateInv, Placed, Asking, Holding, PathInv
<1>6. SpaceInv'
  BY <1>kill, <1>same, FieldTypes DEF SpaceInv, Holds, IsCell, Holding
<1>7. AskInv'
  BY <1>kill, <1>same DEF AskInv, Asking
<1>8. OneNamespace'
  BY <1>kill, <1>same DEF OneNamespace
<1>9. RowInv'
  BY <1>kill, <1>same DEF RowInv, Asking, PathInv
<1>10. DueInv'
  BY <1>kill, <1>same DEF DueInv, Holds, Holding, HolderInv
<1>11. RetireInv'
  BY <1>kill, <1>same DEF RetireInv, Holds, Holding, HolderInv
<1>12. ShutInv'
  BY <1>kill, <1>same DEF ShutInv
<1>13. TellInv'
  BY <1>kill, <1>same, KillTells DEF TellInv, IsCell
<1>14. BoundInv'
  BY <1>kill, <1>same DEF BoundInv, IsCell
<1>15. ResetInv'
  BY <1>kill, <1>same, KillTells DEF ResetInv
<1>16. FreshInv'
  BY <1>kill, <1>same, KillTells DEF FreshInv, IsCell
<1>17. ResetTold'
  BY <1>kill, <1>same, KillTells DEF ResetTold, Holders, Holding
<1> QED BY <1>1, <1>2, <1>3, <1>4, <1>5, <1>6, <1>7, <1>8, <1>9, <1>10, <1>11, <1>12, <1>13,
        <1>14, <1>15, <1>16, <1>17

LEMMA ShutDownStep ==
  ASSUME IInv, ShutDown
  PROVE  IInv'
<1> USE PoolAssumption DEF IInv
<1>same. /\ UNCHANGED <<slot, call, reaping, crashes, owed>>
         /\ closing' = 1 /\ NumWorkers \in Nat \ {0}
         /\ rows' \in [Sessions -> {NoRow}] /\ gate' \in [Sessions -> {Nobody}]
         /\ recycling' = {} /\ leased' = {} /\ idle' = <<>>
  BY DEF ShutDown, poolvars, outside
<1>1. TypeOK'
  <2>1. idle' \in Seq(Workers)
    BY <1>same, EmptyContains
  <2> QED BY <2>1, <1>same DEF TypeOK, AllKilled
<1>2. DeadInv'
  BY <1>same DEF DeadInv
<1>3. PathInv'
  BY <1>same DEF PathInv, Holding
<1>4. HolderInv'
  BY <1>same DEF HolderInv, Holds, Holding, PathInv
<1>5. GateInv'
  BY <1>same, FieldTypes DEF GateInv, Placed, Asking, Holding, PathInv
<1>6. SpaceInv'
  BY <1>same, FieldTypes DEF SpaceInv, Holds, IsCell, Holding
<1>7. AskInv'
  BY <1>same DEF AskInv, Asking
<1>8. OneNamespace'
  BY <1>same DEF OneNamespace
<1>9. RowInv'
  BY <1>same DEF RowInv, Asking, PathInv
<1>10. DueInv'
  BY <1>same DEF DueInv, Holds, Holding, HolderInv
<1>11. RetireInv'
  BY <1>same DEF RetireInv, Holds, Holding, HolderInv
<1>12. ShutInv'
  BY <1>same DEF ShutInv, Workers
<1>13. TellInv'
  BY <1>same DEF TellInv, IsCell
<1>14. BoundInv'
  BY <1>same DEF BoundInv, IsCell
<1>15. ResetInv'
  BY <1>same DEF ResetInv
<1>16. FreshInv'
  BY <1>same DEF FreshInv, IsCell
<1>17. ResetTold'
  BY <1>same DEF ResetTold, Holders, Holding
<1> QED BY <1>1, <1>2, <1>3, <1>4, <1>5, <1>6, <1>7, <1>8, <1>9, <1>10, <1>11, <1>12, <1>13,
        <1>14, <1>15, <1>16, <1>17

LEMMA RequestShutdownStep ==
  ASSUME IInv, RequestShutdown
  PROVE  IInv'
<1> USE PoolAssumption DEF IInv
<1>same. /\ UNCHANGED <<slot, idle, leased, recycling, rows, gate, call, reaping, crashes, owed>>
         /\ closing \in 1 .. NumWorkers /\ closing' = closing + 1
         /\ NumWorkers \in Nat
         /\ closing' # 0
  BY DEF RequestShutdown, poolvars, outside
<1>1. TypeOK'
  <2> QED BY <1>same DEF TypeOK, AllKilled
<1>2. DeadInv'
  BY <1>same DEF DeadInv
<1>3. PathInv'
  BY <1>same DEF PathInv, Holding
<1>4. HolderInv'
  BY <1>same DEF HolderInv, Holds, Holding, PathInv
<1>5. GateInv'
  BY <1>same, FieldTypes DEF GateInv, Placed, Asking, Holding, PathInv
<1>6. SpaceInv'
  BY <1>same, FieldTypes DEF SpaceInv, Holds, IsCell, Holding
<1>7. AskInv'
  BY <1>same DEF AskInv, Asking
<1>8. OneNamespace'
  BY <1>same DEF OneNamespace
<1>9. RowInv'
  BY <1>same DEF RowInv, Asking, PathInv
<1>10. DueInv'
  BY <1>same DEF DueInv, Holds, Holding, HolderInv
<1>11. RetireInv'
  BY <1>same DEF RetireInv, Holds, Holding, HolderInv
<1>12. ShutInv'
  BY <1>same DEF ShutInv, Workers
<1>13. TellInv'
  BY <1>same DEF TellInv, IsCell
<1>14. BoundInv'
  BY <1>same DEF BoundInv, IsCell
<1>15. ResetInv'
  BY <1>same DEF ResetInv
<1>16. FreshInv'
  BY <1>same DEF FreshInv, IsCell
<1>17. ResetTold'
  BY <1>same DEF ResetTold, Holders, Holding
<1> QED BY <1>1, <1>2, <1>3, <1>4, <1>5, <1>6, <1>7, <1>8, <1>9, <1>10, <1>11, <1>12, <1>13,
        <1>14, <1>15, <1>16, <1>17

LEMMA ShutdownKillStep ==
  ASSUME IInv, ShutdownKill
  PROVE  IInv'
<1> USE PoolAssumption DEF IInv
<1>pick. PICK w \in Workers : w = closing - NumWorkers
  BY DEF ShutdownKill, AllStopped, Workers
<1>kill. /\ slot' \in [Workers -> Slots]
         /\ \A v \in Workers \ {w} : slot'[v] = slot[v]
         /\ ~slot'[w].alive /\ ~slot'[w].due /\ slot'[w].spaces = {}
         /\ slot'[w].child = slot[w].child
         /\ owed' = owed \cup slot[w].spaces /\ owed' \subseteq Sessions
  <2>1. Kill(w)
    BY <1>pick DEF ShutdownKill
  <2> QED BY <2>1, KillFacts
<1>same. /\ UNCHANGED <<idle, leased, recycling, rows, gate, call, reaping, crashes>>
         /\ closing \in NumWorkers + 1 .. 2 * NumWorkers /\ closing' = closing + 1
         /\ NumWorkers \in Nat
         /\ closing' # 0 /\ w = closing - NumWorkers
  BY <1>pick DEF ShutdownKill, poolvars, outside, AllStopped
<1>1. TypeOK'
  <2> QED BY <1>kill, <1>same DEF TypeOK, AllKilled
<1>2. DeadInv'
  BY <1>kill, <1>same DEF DeadInv
<1>3. PathInv'
  BY <1>kill, <1>same DEF PathInv, Holding
<1>4. HolderInv'
  BY <1>kill, <1>same DEF HolderInv, Holds, Holding, PathInv
<1>5. GateInv'
  BY <1>kill, <1>same, FieldTypes DEF GateInv, Placed, Asking, Holding, PathInv
<1>6. SpaceInv'
  BY <1>kill, <1>same, FieldTypes DEF SpaceInv, Holds, IsCell, Holding
<1>7. AskInv'
  BY <1>kill, <1>same DEF AskInv, Asking
<1>8. OneNamespace'
  BY <1>kill, <1>same DEF OneNamespace
<1>9. RowInv'
  BY <1>kill, <1>same DEF RowInv, Asking, PathInv
<1>10. DueInv'
  BY <1>kill, <1>same DEF DueInv, Holds, Holding, HolderInv
<1>11. RetireInv'
  BY <1>kill, <1>same DEF RetireInv, Holds, Holding, HolderInv
<1>12. ShutInv'
  BY <1>kill, <1>same DEF ShutInv, Workers
<1>13. TellInv'
  BY <1>kill, <1>same, KillTells DEF TellInv, IsCell
<1>14. BoundInv'
  BY <1>kill, <1>same DEF BoundInv, IsCell
<1>15. ResetInv'
  BY <1>kill, <1>same, KillTells DEF ResetInv
<1>16. FreshInv'
  BY <1>kill, <1>same, KillTells DEF FreshInv, IsCell
<1>17. ResetTold'
  BY <1>kill, <1>same, KillTells DEF ResetTold, Holders, Holding
<1> QED BY <1>1, <1>2, <1>3, <1>4, <1>5, <1>6, <1>7, <1>8, <1>9, <1>10, <1>11, <1>12, <1>13,
        <1>14, <1>15, <1>16, <1>17

LEMMA InitInv ==
  Init => IInv
<1> SUFFICES ASSUME Init PROVE IInv
  OBVIOUS
<1> USE PoolAssumption
<1>1. PICK up \in SUBSET Workers :
        /\ slot = [w \in Workers |->
             [child |-> 1, alive |-> w \in up, due |-> FALSE, leaving |-> FALSE,
              exiting |-> FALSE, tasks |-> 0, spaces |-> {}, untold |-> {}]]
        /\ idle = Without([w \in Workers |-> w], Workers \ up)
  BY DEF Init
<1>2. /\ idle \in Seq(Workers) /\ IsDistinct(idle)
      /\ \A w \in Workers : w \in up => Contains(idle, w)
  <2> DEFINE all == [w \in Workers |-> w]
  <2>1. all \in Seq(Workers) /\ Len(all) = NumWorkers /\ \A w \in 1 .. NumWorkers : all[w] = w
    <3>1. NumWorkers \in Nat /\ \A w \in 1 .. NumWorkers : w \in Workers
      BY DEF Workers
    <3>2. all = [w \in 1 .. NumWorkers |-> w]
      BY DEF Workers
    <3> QED BY <3>1, <3>2, IsASeq, LenProperties
  <2>2. IsDistinct(all) /\ \A w \in Workers : Contains(all, w)
    <3> HIDE DEF all
    <3> QED BY <2>1 DEF IsDistinct, Contains, Workers
  <2> HIDE DEF all
  <2>3. /\ Without(all, Workers \ up) \in Seq(Workers)
        /\ \A w : Contains(Without(all, Workers \ up), w) <=>
             Contains(all, w) /\ w \notin Workers \ up
        /\ IsDistinct(Without(all, Workers \ up))
    BY <2>1, <2>2, WithoutProperties
  <2>4. idle = Without(all, Workers \ up)
    BY <1>1 DEF all
  <2> QED BY <2>2, <2>3, <2>4
<1>3. /\ leased = {} /\ recycling = {} /\ reaping = <<>> /\ owed = {}
      /\ rows = [s \in Sessions |-> NoRow] /\ gate = [s \in Sessions |-> Nobody]
      /\ call = [c \in Callers |-> Free] /\ closing = 0 /\ crashes = 0
  BY DEF Init
<1>4. \A c \in Callers : /\ call[c].pc = "free" /\ call[c].op = "cell" /\ call[c].slot = 0
                         /\ call[c].sid = NoSession /\ call[c].code = "none"
                         /\ call[c].frame = "none"
  BY <1>3 DEF Free
<1>5. \A w \in Workers : /\ slot[w].alive = (w \in up) /\ ~slot[w].due /\ slot[w].spaces = {}
  BY <1>1
<1>6. TypeOK
  <2>1. Free \in Calls
    BY DEF Free, Calls, Holding, Frames, Codes
  <2>2. call \in [Callers -> Calls]
    BY <1>3, <2>1
  <2>3. slot \in [Workers -> Slots]
    <3>1. 0 \in 0 .. MaxTasks /\ 1 \in 1 .. MaxSpawns
      OBVIOUS
    <3>2. ASSUME NEW b \in BOOLEAN
          PROVE  [child |-> 1, alive |-> b, due |-> FALSE, leaving |-> FALSE,
                  exiting |-> FALSE, tasks |-> 0, spaces |-> {}, untold |-> {}] \in Slots
      BY <3>1 DEF Slots
    <3> DEFINE Fresh(b) == [child |-> 1, alive |-> b, due |-> FALSE, leaving |-> FALSE,
                            exiting |-> FALSE, tasks |-> 0, spaces |-> {}, untold |-> {}]
    <3>3. slot = [w \in Workers |-> Fresh(w \in up)]
      BY <1>1
    <3>4. \A w \in Workers : Fresh(w \in up) \in Slots
      <4>1. \A b \in BOOLEAN : Fresh(b) \in Slots
        BY <3>2
      <4> HIDE DEF Fresh
      <4>2. \A w \in Workers : (w \in up) \in BOOLEAN
        OBVIOUS
      <4> QED BY <4>1, <4>2
    <3> HIDE DEF Fresh
    <3> QED BY <3>3, <3>4
  <2>4. reaping \in Seq(Workers)
    BY <1>3, EmptyContains
  <2>5. 0 \in 0 .. AllKilled /\ 0 \in 0 .. MaxCrashes
    BY DEF AllKilled
  <2> QED BY <1>2, <1>3, <2>2, <2>3, <2>4, <2>5 DEF TypeOK
<1>7. DeadInv /\ PathInv /\ HolderInv
  BY ZenonT(60), <1>2, <1>3, <1>4, <1>5 DEF DeadInv, PathInv, HolderInv, Holding, Holds
<1>8. GateInv /\ SpaceInv /\ AskInv /\ OneNamespace /\ RowInv
  BY <1>3, <1>4, <1>5 DEF GateInv, SpaceInv, AskInv, OneNamespace, RowInv, Placed, Asking, Holding
<1>9. DueInv /\ RetireInv /\ TellInv /\ BoundInv /\ ResetInv
  BY <1>3, <1>4, <1>5 DEF DueInv, RetireInv, TellInv, BoundInv, ResetInv, Holds, Holding
<1>10. ShutInv
  BY <1>3 DEF ShutInv, Workers
<1>11. FreshInv /\ ResetTold
  BY <1>3, <1>4 DEF FreshInv, ResetTold
<1> QED BY <1>6, <1>7, <1>8, <1>9, <1>10, <1>11 DEF IInv

LEMMA CallKeeps ==
  ASSUME IInv, NEW c \in Callers, CallStep(c)
  PROVE  IInv'
<1>1. CASE Arrive(c) \/ GateTimeout(c) \/ AdmitCell(c) \/ AdmitClosed(c) \/ AdmitReset(c)
             \/ ResetNothing(c) \/ Lease(c) \/ LeaseFails(c)
  BY <1>1, ArriveStep, GateTimeoutStep, AdmitCellStep, AdmitClosedStep, AdmitResetStep,
     ResetNothingStep, LeaseStep, LeaseFailsStep
<1>2. CASE Refuse(c) \/ FindLive(c) \/ Spawn(c) \/ SpawnFails(c) \/ Ready(c) \/ NotReady(c)
             \/ Write(c) \/ RequestFails(c)
  BY <1>2, RefuseStep, FindLiveStep, SpawnStep, SpawnFailsStep, ReadyStep, NotReadyStep,
     WriteStep, SparedFailsStep, KilledFailsStep
<1>3. CASE Run(c) \/ Answer(c) \/ Finalize(c) \/ Weigh(c) \/ Settle(c) \/ SettleClosed(c)
             \/ Reap(c) \/ DropLease(c)
  BY <1>3, RunStep, AnswerStep, FinalizeStep, WeighStep, SettleRetireStep, SettleReturnStep,
     SettleClosedStep, ReapStep, DropLeaseStep
<1> QED BY <1>1, <1>2, <1>3 DEF CallStep

LEMMA StutterKeeps ==
  ASSUME IInv, UNCHANGED vars
  PROVE  IInv'
<1> USE DEF IInv, vars
<1>1. TypeOK' /\ DeadInv' /\ PathInv' /\ HolderInv' /\ GateInv'
  BY DEF TypeOK, DeadInv, PathInv, HolderInv, GateInv, Holds
<1>2. SpaceInv' /\ AskInv' /\ OneNamespace' /\ RowInv' /\ DueInv' /\ RetireInv' /\ ShutInv'
  BY DEF SpaceInv, AskInv, OneNamespace, RowInv, DueInv, RetireInv, ShutInv, Holds, IsCell
<1>3. TellInv' /\ BoundInv' /\ ResetInv'
  BY DEF TellInv, BoundInv, ResetInv, IsCell
<1>4. FreshInv' /\ ResetTold'
  BY DEF FreshInv, ResetTold, IsCell, Holders
<1> QED BY <1>1, <1>2, <1>3, <1>4

LEMMA NextKeeps ==
  IInv /\ [Next]_vars => IInv'
<1> SUFFICES ASSUME IInv, Next \/ UNCHANGED vars PROVE IInv'
  OBVIOUS
<1>1. ASSUME NEW c \in Callers, CallStep(c) PROVE IInv'
  BY <1>1, CallKeeps
<1>2. ASSUME NEW s \in Sessions, ExpireRow(s) PROVE IInv'
  BY <1>2, ExpireRowStep
<1>3. CASE Evict \/ EvictKill
  BY <1>3, EvictStep, EvictKillStep
<1>4. ASSUME NEW w \in Workers, Crash(w) \/ Exit(w) PROVE IInv'
  BY <1>4, CrashStep, ExitStep
<1>5. CASE ShutDown \/ RequestShutdown \/ ShutdownKill
  BY <1>5, ShutDownStep, RequestShutdownStep, ShutdownKillStep
<1>6. CASE UNCHANGED vars
  BY <1>6, StutterKeeps
<1> QED BY <1>1, <1>2, <1>3, <1>4, <1>5, <1>6 DEF Next

-----------------------------------------------------------------------------
(* The theorems.                                                           *)

\* Every reachable state of the pool satisfies the inductive invariant, for
\* any number of workers, callers and sessions.
THEOREM Invariance == Spec => []IInv
<1> QED BY InitInv, NextKeeps, PTL DEF Spec

\* While the pool is open every leased slot has exactly one caller, no slot is
\* lost or listed twice, rows name the slot they lease, and recycling costs no
\* kernel (formula_pool.py, worker_base.py).
THEOREM SlotsAreExclusive == Spec => []SlotInv
<1>1. IInv => SlotInv
  <2> SUFFICES ASSUME IInv PROVE SlotInv
    OBVIOUS
  <2> USE DEF IInv
  <2>1. \A w : Contains(idle, w) <=> w \in ToSet(idle)
    BY DEF Contains, ToSet, TypeOK
  <2>2. \A w : Contains(reaping, w) <=> w \in ToSet(reaping)
    BY DEF Contains, ToSet, TypeOK
  <2>3. LeaseExclusive
    <3> SUFFICES ASSUME closing = 0 PROVE LeaseExclusive
      BY DEF LeaseExclusive
    <3>1. ASSUME NEW w \in Workers, w \in leased PROVE Cardinality(Holders(w)) = 1
      <4>1. PICK c \in Callers : Holds(c, w)
        BY <3>1 DEF HolderInv
      <4>2. Holders(w) = {c}
        BY <4>1 DEF HolderInv, Holders, Holds
      <4> QED BY <4>2, FS_Singleton
    <3>2. ASSUME NEW w \in Workers, w \notin leased PROVE Cardinality(Holders(w)) = 0
      <4>1. Holders(w) = {}
        BY <3>2 DEF HolderInv, Holders
      <4> QED BY <4>1, FS_EmptySet
    <3>3. ToSet(idle) \cap leased = {}
      BY <2>1 DEF HolderInv
    <3>4. Cardinality(ToSet(idle)) = Len(idle)
      BY DistinctCount DEF HolderInv, TypeOK
    <3> QED BY <3>1, <3>2, <3>3, <3>4 DEF LeaseExclusive
  <2>4. NoLimboSlot
    BY <2>1, <2>2 DEF NoLimboSlot, HolderInv
  <2>5. RowMatchesLease
    BY FieldTypes DEF RowMatchesLease, RowInv, Asking
  <2>6. RecycleLosesNothing
    BY DEF RecycleLosesNothing, RetireInv, Holds, PathInv, Holding
  <2> QED BY <2>3, <2>4, <2>5, <2>6 DEF SlotInv
<1> QED BY <1>1, Invariance, PTL

\* A session never has a namespace in two live children (session affinity).
THEOREM Affinity == Spec => []OneNamespace
<1>1. IInv => OneNamespace
  BY DEF IInv
<1> QED BY <1>1, Invariance, PTL

\* No request is written to a child that still owes an answer.
THEOREM PipeIsClean == Spec => []CleanPipe
<1>1. IInv => CleanPipe
  BY DEF IInv, DueInv, PathInv, Holds, Holding, CleanPipe
<1> QED BY <1>1, Invariance, PTL

\* No session loses its namespace unnoticed: the answer that makes a new one,
\* or the row, says so, unless that answer is one of the two frames that drop
\* the flag (an oversized result, an exception past the namespace's creation).
THEOREM ResetIsTold == Spec => []ResetTold
<1>1. IInv => ResetTold
  BY DEF IInv
<1> QED BY <1>1, Invariance, PTL

\* When shutdown() has returned, every child is dead, and none comes after.
THEOREM NothingSurvives == Spec => []NothingOutlivesShutdown
<1>1. IInv => NothingOutlivesShutdown
  BY PoolAssumption DEF IInv, ShutInv, NothingOutlivesShutdown, AllKilled, Workers
<1> QED BY <1>1, Invariance, PTL
=============================================================================
