---------------------------- MODULE ToolLoopProofs ----------------------------
(***************************************************************************)
(* Proofs about ToolLoop: for any number of sends, rounds, calls, retries  *)
(* and clicks, the transcript, the stop line and the loop that the runs    *)
(* check on small instances.                                               *)
(***************************************************************************)
EXTENDS ToolLoop, SequencesExt, SequenceTheorems,
        FiniteSetTheorems, WellFoundedInduction, TLAPS

-----------------------------------------------------------------------------
(* Lists: what the operations on them keep.                                *)

\* Every non-empty set of natural numbers has a least element: < on Nat is
\* well-founded, which the library states without an operator parameter.
LEMMA LeastNat ==
  ASSUME NEW T \in SUBSET Nat, T # {}
  PROVE  \E n \in T : \A m \in T : n <= m
<1> DEFINE R == {ss \in Nat \X Nat : ss[1] < ss[2]}
<1>1. IsWellFoundedOn(R, Nat)
  BY NatLessThanWellFounded, Zenon DEF OpToRel
<1>2. PICK x \in T : \A y \in T : <<y, x>> \notin R
  <2> HIDE DEF R
  <2> QED BY <1>1, WFMin
<1>3. \A y \in T : ~(y < x)
  BY <1>2
<1> QED BY <1>2, <1>3

\* Induction up to a bound: a set that has 0 and, with every n below the
\* bound, n + 1.
LEMMA BoundedInduction ==
  ASSUME NEW N \in Nat, NEW G,
         0 \in G, \A n \in 1 .. N : n - 1 \in G => n \in G
  PROVE  0 .. N \subseteq G
<1> DEFINE Bad == (0 .. N) \ G
<1> SUFFICES ASSUME Bad # {} PROVE FALSE
  OBVIOUS
<1>1. Bad \in SUBSET Nat
  OBVIOUS
<1>2. PICK m \in Bad : \A k \in Bad : m <= k
  <2> HIDE DEF Bad
  <2> QED BY <1>1, LeastNat
<1>3. m \in 1 .. N /\ m - 1 \in 0 .. N
  OBVIOUS
<1>4. m - 1 \in G
  <2> SUFFICES ASSUME m - 1 \notin G PROVE FALSE
    OBVIOUS
  <2>1. m - 1 \in Bad
    BY <1>3
  <2>2. m <= m - 1
    BY <2>1, <1>2
  <2> QED BY <2>2, <1>3
<1> QED BY <1>3, <1>4

\* The recursive function in Without exists.
LEMMA WithoutExists ==
  ASSUME NEW X, NEW q \in Seq(X), NEW S
  PROVE  \E f : f = [n \in 0 .. Len(q) |-> WithoutStep(q, S, f, n)]
<1> DEFINE Solves(f, m) == /\ f \in [0 .. m -> Seq(X)]
                           /\ \A n \in 0 .. m : f[n] = WithoutStep(q, S, f, n)
           G == {m \in 0 .. Len(q) : \E f : Solves(f, m)}
<1>0. Len(q) \in Nat
  BY LenProperties
<1>1. 0 \in G
  <2> DEFINE g == [n \in 0 .. 0 |-> <<>>]
  <2>1. Solves(g, 0)
    BY EmptySeq DEF WithoutStep
  <2>2. 0 \in 0 .. Len(q)
    BY <1>0
  <2> QED BY <2>1, <2>2
<1>2. ASSUME NEW m \in 1 .. Len(q), m - 1 \in G PROVE m \in G
  <2>1. PICK f : Solves(f, m - 1)
    BY <1>2
  <2> DEFINE g == [n \in 0 .. m |-> IF n < m THEN f[n] ELSE WithoutStep(q, S, f, m)]
  <2>2. m \in Nat /\ m # 0 /\ m - 1 \in 0 .. m - 1
    BY <1>0
  <2>3. q[m] \in X /\ f[m - 1] \in Seq(X)
    BY <2>1, <2>2, ElementOfSeq
  <2>4. WithoutStep(q, S, f, m) \in Seq(X)
    BY <2>2, <2>3, AppendProperties DEF WithoutStep
  <2>5. \A n \in 0 .. m : n < m => n \in 0 .. m - 1
    BY <2>2
  <2>6. g \in [0 .. m -> Seq(X)]
    BY <2>1, <2>4, <2>5
  <2>7. ASSUME NEW n \in 0 .. m PROVE g[n] = WithoutStep(q, S, g, n)
    <3>1. n = 0 \/ (n - 1 \in 0 .. m - 1 /\ n - 1 \in 0 .. m /\ n - 1 < m)
      BY <2>2
    <3>2. g[n] = WithoutStep(q, S, f, n)
      BY <2>1, <2>5, <2>2
    <3>3. n # 0 => g[n - 1] = f[n - 1]
      BY <3>1
    <3> HIDE DEF g
    <3> QED BY <3>2, <3>3 DEF WithoutStep
  <2>8. Solves(g, m)
    BY <2>6, <2>7
  <2> HIDE DEF Solves
  <2> QED BY <2>8, <1>0
<1>3. Len(q) \in G
  <2> HIDE DEF G
  <2>1. 0 .. Len(q) \subseteq G
    BY <1>0, <1>1, <1>2, BoundedInduction
  <2> QED BY <2>1, <1>0
<1>4. PICK f : Solves(f, Len(q))
  BY <1>3
<1>5. f = [n \in 0 .. Len(q) |-> WithoutStep(q, S, f, n)]
  BY <1>4
<1> QED BY <1>5

\* What is left is a sequence of the elements of q that are not in S, and none
\* comes more often than before.
LEMMA WithoutProperties ==
  ASSUME NEW X, NEW q \in Seq(X), NEW S
  PROVE  /\ Without(q, S) \in Seq(X)
         /\ \A x : Contains(Without(q, S), x) <=> Contains(q, x) /\ x \notin S
         /\ IsDistinct(q) => IsDistinct(Without(q, S))
<1> DEFINE f == CHOOSE f : f = [n \in 0 .. Len(q) |-> WithoutStep(q, S, f, n)]
<1>0. Len(q) \in Nat /\ \A n \in 1 .. Len(q) : q[n] \in X
  BY LenProperties, ElementOfSeq
<1>1. f = [n \in 0 .. Len(q) |-> WithoutStep(q, S, f, n)]
  BY WithoutExists
<1>2. Without(q, S) = f[Len(q)]
  BY DEF Without
<1> HIDE DEF f
<1> DEFINE Has(n, x) == \E i \in 1 .. n : q[i] = x
           Good(n) == /\ f[n] \in Seq(X)
                      /\ \A x : Contains(f[n], x) <=> Has(n, x) /\ x \notin S
                      /\ IsDistinct(q) => IsDistinct(f[n])
           G == {n \in 0 .. Len(q) : Good(n)}
<1>3. 0 \in G
  <2>1. f[0] = <<>> /\ 0 \in 0 .. Len(q)
    BY <1>0, <1>1 DEF WithoutStep
  <2>2. <<>> \in Seq(X) /\ Len(<<>>) = 0
    BY EmptySeq
  <2>3. \A x : ~Contains(<<>>, x) /\ ~Has(0, x)
    BY <2>2 DEF Contains
  <2>4. IsDistinct(<<>>)
    BY <2>2 DEF IsDistinct
  <2> HIDE DEF Has
  <2> QED BY <2>1, <2>2, <2>3, <2>4
<1>4. ASSUME NEW n \in 1 .. Len(q), n - 1 \in G PROVE n \in G
  <2>1. Good(n - 1) /\ n \in 0 .. Len(q) /\ n - 1 \in Nat
    BY <1>4, <1>0
  <2>2. f[n] = IF q[n] \in S THEN f[n - 1] ELSE Append(f[n - 1], q[n])
    <3>1. n \in 0 .. Len(q) /\ n # 0
      BY <1>0
    <3>2. f[n] = WithoutStep(q, S, f, n)
      BY <1>1, <3>1
    <3> QED BY <3>1, <3>2 DEF WithoutStep
  <2>3. \A x : Has(n, x) <=> Has(n - 1, x) \/ q[n] = x
    BY <2>1
  <2>4. CASE q[n] \in S
    <3>1. f[n] = f[n - 1]
      BY <2>2, <2>4
    <3>2. \A x : Contains(f[n], x) <=> Has(n, x) /\ x \notin S
      BY <3>1, <2>1, <2>3, <2>4
    <3> HIDE DEF Has
    <3> QED BY <3>1, <3>2, <2>1
  <2>5. CASE q[n] \notin S
    <3> DEFINE p == f[n - 1]
    <3>1. p \in Seq(X) /\ Len(p) \in Nat /\ f[n] = Append(p, q[n]) /\ q[n] \in X
      BY <2>1, <2>2, <2>5, <1>0, LenProperties
    <3>2. /\ f[n] \in Seq(X) /\ Len(f[n]) = Len(p) + 1
          /\ f[n][Len(p) + 1] = q[n]
          /\ \A i \in 1 .. Len(p) : f[n][i] = p[i]
      BY <3>1, AppendProperties
    <3>3. \A x : Contains(f[n], x) <=> Contains(p, x) \/ x = q[n]
      BY <3>1, <3>2 DEF Contains
    <3>4. \A x : Contains(f[n], x) <=> Has(n, x) /\ x \notin S
      <4> HIDE DEF Has
      <4> QED BY <3>3, <2>1, <2>3, <2>5
    <3>5. ASSUME IsDistinct(q) PROVE IsDistinct(f[n])
      <4>1. ~Has(n - 1, q[n])
        BY <3>5, <2>1, <1>0 DEF IsDistinct
      <4>2. \A i \in 1 .. Len(p) : p[i] # q[n]
        <5> HIDE DEF Has
        <5> QED BY <4>1, <2>1 DEF Contains
      <4>3. IsDistinct(p)
        BY <3>5, <2>1
      <4>4. \A i \in 1 .. Len(f[n]) : i \in 1 .. Len(p) \/ i = Len(p) + 1
        BY <3>1, <3>2
      <4> HIDE DEF p
      <4> QED BY <4>2, <4>3, <4>4, <3>1, <3>2 DEF IsDistinct
    <3> HIDE DEF Has
    <3> QED BY <3>2, <3>4, <3>5, <2>1
  <2> QED BY <2>4, <2>5
<1>5. Len(q) \in G
  <2> HIDE DEF G
  <2>1. 0 .. Len(q) \subseteq G
    BY <1>0, <1>3, <1>4, BoundedInduction
  <2> QED BY <2>1, <1>0
<1>6. \A x : Has(Len(q), x) <=> Contains(q, x)
  BY DEF Contains
<1> HIDE DEF Has
<1> QED BY <1>2, <1>5, <1>6

-----------------------------------------------------------------------------
(* Two ways a list of rows changes: it is rewritten in the open row at its *)
(* end (the row grows or goes away), or a row is appended.                 *)

\* The rows agree in all but the text they say.
Same(r, q) == r.k = q.k /\ r.t = q.t /\ r.calls = q.calls /\ r.id = q.id /\ r.res = q.res

Listed(ms) == ms \in Seq(Rows) /\ Len(ms) \in Nat /\ DOMAIN ms = 1 .. Len(ms)

\* ns is ms with its open row at the end grown or dropped.
Like(ms, ns) ==
  /\ Listed(ms) /\ Listed(ns)
  /\ Len(ns) <= Len(ms) /\ Len(ms) <= Len(ns) + 1
  /\ \A i \in 1 .. Len(ns) : Same(ms[i], ns[i])
  /\ Len(ns) < Len(ms) => ms[Len(ms)].k = "open"

\* ns is ms with the row r behind it.
Longer(ms, ns, r) ==
  /\ Listed(ms) /\ Listed(ns) /\ r \in Rows
  /\ Len(ns) = Len(ms) + 1 /\ ns[Len(ns)] = r
  /\ \A i \in 1 .. Len(ms) : ns[i] = ms[i]

\* What a row holds.
LEMMA RowFields ==
  ASSUME NEW r \in Rows
  PROVE  /\ r.k \in Kinds /\ r.t \in Turns /\ r.calls \in CallLists \cup {<<>>}
         /\ r.id \in Ids \cup {None} /\ r.res \in {None, "result", "cancelled"} /\ r.say \in SUBSET Words
BY DEF Rows

\* What a list of rows is.
LEMMA ListedIs ==
  ASSUME NEW ms \in Seq(Rows)
  PROVE  Listed(ms) /\ \A i \in 1 .. Len(ms) : ms[i] \in Rows
BY LenProperties, ElementOfSeq DEF Listed

\* A row appended.
LEMMA AppendIs ==
  ASSUME NEW ms \in Seq(Rows), NEW r \in Rows
  PROVE  Longer(ms, Append(ms, r), r) /\ Append(ms, r) \in Seq(Rows)
<1>1. /\ Append(ms, r) \in Seq(Rows) /\ Len(Append(ms, r)) = Len(ms) + 1
      /\ \A i \in 1 .. Len(ms) : Append(ms, r)[i] = ms[i]
      /\ Append(ms, r)[Len(ms) + 1] = r
  BY AppendProperties
<1>2. Listed(ms) /\ Listed(Append(ms, r))
  BY <1>1, ListedIs
<1> QED BY <1>1, <1>2 DEF Longer

\* A list is like itself.
LEMMA LikeItself ==
  ASSUME NEW ms \in Seq(Rows)
  PROVE  Like(ms, ms)
BY ListedIs DEF Like, Listed, Same

\* add_assistant_message drops an open row.
LEMMA DropIs ==
  ASSUME NEW ms \in Seq(Rows)
  PROVE  Like(ms, DropOpen(ms)) /\ DropOpen(ms) \in Seq(Rows)
<1>1. Listed(ms) /\ \A i \in 1 .. Len(ms) : ms[i] \in Rows
  BY ListedIs
<1>2. CASE EndsOpen(ms)
  <2>1. Len(ms) \in Nat \ {0} /\ ms[Len(ms)].k = "open"
    BY <1>2, EmptySeq DEF EndsOpen, Last
  <2> DEFINE n == Len(ms) - 1
  <2>2. n \in Nat /\ \A i \in 1 .. n : i \in 1 .. Len(ms)
    BY <2>1
  <2>3. DropOpen(ms) = SubSeq(ms, 1, n)
    BY <1>2 DEF DropOpen, Front
  <2>4. /\ SubSeq(ms, 1, n) \in Seq(Rows) /\ Len(SubSeq(ms, 1, n)) = (IF 1 <= n THEN n - 1 + 1 ELSE 0)
        /\ \A i \in 1 .. n - 1 + 1 : SubSeq(ms, 1, n)[i] = ms[1 + i - 1]
    BY <1>1, <2>2, SubSeqProperties
  <2>5. Len(DropOpen(ms)) = n /\ \A i \in 1 .. n : DropOpen(ms)[i] = ms[i]
    <3> HIDE DEF n
    <3>1. n - 1 + 1 = n /\ \A i \in 1 .. n : 1 + i - 1 = i
      BY <2>2
    <3>2. (1 <= n) \/ (~(1 <= n) /\ n = 0)
      BY <2>2
    <3>3. Len(SubSeq(ms, 1, n)) = n
      BY <2>4, <3>1, <3>2
    <3> QED BY <2>3, <2>4, <3>1, <3>3
  <2>6. DropOpen(ms) \in Seq(Rows)
    BY <2>3, <2>4
  <2>7. Listed(DropOpen(ms))
    BY <2>6, ListedIs
  <2>8. n < Len(ms) /\ Len(ms) <= n + 1 /\ n <= Len(ms)
    BY <2>1
  <2> HIDE DEF n
  <2> QED BY <1>1, <2>1, <2>5, <2>6, <2>7, <2>8 DEF Like, Same
<1>3. CASE ~EndsOpen(ms)
  BY <1>3, LikeItself DEF DropOpen
<1> QED BY <1>2, <1>3

\* Streamed text grows the open row at the end, or starts one.
LEMMA FoldIs ==
  ASSUME NEW ms \in Seq(Rows), NEW t \in Turns, NEW say \in SUBSET Words
  PROVE  /\ Fold(ms, t, say) \in Seq(Rows) /\ Open(t, say) \in Rows /\ Open(t, say).k = "open" /\ Open(t, say).t = t
         /\ \/ EndsOpen(ms) /\ Like(ms, Fold(ms, t, say))
            \/ Longer(ms, Fold(ms, t, say), Open(t, say))
<1>1. Listed(ms) /\ \A i \in 1 .. Len(ms) : ms[i] \in Rows
  BY ListedIs
<1>2. Open(t, say) \in Rows /\ Open(t, say).k = "open" /\ Open(t, say).t = t
  BY DEF Open, Row, Rows, Kinds
<1>3. CASE EndsOpen(ms)
  <2>1. Len(ms) \in Nat \ {0} /\ Len(ms) \in 1 .. Len(ms)
    BY <1>1, <1>3, EmptySeq DEF EndsOpen, Last
  <2> DEFINE n == Len(ms)  r == [ms[n] EXCEPT !.say = @ \cup say]
  <2>2. ms[n] \in Rows
    BY <1>1, <2>1
  <2>3. r \in Rows /\ Same(ms[n], r)
    BY <2>2 DEF Rows, Same
  <2>4. Fold(ms, t, say) = [ms EXCEPT ![n] = r]
    BY <1>3 DEF Fold
  <2> HIDE DEF r
  <2>5. /\ [ms EXCEPT ![n] = r] \in Seq(Rows) /\ Len([ms EXCEPT ![n] = r]) = Len(ms)
        /\ \A j \in 1 .. Len(ms) : [ms EXCEPT ![n] = r][j] = IF j = n THEN r ELSE ms[j]
    BY <2>1, <2>3, ExceptSeq
  <2>6. Listed(Fold(ms, t, say))
    BY <2>4, <2>5, ListedIs
  <2>7. Like(ms, Fold(ms, t, say))
    BY <1>1, <2>1, <2>3, <2>4, <2>5, <2>6 DEF Like, Same
  <2> QED BY <1>2, <1>3, <2>4, <2>5, <2>7
<1>4. CASE ~EndsOpen(ms)
  BY <1>2, <1>4, AppendIs DEF Fold
<1> QED BY <1>3, <1>4

\* The rows the code stores.
LEMMA RowsAre ==
  ASSUME NEW t \in Turns
  PROVE  /\ User(t) \in Rows /\ User(t).k = "user" /\ User(t).t = t
         /\ StopLine(t) \in Rows /\ StopLine(t).k = "stop" /\ StopLine(t).t = t
         /\ \A calls \in CallLists \cup {<<>>}, say \in SUBSET Words :
              /\ Asst(t, calls, say) \in Rows /\ Asst(t, calls, say).k = "asst"
              /\ Asst(t, calls, say).t = t /\ Asst(t, calls, say).calls = calls
         /\ \A id \in Ids \cup {None}, res \in {"result", "cancelled"} :
              /\ Tool(t, id, res) \in Rows /\ Tool(t, id, res).k = "tool" /\ Tool(t, id, res).t = t
              /\ Tool(t, id, res).id = id /\ Tool(t, id, res).res = res
BY DEF User, StopLine, Asst, Tool, Row, Rows, Kinds


-----------------------------------------------------------------------------
(* What the invariant says of a list of rows.                              *)

Present(ms, t) == \E i \in 1 .. Len(ms) : ms[i].t = t
HasUser(ms, t) == \E i \in 1 .. Len(ms) : ms[i].k = "user" /\ ms[i].t = t
HasStop(ms, t) == \E i \in 1 .. Len(ms) : ms[i].k = "stop" /\ ms[i].t = t
HasReply(ms, t) == \E i \in 1 .. Len(ms) : ms[i].k \in {"asst", "stop"} /\ ms[i].t = t

\* The turns come one after another, each behind its question and none going
\* on behind its stop line.
Sorted(ms) ==
  /\ \A i, j \in 1 .. Len(ms) : i < j => ms[i].t <= ms[j].t
  /\ \A i, j \in 1 .. Len(ms) : ms[i].k = "user" /\ ms[i].t = ms[j].t => i <= j
  /\ \A i \in 1 .. Len(ms) : ms[i].k \in {"asst", "tool", "stop"} => HasUser(ms, ms[i].t)
  /\ \A i, j \in 1 .. Len(ms) : ms[i].k = "stop" /\ i < j => ms[i].t < ms[j].t

\* The results of a response's calls are in the order of the calls, none twice.
PairedAt(ms, i) ==
  /\ \A j \in Results(ms, i) : \E n \in 1 .. Len(ms[i].calls) :
       /\ ms[j].id = ms[i].calls[n]
       /\ \A m \in 1 .. n - 1 : \E k \in Results(ms, i) : k < j /\ ms[k].id = ms[i].calls[m]
  /\ \A j, k \in Results(ms, i) : ms[j].id = ms[k].id => j = k
Paired(ms) == \A i \in CallRows(ms) : PairedAt(ms, i)

\* Every call of the row has its result; every call of turn t but those of h;
\* every call up to turn t has a tool row.
Full(ms, i) == \A n \in 1 .. Len(ms[i].calls) : \E j \in Results(ms, i) : ms[j].id = ms[i].calls[n]
AllFull(ms, t, h) == \A i \in CallRows(ms) : ms[i].t = t /\ i # h => Full(ms, i)
ClosedAt(ms, i) == \A n \in 1 .. Len(ms[i].calls) : \E j \in Answers(ms, i) : ms[j].id = ms[i].calls[n]
AllClosed(ms, t) == \A i \in CallRows(ms) : ms[i].t <= t => ClosedAt(ms, i)

\* The calls of row h are answered but the last ones, rest.
Owes(ms, h, rest) ==
  LET m == Len(ms[h].calls) - Len(rest) IN
    /\ Len(ms[h].calls) >= Len(rest)
    /\ \A n \in 1 .. Len(rest) : rest[n] = ms[h].calls[m + n]
    /\ \A n \in 1 .. m : \E j \in Results(ms, h) : ms[j].id = ms[h].calls[n]
    /\ \A j \in Results(ms, h) : \E n \in 1 .. m : ms[j].id = ms[h].calls[n]

\* Turn t is at the calls of its last response, and rest of them is to come.
LastIs(ms, h) == \A k \in 1 .. Len(ms) : k > h => ms[k].k \in {"tool", "open"}
OnCall(ms, t, rest) ==
  \E h \in CallRows(ms) : ms[h].t = t /\ LastIs(ms, h) /\ AllFull(ms, t, h) /\ Owes(ms, h, rest)

-----------------------------------------------------------------------------
(* A change that leaves the calls and their tool rows as they are; the     *)
(* rows in new are responses with calls that come with it.                 *)
Steady(ms, ns, new) ==
  /\ CallRows(ns) = CallRows(ms) \cup new
  /\ \A i \in CallRows(ms) : ns[i].t = ms[i].t /\ ns[i].calls = ms[i].calls
  /\ \A i \in CallRows(ms) : Answers(ns, i) = Answers(ms, i) /\ Results(ns, i) = Results(ms, i)
  /\ \A i \in CallRows(ms) : \A j \in Answers(ms, i) : ns[j].id = ms[j].id
  /\ \A i \in new : Results(ns, i) = {} /\ i \notin CallRows(ms)

\* Results are answers.
LEMMA ResultsAnswer ==
  ASSUME NEW ms, NEW i
  PROVE  Results(ms, i) \subseteq Answers(ms, i)
BY DEF Results

\* What the invariant says of one row's calls stays.
LEMMA SteadyRow ==
  ASSUME NEW ms, NEW ns, NEW new, Steady(ms, ns, new), NEW i \in CallRows(ms)
  PROVE  /\ PairedAt(ms, i) <=> PairedAt(ns, i)
         /\ Full(ms, i) <=> Full(ns, i)
         /\ ClosedAt(ms, i) <=> ClosedAt(ns, i)
         /\ \A rest : Owes(ms, i, rest) <=> Owes(ns, i, rest)
<1>1. /\ ns[i].calls = ms[i].calls
      /\ Answers(ns, i) = Answers(ms, i) /\ Results(ns, i) = Results(ms, i)
      /\ \A j \in Answers(ms, i) : ns[j].id = ms[j].id
  BY DEF Steady
<1>2. \A j \in Results(ms, i) : ns[j].id = ms[j].id
  BY <1>1, ResultsAnswer
<1>3. PairedAt(ms, i) <=> PairedAt(ns, i)
  BY <1>1, <1>2 DEF PairedAt
<1>4. Full(ms, i) <=> Full(ns, i)
  BY <1>1, <1>2 DEF Full
<1>5. ClosedAt(ms, i) <=> ClosedAt(ns, i)
  BY <1>1 DEF ClosedAt
<1>6. \A rest : Owes(ms, i, rest) <=> Owes(ns, i, rest)
  BY <1>1, <1>2 DEF Owes
<1> QED BY <1>3, <1>4, <1>5, <1>6

\* And of all rows; a new response has no result yet.
LEMMA SteadyKeeps ==
  ASSUME NEW ms, NEW ns, NEW new, Steady(ms, ns, new)
  PROVE  /\ Paired(ms) => Paired(ns)
         /\ \A t : (\A i \in new : ns[i].t # t) => \A h : AllFull(ms, t, h) => AllFull(ns, t, h)
         /\ \A t \in Nat : (\A i \in new : ~(ns[i].t <= t)) /\ AllClosed(ms, t) => AllClosed(ns, t)
         /\ \A t, h : AllFull(ms, t, h) /\ new = {h} => AllFull(ns, t, h)
<1>1. CallRows(ns) = CallRows(ms) \cup new /\ \A i \in CallRows(ms) : ns[i].t = ms[i].t
  BY DEF Steady
<1>2. \A i \in new : PairedAt(ns, i)
  BY DEF Steady, PairedAt
<1>3. \A i \in CallRows(ms) : PairedAt(ms, i) <=> PairedAt(ns, i)
  BY SteadyRow
<1>4. \A i \in CallRows(ms) : Full(ms, i) <=> Full(ns, i)
  BY SteadyRow
<1>5. \A i \in CallRows(ms) : ClosedAt(ms, i) <=> ClosedAt(ns, i)
  BY SteadyRow
<1>6. Paired(ms) => Paired(ns)
  BY <1>1, <1>2, <1>3 DEF Paired
<1>7. ASSUME NEW t, \A i \in new : ns[i].t # t, NEW h, AllFull(ms, t, h)
      PROVE  AllFull(ns, t, h)
  BY <1>1, <1>4, <1>7 DEF AllFull
<1>8. ASSUME NEW t \in Nat, \A i \in new : ~(ns[i].t <= t), AllClosed(ms, t)
      PROVE  AllClosed(ns, t)
  <2>1. ASSUME NEW i \in CallRows(ns), ns[i].t <= t PROVE ClosedAt(ns, i)
    <3>1. CASE i \in CallRows(ms)
      BY <1>1, <1>5, <1>8, <2>1, <3>1 DEF AllClosed
    <3>2. CASE i \in new
      BY <1>8, <2>1, <3>2
    <3> QED BY <1>1, <2>1, <3>1, <3>2
  <2> QED BY <2>1 DEF AllClosed
<1>9. ASSUME NEW t, NEW h, AllFull(ms, t, h), new = {h}
      PROVE  AllFull(ns, t, h)
  BY <1>1, <1>4, <1>9 DEF AllFull
<1> QED BY <1>6, <1>7, <1>8, <1>9

\* The turn stays at its calls, if only tool and open rows come behind them.
LEMMA SteadyOn ==
  ASSUME NEW ms, NEW ns, Steady(ms, ns, {}), NEW t, NEW rest, OnCall(ms, t, rest),
         \A h \in CallRows(ms) : LastIs(ms, h) => LastIs(ns, h)
  PROVE  OnCall(ns, t, rest)
<1>1. PICK h \in CallRows(ms) : ms[h].t = t /\ LastIs(ms, h) /\ AllFull(ms, t, h) /\ Owes(ms, h, rest)
  BY DEF OnCall
<1>2. h \in CallRows(ns) /\ ns[h].t = t
  BY <1>1 DEF Steady
<1>3. AllFull(ns, t, h)
  BY <1>1, SteadyKeeps
<1>4. Owes(ns, h, rest)
  BY <1>1, SteadyRow
<1> QED BY <1>1, <1>2, <1>3, <1>4 DEF OnCall

-----------------------------------------------------------------------------
(* The open row at the end grows or goes away.                             *)

\* The rows of the turns stay.
LEMMA LikeRows ==
  ASSUME NEW ms, NEW ns, Like(ms, ns)
  PROVE  /\ \A t : HasUser(ns, t) <=> HasUser(ms, t)
         /\ \A t : HasStop(ns, t) <=> HasStop(ms, t)
         /\ \A t : HasReply(ns, t) <=> HasReply(ms, t)
         /\ \A t : Present(ns, t) => Present(ms, t)
<1>1. /\ Len(ms) \in Nat /\ Len(ns) \in Nat /\ Len(ns) <= Len(ms)
      /\ \A i \in 1 .. Len(ns) : i \in 1 .. Len(ms) /\ ms[i].k = ns[i].k /\ ms[i].t = ns[i].t
  BY DEF Like, Listed, Same
<1>2. \A i \in 1 .. Len(ms) : i \in 1 .. Len(ns) \/ ms[i].k = "open"
  BY DEF Like, Listed
<1>3. \A t : HasUser(ns, t) <=> HasUser(ms, t)
  BY <1>1, <1>2 DEF HasUser
<1>4. \A t : HasStop(ns, t) <=> HasStop(ms, t)
  BY <1>1, <1>2 DEF HasStop
<1>5. \A t : HasReply(ns, t) <=> HasReply(ms, t)
  BY <1>1, <1>2 DEF HasReply
<1>6. \A t : Present(ns, t) => Present(ms, t)
  BY <1>1 DEF Present
<1> QED BY <1>3, <1>4, <1>5, <1>6

\* The turns stay in order.
LEMMA LikeSorted ==
  ASSUME NEW ms, NEW ns, Like(ms, ns), Sorted(ms)
  PROVE  Sorted(ns)
<1>1. /\ Len(ms) \in Nat /\ Len(ns) \in Nat /\ Len(ns) <= Len(ms)
      /\ \A i \in 1 .. Len(ns) : i \in 1 .. Len(ms) /\ ms[i].k = ns[i].k /\ ms[i].t = ns[i].t
  BY DEF Like, Listed, Same
<1>2. \A t : HasUser(ns, t) <=> HasUser(ms, t)
  BY LikeRows
<1>3. \A i, j \in 1 .. Len(ns) : i < j => ns[i].t <= ns[j].t
  BY <1>1 DEF Sorted
<1>4. \A i, j \in 1 .. Len(ns) : ns[i].k = "user" /\ ns[i].t = ns[j].t => i <= j
  BY <1>1 DEF Sorted
<1>5. \A i \in 1 .. Len(ns) : ns[i].k \in {"asst", "tool", "stop"} => HasUser(ns, ns[i].t)
  BY <1>1, <1>2 DEF Sorted
<1>6. \A i, j \in 1 .. Len(ns) : ns[i].k = "stop" /\ i < j => ns[i].t < ns[j].t
  BY <1>1 DEF Sorted
<1> QED BY <1>3, <1>4, <1>5, <1>6 DEF Sorted

\* What the answers to a row are.
LEMMA AnswersAre ==
  ASSUME NEW ms, Listed(ms), NEW i \in Nat
  PROVE  \A j : j \in Answers(ms, i) <=>
           /\ j \in 1 .. Len(ms) /\ j > i /\ ms[j].k = "tool"
           /\ \A k \in i + 1 .. j : ms[k].k \in {"tool", "open"}
BY DEF Answers, RowsAfter, Listed

\* The calls and their rows stay.
LEMMA LikeSteady ==
  ASSUME NEW ms, NEW ns, Like(ms, ns)
  PROVE  Steady(ms, ns, {}) /\ \A h \in CallRows(ms) : LastIs(ms, h) => LastIs(ns, h)
<1>1. /\ Listed(ms) /\ Listed(ns)
      /\ Len(ms) \in Nat /\ Len(ns) \in Nat /\ Len(ns) <= Len(ms)
      /\ DOMAIN ms = 1 .. Len(ms) /\ DOMAIN ns = 1 .. Len(ns)
      /\ \A i \in 1 .. Len(ns) : i \in 1 .. Len(ms) /\ Same(ms[i], ns[i])
  BY DEF Like, Listed
<1>2. \A i \in 1 .. Len(ms) : i \in 1 .. Len(ns) \/ ms[i].k = "open"
  BY DEF Like, Listed
<1>3. CallRows(ns) = CallRows(ms)
  BY <1>1, <1>2 DEF CallRows, Same
<1>4. \A i \in CallRows(ms) : i \in Nat /\ ns[i].t = ms[i].t /\ ns[i].calls = ms[i].calls
  <2>1. \A i \in CallRows(ms) : i \in 1 .. Len(ns)
    BY <1>1, <1>3 DEF CallRows
  <2> QED BY <1>1, <2>1 DEF Same
<1>5. ASSUME NEW i \in CallRows(ms)
      PROVE  /\ Answers(ns, i) = Answers(ms, i) /\ Results(ns, i) = Results(ms, i)
             /\ \A j \in Answers(ms, i) : ns[j].id = ms[j].id
  <2>1. i \in Nat
    BY <1>4
  <2>2. ASSUME NEW j \in Answers(ns, i) PROVE j \in Answers(ms, i)
    <3>1. /\ j \in 1 .. Len(ns) /\ j > i /\ ns[j].k = "tool"
          /\ \A k \in i + 1 .. j : ns[k].k \in {"tool", "open"}
      BY <1>1, <2>1, <2>2, AnswersAre
    <3>2. \A k \in i + 1 .. j : k \in 1 .. Len(ns)
      BY <1>1, <2>1, <3>1
    <3>3. j \in 1 .. Len(ms) /\ ms[j].k = "tool" /\ \A k \in i + 1 .. j : ms[k].k \in {"tool", "open"}
      BY <1>1, <3>1, <3>2 DEF Same
    <3> QED BY <1>1, <2>1, <3>1, <3>3, AnswersAre
  <2>3. ASSUME NEW j \in Answers(ms, i) PROVE j \in Answers(ns, i) /\ j \in 1 .. Len(ns)
    <3>1. /\ j \in 1 .. Len(ms) /\ j > i /\ ms[j].k = "tool"
          /\ \A k \in i + 1 .. j : ms[k].k \in {"tool", "open"}
      BY <1>1, <2>1, <2>3, AnswersAre
    <3>2. j \in 1 .. Len(ns)
      BY <1>2, <3>1
    <3>3. \A k \in i + 1 .. j : k \in 1 .. Len(ns)
      BY <1>1, <2>1, <3>1, <3>2
    <3>4. ns[j].k = "tool" /\ \A k \in i + 1 .. j : ns[k].k \in {"tool", "open"}
      BY <1>1, <3>1, <3>2, <3>3 DEF Same
    <3> QED BY <1>1, <2>1, <3>1, <3>2, <3>4, AnswersAre
  <2>4. Answers(ns, i) = Answers(ms, i) /\ \A j \in Answers(ms, i) : Same(ms[j], ns[j])
    BY <1>1, <2>2, <2>3
  <2> QED BY <2>4 DEF Results, Same
<1>6. Steady(ms, ns, {})
  BY <1>3, <1>4, <1>5 DEF Steady
<1>7. \A h \in CallRows(ms) : LastIs(ms, h) => LastIs(ns, h)
  BY <1>1 DEF LastIs, Same
<1> QED BY <1>6, <1>7

-----------------------------------------------------------------------------
(* A row comes behind the others.                                          *)

\* What it adds to the rows of the turns.
LEMMA LongerRows ==
  ASSUME NEW ms, NEW ns, NEW r, Longer(ms, ns, r)
  PROVE  /\ \A t : HasUser(ns, t) <=> HasUser(ms, t) \/ (r.k = "user" /\ r.t = t)
         /\ \A t : HasStop(ns, t) <=> HasStop(ms, t) \/ (r.k = "stop" /\ r.t = t)
         /\ \A t : HasReply(ns, t) <=> HasReply(ms, t) \/ (r.k \in {"asst", "stop"} /\ r.t = t)
         /\ \A t : Present(ns, t) <=> Present(ms, t) \/ r.t = t
<1>1. /\ Len(ms) \in Nat /\ Len(ns) = Len(ms) + 1 /\ ns[Len(ms) + 1] = r
      /\ \A i \in 1 .. Len(ms) : ns[i] = ms[i]
  BY DEF Longer, Listed
<1>2. Len(ms) + 1 \in 1 .. Len(ns) /\ \A i \in 1 .. Len(ns) : i \in 1 .. Len(ms) \/ i = Len(ms) + 1
  BY <1>1
<1>3. \A i \in 1 .. Len(ms) : i \in 1 .. Len(ns)
  BY <1>1
<1>4. \A t : HasUser(ns, t) <=> HasUser(ms, t) \/ (r.k = "user" /\ r.t = t)
  BY <1>1, <1>2, <1>3 DEF HasUser
<1>5. \A t : HasStop(ns, t) <=> HasStop(ms, t) \/ (r.k = "stop" /\ r.t = t)
  BY <1>1, <1>2, <1>3 DEF HasStop
<1>6. \A t : HasReply(ns, t) <=> HasReply(ms, t) \/ (r.k \in {"asst", "stop"} /\ r.t = t)
  BY <1>1, <1>2, <1>3 DEF HasReply
<1>7. \A t : Present(ns, t) <=> Present(ms, t) \/ r.t = t
  BY <1>1, <1>2, <1>3 DEF Present
<1> QED BY <1>4, <1>5, <1>6, <1>7

\* The turns stay in order when it belongs to the last turn, which has not
\* stopped: its question first, and all else behind the question.
LEMMA LongerSorted ==
  ASSUME NEW ms, NEW ns, NEW r, Longer(ms, ns, r), Sorted(ms),
         \A t : Present(ms, t) => t <= r.t, ~HasStop(ms, r.t),
         r.k = "user" => ~Present(ms, r.t),
         r.k \in {"asst", "tool", "stop"} => HasUser(ms, r.t)
  PROVE  Sorted(ns)
<1>1. /\ Len(ms) \in Nat /\ Len(ns) = Len(ms) + 1 /\ ns[Len(ms) + 1] = r
      /\ \A i \in 1 .. Len(ms) : ns[i] = ms[i] /\ ms[i] \in Rows
      /\ r \in Rows
  BY ListedIs DEF Longer, Listed
<1>2. \A i \in 1 .. Len(ns) : i \in 1 .. Len(ms) \/ i = Len(ms) + 1
  BY <1>1
<1>3. \A i \in 1 .. Len(ms) : ms[i].t <= r.t /\ ms[i].t \in Nat /\ r.t \in Nat /\ ~(ms[i].k = "stop" /\ ms[i].t = r.t)
  <2>1. \A i \in 1 .. Len(ms) : ms[i].t \in Turns /\ r.t \in Turns
    BY <1>1, RowFields
  <2>2. Turns \subseteq Nat
    BY BoundAssumption DEF Turns
  <2> QED BY <2>1, <2>2 DEF Present, HasStop
<1>4. \A t : HasUser(ms, t) => HasUser(ns, t)
  BY LongerRows
<1>5. \A i, j \in 1 .. Len(ns) : i < j => i \in 1 .. Len(ms) /\ (j \in 1 .. Len(ms) \/ j = Len(ms) + 1)
  BY <1>1, <1>2
<1>6. \A i, j \in 1 .. Len(ns) : i < j => ns[i].t <= ns[j].t
  BY <1>1, <1>3, <1>5 DEF Sorted
<1>7. ASSUME NEW i \in 1 .. Len(ns), NEW j \in 1 .. Len(ns), ns[i].k = "user", ns[i].t = ns[j].t
      PROVE  i <= j
  <2>1. CASE i \in 1 .. Len(ms) /\ j \in 1 .. Len(ms)
    BY <1>1, <1>7, <2>1 DEF Sorted
  <2>2. CASE i \in 1 .. Len(ms) /\ j = Len(ms) + 1
    BY <1>1, <2>2
  <2>3. CASE i = Len(ms) + 1 /\ j \in 1 .. Len(ms)
    BY <1>1, <1>7, <2>3 DEF Present
  <2>4. CASE i = Len(ms) + 1 /\ j = Len(ms) + 1
    BY <1>1, <2>4
  <2> QED BY <1>2, <2>1, <2>2, <2>3, <2>4
<1>8. \A i \in 1 .. Len(ns) : ns[i].k \in {"asst", "tool", "stop"} => HasUser(ns, ns[i].t)
  BY <1>1, <1>2, <1>4 DEF Sorted
<1>9. \A i, j \in 1 .. Len(ns) : ns[i].k = "stop" /\ i < j => ns[i].t < ns[j].t
  BY <1>1, <1>3, <1>5 DEF Sorted
<1> QED BY <1>6, <1>7, <1>8, <1>9 DEF Sorted

\* A row that is no tool row leaves the calls as they are; it may be a
\* response with calls itself.
LEMMA LongerSteady ==
  ASSUME NEW ms, NEW ns, NEW r, Longer(ms, ns, r), r.k # "tool"
  PROVE  /\ Steady(ms, ns, IF r.k = "asst" /\ r.calls # <<>> THEN {Len(ns)} ELSE {})
         /\ r.k = "open" => \A h \in CallRows(ms) : LastIs(ms, h) => LastIs(ns, h)
         /\ LastIs(ns, Len(ns))
<1>1. /\ Listed(ms) /\ Listed(ns) /\ DOMAIN ms = 1 .. Len(ms) /\ DOMAIN ns = 1 .. Len(ns)
      /\ Len(ms) \in Nat /\ Len(ns) = Len(ms) + 1 /\ ns[Len(ms) + 1] = r
      /\ \A i \in 1 .. Len(ms) : ns[i] = ms[i]
  BY DEF Longer, Listed
<1>2. \A i \in 1 .. Len(ns) : i \in 1 .. Len(ms) \/ i = Len(ms) + 1
  BY <1>1
<1>3. \A i \in 1 .. Len(ms) : i \in 1 .. Len(ns) /\ i # Len(ns)
  BY <1>1
<1> DEFINE new == IF r.k = "asst" /\ r.calls # <<>> THEN {Len(ns)} ELSE {}
<1>4. CallRows(ns) = CallRows(ms) \cup new
  BY <1>1, <1>2, <1>3 DEF CallRows
<1>5. \A i \in CallRows(ms) : i \in 1 .. Len(ms) /\ i \in Nat
  BY <1>1 DEF CallRows
<1>6. ASSUME NEW i \in CallRows(ms)
      PROVE  Answers(ns, i) = Answers(ms, i) /\ Results(ns, i) = Results(ms, i)
  <2>1. ASSUME NEW j \in Answers(ns, i) PROVE j \in Answers(ms, i) /\ j \in 1 .. Len(ms)
    <3>1. /\ j \in 1 .. Len(ns) /\ j > i /\ ns[j].k = "tool"
          /\ \A k \in i + 1 .. j : ns[k].k \in {"tool", "open"}
      BY <1>1, <1>5, <2>1, AnswersAre
    <3>2. j \in 1 .. Len(ms)
      BY <1>1, <1>2, <3>1
    <3>3. \A k \in i + 1 .. j : k \in 1 .. Len(ms)
      BY <1>1, <1>5, <3>2
    <3>4. ms[j].k = "tool" /\ \A k \in i + 1 .. j : ms[k].k \in {"tool", "open"}
      BY <1>1, <3>1, <3>2, <3>3
    <3> QED BY <1>1, <1>5, <3>1, <3>2, <3>4, AnswersAre
  <2>2. ASSUME NEW j \in Answers(ms, i) PROVE j \in Answers(ns, i) /\ j \in 1 .. Len(ms)
    <3>1. /\ j \in 1 .. Len(ms) /\ j > i /\ ms[j].k = "tool"
          /\ \A k \in i + 1 .. j : ms[k].k \in {"tool", "open"}
      BY <1>1, <1>5, <2>2, AnswersAre
    <3>2. \A k \in i + 1 .. j : k \in 1 .. Len(ms)
      BY <1>1, <1>5, <3>1
    <3>3. j \in 1 .. Len(ns) /\ ns[j].k = "tool" /\ \A k \in i + 1 .. j : ns[k].k \in {"tool", "open"}
      BY <1>1, <1>3, <3>1, <3>2
    <3> QED BY <1>1, <1>5, <3>1, <3>3, AnswersAre
  <2>3. Answers(ns, i) = Answers(ms, i) /\ \A j \in Answers(ms, i) : ns[j] = ms[j]
    BY <1>1, <2>1, <2>2
  <2> QED BY <2>3 DEF Results
<1>7. \A i \in CallRows(ms) : \A j \in Answers(ms, i) : ns[j].id = ms[j].id
  <2>1. \A i \in CallRows(ms) : \A j \in Answers(ms, i) : j \in 1 .. Len(ms)
    BY <1>1, <1>5, AnswersAre
  <2> QED BY <1>1, <2>1
<1>8. \A i \in new : Results(ns, i) = {} /\ i \notin CallRows(ms)
  <2>1. Answers(ns, Len(ns)) = {}
    BY <1>1, AnswersAre
  <2>2. Len(ns) \notin CallRows(ms)
    BY <1>3, <1>5
  <2> QED BY <2>1, <2>2, ResultsAnswer
<1>9. Steady(ms, ns, new)
  <2>1. \A i \in CallRows(ms) : ns[i].t = ms[i].t /\ ns[i].calls = ms[i].calls
    BY <1>1, <1>5
  <2> HIDE DEF new
  <2> QED BY <1>4, <1>6, <1>7, <1>8, <2>1 DEF Steady
<1>10. LastIs(ns, Len(ns))
  BY <1>1 DEF LastIs
<1>11. r.k = "open" => \A h \in CallRows(ms) : LastIs(ms, h) => LastIs(ns, h)
  BY <1>1, <1>2 DEF LastIs
<1> QED BY <1>9, <1>10, <1>11

-----------------------------------------------------------------------------
(* The result of the call whose turn it is comes behind the others.        *)

\* The calls of a row are a list without repetition.
LEMMA CallsAre ==
  ASSUME NEW ms \in Seq(Rows), NEW i \in CallRows(ms)
  PROVE  /\ i \in 1 .. Len(ms) /\ i \in Nat \ {0} /\ ms[i].t \in Turns /\ ms[i].t \in Nat
         /\ ms[i].k = "asst" /\ ms[i].calls \in CallLists /\ ms[i].calls \in Seq(Ids)
         /\ Len(ms[i].calls) \in Nat /\ DOMAIN ms[i].calls = 1 .. Len(ms[i].calls)
         /\ \A m, n \in 1 .. Len(ms[i].calls) : ms[i].calls[m] = ms[i].calls[n] => m = n
<1>1. Listed(ms) /\ \A j \in 1 .. Len(ms) : ms[j] \in Rows
  BY ListedIs
<1>2. i \in 1 .. Len(ms) /\ ms[i].k = "asst" /\ ms[i].calls # <<>>
  BY <1>1 DEF CallRows, Listed
<1>3. ms[i].t \in Turns /\ ms[i].calls \in CallLists
  BY <1>1, <1>2, RowFields
<1>4. ms[i].t \in Nat /\ i \in Nat \ {0}
  BY <1>1, <1>2, <1>3, BoundAssumption DEF Turns, Listed
<1> DEFINE c == ms[i].calls
<1> HIDE DEF c
<1>5. c \in CallLists /\ c \in Seq(Ids)
  BY <1>3, DataAssumption DEF c
<1>6. Len(c) \in Nat /\ DOMAIN c = 1 .. Len(c)
  BY <1>5, LenProperties
<1>7. \A m, n \in 1 .. Len(c) : c[m] = c[n] => m = n
  BY <1>5, <1>6, DataAssumption
<1> QED BY <1>2, <1>3, <1>4, <1>5, <1>6, <1>7 DEF c

\* How the answers grow: those of the row the turn is at, and no other.
LEMMA ResultAnswers ==
  ASSUME NEW ms, NEW ns, NEW r, Longer(ms, ns, r), r.k = "tool",
         NEW h \in CallRows(ms), LastIs(ms, h)
  PROVE  /\ CallRows(ns) = CallRows(ms) /\ LastIs(ns, h)
         /\ \A i \in CallRows(ms) : ns[i] = ms[i] /\ \A j \in Answers(ms, i) : ns[j] = ms[j]
         /\ \A i \in CallRows(ms) : i # h => Answers(ns, i) = Answers(ms, i) /\ Results(ns, i) = Results(ms, i)
         /\ Answers(ns, h) = Answers(ms, h) \cup {Len(ns)}
         /\ r.res = "result" => Results(ns, h) = Results(ms, h) \cup {Len(ns)}
         /\ \A j \in Answers(ms, h) : j < Len(ns)
<1>1. /\ Listed(ms) /\ Listed(ns) /\ DOMAIN ms = 1 .. Len(ms) /\ DOMAIN ns = 1 .. Len(ns)
      /\ Len(ms) \in Nat /\ Len(ns) = Len(ms) + 1 /\ ns[Len(ms) + 1] = r
      /\ \A i \in 1 .. Len(ms) : ns[i] = ms[i]
  BY DEF Longer, Listed
<1>2. \A i \in 1 .. Len(ns) : i \in 1 .. Len(ms) \/ i = Len(ms) + 1
  BY <1>1
<1>3. \A i \in 1 .. Len(ms) : i \in 1 .. Len(ns)
  BY <1>1
<1>4. CallRows(ns) = CallRows(ms)
  BY <1>1, <1>2, <1>3 DEF CallRows
<1>5. \A i \in CallRows(ms) : i \in 1 .. Len(ms) /\ i \in Nat /\ ms[i].k = "asst"
  BY <1>1 DEF CallRows
<1>6. LastIs(ns, h)
  BY <1>1, <1>2 DEF LastIs
<1>7. \A i \in CallRows(ms) : \A j \in Answers(ms, i) : j \in 1 .. Len(ms)
  BY <1>1, <1>5, AnswersAre
<1>8. \A i \in CallRows(ms) : ns[i] = ms[i] /\ \A j \in Answers(ms, i) : ns[j] = ms[j]
  BY <1>1, <1>5, <1>7
<1>9. ASSUME NEW i \in CallRows(ms), NEW j \in Answers(ms, i) PROVE j \in Answers(ns, i)
  <2>1. /\ j \in 1 .. Len(ms) /\ j > i /\ ms[j].k = "tool"
        /\ \A k \in i + 1 .. j : ms[k].k \in {"tool", "open"}
    BY <1>1, <1>5, <1>9, AnswersAre
  <2>2. \A k \in i + 1 .. j : k \in 1 .. Len(ms)
    BY <1>1, <1>5, <2>1
  <2>3. j \in 1 .. Len(ns) /\ ns[j].k = "tool" /\ \A k \in i + 1 .. j : ns[k].k \in {"tool", "open"}
    BY <1>1, <1>3, <2>1, <2>2
  <2> QED BY <1>1, <1>5, <2>1, <2>3, AnswersAre
<1>10. ASSUME NEW i \in CallRows(ms), NEW j \in Answers(ns, i), j # Len(ns) PROVE j \in Answers(ms, i)
  <2>1. /\ j \in 1 .. Len(ns) /\ j > i /\ ns[j].k = "tool"
        /\ \A k \in i + 1 .. j : ns[k].k \in {"tool", "open"}
    BY <1>1, <1>5, <1>10, AnswersAre
  <2>2. j \in 1 .. Len(ms)
    BY <1>1, <1>2, <1>10, <2>1
  <2>3. \A k \in i + 1 .. j : k \in 1 .. Len(ms)
    BY <1>1, <1>5, <2>2
  <2>4. ms[j].k = "tool" /\ \A k \in i + 1 .. j : ms[k].k \in {"tool", "open"}
    BY <1>1, <2>1, <2>2, <2>3
  <2> QED BY <1>1, <1>5, <2>1, <2>2, <2>4, AnswersAre
<1>11. ASSUME NEW i \in CallRows(ms), i # h
       PROVE  Answers(ns, i) = Answers(ms, i) /\ Results(ns, i) = Results(ms, i)
  <2>1. i < h
    <3>1. i > h => ms[i].k \in {"tool", "open"}
      BY <1>5 DEF LastIs
    <3> QED BY <1>5, <1>11, <3>1
  <2>2. h \in i + 1 .. Len(ns) /\ ns[h].k = "asst"
    BY <1>1, <1>5, <2>1
  <2>3. Len(ns) \notin Answers(ns, i)
    BY <1>1, <1>5, <2>2, AnswersAre
  <2>4. Answers(ns, i) = Answers(ms, i)
    BY <1>9, <1>10, <2>3
  <2> QED BY <1>8, <2>4 DEF Results
<1>12. Len(ns) \in Answers(ns, h)
  <2>1. Len(ns) \in 1 .. Len(ns) /\ Len(ns) > h /\ ns[Len(ns)].k = "tool"
    BY <1>1, <1>5
  <2>2. \A k \in h + 1 .. Len(ns) : k \in 1 .. Len(ns) /\ k > h
    BY <1>1, <1>5
  <2>3. \A k \in h + 1 .. Len(ns) : ns[k].k \in {"tool", "open"}
    BY <1>6, <2>2 DEF LastIs
  <2> QED BY <1>1, <1>5, <2>1, <2>3, AnswersAre
<1>13. Answers(ns, h) = Answers(ms, h) \cup {Len(ns)}
  BY <1>9, <1>10, <1>12
<1>14. r.res = "result" => Results(ns, h) = Results(ms, h) \cup {Len(ns)}
  BY <1>1, <1>8, <1>13 DEF Results
<1>15. \A j \in Answers(ms, h) : j < Len(ns)
  BY <1>1, <1>7
<1> QED BY <1>4, <1>6, <1>8, <1>11, <1>13, <1>14, <1>15

\* The result is paired with the first call that is to come; the turn waits
\* for the calls behind that one.
LEMMA ResultPaired ==
  ASSUME NEW ms \in Seq(Rows), NEW ns, NEW r, Longer(ms, ns, r), r.k = "tool", r.res = "result",
         NEW t, NEW q \in Seq(Ids), NEW rest \in Seq(Ids), OnCall(ms, t, q),
         Len(q) = Len(rest) + 1, q[1] = r.id, \A n \in 1 .. Len(rest) : rest[n] = q[n + 1],
         Paired(ms)
  PROVE  Paired(ns) /\ OnCall(ns, t, rest)
<1>1. PICK h \in CallRows(ms) : ms[h].t = t /\ LastIs(ms, h) /\ AllFull(ms, t, h) /\ Owes(ms, h, q)
  BY DEF OnCall
<1> DEFINE calls == ms[h].calls  m == Len(calls) - Len(q)  new == Len(ns)
<1>2. /\ CallRows(ns) = CallRows(ms) /\ LastIs(ns, h)
      /\ \A i \in CallRows(ms) : ns[i] = ms[i] /\ \A j \in Answers(ms, i) : ns[j] = ms[j]
      /\ \A i \in CallRows(ms) : i # h => Results(ns, i) = Results(ms, i)
      /\ Results(ns, h) = Results(ms, h) \cup {new}
      /\ \A j \in Answers(ms, h) : j < new
  BY <1>1, ResultAnswers
<1>3. \A i \in CallRows(ms) : \A j \in Results(ms, i) : ns[j] = ms[j]
  BY <1>2, ResultsAnswer
<1>4. \A j \in Results(ms, h) : j < new
  BY <1>2, ResultsAnswer
<1>5. ns[new] = r
  BY DEF Longer
<1>6. /\ Len(calls) \in Nat /\ \A a, b \in 1 .. Len(calls) : calls[a] = calls[b] => a = b
  BY CallsAre
<1>7. Len(rest) \in Nat /\ Len(q) \in Nat
  BY LenProperties
<1>8. m \in Nat /\ m + 1 \in 1 .. Len(calls) /\ r.id = calls[m + 1]
  <2>1. Len(calls) >= Len(q) /\ \A n \in 1 .. Len(q) : q[n] = calls[m + n]
    BY <1>1 DEF Owes
  <2>2. 1 \in 1 .. Len(q)
    BY <1>7
  <2> QED BY <1>6, <1>7, <2>1, <2>2
<1>9. /\ \A n \in 1 .. m : \E j \in Results(ms, h) : ms[j].id = calls[n]
      /\ \A j \in Results(ms, h) : \E n \in 1 .. m : ms[j].id = calls[n]
  BY <1>1 DEF Owes
<1>10. ns[h].calls = calls
  BY <1>2
<1>11. PairedAt(ms, h)
  BY DEF Paired
<1>12. PairedAt(ns, h)
  <2>1. ASSUME NEW j \in Results(ns, h)
        PROVE  \E n \in 1 .. Len(calls) :
                 /\ ns[j].id = calls[n]
                 /\ \A a \in 1 .. n - 1 : \E k \in Results(ns, h) : k < j /\ ns[k].id = calls[a]
    <3>1. CASE j \in Results(ms, h)
      <4>1. PICK n \in 1 .. Len(calls) :
              /\ ms[j].id = calls[n]
              /\ \A a \in 1 .. n - 1 : \E k \in Results(ms, h) : k < j /\ ms[k].id = calls[a]
        BY <1>11, <3>1 DEF PairedAt
      <4>2. \A a \in 1 .. n - 1 : \E k \in Results(ns, h) : k < j /\ ns[k].id = calls[a]
        <5> HIDE DEF calls, new
        <5> QED BY <1>2, <1>3, <4>1
      <4>3. ns[j].id = calls[n]
        BY <1>3, <3>1, <4>1
      <4> QED BY <4>2, <4>3
    <3>2. CASE j = new
      <4>1. ns[j].id = calls[m + 1]
        BY <1>5, <1>8, <3>2
      <4>2. \A a \in 1 .. m : \E k \in Results(ns, h) : k < j /\ ns[k].id = calls[a]
        <5>1. ASSUME NEW a \in 1 .. m PROVE \E k \in Results(ns, h) : k < j /\ ns[k].id = calls[a]
          <6>1. PICK k \in Results(ms, h) : ms[k].id = calls[a]
            BY <1>9
          <6>2. k \in Results(ns, h) /\ k < j /\ ns[k].id = calls[a]
            BY <1>2, <1>3, <1>4, <3>2, <6>1
          <6> QED BY <6>2
        <5> QED BY <5>1
      <4>3. m + 1 - 1 = m
        BY <1>8
      <4> HIDE DEF m, calls
      <4> QED BY <1>8, <4>1, <4>2, <4>3
    <3> QED BY <1>2, <2>1, <3>1, <3>2
  <2>2. ASSUME NEW j \in Results(ns, h), NEW k \in Results(ns, h), ns[j].id = ns[k].id PROVE j = k
    <3>1. ASSUME NEW a \in Results(ms, h) PROVE ns[a].id # ns[new].id
      <4>1. PICK n \in 1 .. m : ms[a].id = calls[n]
        BY <1>9
      <4>2. n \in 1 .. Len(calls) /\ n # m + 1
        BY <1>6, <1>8
      <4>3. calls[n] # calls[m + 1]
        <5> HIDE DEF m, calls
        <5> QED BY <1>6, <1>8, <4>2
      <4> QED BY <1>3, <1>5, <1>8, <4>1, <4>3
    <3>2. CASE j \in Results(ms, h) /\ k \in Results(ms, h)
      BY <1>3, <1>11, <2>2, <3>2 DEF PairedAt
    <3> HIDE DEF new
    <3> QED BY <1>2, <2>2, <3>1, <3>2
  <2> HIDE DEF calls
  <2> QED BY <1>10, <2>1, <2>2 DEF PairedAt
<1>13. ASSUME NEW i \in CallRows(ms), i # h PROVE PairedAt(ns, i) /\ (Full(ms, i) => Full(ns, i))
  <2>1. Results(ns, i) = Results(ms, i) /\ ns[i] = ms[i] /\ \A j \in Results(ms, i) : ns[j] = ms[j]
    BY <1>2, <1>3, <1>13
  <2>2. PairedAt(ms, i)
    BY <1>13 DEF Paired
  <2>5. ns[i].calls = ms[i].calls /\ \A j \in Results(ms, i) : ns[j].id = ms[j].id
    BY <2>1
  <2>3. PairedAt(ns, i)
    BY <2>1, <2>2, <2>5 DEF PairedAt
  <2>4. Full(ms, i) => Full(ns, i)
    BY <2>1 DEF Full
  <2> QED BY <2>3, <2>4
<1>14. Paired(ns)
  BY <1>2, <1>12, <1>13 DEF Paired
<1>15. AllFull(ns, t, h)
  BY <1>1, <1>2, <1>13 DEF AllFull
<1>16. Owes(ns, h, rest)
  <2>1. Len(calls) - Len(rest) = m + 1 /\ Len(calls) >= Len(rest)
    BY <1>6, <1>7, <1>8
  <2>2. \A n \in 1 .. Len(rest) : rest[n] = calls[m + 1 + n]
    <3>1. \A n \in 1 .. Len(q) : q[n] = calls[m + n]
      BY <1>1 DEF Owes
    <3>2. ASSUME NEW n \in 1 .. Len(rest) PROVE rest[n] = calls[m + 1 + n]
      <4> HIDE DEF m
      <4>1. n + 1 \in 1 .. Len(q)
        BY <1>7
      <4>2. m \in Nat
        BY <1>8
      <4>3. m + (n + 1) = m + 1 + n
        BY <4>2
      <4> QED BY <3>1, <4>1, <4>3
    <3> QED BY <3>2
  <2> HIDE DEF m, calls, new
  <2>3. ASSUME NEW n \in 1 .. m + 1 PROVE \E j \in Results(ns, h) : ns[j].id = calls[n]
    <3>1. n \in 1 .. m \/ n = m + 1
      BY <1>8
    <3>2. CASE n \in 1 .. m
      <4>1. PICK j \in Results(ms, h) : ms[j].id = calls[n]
        BY <1>9, <3>2
      <4> QED BY <1>2, <1>3, <4>1
    <3>3. CASE n = m + 1
      BY <1>2, <1>5, <1>8, <3>3
    <3> QED BY <3>1, <3>2, <3>3
  <2>4. ASSUME NEW j \in Results(ns, h) PROVE \E n \in 1 .. m + 1 : ns[j].id = calls[n]
    <3>1. \A n \in 1 .. m : n \in 1 .. m + 1
      BY <1>8
    <3>2. m + 1 \in 1 .. m + 1
      BY <1>8
    <3>3. CASE j \in Results(ms, h)
      <4>1. PICK n \in 1 .. m : ms[j].id = calls[n]
        BY <1>9, <3>3
      <4> QED BY <1>3, <3>1, <3>3, <4>1
    <3>4. CASE j = new
      BY <1>5, <1>8, <3>2, <3>4
    <3> QED BY <1>2, <2>4, <3>3, <3>4
  <2> QED BY <1>10, <2>1, <2>2, <2>3, <2>4 DEF Owes
<1>17. ns[h].t = t /\ h \in CallRows(ns)
  BY <1>1, <1>2
<1> QED BY <1>2, <1>14, <1>15, <1>16, <1>17 DEF OnCall

\* The calls that had their results and tool rows still have them.
LEMMA ResultKeeps ==
  ASSUME NEW ms, NEW ns, NEW r, Longer(ms, ns, r), r.k = "tool",
         NEW h \in CallRows(ms), LastIs(ms, h)
  PROVE  /\ \A u, a : AllFull(ms, u, a) => AllFull(ns, u, a)
         /\ \A u : AllClosed(ms, u) => AllClosed(ns, u)
<1>1. /\ CallRows(ns) = CallRows(ms)
      /\ \A i \in CallRows(ms) : ns[i] = ms[i] /\ \A j \in Answers(ms, i) : ns[j] = ms[j]
      /\ \A i \in CallRows(ms) : Answers(ms, i) \subseteq Answers(ns, i)
  BY ResultAnswers
<1>2. \A i \in CallRows(ms) : Results(ms, i) \subseteq Results(ns, i) /\ \A j \in Results(ms, i) : ns[j] = ms[j]
  BY <1>1 DEF Results
<1>3. \A i \in CallRows(ms) : Full(ms, i) => Full(ns, i)
  BY <1>1, <1>2 DEF Full
<1>4. \A i \in CallRows(ms) : ClosedAt(ms, i) => ClosedAt(ns, i)
  BY <1>1 DEF ClosedAt
<1>5. \A u, a : AllFull(ms, u, a) => AllFull(ns, u, a)
  BY <1>1, <1>3 DEF AllFull
<1>6. \A u : AllClosed(ms, u) => AllClosed(ns, u)
  BY <1>1, <1>4 DEF AllClosed
<1> QED BY <1>5, <1>6

-----------------------------------------------------------------------------
(* FillCancelled: where the rows and the rows it adds end up.              *)

\* The cancelled rows of a response.
LEMMA CancelledAre ==
  ASSUME NEW ms \in Seq(Rows), NEW i \in 1 .. Len(ms), ms[i].k = "asst"
  PROVE  /\ CancelledRows(ms, i) \in Seq(Rows)
         /\ \A c \in 1 .. Len(CancelledRows(ms, i)) :
              /\ CancelledRows(ms, i)[c].k = "tool" /\ CancelledRows(ms, i)[c].res = "cancelled"
              /\ CancelledRows(ms, i)[c].t = ms[i].t
         /\ \A n \in 1 .. Len(ms[i].calls) :
              \/ \E j \in Block(ms, i) : ms[j].id = ms[i].calls[n]
              \/ \E c \in 1 .. Len(CancelledRows(ms, i)) : CancelledRows(ms, i)[c].id = ms[i].calls[n]
<1>1. ms[i] \in Rows
  BY ListedIs
<1>2. ms[i].t \in Turns /\ ms[i].calls \in CallLists \cup {<<>>}
  BY <1>1, RowFields
<1>3. ms[i].calls \in Seq(Ids)
  BY <1>2, EmptySeq, DataAssumption
<1> DEFINE q == Missing(ms, i)  r == CancelledRows(ms, i)
<1>4. /\ q \in Seq(Ids)
      /\ \A x : Contains(q, x) <=> Contains(ms[i].calls, x) /\ x \notin AnsweredIds(ms, i)
  BY <1>3, WithoutProperties DEF Missing
<1>5. Len(q) \in Nat /\ DOMAIN q = 1 .. Len(q) /\ \A c \in 1 .. Len(q) : q[c] \in Ids
  BY <1>4, LenProperties, ElementOfSeq
<1>6. r = [n \in 1 .. Len(q) |-> Tool(ms[i].t, q[n], "cancelled")]
  BY <1>5 DEF CancelledRows
<1>7. \A c \in 1 .. Len(q) :
        /\ Tool(ms[i].t, q[c], "cancelled") \in Rows
        /\ Tool(ms[i].t, q[c], "cancelled").k = "tool" /\ Tool(ms[i].t, q[c], "cancelled").res = "cancelled"
        /\ Tool(ms[i].t, q[c], "cancelled").t = ms[i].t /\ Tool(ms[i].t, q[c], "cancelled").id = q[c]
  BY <1>2, <1>5, RowsAre
<1>8. ASSUME NEW n \in 1 .. Len(ms[i].calls), ms[i].calls[n] \notin AnsweredIds(ms, i)
      PROVE  \E c \in 1 .. Len(q) : q[c] = ms[i].calls[n]
  <2>1. DOMAIN ms[i].calls = 1 .. Len(ms[i].calls)
    BY <1>3, LenProperties
  <2>2. Contains(ms[i].calls, ms[i].calls[n])
    BY <2>1 DEF Contains
  <2>3. Contains(q, ms[i].calls[n])
    BY <1>4, <1>8, <2>2
  <2> QED BY <1>5, <2>3 DEF Contains
<1>9. r \in Seq(Rows) /\ Len(r) = Len(q) /\ \A c \in 1 .. Len(q) : r[c] = Tool(ms[i].t, q[c], "cancelled")
  <2> HIDE DEF q
  <2>1. r \in [1 .. Len(q) -> Rows]
    BY <1>6, <1>7
  <2>2. r \in Seq(Rows) /\ Len(r) = Len(q)
    BY <1>5, <2>1, IsASeq, LenProperties
  <2> QED BY <1>6, <2>2
<1>10. ASSUME NEW n \in 1 .. Len(ms[i].calls)
       PROVE  \/ \E j \in Block(ms, i) : ms[j].id = ms[i].calls[n]
              \/ \E c \in 1 .. Len(r) : r[c].id = ms[i].calls[n]
  <2>1. CASE ms[i].calls[n] \in AnsweredIds(ms, i)
    BY <2>1 DEF AnsweredIds
  <2>2. CASE ms[i].calls[n] \notin AnsweredIds(ms, i)
    <3>1. PICK c \in 1 .. Len(q) : q[c] = ms[i].calls[n]
      BY <1>8, <2>2
    <3>2. r[c].id = ms[i].calls[n] /\ c \in 1 .. Len(r)
      BY <1>7, <1>9, <3>1
    <3> QED BY <3>2
  <2> QED BY <2>1, <2>2
<1> HIDE DEF q, r
<1>11. \A c \in 1 .. Len(r) : r[c].k = "tool" /\ r[c].res = "cancelled" /\ r[c].t = ms[i].t
  BY <1>7, <1>9
<1> QED BY <1>9, <1>10, <1>11 DEF r

\* The response whose block ends in row n.
LEMMA BlockOfOne ==
  ASSUME NEW ms \in Seq(Rows), NEW n \in 1 .. Len(ms)
  PROVE  /\ \A i : i \in BlockOf(ms, n) <=>
              /\ i \in 1 .. n /\ ms[i].k = "asst" /\ \A k \in i + 1 .. n : ms[k].k = "tool"
              /\ n < Len(ms) => ms[n + 1].k # "tool"
         /\ \A i, j \in BlockOf(ms, n) : i = j
<1>1. Len(ms) \in Nat /\ DOMAIN ms = 1 .. Len(ms) /\ n \in Nat
  BY ListedIs DEF Listed
<1>2. n + 1 \in DOMAIN ms <=> n < Len(ms)
  BY <1>1
<1>3. ASSUME NEW i \in 1 .. n
      PROVE  (i = n \/ n \in Block(ms, i)) <=> \A k \in i + 1 .. n : ms[k].k = "tool"
  <2>1. i = n => \A k \in i + 1 .. n : FALSE
    BY <1>1
  <2>2. i # n => n > i
    BY <1>1
  <2> QED BY <1>1, <2>1, <2>2 DEF Block
<1>4. \A i : i \in BlockOf(ms, n) <=>
              /\ i \in 1 .. n /\ ms[i].k = "asst" /\ \A k \in i + 1 .. n : ms[k].k = "tool"
              /\ n < Len(ms) => ms[n + 1].k # "tool"
  BY <1>2, <1>3 DEF BlockOf
<1>5. ASSUME NEW i \in BlockOf(ms, n), NEW j \in BlockOf(ms, n), i < j PROVE FALSE
  <2>1. i \in 1 .. n /\ j \in 1 .. n /\ ms[j].k = "asst" /\ \A k \in i + 1 .. n : ms[k].k = "tool"
    BY <1>4, <1>5
  <2>2. j \in i + 1 .. n
    BY <1>1, <1>5, <2>1
  <2> QED BY <2>1, <2>2
<1>6. \A i \in BlockOf(ms, n) : i \in Nat
  BY <1>1, <1>4
<1>7. ASSUME NEW i \in BlockOf(ms, n), NEW j \in BlockOf(ms, n) PROVE i = j
  BY <1>5, <1>6, <1>7
<1> QED BY <1>4, <1>7

\* The rows added behind row n.
LEMMA AddedAre ==
  ASSUME NEW ms \in Seq(Rows), NEW n \in 1 .. Len(ms)
  PROVE  /\ Added(ms, n) \in Seq(Rows) /\ Len(Added(ms, n)) \in Nat
         /\ \A i \in BlockOf(ms, n) : Added(ms, n) = CancelledRows(ms, i)
         /\ \A c \in 1 .. Len(Added(ms, n)) :
              /\ Added(ms, n)[c].k = "tool" /\ Added(ms, n)[c].res = "cancelled"
              /\ \E i \in BlockOf(ms, n) : Added(ms, n)[c].t = ms[i].t
<1>1. CASE BlockOf(ms, n) = {}
  <2>1. Added(ms, n) = <<>> /\ Len(<<>>) = 0 /\ <<>> \in Seq(Rows)
    BY <1>1, EmptySeq DEF Added
  <2> QED BY <1>1, <2>1
<1>2. CASE BlockOf(ms, n) # {}
  <2>1. PICK i \in BlockOf(ms, n) : Added(ms, n) = CancelledRows(ms, i)
    BY <1>2 DEF Added
  <2>2. \A j \in BlockOf(ms, n) : j = i
    BY BlockOfOne
  <2>3. i \in 1 .. Len(ms) /\ ms[i].k = "asst"
    <3>1. i \in 1 .. n /\ ms[i].k = "asst"
      BY BlockOfOne
    <3> QED BY <3>1, ListedIs DEF Listed
  <2>4. CancelledRows(ms, i) \in Seq(Rows) /\ Len(CancelledRows(ms, i)) \in Nat
    BY <2>3, CancelledAre, LenProperties
  <2>5. \A c \in 1 .. Len(CancelledRows(ms, i)) :
          /\ CancelledRows(ms, i)[c].k = "tool" /\ CancelledRows(ms, i)[c].res = "cancelled"
          /\ CancelledRows(ms, i)[c].t = ms[i].t
    BY <2>3, CancelledAre
  <2> QED BY <2>1, <2>2, <2>4, <2>5
<1> QED BY <1>1, <1>2

\* The recursive function in FillCancelled exists, and FillCancelled is its
\* last value.
LEMMA FillFunction ==
  ASSUME NEW ms \in Seq(Rows)
  PROVE  \E f : /\ FillCancelled(ms) = f[Len(ms)]
                /\ \A n \in 0 .. Len(ms) : f[n] \in Seq(Rows)
                /\ f[0] = <<>> /\ \A n \in 1 .. Len(ms) : f[n] = Append(f[n - 1], ms[n]) \o Added(ms, n)
<1> DEFINE Solves(f, m) == /\ f \in [0 .. m -> Seq(Rows)]
                           /\ \A n \in 0 .. m : f[n] = FillStep(ms, f, n)
           G == {m \in 0 .. Len(ms) : \E f : Solves(f, m)}
<1>0. Len(ms) \in Nat /\ \A n \in 1 .. Len(ms) : ms[n] \in Rows
  BY ListedIs DEF Listed
<1>1. 0 \in G
  <2> DEFINE g == [n \in 0 .. 0 |-> <<>>]
  <2>1. Solves(g, 0)
    BY EmptySeq DEF FillStep
  <2>2. 0 \in 0 .. Len(ms)
    BY <1>0
  <2> QED BY <2>1, <2>2
<1>2. ASSUME NEW m \in 1 .. Len(ms), m - 1 \in G PROVE m \in G
  <2>1. PICK f : Solves(f, m - 1)
    BY <1>2
  <2> DEFINE g == [n \in 0 .. m |-> IF n < m THEN f[n] ELSE FillStep(ms, f, m)]
  <2>2. m \in Nat /\ m # 0 /\ m - 1 \in 0 .. m - 1
    BY <1>0
  <2>3. f[m - 1] \in Seq(Rows) /\ ms[m] \in Rows /\ Added(ms, m) \in Seq(Rows)
    BY <1>0, <2>1, <2>2, AddedAre
  <2>4. FillStep(ms, f, m) \in Seq(Rows)
    BY <2>2, <2>3, AppendProperties, ConcatProperties DEF FillStep
  <2>5. \A n \in 0 .. m : n < m => n \in 0 .. m - 1
    BY <2>2
  <2>6. g \in [0 .. m -> Seq(Rows)]
    BY <2>1, <2>4, <2>5
  <2>7. ASSUME NEW n \in 0 .. m PROVE g[n] = FillStep(ms, g, n)
    <3>1. n = 0 \/ (n - 1 \in 0 .. m - 1 /\ n - 1 \in 0 .. m /\ n - 1 < m)
      BY <2>2
    <3>2. g[n] = FillStep(ms, f, n)
      BY <2>1, <2>5, <2>2
    <3>3. n # 0 => g[n - 1] = f[n - 1]
      BY <3>1
    <3> HIDE DEF g
    <3> QED BY <3>2, <3>3 DEF FillStep
  <2>8. Solves(g, m)
    BY <2>6, <2>7
  <2> HIDE DEF Solves
  <2> QED BY <2>8, <1>0
<1>3. Len(ms) \in G
  <2> HIDE DEF G
  <2>1. 0 .. Len(ms) \subseteq G
    BY <1>0, <1>1, <1>2, BoundedInduction
  <2> QED BY <2>1, <1>0
<1>4. PICK f : Solves(f, Len(ms))
  BY <1>3
<1>5. f = [n \in 0 .. Len(ms) |-> FillStep(ms, f, n)]
  BY <1>4
<1> DEFINE h == CHOOSE f1 : f1 = [n \in 0 .. Len(ms) |-> FillStep(ms, f1, n)]
<1>6. h = [n \in 0 .. Len(ms) |-> FillStep(ms, h, n)]
  BY <1>5
<1>7. FillCancelled(ms) = h[Len(ms)]
  BY DEF FillCancelled
<1> HIDE DEF h
<1>8. h[0] = <<>>
  <2>1. 0 \in 0 .. Len(ms)
    BY <1>0
  <2> QED BY <1>6, <2>1 DEF FillStep
<1>9. ASSUME NEW n \in 1 .. Len(ms) PROVE h[n] = Append(h[n - 1], ms[n]) \o Added(ms, n)
  <2>1. n \in 0 .. Len(ms) /\ n # 0
    BY <1>0
  <2> QED BY <1>6, <2>1 DEF FillStep
<1> DEFINE K == {n \in 0 .. Len(ms) : h[n] \in Seq(Rows)}
<1>10. 0 \in K
  <2>1. 0 \in 0 .. Len(ms) /\ <<>> \in Seq(Rows)
    BY <1>0, EmptySeq
  <2> QED BY <1>8, <2>1
<1>11. ASSUME NEW n \in 1 .. Len(ms), n - 1 \in K PROVE n \in K
  <2>1. h[n - 1] \in Seq(Rows) /\ ms[n] \in Rows /\ Added(ms, n) \in Seq(Rows)
    BY <1>0, <1>11, AddedAre
  <2>2. Append(h[n - 1], ms[n]) \in Seq(Rows)
    BY <2>1, AppendProperties
  <2>3. Append(h[n - 1], ms[n]) \o Added(ms, n) \in Seq(Rows)
    BY <2>1, <2>2, ConcatProperties
  <2>4. h[n] \in Seq(Rows)
    BY <1>9, <2>3
  <2> QED BY <1>0, <2>4
<1>12. 0 .. Len(ms) \subseteq K
  <2> HIDE DEF K
  <2> QED BY <1>0, <1>10, <1>11, BoundedInduction
<1> QED BY <1>7, <1>8, <1>9, <1>12

\* Row i of ms is row e[i] of fs, with the rows added behind it, and nothing
\* else is there.
Laid(ms, fs, e) ==
  /\ fs \in Seq(Rows)
  /\ \A i \in 1 .. Len(ms) : e[i] \in 1 .. Len(fs) /\ fs[e[i]] = ms[i]
  /\ \A i \in 1 .. Len(ms) : \A c \in 1 .. Len(Added(ms, i)) :
       e[i] + c \in 1 .. Len(fs) /\ fs[e[i] + c] = Added(ms, i)[c]
  /\ \A i, j \in 1 .. Len(ms) : i < j => e[i] + Len(Added(ms, i)) < e[j]
  /\ \A p \in 1 .. Len(fs) : \E i \in 1 .. Len(ms) : e[i] <= p /\ p <= e[i] + Len(Added(ms, i))

LEMMA FillLays ==
  ASSUME NEW ms \in Seq(Rows)
  PROVE  \E e : Laid(ms, FillCancelled(ms), e)
<1>1. PICK f : /\ FillCancelled(ms) = f[Len(ms)]
               /\ \A n \in 0 .. Len(ms) : f[n] \in Seq(Rows)
               /\ f[0] = <<>> /\ \A n \in 1 .. Len(ms) : f[n] = Append(f[n - 1], ms[n]) \o Added(ms, n)
  BY FillFunction
<1> DEFINE N == Len(ms)
<1>2. N \in Nat /\ \A n \in 1 .. N : ms[n] \in Rows
  BY ListedIs DEF Listed
<1>3. \A n \in 0 .. N : Len(f[n]) \in Nat
  BY <1>1, LenProperties
<1>4. \A n \in 1 .. N : Added(ms, n) \in Seq(Rows) /\ Len(Added(ms, n)) \in Nat
  BY AddedAre
<1>5. Len(f[0]) = 0
  BY <1>1, EmptySeq
<1>6. ASSUME NEW n \in 1 .. N
      PROVE  /\ n - 1 \in 0 .. N /\ n \in 0 .. N
             /\ Len(f[n]) = Len(f[n - 1]) + 1 + Len(Added(ms, n))
             /\ \A p \in 1 .. Len(f[n - 1]) : f[n][p] = f[n - 1][p]
             /\ f[n][Len(f[n - 1]) + 1] = ms[n]
             /\ \A c \in 1 .. Len(Added(ms, n)) : f[n][Len(f[n - 1]) + 1 + c] = Added(ms, n)[c]
  <2>1. n - 1 \in 0 .. N /\ n \in 0 .. N
    BY <1>2
  <2> DEFINE a == f[n - 1]  b == Added(ms, n)  ab == Append(a, ms[n])
  <2>2. a \in Seq(Rows) /\ b \in Seq(Rows) /\ ms[n] \in Rows /\ Len(a) \in Nat /\ Len(b) \in Nat
    BY <1>1, <1>2, <1>3, <1>4, <2>1
  <2> HIDE DEF a, b
  <2>3. /\ ab \in Seq(Rows) /\ Len(ab) = Len(a) + 1
        /\ \A p \in 1 .. Len(a) : ab[p] = a[p]
        /\ ab[Len(a) + 1] = ms[n]
    BY <2>2, AppendProperties
  <2> HIDE DEF ab
  <2>4. /\ Len(ab \o b) = Len(ab) + Len(b)
        /\ \A p \in 1 .. Len(ab) + Len(b) : (ab \o b)[p] = IF p <= Len(ab) THEN ab[p] ELSE b[p - Len(ab)]
    BY <2>2, <2>3, ConcatProperties
  <2>5. f[n] = ab \o b
    BY <1>1 DEF a, b, ab
  <2>6. Len(f[n]) = Len(a) + 1 + Len(b)
    BY <2>3, <2>4, <2>5
  <2>7. \A p \in 1 .. Len(a) : f[n][p] = a[p]
    <3>1. \A p \in 1 .. Len(a) : p \in 1 .. Len(ab) + Len(b) /\ p <= Len(ab)
      BY <2>2, <2>3
    <3> QED BY <2>3, <2>4, <2>5, <3>1
  <2>8. f[n][Len(a) + 1] = ms[n]
    <3>1. Len(a) + 1 \in 1 .. Len(ab) + Len(b) /\ Len(a) + 1 <= Len(ab)
      BY <2>2, <2>3
    <3> QED BY <2>3, <2>4, <2>5, <3>1
  <2>9. ASSUME NEW c \in 1 .. Len(b) PROVE f[n][Len(a) + 1 + c] = b[c]
    <3>1. /\ Len(a) + 1 + c \in 1 .. Len(ab) + Len(b) /\ ~(Len(a) + 1 + c <= Len(ab))
          /\ Len(a) + 1 + c - Len(ab) = c
      BY <2>2, <2>3
    <3> QED BY <2>4, <2>5, <3>1
  <2> QED BY <2>1, <2>6, <2>7, <2>8, <2>9 DEF a, b
<1> DEFINE Reach == {n \in 0 .. N : \A m \in 0 .. n :
                       Len(f[m]) <= Len(f[n]) /\ \A p \in 1 .. Len(f[m]) : f[n][p] = f[m][p]}
<1>7. 0 \in Reach
  BY <1>2, <1>3
<1>8. ASSUME NEW n \in 1 .. N, n - 1 \in Reach PROVE n \in Reach
  <2>1. ASSUME NEW m \in 0 .. n
        PROVE  Len(f[m]) <= Len(f[n]) /\ \A p \in 1 .. Len(f[m]) : f[n][p] = f[m][p]
    <3>1. CASE m = n
      BY <1>3, <1>6, <3>1
    <3>2. CASE m # n
      <4>1. m \in 0 .. n - 1 /\ m \in 0 .. N
        BY <1>2, <3>2
      <4>2. Len(f[m]) <= Len(f[n - 1]) /\ \A p \in 1 .. Len(f[m]) : f[n - 1][p] = f[m][p]
        BY <1>8, <4>1
      <4>3. Len(f[m]) \in Nat /\ Len(f[n - 1]) \in Nat /\ Len(Added(ms, n)) \in Nat
        BY <1>3, <1>4, <1>6, <4>1
      <4>4. Len(f[m]) <= Len(f[n]) /\ \A p \in 1 .. Len(f[m]) : p \in 1 .. Len(f[n - 1])
        BY <1>6, <4>2, <4>3
      <4> QED BY <1>6, <4>2, <4>4
    <3> QED BY <3>1, <3>2
  <2> QED BY <1>6, <2>1
<1>9. 0 .. N \subseteq Reach
  <2> HIDE DEF Reach, N
  <2> QED BY <1>2, <1>7, <1>8, BoundedInduction
<1>10. \A n \in 0 .. N : \A m \in 0 .. n :
         Len(f[m]) <= Len(f[n]) /\ \A p \in 1 .. Len(f[m]) : f[n][p] = f[m][p]
  BY <1>9
<1> HIDE DEF Reach
<1> DEFINE e == [i \in 1 .. N |-> Len(f[i - 1]) + 1]  fs == f[N]
<1>11. fs \in Seq(Rows) /\ fs = FillCancelled(ms) /\ Len(fs) \in Nat
  BY <1>1, <1>2, <1>3
<1>12. ASSUME NEW i \in 1 .. N
       PROVE  /\ e[i] = Len(f[i - 1]) + 1 /\ e[i] \in Nat /\ Len(f[i]) = e[i] + Len(Added(ms, i))
              /\ Len(f[i]) <= Len(fs) /\ Len(f[i]) \in Nat
              /\ \A p \in 1 .. Len(f[i]) : fs[p] = f[i][p]
  <2>1. e[i] = Len(f[i - 1]) + 1
    OBVIOUS
  <2>2. i \in 0 .. N /\ N \in 0 .. N /\ i - 1 \in 0 .. N
    BY <1>2
  <2> HIDE DEF e
  <2>3. e[i] \in Nat /\ Len(f[i]) = e[i] + Len(Added(ms, i)) /\ Len(f[i]) \in Nat
    BY <1>3, <1>6, <2>1, <2>2
  <2>4. Len(f[i]) <= Len(fs) /\ \A p \in 1 .. Len(f[i]) : fs[p] = f[i][p]
    BY <1>10, <2>2
  <2> QED BY <2>1, <2>3, <2>4
<1> HIDE DEF e, fs, N
<1>13. ASSUME NEW i \in 1 .. N
       PROVE  e[i] \in 1 .. Len(fs) /\ fs[e[i]] = ms[i]
  <2>1. e[i] \in 1 .. Len(f[i]) /\ e[i] \in 1 .. Len(fs)
    <3>1. e[i] = Len(f[i - 1]) + 1 /\ Len(f[i - 1]) \in Nat /\ Len(Added(ms, i)) \in Nat
      BY <1>3, <1>4, <1>6, <1>12
    <3> QED BY <1>11, <1>12, <3>1
  <2>2. f[i][e[i]] = ms[i]
    BY <1>6, <1>12
  <2> QED BY <1>12, <2>1, <2>2
<1>14. ASSUME NEW i \in 1 .. N, NEW c \in 1 .. Len(Added(ms, i))
       PROVE  e[i] + c \in 1 .. Len(fs) /\ fs[e[i] + c] = Added(ms, i)[c]
  <2>1. e[i] + c \in 1 .. Len(f[i]) /\ e[i] + c \in 1 .. Len(fs)
    BY <1>4, <1>11, <1>12
  <2>2. f[i][e[i] + c] = Added(ms, i)[c]
    <3>1. e[i] + c = Len(f[i - 1]) + 1 + c
      BY <1>12
    <3> QED BY <1>6, <3>1
  <2> QED BY <1>12, <2>1, <2>2
<1>15. ASSUME NEW i \in 1 .. N, NEW j \in 1 .. N, i < j
       PROVE  e[i] + Len(Added(ms, i)) < e[j]
  <2>1. j - 1 \in 0 .. N /\ i \in 0 .. j - 1
    BY <1>2, <1>15
  <2>2. Len(f[i]) <= Len(f[j - 1])
    BY <1>10, <2>1
  <2> QED BY <1>3, <1>12, <2>1, <2>2
<1>16. ASSUME NEW p \in 1 .. Len(fs)
       PROVE  \E i \in 1 .. N : e[i] <= p /\ p <= e[i] + Len(Added(ms, i))
  <2> DEFINE T == {n \in 0 .. N : p <= Len(f[n])}
  <2>1. N \in T /\ T \in SUBSET Nat
    BY <1>2 DEF fs
  <2>2. PICK n \in T : \A m \in T : n <= m
    <3> HIDE DEF T
    <3> QED BY <2>1, LeastNat
  <2>3. n # 0
    BY <1>5, <2>2
  <2>4. n \in 1 .. N /\ n - 1 \in 0 .. N /\ ~(n <= n - 1)
    BY <1>2, <2>2, <2>3
  <2>5. ~(p <= Len(f[n - 1]))
    BY <2>2, <2>4
  <2>6. p <= Len(f[n])
    BY <2>2
  <2> HIDE DEF T
  <2>7. e[n] <= p
    BY <1>3, <1>12, <2>4, <2>5
  <2> QED BY <1>12, <2>4, <2>6, <2>7
<1>17. Laid(ms, fs, e)
  BY <1>11, <1>13, <1>14, <1>15, <1>16 DEF Laid, N
<1> QED BY <1>11, <1>17

\* Row p of fs belongs to row i of ms: it is that row, or a cancelled row in
\* the block of that response.
Own(ms, fs, e, p, i) ==
  /\ i \in 1 .. Len(ms) /\ e[i] <= p /\ fs[p].t = ms[i].t
  /\ \A q \in e[i] + 1 .. p : fs[q].k = "tool"
  /\ p = e[i] \/ (ms[i].k = "asst" /\ fs[p].k = "tool" /\ fs[p].res = "cancelled")

\* Call n of row i has a tool row in the block of that row.
Filled(ms, fs, e, i, n) ==
  \E p \in 1 .. Len(fs) : /\ p > e[i] /\ fs[p].id = ms[i].calls[n]
                          /\ \A q \in e[i] + 1 .. p : fs[q].k = "tool"

Grown(ms, fs, e) ==
  /\ fs \in Seq(Rows)
  /\ \A i \in 1 .. Len(ms) : e[i] \in 1 .. Len(fs) /\ fs[e[i]] = ms[i]
  /\ \A i, j \in 1 .. Len(ms) : i < j => e[i] < e[j]
  /\ \A p \in 1 .. Len(fs) : \E i \in 1 .. Len(ms) : Own(ms, fs, e, p, i)
  /\ \A i \in 1 .. Len(ms) : ms[i].k = "asst" => \A n \in 1 .. Len(ms[i].calls) : Filled(ms, fs, e, i, n)

\* Between a row and the rows added behind a later one, all are tool rows if
\* those between the two are.
LEMMA BlockStays ==
  ASSUME NEW ms \in Seq(Rows), NEW fs, NEW e, Laid(ms, fs, e),
         NEW i \in 1 .. Len(ms), NEW n \in 1 .. Len(ms), i <= n,
         \A k \in i + 1 .. n : ms[k].k = "tool"
  PROVE  \A q \in e[i] + 1 .. e[n] + Len(Added(ms, n)) : fs[q].k = "tool"
<1>1. /\ \A j \in 1 .. Len(ms) : e[j] \in 1 .. Len(fs) /\ fs[e[j]] = ms[j]
      /\ \A j \in 1 .. Len(ms) : \A c \in 1 .. Len(Added(ms, j)) :
           e[j] + c \in 1 .. Len(fs) /\ fs[e[j] + c] = Added(ms, j)[c]
      /\ \A j, k \in 1 .. Len(ms) : j < k => e[j] + Len(Added(ms, j)) < e[k]
      /\ \A p \in 1 .. Len(fs) : \E j \in 1 .. Len(ms) : e[j] <= p /\ p <= e[j] + Len(Added(ms, j))
      /\ fs \in Seq(Rows)
  BY DEF Laid
<1>2. Len(ms) \in Nat /\ Len(fs) \in Nat /\ \A j \in 1 .. Len(ms) : e[j] \in Nat /\ Len(Added(ms, j)) \in Nat
  BY <1>1, AddedAre, LenProperties
<1>3. e[n] + Len(Added(ms, n)) <= Len(fs)
  <2>1. Len(Added(ms, n)) = 0 \/ Len(Added(ms, n)) \in 1 .. Len(Added(ms, n))
    BY <1>2
  <2> QED BY <1>1, <1>2, <2>1
<1>4. ASSUME NEW q \in e[i] + 1 .. e[n] + Len(Added(ms, n)) PROVE fs[q].k = "tool"
  <2>1. q \in 1 .. Len(fs) /\ q > e[i] /\ q <= e[n] + Len(Added(ms, n)) /\ q \in Nat
    BY <1>1, <1>2, <1>3
  <2>2. PICK j \in 1 .. Len(ms) : e[j] <= q /\ q <= e[j] + Len(Added(ms, j))
    BY <1>1, <2>1
  <2>3. ~(j < i)
    <3>1. j < i => e[j] + Len(Added(ms, j)) < e[i]
      BY <1>1
    <3> QED BY <1>2, <2>1, <2>2, <3>1
  <2>4. ~(n < j)
    <3>1. n < j => e[n] + Len(Added(ms, n)) < e[j]
      BY <1>1
    <3> QED BY <1>2, <2>1, <2>2, <3>1
  <2>5. CASE q = e[j]
    <3>1. j # i
      BY <1>2, <2>1, <2>5
    <3>2. j \in i + 1 .. n
      BY <1>2, <2>3, <2>4, <3>1
    <3> QED BY <1>1, <2>5, <3>2
  <2>6. CASE q # e[j]
    <3> DEFINE c == q - e[j]
    <3>0. q \in Nat /\ e[j] \in Nat /\ Len(Added(ms, j)) \in Nat
      BY <1>2, <2>1
    <3>1. c \in 1 .. Len(Added(ms, j)) /\ e[j] + c = q
      BY <2>2, <2>6, <3>0
    <3>2. fs[q] = Added(ms, j)[c]
      <4> HIDE DEF c
      <4> QED BY <1>1, <3>1
    <3> QED BY <3>1, <3>2, AddedAre
  <2> QED BY <2>5, <2>6
<1> QED BY <1>4

\* Each response has a row where its block ends.
LEMMA BlockEnds ==
  ASSUME NEW ms \in Seq(Rows), NEW i \in 1 .. Len(ms), ms[i].k = "asst"
  PROVE  \E n \in 1 .. Len(ms) : i <= n /\ i \in BlockOf(ms, n) /\ \A k \in i + 1 .. n : ms[k].k = "tool"
<1>1. Len(ms) \in Nat /\ i \in Nat
  BY LenProperties
<1> DEFINE T == {n \in i .. Len(ms) : n < Len(ms) => ms[n + 1].k # "tool"}
<1>2. Len(ms) \in T /\ T \in SUBSET Nat
  BY <1>1
<1>3. PICK n \in T : \A m \in T : n <= m
  <2> HIDE DEF T
  <2> QED BY <1>2, LeastNat
<1>4. n \in i .. Len(ms) /\ n \in 1 .. Len(ms) /\ i \in 1 .. n /\ i <= n /\ (n < Len(ms) => ms[n + 1].k # "tool")
  BY <1>1
<1>5. ASSUME NEW k \in i + 1 .. n PROVE ms[k].k = "tool"
  <2>1. k - 1 \in i .. Len(ms) /\ ~(n <= k - 1) /\ k - 1 < Len(ms) /\ k - 1 + 1 = k
    BY <1>1, <1>4
  <2>2. k - 1 \notin T
    BY <1>3, <2>1
  <2> QED BY <2>1, <2>2
<1>6. i \in BlockOf(ms, n)
  BY <1>4, <1>5, BlockOfOne
<1> QED BY <1>4, <1>5, <1>6

LEMMA LaidGrows ==
  ASSUME NEW ms \in Seq(Rows), NEW fs, NEW e, Laid(ms, fs, e)
  PROVE  Grown(ms, fs, e)
<1>1. /\ \A j \in 1 .. Len(ms) : e[j] \in 1 .. Len(fs) /\ fs[e[j]] = ms[j]
      /\ \A j \in 1 .. Len(ms) : \A c \in 1 .. Len(Added(ms, j)) :
           e[j] + c \in 1 .. Len(fs) /\ fs[e[j] + c] = Added(ms, j)[c]
      /\ \A j, k \in 1 .. Len(ms) : j < k => e[j] + Len(Added(ms, j)) < e[k]
      /\ \A p \in 1 .. Len(fs) : \E j \in 1 .. Len(ms) : e[j] <= p /\ p <= e[j] + Len(Added(ms, j))
      /\ fs \in Seq(Rows)
  BY DEF Laid
<1>2. Len(ms) \in Nat /\ Len(fs) \in Nat /\ \A j \in 1 .. Len(ms) : e[j] \in Nat /\ Len(Added(ms, j)) \in Nat
  BY <1>1, AddedAre, LenProperties
<1>3. \A i, j \in 1 .. Len(ms) : i < j => e[i] < e[j]
  <2>1. ASSUME NEW i \in 1 .. Len(ms), NEW j \in 1 .. Len(ms), i < j PROVE e[i] < e[j]
    <3>1. e[i] + Len(Added(ms, i)) < e[j]
      BY <1>1, <2>1
    <3> QED BY <1>2, <3>1
  <2> QED BY <2>1
<1>4. ASSUME NEW p \in 1 .. Len(fs) PROVE \E i \in 1 .. Len(ms) : Own(ms, fs, e, p, i)
  <2>1. PICK n \in 1 .. Len(ms) : e[n] <= p /\ p <= e[n] + Len(Added(ms, n))
    BY <1>1
  <2>2. CASE p = e[n]
    <3>1. \A q \in e[n] + 1 .. p : FALSE
      BY <1>2, <2>2
    <3>2. fs[p].t = ms[n].t
      BY <1>1, <2>2
    <3> QED BY <1>2, <2>1, <2>2, <3>1, <3>2 DEF Own
  <2>3. CASE p # e[n]
    <3> DEFINE c == p - e[n]
    <3>1. c \in 1 .. Len(Added(ms, n)) /\ e[n] + c = p
      BY <1>2, <2>1, <2>3
    <3>2. fs[p] = Added(ms, n)[c]
      <4> HIDE DEF c
      <4> QED BY <1>1, <3>1
    <3>3. PICK i \in BlockOf(ms, n) : fs[p].k = "tool" /\ fs[p].res = "cancelled" /\ fs[p].t = ms[i].t
      <4> HIDE DEF c
      <4> QED BY <3>1, <3>2, AddedAre
    <3>4. i \in 1 .. n /\ ms[i].k = "asst" /\ \A k \in i + 1 .. n : ms[k].k = "tool"
      BY BlockOfOne
    <3>5. i \in 1 .. Len(ms) /\ i <= n
      BY <1>2, <3>4
    <3>6. \A q \in e[i] + 1 .. e[n] + Len(Added(ms, n)) : fs[q].k = "tool"
      BY <3>4, <3>5, BlockStays
    <3>7. \A q \in e[i] + 1 .. p : fs[q].k = "tool"
      <4>1. \A q \in e[i] + 1 .. p : q \in e[i] + 1 .. e[n] + Len(Added(ms, n))
        BY <1>2, <2>1, <3>5
      <4> QED BY <3>6, <4>1
    <3>8. e[i] <= p
      <4>1. i = n \/ e[i] < e[n]
        BY <1>2, <1>3, <3>5
      <4> QED BY <1>2, <2>1, <3>5, <4>1
    <3> QED BY <3>3, <3>4, <3>5, <3>7, <3>8 DEF Own
  <2> QED BY <2>2, <2>3
<1>5. ASSUME NEW i \in 1 .. Len(ms), ms[i].k = "asst", NEW n \in 1 .. Len(ms[i].calls)
      PROVE  Filled(ms, fs, e, i, n)
  <2>1. PICK m \in 1 .. Len(ms) : i <= m /\ i \in BlockOf(ms, m) /\ \A k \in i + 1 .. m : ms[k].k = "tool"
    BY <1>5, BlockEnds
  <2>2. \A q \in e[i] + 1 .. e[m] + Len(Added(ms, m)) : fs[q].k = "tool"
    BY <2>1, BlockStays
  <2>3. Added(ms, m) = CancelledRows(ms, i)
    BY <2>1, AddedAre
  <2>4. \/ \E j \in Block(ms, i) : ms[j].id = ms[i].calls[n]
        \/ \E c \in 1 .. Len(Added(ms, m)) : Added(ms, m)[c].id = ms[i].calls[n]
    BY <1>5, <2>3, CancelledAre
  <2>5. i = m \/ e[i] < e[m]
    BY <1>2, <1>3, <2>1
  <2>6. CASE \E j \in Block(ms, i) : ms[j].id = ms[i].calls[n]
    <3>1. PICK j \in Block(ms, i) : ms[j].id = ms[i].calls[n]
      BY <2>6
    <3>2. j \in 1 .. Len(ms) /\ j > i /\ \A k \in i + 1 .. j : ms[k].k = "tool"
      BY ListedIs DEF Block, Listed
    <3>3. \A q \in e[i] + 1 .. e[j] + Len(Added(ms, j)) : fs[q].k = "tool"
      <4>1. i <= j
        BY <1>2, <3>2
      <4> QED BY <3>2, <4>1, BlockStays
    <3>4. e[i] < e[j] /\ \A q \in e[i] + 1 .. e[j] : q \in e[i] + 1 .. e[j] + Len(Added(ms, j))
      BY <1>2, <1>3, <3>2
    <3>5. e[j] \in 1 .. Len(fs) /\ e[j] > e[i] /\ fs[e[j]].id = ms[i].calls[n]
      BY <1>1, <1>2, <3>1, <3>2, <3>4
    <3> QED BY <3>3, <3>4, <3>5 DEF Filled
  <2>7. CASE \E c \in 1 .. Len(Added(ms, m)) : Added(ms, m)[c].id = ms[i].calls[n]
    <3>1. PICK c \in 1 .. Len(Added(ms, m)) : Added(ms, m)[c].id = ms[i].calls[n]
      BY <2>7
    <3>2. e[m] + c \in 1 .. Len(fs) /\ fs[e[m] + c].id = ms[i].calls[n]
      BY <1>1, <3>1
    <3>3. e[m] + c > e[i] /\ \A q \in e[i] + 1 .. e[m] + c : q \in e[i] + 1 .. e[m] + Len(Added(ms, m))
      BY <1>2, <2>5
    <3> QED BY <2>2, <3>2, <3>3 DEF Filled
  <2> QED BY <2>4, <2>6, <2>7
<1> QED BY <1>1, <1>3, <1>4, <1>5 DEF Grown

\* The plain facts about the rows' new places.
LEMMA GrownFacts ==
  ASSUME NEW ms \in Seq(Rows), NEW fs, NEW e, Grown(ms, fs, e)
  PROVE  /\ Listed(fs) /\ Listed(ms) /\ fs \in Seq(Rows)
         /\ \A i \in 1 .. Len(ms) : e[i] \in 1 .. Len(fs) /\ e[i] \in Nat /\ i \in Nat /\ fs[e[i]] = ms[i]
         /\ \A p \in 1 .. Len(fs) : p \in Nat
         /\ \A i, j \in 1 .. Len(ms) : i < j <=> e[i] < e[j]
         /\ \A i, j \in 1 .. Len(ms) : e[i] = e[j] => i = j
<1>1. /\ fs \in Seq(Rows)
      /\ \A i \in 1 .. Len(ms) : e[i] \in 1 .. Len(fs) /\ fs[e[i]] = ms[i]
      /\ \A i, j \in 1 .. Len(ms) : i < j => e[i] < e[j]
  BY DEF Grown
<1>2. Listed(fs) /\ Listed(ms)
  BY <1>1, ListedIs
<1>3. /\ \A i \in 1 .. Len(ms) : i \in Nat /\ e[i] \in Nat
      /\ \A p \in 1 .. Len(fs) : p \in Nat
  BY <1>1, <1>2 DEF Listed
<1>4. ASSUME NEW i \in 1 .. Len(ms), NEW j \in 1 .. Len(ms)
      PROVE  (i < j <=> e[i] < e[j]) /\ (e[i] = e[j] => i = j)
  <2>1. (i < j => e[i] < e[j]) /\ (j < i => e[j] < e[i])
    BY <1>1
  <2>2. i \in Nat /\ j \in Nat /\ e[i] \in Nat /\ e[j] \in Nat
    BY <1>3
  <2> QED BY <2>1, <2>2
<1> QED BY <1>1, <1>2, <1>3, <1>4

\* A tool row in the block of a response is of the response's turn.
LEMMA BlockOfTurn ==
  ASSUME NEW ms \in Seq(Rows), Sorted(ms), NEW i \in 1 .. Len(ms), NEW j \in 1 .. Len(ms), i < j,
         \A k \in i + 1 .. j : ms[k].k = "tool"
  PROVE  ms[j].t = ms[i].t
<1>1. Len(ms) \in Nat /\ i \in Nat /\ j \in Nat /\ \A k \in 1 .. Len(ms) : ms[k].t \in Nat
  <2>1. \A k \in 1 .. Len(ms) : ms[k].t \in Turns
    BY ListedIs, RowFields
  <2> QED BY <2>1, BoundAssumption, ListedIs DEF Turns, Listed
<1>2. ms[j].k = "tool"
  BY <1>1
<1>3. HasUser(ms, ms[j].t)
  BY <1>2 DEF Sorted
<1>4. PICK u \in 1 .. Len(ms) : ms[u].k = "user" /\ ms[u].t = ms[j].t
  BY <1>3 DEF HasUser
<1>5. u <= j /\ ms[i].t <= ms[j].t
  BY <1>4 DEF Sorted
<1>6. ~(u \in i + 1 .. j)
  BY <1>4
<1>7. u <= i
  BY <1>1, <1>5, <1>6
<1>8. ms[u].t <= ms[i].t
  <2>1. u = i \/ u < i
    BY <1>1, <1>7
  <2> QED BY <1>1, <2>1 DEF Sorted
<1> QED BY <1>1, <1>4, <1>5, <1>8

\* The rows of the turns stay.
LEMMA GrownRows ==
  ASSUME NEW ms \in Seq(Rows), NEW fs, NEW e, Grown(ms, fs, e)
  PROVE  /\ \A t : HasUser(fs, t) <=> HasUser(ms, t)
         /\ \A t : HasStop(fs, t) <=> HasStop(ms, t)
         /\ \A t : HasReply(fs, t) <=> HasReply(ms, t)
         /\ \A t : Present(fs, t) <=> Present(ms, t)
<1>0. \A i \in 1 .. Len(ms) : e[i] \in 1 .. Len(fs) /\ fs[e[i]] = ms[i]
  BY GrownFacts
<1>1. \A i \in 1 .. Len(ms) : e[i] \in 1 .. Len(fs) /\ fs[e[i]].k = ms[i].k /\ fs[e[i]].t = ms[i].t
  BY <1>0
<1>2. \A p \in 1 .. Len(fs) : \E i \in 1 .. Len(ms) :
        fs[p].t = ms[i].t /\ (fs[p].k = ms[i].k \/ fs[p].k = "tool")
  <2>1. ASSUME NEW p \in 1 .. Len(fs), NEW i \in 1 .. Len(ms), Own(ms, fs, e, p, i)
        PROVE  fs[p].t = ms[i].t /\ (fs[p].k = ms[i].k \/ fs[p].k = "tool")
    BY <1>0, <2>1 DEF Own
  <2>2. \A p \in 1 .. Len(fs) : \E i \in 1 .. Len(ms) : Own(ms, fs, e, p, i)
    BY DEF Grown
  <2> QED BY <2>1, <2>2
<1>3. \A t : HasUser(fs, t) <=> HasUser(ms, t)
  <2>1. ASSUME NEW t, HasUser(fs, t) PROVE HasUser(ms, t)
    <3>1. PICK p \in 1 .. Len(fs) : fs[p].k = "user" /\ fs[p].t = t
      BY <2>1 DEF HasUser
    <3>2. PICK i \in 1 .. Len(ms) : fs[p].t = ms[i].t /\ (fs[p].k = ms[i].k \/ fs[p].k = "tool")
      BY <1>2
    <3> QED BY <3>1, <3>2 DEF HasUser
  <2>2. ASSUME NEW t, HasUser(ms, t) PROVE HasUser(fs, t)
    <3>1. PICK i \in 1 .. Len(ms) : ms[i].k = "user" /\ ms[i].t = t
      BY <2>2 DEF HasUser
    <3>2. e[i] \in 1 .. Len(fs) /\ fs[e[i]].k = ms[i].k /\ fs[e[i]].t = ms[i].t
      BY <1>1
    <3> QED BY <3>1, <3>2 DEF HasUser
  <2> QED BY <2>1, <2>2
<1>4. \A t : HasStop(fs, t) <=> HasStop(ms, t)
  <2>1. ASSUME NEW t, HasStop(fs, t) PROVE HasStop(ms, t)
    <3>1. PICK p \in 1 .. Len(fs) : fs[p].k = "stop" /\ fs[p].t = t
      BY <2>1 DEF HasStop
    <3>2. PICK i \in 1 .. Len(ms) : fs[p].t = ms[i].t /\ (fs[p].k = ms[i].k \/ fs[p].k = "tool")
      BY <1>2
    <3> QED BY <3>1, <3>2 DEF HasStop
  <2>2. ASSUME NEW t, HasStop(ms, t) PROVE HasStop(fs, t)
    <3>1. PICK i \in 1 .. Len(ms) : ms[i].k = "stop" /\ ms[i].t = t
      BY <2>2 DEF HasStop
    <3>2. e[i] \in 1 .. Len(fs) /\ fs[e[i]].k = ms[i].k /\ fs[e[i]].t = ms[i].t
      BY <1>1
    <3> QED BY <3>1, <3>2 DEF HasStop
  <2> QED BY <2>1, <2>2
<1>5. \A t : HasReply(fs, t) <=> HasReply(ms, t)
  <2>1. ASSUME NEW t, HasReply(fs, t) PROVE HasReply(ms, t)
    <3>1. PICK p \in 1 .. Len(fs) : fs[p].k \in {"asst", "stop"} /\ fs[p].t = t
      BY <2>1 DEF HasReply
    <3>2. PICK i \in 1 .. Len(ms) : fs[p].t = ms[i].t /\ (fs[p].k = ms[i].k \/ fs[p].k = "tool")
      BY <1>2
    <3> QED BY <3>1, <3>2 DEF HasReply
  <2>2. ASSUME NEW t, HasReply(ms, t) PROVE HasReply(fs, t)
    <3>1. PICK i \in 1 .. Len(ms) : ms[i].k \in {"asst", "stop"} /\ ms[i].t = t
      BY <2>2 DEF HasReply
    <3>2. e[i] \in 1 .. Len(fs) /\ fs[e[i]].k = ms[i].k /\ fs[e[i]].t = ms[i].t
      BY <1>1
    <3> QED BY <3>1, <3>2 DEF HasReply
  <2> QED BY <2>1, <2>2
<1>6. \A t : Present(fs, t) <=> Present(ms, t)
  <2>1. ASSUME NEW t, Present(fs, t) PROVE Present(ms, t)
    <3>1. PICK p \in 1 .. Len(fs) : fs[p].t = t
      BY <2>1 DEF Present
    <3>2. PICK i \in 1 .. Len(ms) : fs[p].t = ms[i].t /\ (fs[p].k = ms[i].k \/ fs[p].k = "tool")
      BY <1>2
    <3> QED BY <3>1, <3>2 DEF Present
  <2>2. ASSUME NEW t, Present(ms, t) PROVE Present(fs, t)
    <3>1. PICK i \in 1 .. Len(ms) : ms[i].t = t
      BY <2>2 DEF Present
    <3>2. e[i] \in 1 .. Len(fs) /\ fs[e[i]].k = ms[i].k /\ fs[e[i]].t = ms[i].t
      BY <1>1
    <3> QED BY <3>1, <3>2 DEF Present
  <2> QED BY <2>1, <2>2
<1> QED BY <1>3, <1>4, <1>5, <1>6

\* Of two rows in order, the owners are in order, or the owner of the first is
\* a tool row in the block of the owner of the second.
LEMMA OwnersInOrder ==
  ASSUME NEW ms \in Seq(Rows), NEW fs, NEW e, Grown(ms, fs, e), Sorted(ms),
         NEW p \in 1 .. Len(fs), NEW q \in 1 .. Len(fs), p < q,
         NEW i, NEW j, Own(ms, fs, e, p, i), Own(ms, fs, e, q, j)
  PROVE  /\ i \in 1 .. Len(ms) /\ j \in 1 .. Len(ms)
         /\ fs[p].t = ms[i].t /\ fs[q].t = ms[j].t
         /\ \/ i < j \/ (i = j /\ fs[q].k = "tool" /\ ms[i].k = "asst")
            \/ (fs[p].k = "tool" /\ fs[q].k = "tool" /\ ms[i].t = ms[j].t)
<1>1. /\ \A k \in 1 .. Len(ms) : e[k] \in 1 .. Len(fs) /\ e[k] \in Nat /\ k \in Nat /\ fs[e[k]] = ms[k]
      /\ \A k \in 1 .. Len(fs) : k \in Nat
      /\ \A k, l \in 1 .. Len(ms) : k < l <=> e[k] < e[l]
  BY GrownFacts
<1>2. /\ i \in 1 .. Len(ms) /\ e[i] <= p /\ fs[p].t = ms[i].t
      /\ p = e[i] \/ (ms[i].k = "asst" /\ fs[p].k = "tool")
  BY DEF Own
<1>3. /\ j \in 1 .. Len(ms) /\ e[j] <= q /\ fs[q].t = ms[j].t
      /\ \A k \in e[j] + 1 .. q : fs[k].k = "tool"
      /\ q = e[j] \/ (ms[j].k = "asst" /\ fs[q].k = "tool")
  BY DEF Own
<1>4. CASE i = j
  <2>1. q # e[j]
    BY <1>1, <1>2, <1>3, <1>4
  <2> QED BY <1>2, <1>3, <1>4, <2>1
<1>5. CASE j < i
  <2>1. e[j] < e[i]
    BY <1>1, <1>2, <1>3, <1>5
  <2>2. e[i] \in e[j] + 1 .. q /\ q # e[j]
    BY <1>1, <1>2, <1>3, <2>1
  <2>3. ms[i].k = "tool" /\ fs[q].k = "tool"
    BY <1>1, <1>2, <1>3, <2>2
  <2>4. \A k \in j + 1 .. i : ms[k].k = "tool"
    <3>1. ASSUME NEW k \in j + 1 .. i PROVE ms[k].k = "tool"
      <4>1. k \in 1 .. Len(ms) /\ j < k /\ (k < i \/ k = i)
        BY <1>1, <1>2, <1>3
      <4>2. e[j] < e[k] /\ (e[k] < e[i] \/ e[k] = e[i])
        BY <1>1, <1>2, <1>3, <4>1
      <4>3. e[k] \in e[j] + 1 .. q
        BY <1>1, <1>2, <1>3, <4>1, <4>2
      <4> QED BY <1>1, <1>3, <4>1, <4>3
    <3> QED BY <3>1
  <2>5. ms[i].t = ms[j].t
    BY <1>2, <1>3, <1>5, <2>4, BlockOfTurn
  <2>6. fs[p].k = "tool"
    BY <1>1, <1>2, <2>3
  <2> QED BY <1>2, <1>3, <2>3, <2>5, <2>6
<1> QED BY <1>1, <1>2, <1>3, <1>4, <1>5

\* The turns stay in order.
LEMMA GrownSorted ==
  ASSUME NEW ms \in Seq(Rows), NEW fs, NEW e, Grown(ms, fs, e), Sorted(ms)
  PROVE  Sorted(fs)
<1>1. \A k \in 1 .. Len(ms) : e[k] \in 1 .. Len(fs) /\ e[k] \in Nat /\ k \in Nat /\ fs[e[k]] = ms[k]
  BY GrownFacts
<1>2. \A p \in 1 .. Len(fs) : p \in Nat /\ \E i \in 1 .. Len(ms) : Own(ms, fs, e, p, i)
  BY GrownFacts DEF Grown
<1>3. \A k \in 1 .. Len(ms) : ms[k].t \in Nat
  <2>1. \A k \in 1 .. Len(ms) : ms[k].t \in Turns
    BY ListedIs, RowFields
  <2> QED BY <2>1, BoundAssumption DEF Turns
<1>4. \A t : HasUser(fs, t) <=> HasUser(ms, t)
  BY GrownRows
<1>5. ASSUME NEW p \in 1 .. Len(fs), NEW i, Own(ms, fs, e, p, i)
      PROVE  /\ i \in 1 .. Len(ms) /\ fs[p].t = ms[i].t
             /\ fs[p] = ms[i] \/ (ms[i].k = "asst" /\ fs[p].k = "tool")
  BY <1>1, <1>5 DEF Own
<1>6. ASSUME NEW p \in 1 .. Len(fs), NEW q \in 1 .. Len(fs), p < q
      PROVE  /\ fs[p].t <= fs[q].t
             /\ fs[p].k = "stop" => fs[p].t < fs[q].t
             /\ fs[q].k = "user" => fs[p].t # fs[q].t
  <2>1. PICK i : Own(ms, fs, e, p, i)
    BY <1>2
  <2>2. PICK j : Own(ms, fs, e, q, j)
    BY <1>2
  <2>0. p < q
    BY <1>6
  <2>3. /\ i \in 1 .. Len(ms) /\ j \in 1 .. Len(ms)
        /\ fs[p].t = ms[i].t /\ fs[q].t = ms[j].t
        /\ \/ i < j \/ (i = j /\ fs[q].k = "tool" /\ ms[i].k = "asst")
           \/ (fs[p].k = "tool" /\ fs[q].k = "tool" /\ ms[i].t = ms[j].t)
    <3>1. i \in 1 .. Len(ms) /\ j \in 1 .. Len(ms)
      BY <2>0, <2>1, <2>2, OwnersInOrder
    <3>2. fs[p].t = ms[i].t /\ fs[q].t = ms[j].t
      BY <1>5, <2>1, <2>2
    <3>3. \/ i < j \/ (i = j /\ fs[q].k = "tool" /\ ms[i].k = "asst")
          \/ (fs[p].k = "tool" /\ fs[q].k = "tool" /\ ms[i].t = ms[j].t)
      BY <2>0, <2>1, <2>2, OwnersInOrder
    <3> QED BY <3>1, <3>2, <3>3
  <2>4. /\ fs[p] = ms[i] \/ (ms[i].k = "asst" /\ fs[p].k = "tool")
        /\ fs[q] = ms[j] \/ (ms[j].k = "asst" /\ fs[q].k = "tool")
    BY <1>5, <2>1, <2>2
  <2>5. CASE i < j
    <3>1. ms[i].t <= ms[j].t /\ (ms[i].k = "stop" => ms[i].t < ms[j].t)
      BY <2>3, <2>5 DEF Sorted
    <3>2. ms[j].k = "user" => ms[i].t # ms[j].t
      <4>1. ms[j].k = "user" /\ ms[j].t = ms[i].t => j <= i
        BY <2>3 DEF Sorted
      <4> QED BY <1>1, <2>3, <2>5, <4>1
    <3>3. fs[p].k = "stop" => ms[i].k = "stop"
      BY <2>4
    <3>4. fs[q].k = "user" => ms[j].k = "user"
      BY <2>4
    <3> QED BY <2>3, <3>1, <3>2, <3>3, <3>4
  <2>6. CASE i = j /\ fs[q].k = "tool" /\ ms[i].k = "asst"
    <3>1. fs[p].k # "stop" /\ fs[q].k # "user"
      BY <2>4, <2>6
    <3> QED BY <1>3, <2>3, <2>6, <3>1
  <2>7. CASE fs[p].k = "tool" /\ fs[q].k = "tool" /\ ms[i].t = ms[j].t
    BY <1>3, <2>3, <2>7
  <2> QED BY <2>3, <2>5, <2>6, <2>7
<1>7. \A p, q \in 1 .. Len(fs) : p < q => fs[p].t <= fs[q].t
  BY <1>6
<1>8. \A p, q \in 1 .. Len(fs) : fs[p].k = "user" /\ fs[p].t = fs[q].t => p <= q
  BY <1>2, <1>6
<1>9. ASSUME NEW p \in 1 .. Len(fs), fs[p].k \in {"asst", "tool", "stop"} PROVE HasUser(fs, fs[p].t)
  <2>1. PICK i : Own(ms, fs, e, p, i)
    BY <1>2
  <2>2. i \in 1 .. Len(ms) /\ fs[p].t = ms[i].t /\ (fs[p] = ms[i] \/ ms[i].k = "asst")
    BY <1>5, <2>1
  <2>3. HasUser(ms, ms[i].t)
    BY <1>9, <2>2 DEF Sorted
  <2> QED BY <1>4, <2>2, <2>3
<1>10. \A p, q \in 1 .. Len(fs) : fs[p].k = "stop" /\ p < q => fs[p].t < fs[q].t
  BY <1>6
<1> QED BY <1>7, <1>8, <1>9, <1>10 DEF Sorted

\* The results of a response's calls are where they were, and there is no
\* other.
LEMMA GrownResults ==
  ASSUME NEW ms \in Seq(Rows), NEW fs, NEW e, Grown(ms, fs, e), NEW i \in 1 .. Len(ms)
  PROVE  /\ \A j \in Results(ms, i) : j \in 1 .. Len(ms) /\ e[j] \in Results(fs, e[i])
         /\ \A p \in Results(fs, e[i]) : \E j \in Results(ms, i) : p = e[j]
<1>1. /\ \A k \in 1 .. Len(ms) : e[k] \in 1 .. Len(fs) /\ e[k] \in Nat /\ k \in Nat /\ fs[e[k]] = ms[k]
      /\ \A k \in 1 .. Len(fs) : k \in Nat
      /\ \A k, l \in 1 .. Len(ms) : k < l <=> e[k] < e[l]
      /\ \A k, l \in 1 .. Len(ms) : e[k] = e[l] => k = l
      /\ Listed(fs) /\ Listed(ms)
  BY GrownFacts
<1>2. ASSUME NEW p \in 1 .. Len(fs)
      PROVE  \E k \in 1 .. Len(ms) : /\ e[k] <= p
                                     /\ p = e[k] \/ (fs[p].k = "tool" /\ fs[p].res = "cancelled")
  <2>1. PICK k \in 1 .. Len(ms) : Own(ms, fs, e, p, k)
    BY DEF Grown
  <2> QED BY <2>1 DEF Own
<1>3. ASSUME NEW j \in Results(ms, i) PROVE j \in 1 .. Len(ms) /\ e[j] \in Results(fs, e[i])
  <2>1. /\ j \in 1 .. Len(ms) /\ j > i /\ ms[j].k = "tool" /\ ms[j].res = "result"
        /\ \A k \in i + 1 .. j : ms[k].k \in {"tool", "open"}
    <3>1. j \in Answers(ms, i) /\ ms[j].res = "result"
      BY DEF Results
    <3> QED BY <1>1, <3>1, AnswersAre
  <2>2. e[j] > e[i]
    BY <1>1, <2>1
  <2>3. ASSUME NEW q \in e[i] + 1 .. e[j] PROVE fs[q].k \in {"tool", "open"}
    <3>1. q \in 1 .. Len(fs) /\ e[i] < q /\ q <= e[j]
      BY <1>1, <2>1
    <3>2. PICK k \in 1 .. Len(ms) : e[k] <= q /\ (q = e[k] \/ (fs[q].k = "tool" /\ fs[q].res = "cancelled"))
      BY <1>2, <3>1
    <3>3. CASE q = e[k]
      <4>1. i < k
        BY <1>1, <3>1, <3>3
      <4>2. ~(j < k)
        <5>1. j < k => e[j] < e[k]
          BY <1>1, <2>1
        <5>2. e[j] \in Nat /\ e[k] \in Nat /\ e[k] <= e[j]
          BY <1>1, <2>1, <3>1, <3>3
        <5> QED BY <5>1, <5>2
      <4>3. k \in i + 1 .. j
        <5>1. i \in Nat /\ j \in Nat /\ k \in Nat
          BY <1>1, <2>1
        <5> QED BY <4>1, <4>2, <5>1
      <4> QED BY <1>1, <2>1, <3>3, <4>3
    <3> QED BY <3>2, <3>3
  <2>4. e[j] \in Answers(fs, e[i])
    <3>1. e[j] \in 1 .. Len(fs) /\ fs[e[j]].k = "tool" /\ Listed(fs) /\ e[i] \in Nat
      BY <1>1, <2>1
    <3>2. \A q \in e[i] + 1 .. e[j] : fs[q].k \in {"tool", "open"}
      BY <2>3
    <3> QED BY <2>2, <3>1, <3>2, AnswersAre
  <2>5. fs[e[j]].res = "result"
    BY <1>1, <2>1
  <2> QED BY <2>1, <2>4, <2>5 DEF Results
<1>4. ASSUME NEW p \in Results(fs, e[i]) PROVE \E j \in Results(ms, i) : p = e[j]
  <2>1. /\ p \in 1 .. Len(fs) /\ p > e[i] /\ fs[p].k = "tool" /\ fs[p].res = "result"
        /\ \A q \in e[i] + 1 .. p : fs[q].k \in {"tool", "open"}
    <3>1. p \in Answers(fs, e[i]) /\ fs[p].res = "result"
      BY DEF Results
    <3> QED BY <1>1, <3>1, AnswersAre
  <2>2. PICK j \in 1 .. Len(ms) : p = e[j]
    BY <1>2, <2>1
  <2>3. j > i /\ ms[j].k = "tool" /\ ms[j].res = "result"
    BY <1>1, <2>1, <2>2
  <2>4. ASSUME NEW k \in i + 1 .. j PROVE ms[k].k \in {"tool", "open"}
    <3>1. k \in 1 .. Len(ms) /\ i < k /\ (k < j \/ k = j)
      BY <1>1, <2>2
    <3>2. e[i] < e[k] /\ (e[k] < e[j] \/ e[k] = e[j])
      BY <1>1, <2>2, <3>1
    <3>3. e[k] \in e[i] + 1 .. p
      BY <1>1, <2>2, <3>1, <3>2
    <3> QED BY <1>1, <2>1, <3>1, <3>3
  <2>5. j \in Answers(ms, i)
    BY <1>1, <2>2, <2>3, <2>4, AnswersAre
  <2> QED BY <2>2, <2>3, <2>5 DEF Results
<1> QED BY <1>3, <1>4

\* The pairing stays, and afterwards every call has a tool row.
LEMMA GrownPaired ==
  ASSUME NEW ms \in Seq(Rows), NEW fs, NEW e, Grown(ms, fs, e)
  PROVE  /\ Paired(ms) => Paired(fs)
         /\ \A t : AllFull(ms, t, 0) => AllFull(fs, t, 0)
         /\ \A t : AllClosed(fs, t)
<1>1. /\ \A k \in 1 .. Len(ms) : e[k] \in 1 .. Len(fs) /\ e[k] \in Nat /\ k \in Nat /\ fs[e[k]] = ms[k]
      /\ \A k \in 1 .. Len(fs) : k \in Nat
      /\ \A k, l \in 1 .. Len(ms) : k < l <=> e[k] < e[l]
      /\ \A k, l \in 1 .. Len(ms) : e[k] = e[l] => k = l
      /\ Listed(fs) /\ Listed(ms)
  BY GrownFacts
<1>2. ASSUME NEW p \in CallRows(fs)
      PROVE  \E i \in CallRows(ms) : i \in 1 .. Len(ms) /\ p = e[i] /\ fs[p] = ms[i] /\ ms[i].k = "asst"
  <2>1. p \in 1 .. Len(fs) /\ fs[p].k = "asst" /\ fs[p].calls # <<>>
    BY <1>1 DEF CallRows, Listed
  <2>2. PICK i \in 1 .. Len(ms) : Own(ms, fs, e, p, i)
    BY <2>1 DEF Grown
  <2>3. p = e[i]
    BY <2>1, <2>2 DEF Own
  <2>4. i \in CallRows(ms)
    BY <1>1, <2>1, <2>3 DEF CallRows, Listed
  <2> QED BY <1>1, <2>1, <2>3, <2>4
<1>3. ASSUME NEW i \in CallRows(ms), i \in 1 .. Len(ms), PairedAt(ms, i) PROVE PairedAt(fs, e[i])
  <2>1. fs[e[i]].calls = ms[i].calls
    BY <1>1, <1>3
  <2>2. /\ \A j \in Results(ms, i) : j \in 1 .. Len(ms) /\ e[j] \in Results(fs, e[i])
        /\ \A p \in Results(fs, e[i]) : \E j \in Results(ms, i) : p = e[j]
    BY <1>3, GrownResults
  <2>3. ASSUME NEW p \in Results(fs, e[i])
        PROVE  \E n \in 1 .. Len(ms[i].calls) :
                 /\ fs[p].id = ms[i].calls[n]
                 /\ \A m \in 1 .. n - 1 : \E q \in Results(fs, e[i]) : q < p /\ fs[q].id = ms[i].calls[m]
    <3>1. PICK j \in Results(ms, i) : p = e[j]
      BY <2>2
    <3>2. PICK n \in 1 .. Len(ms[i].calls) :
            /\ ms[j].id = ms[i].calls[n]
            /\ \A m \in 1 .. n - 1 : \E k \in Results(ms, i) : k < j /\ ms[k].id = ms[i].calls[m]
      BY <1>3 DEF PairedAt
    <3>3. fs[p].id = ms[i].calls[n]
      BY <1>1, <2>2, <3>1, <3>2
    <3>4. ASSUME NEW m \in 1 .. n - 1 PROVE \E q \in Results(fs, e[i]) : q < p /\ fs[q].id = ms[i].calls[m]
      <4>1. PICK k \in Results(ms, i) : k < j /\ ms[k].id = ms[i].calls[m]
        BY <3>2
      <4>2. e[k] \in Results(fs, e[i]) /\ e[k] < p /\ fs[e[k]].id = ms[i].calls[m]
        BY <1>1, <2>2, <3>1, <4>1
      <4> QED BY <4>2
    <3> QED BY <3>3, <3>4
  <2>4. ASSUME NEW p \in Results(fs, e[i]), NEW q \in Results(fs, e[i]), fs[p].id = fs[q].id PROVE p = q
    <3>1. PICK j \in Results(ms, i) : p = e[j]
      BY <2>2
    <3>2. PICK k \in Results(ms, i) : q = e[k]
      BY <2>2
    <3>3. ms[j].id = ms[k].id
      BY <1>1, <2>2, <2>4, <3>1, <3>2
    <3>4. j = k
      BY <1>3, <3>3 DEF PairedAt
    <3> QED BY <3>1, <3>2, <3>4
  <2> QED BY <2>1, <2>3, <2>4 DEF PairedAt
<1>4. ASSUME NEW i \in CallRows(ms), i \in 1 .. Len(ms), Full(ms, i) PROVE Full(fs, e[i])
  <2>1. fs[e[i]].calls = ms[i].calls
    BY <1>1, <1>4
  <2>2. \A j \in Results(ms, i) : j \in 1 .. Len(ms) /\ e[j] \in Results(fs, e[i])
    BY <1>4, GrownResults
  <2>3. ASSUME NEW n \in 1 .. Len(ms[i].calls) PROVE \E p \in Results(fs, e[i]) : fs[p].id = ms[i].calls[n]
    <3>1. PICK j \in Results(ms, i) : ms[j].id = ms[i].calls[n]
      BY <1>4 DEF Full
    <3>2. e[j] \in Results(fs, e[i]) /\ fs[e[j]].id = ms[i].calls[n]
      BY <1>1, <2>2, <3>1
    <3> QED BY <3>2
  <2> QED BY <2>1, <2>3 DEF Full
<1>5. ASSUME NEW i \in 1 .. Len(ms), ms[i].k = "asst" PROVE ClosedAt(fs, e[i])
  <2>1. ASSUME NEW n \in 1 .. Len(ms[i].calls) PROVE \E p \in Answers(fs, e[i]) : fs[p].id = ms[i].calls[n]
    <3>1. Filled(ms, fs, e, i, n)
      BY <1>5 DEF Grown
    <3>2. PICK p \in 1 .. Len(fs) : p > e[i] /\ fs[p].id = ms[i].calls[n] /\ \A q \in e[i] + 1 .. p : fs[q].k = "tool"
      BY <3>1 DEF Filled
    <3>3. fs[p].k = "tool"
      <4>1. p \in e[i] + 1 .. p
        <5>1. e[i] \in Nat /\ p \in Nat
          BY <1>1, <1>5
        <5> QED BY <3>2, <5>1
      <4> QED BY <3>2, <4>1
    <3>4. p \in Answers(fs, e[i])
      BY <1>1, <3>2, <3>3, AnswersAre
    <3> QED BY <3>2, <3>4
  <2>2. fs[e[i]].calls = ms[i].calls
    BY <1>1
  <2> QED BY <2>1, <2>2 DEF ClosedAt
<1>6. Paired(ms) => Paired(fs)
  <2>1. ASSUME Paired(ms), NEW p \in CallRows(fs) PROVE PairedAt(fs, p)
    <3>1. PICK i \in CallRows(ms) : i \in 1 .. Len(ms) /\ p = e[i]
      BY <1>2
    <3>2. PairedAt(ms, i)
      BY <2>1 DEF Paired
    <3> QED BY <1>3, <3>1, <3>2
  <2> QED BY <2>1 DEF Paired
<1>7. ASSUME NEW t, AllFull(ms, t, 0) PROVE AllFull(fs, t, 0)
  <2>1. ASSUME NEW p \in CallRows(fs), fs[p].t = t PROVE Full(fs, p)
    <3>1. PICK i \in CallRows(ms) : i \in 1 .. Len(ms) /\ p = e[i] /\ fs[p] = ms[i]
      BY <1>2
    <3>2. i # 0
      BY <1>1, <3>1
    <3>3. Full(ms, i)
      BY <1>7, <2>1, <3>1, <3>2 DEF AllFull
    <3> QED BY <1>4, <3>1, <3>3
  <2> QED BY <2>1 DEF AllFull
<1>8. ASSUME NEW t PROVE AllClosed(fs, t)
  <2>1. \A p \in CallRows(fs) : ClosedAt(fs, p)
    BY <1>2, <1>5
  <2> QED BY <2>1 DEF AllClosed
<1> QED BY <1>6, <1>7, <1>8

-----------------------------------------------------------------------------
(* What each way the code changes session.messages does to the facts the   *)
(* invariant names.                                                        *)

Sound(ms) == ms \in Seq(Rows) /\ Sorted(ms) /\ Paired(ms)

\* Turn t is the last one with rows and has not stopped.
Newest(ms, t) == (\A u : Present(ms, u) => u <= t) /\ ~HasStop(ms, t)

\* A change by turn t that keeps what was there.
Kept(ms, ns, t) ==
  /\ Sound(ns)
  /\ \A u : Present(ns, u) => Present(ms, u) \/ u = t
  /\ \A u : HasReply(ms, u) => HasReply(ns, u)
  /\ \A u : AllFull(ms, u, 0) => AllFull(ns, u, 0)
  /\ \A u \in Nat : AllClosed(ms, u) => AllClosed(ns, u)
\* And neither asks nor stops.
Effect(ms, ns, t) ==
  /\ Kept(ms, ns, t)
  /\ \A u : HasUser(ns, u) <=> HasUser(ms, u)
  /\ \A u : HasStop(ns, u) <=> HasStop(ms, u)
Calls(ms, ns) == \A u, rest : OnCall(ms, u, rest) => OnCall(ns, u, rest)

\* One change after another.
LEMMA EffectChain ==
  ASSUME NEW a, NEW b, NEW c, NEW t, Effect(a, b, t), Effect(b, c, t)
  PROVE  Effect(a, c, t)
BY DEF Effect, Kept

LEMMA EffectKept ==
  ASSUME NEW a, NEW b, NEW c, NEW t, Effect(a, b, t), Kept(b, c, t)
  PROVE  Kept(a, c, t)
BY DEF Effect, Kept

\* The turn is still the newest.
LEMMA EffectNewest ==
  ASSUME NEW a, NEW b, NEW t \in Nat, Effect(a, b, t), Newest(a, t)
  PROVE  Newest(b, t) /\ Sound(b)
<1>1. \A u : Present(b, u) => u <= t
  BY DEF Effect, Kept, Newest
<1>2. ~HasStop(b, t)
  BY DEF Effect, Newest
<1> QED BY <1>1, <1>2 DEF Newest, Effect, Kept

\* Turns are numbers.
LEMMA TurnIsNat == Turns \subseteq Nat /\ 0 \notin Turns
BY BoundAssumption DEF Turns

\* The open row grows or goes away.
LEMMA LikeEffect ==
  ASSUME NEW ms, NEW ns \in Seq(Rows), Sound(ms), Like(ms, ns), NEW t
  PROVE  Effect(ms, ns, t) /\ Calls(ms, ns)
<1>1. Steady(ms, ns, {}) /\ \A h \in CallRows(ms) : LastIs(ms, h) => LastIs(ns, h)
  BY LikeSteady
<1>2. Paired(ms) => Paired(ns)
  BY <1>1, SteadyKeeps
<1>3. \A u : AllFull(ms, u, 0) => AllFull(ns, u, 0)
  BY <1>1, SteadyKeeps
<1>4. \A u \in Nat : AllClosed(ms, u) => AllClosed(ns, u)
  BY <1>1, SteadyKeeps
<1>5. Sound(ns)
  BY <1>2, LikeSorted DEF Sound
<1>6. Calls(ms, ns)
  BY <1>1, SteadyOn DEF Calls
<1>7. /\ \A u : HasUser(ns, u) <=> HasUser(ms, u)
      /\ \A u : HasStop(ns, u) <=> HasStop(ms, u)
      /\ \A u : HasReply(ns, u) <=> HasReply(ms, u)
      /\ \A u : Present(ns, u) => Present(ms, u)
  BY LikeRows
<1> QED BY <1>3, <1>4, <1>5, <1>6, <1>7 DEF Effect, Kept

\* A row without calls comes behind the others.
LEMMA AppendEffect ==
  ASSUME NEW ms, Sound(ms), NEW r \in Rows, NEW ns, Longer(ms, ns, r), ns \in Seq(Rows),
         r.k \in {"user", "open", "stop"} \/ (r.k = "asst" /\ r.calls = <<>>),
         Newest(ms, r.t), r.k = "user" => ~Present(ms, r.t),
         r.k \in {"asst", "stop"} => HasUser(ms, r.t)
  PROVE  /\ Kept(ms, ns, r.t)
         /\ \A u : HasUser(ns, u) <=> HasUser(ms, u) \/ (r.k = "user" /\ u = r.t)
         /\ \A u : HasStop(ns, u) <=> HasStop(ms, u) \/ (r.k = "stop" /\ u = r.t)
         /\ r.k \in {"asst", "stop"} => HasReply(ns, r.t)
         /\ r.k = "open" => Calls(ms, ns)
<1>1. /\ \A u : HasUser(ns, u) <=> HasUser(ms, u) \/ (r.k = "user" /\ r.t = u)
      /\ \A u : HasStop(ns, u) <=> HasStop(ms, u) \/ (r.k = "stop" /\ r.t = u)
      /\ \A u : HasReply(ns, u) <=> HasReply(ms, u) \/ (r.k \in {"asst", "stop"} /\ r.t = u)
      /\ \A u : Present(ns, u) <=> Present(ms, u) \/ r.t = u
  BY LongerRows
<1>2. r.k # "tool" /\ ~(r.k = "asst" /\ r.calls # <<>>)
  OBVIOUS
<1>3. Steady(ms, ns, {}) /\ (r.k = "open" => \A h \in CallRows(ms) : LastIs(ms, h) => LastIs(ns, h))
  BY <1>2, LongerSteady
<1>4. Sorted(ns)
  <2>1. /\ Sorted(ms) /\ \A t : Present(ms, t) => t <= r.t
        /\ ~HasStop(ms, r.t)
        /\ r.k = "user" => ~Present(ms, r.t)
        /\ r.k \in {"asst", "tool", "stop"} => HasUser(ms, r.t)
    BY <1>2 DEF Sound, Newest
  <2> QED BY <2>1, LongerSorted
<1>5. Paired(ms) => Paired(ns)
  BY <1>3, SteadyKeeps
<1>6. \A u : AllFull(ms, u, 0) => AllFull(ns, u, 0)
  BY <1>3, SteadyKeeps
<1>7. \A u \in Nat : AllClosed(ms, u) => AllClosed(ns, u)
  BY <1>3, SteadyKeeps
<1>8. r.k = "open" => Calls(ms, ns)
  BY <1>3, SteadyOn DEF Calls
<1>9. Sound(ns)
  BY <1>4, <1>5 DEF Sound
<1> QED BY <1>1, <1>6, <1>7, <1>8, <1>9 DEF Kept

\* Fold: streamed text.
LEMMA FoldEffect ==
  ASSUME NEW ms, Sound(ms), NEW t \in Turns, NEW say \in SUBSET Words, Newest(ms, t)
  PROVE  Effect(ms, Fold(ms, t, say), t) /\ Calls(ms, Fold(ms, t, say))
<1>1. ms \in Seq(Rows)
  BY DEF Sound
<1> DEFINE r == Open(t, say)  ns == Fold(ms, t, say)
<1>2. ns \in Seq(Rows) /\ r \in Rows /\ r.k = "open" /\ r.t = t /\ (Like(ms, ns) \/ Longer(ms, ns, r))
  BY <1>1, FoldIs
<1> HIDE DEF r, ns
<1>3. CASE Like(ms, ns)
  BY <1>2, <1>3, LikeEffect DEF ns
<1>4. CASE Longer(ms, ns, r)
  <2>1. /\ Kept(ms, ns, r.t)
        /\ \A u : HasUser(ns, u) <=> HasUser(ms, u)
        /\ \A u : HasStop(ns, u) <=> HasStop(ms, u)
        /\ Calls(ms, ns)
    BY <1>2, <1>4, AppendEffect
  <2> QED BY <1>2, <2>1 DEF Effect, ns
<1> QED BY <1>2, <1>3, <1>4

\* The open row is dropped.
LEMMA DropEffect ==
  ASSUME NEW ms, Sound(ms), NEW t
  PROVE  Effect(ms, DropOpen(ms), t) /\ DropOpen(ms) \in Seq(Rows)
BY DropIs, LikeEffect DEF Sound

\* An answer without calls is committed, or appended.
LEMMA AnswerEffect ==
  ASSUME NEW ms, Sound(ms), NEW t \in Turns, NEW say \in SUBSET Words, Newest(ms, t), HasUser(ms, t)
  PROVE  /\ Effect(ms, Append(ms, Asst(t, <<>>, say)), t) /\ HasReply(Append(ms, Asst(t, <<>>, say)), t)
         /\ Effect(ms, Commit(ms, Asst(t, <<>>, say)), t) /\ HasReply(Commit(ms, Asst(t, <<>>, say)), t)
<1> DEFINE r == Asst(t, <<>>, say)
<1>1. r \in Rows /\ r.k = "asst" /\ r.t = t /\ r.calls = <<>>
  BY RowsAre
<1> HIDE DEF r
<1>2. ASSUME NEW ls, Sound(ls), Newest(ls, t), HasUser(ls, t)
      PROVE  Effect(ls, Append(ls, r), t) /\ HasReply(Append(ls, r), t)
  <2>1. Longer(ls, Append(ls, r), r) /\ Append(ls, r) \in Seq(Rows)
    BY <1>1, <1>2, AppendIs DEF Sound
  <2>2. /\ Kept(ls, Append(ls, r), r.t)
        /\ \A u : HasUser(Append(ls, r), u) <=> HasUser(ls, u)
        /\ \A u : HasStop(Append(ls, r), u) <=> HasStop(ls, u)
        /\ HasReply(Append(ls, r), r.t)
    BY <1>1, <1>2, <2>1, AppendEffect
  <2> QED BY <1>1, <2>2 DEF Effect
<1>3. t \in Nat
  BY TurnIsNat
<1>4. Effect(ms, DropOpen(ms), t)
  BY DropEffect
<1>5. Sound(DropOpen(ms)) /\ Newest(DropOpen(ms), t)
  BY <1>3, <1>4, EffectNewest
<1>6. HasUser(DropOpen(ms), t)
  BY <1>4 DEF Effect
<1>7. Effect(DropOpen(ms), Commit(ms, r), t) /\ HasReply(Commit(ms, r), t)
  BY <1>2, <1>5, <1>6 DEF Commit
<1>8. Effect(ms, Commit(ms, r), t)
  BY <1>4, <1>7, EffectChain
<1> QED BY <1>2, <1>7, <1>8 DEF r

\* A question is appended, the first row of its turn.
LEMMA UserEffect ==
  ASSUME NEW ms, Sound(ms), NEW t \in Turns, Newest(ms, t), ~Present(ms, t)
  PROVE  /\ Kept(ms, Append(ms, User(t)), t)
         /\ \A u : HasUser(Append(ms, User(t)), u) <=> HasUser(ms, u) \/ u = t
         /\ \A u : HasStop(Append(ms, User(t)), u) <=> HasStop(ms, u)
<1> DEFINE r == User(t)
<1>1. r \in Rows /\ r.k = "user" /\ r.t = t
  BY RowsAre
<1>2. Longer(ms, Append(ms, r), r) /\ Append(ms, r) \in Seq(Rows)
  BY <1>1, AppendIs DEF Sound
<1> HIDE DEF r
<1>3. /\ Kept(ms, Append(ms, r), r.t)
      /\ \A u : HasUser(Append(ms, r), u) <=> HasUser(ms, u) \/ (r.k = "user" /\ u = r.t)
      /\ \A u : HasStop(Append(ms, r), u) <=> HasStop(ms, u) \/ (r.k = "stop" /\ u = r.t)
  BY <1>1, <1>2, AppendEffect
<1> QED BY <1>1, <1>3 DEF r

\* The stop line is appended.
LEMMA StopEffect ==
  ASSUME NEW ms, Sound(ms), NEW t \in Turns, Newest(ms, t), HasUser(ms, t)
  PROVE  /\ Kept(ms, Append(ms, StopLine(t)), t)
         /\ \A u : HasUser(Append(ms, StopLine(t)), u) <=> HasUser(ms, u)
         /\ \A u : HasStop(Append(ms, StopLine(t)), u) <=> HasStop(ms, u) \/ u = t
         /\ HasReply(Append(ms, StopLine(t)), t)
<1> DEFINE r == StopLine(t)
<1>1. r \in Rows /\ r.k = "stop" /\ r.t = t
  BY RowsAre
<1>2. Longer(ms, Append(ms, r), r) /\ Append(ms, r) \in Seq(Rows)
  BY <1>1, AppendIs DEF Sound
<1> HIDE DEF r
<1>3. /\ Kept(ms, Append(ms, r), r.t)
      /\ \A u : HasUser(Append(ms, r), u) <=> HasUser(ms, u) \/ (r.k = "user" /\ u = r.t)
      /\ \A u : HasStop(Append(ms, r), u) <=> HasStop(ms, u) \/ (r.k = "stop" /\ u = r.t)
      /\ HasReply(Append(ms, r), r.t)
  BY <1>1, <1>2, AppendEffect
<1> QED BY <1>1, <1>3 DEF r

\* A response with calls is committed.
Called(ms, ns, t, calls) ==
  /\ Sound(ns)
  /\ \A u : Present(ns, u) => Present(ms, u) \/ u = t
  /\ \A u : HasUser(ns, u) <=> HasUser(ms, u)
  /\ \A u : HasStop(ns, u) <=> HasStop(ms, u)
  /\ \A u : HasReply(ms, u) => HasReply(ns, u)
  /\ \A u : u # t /\ AllFull(ms, u, 0) => AllFull(ns, u, 0)
  /\ \A u \in Nat : u < t /\ AllClosed(ms, u) => AllClosed(ns, u)
  /\ OnCall(ns, t, calls)

LEMMA CallsEffect ==
  ASSUME NEW ms, Sound(ms), NEW t \in Turns, NEW say \in SUBSET Words, NEW calls \in CallLists, calls # <<>>,
         Newest(ms, t), HasUser(ms, t), AllFull(ms, t, 0)
  PROVE  Called(ms, Commit(ms, Asst(t, calls, say)), t, calls)
<1> DEFINE r == Asst(t, calls, say)  ds == DropOpen(ms)  ns == Append(ds, r)
<1>1. r \in Rows /\ r.k = "asst" /\ r.t = t /\ r.calls = calls
  BY RowsAre
<1>2. t \in Nat
  BY TurnIsNat
<1>3. Effect(ms, ds, t) /\ ds \in Seq(Rows)
  BY DropEffect
<1>4. ns = Commit(ms, Asst(t, calls, say))
  BY DEF Commit
<1> HIDE DEF r, ds
<1>5. Sound(ds) /\ Newest(ds, t)
  BY <1>2, <1>3, EffectNewest
<1>6. HasUser(ds, t) /\ AllFull(ds, t, 0)
  BY <1>3 DEF Effect, Kept
<1>7. Longer(ds, ns, r) /\ ns \in Seq(Rows)
  BY <1>1, <1>3, AppendIs
<1> HIDE DEF ns
<1> DEFINE h == Len(ns)
<1>8. Steady(ds, ns, {h}) /\ LastIs(ns, h)
  BY <1>1, <1>7, LongerSteady
<1>9. ns[h] = r /\ h \in Nat /\ h # 0 /\ h \in CallRows(ns)
  BY <1>7, <1>8 DEF Longer, Listed, Steady
<1>10. Sorted(ns)
  <2>1. /\ Sorted(ds) /\ \A u : Present(ds, u) => u <= r.t
        /\ ~HasStop(ds, r.t)
        /\ r.k = "user" => ~Present(ds, r.t)
        /\ r.k \in {"asst", "tool", "stop"} => HasUser(ds, r.t)
    BY <1>1, <1>5, <1>6 DEF Sound, Newest
  <2> QED BY <1>7, <2>1, LongerSorted
<1>11. Sound(ns)
  BY <1>5, <1>7, <1>8, <1>10, SteadyKeeps DEF Sound
<1>12. /\ \A u : HasUser(ns, u) <=> HasUser(ds, u)
       /\ \A u : HasStop(ns, u) <=> HasStop(ds, u)
       /\ \A u : HasReply(ds, u) => HasReply(ns, u)
       /\ \A u : Present(ns, u) => Present(ds, u) \/ u = t
  BY <1>1, <1>7, LongerRows
<1>13. \A u : u # t /\ AllFull(ds, u, 0) => AllFull(ns, u, 0)
  <2>1. \A u : u # t => \A i \in {h} : ns[i].t # u
    BY <1>1, <1>9
  <2> QED BY <1>8, <2>1, SteadyKeeps
<1>14. \A u \in Nat : u < t /\ AllClosed(ds, u) => AllClosed(ns, u)
  <2>1. \A u \in Nat : u < t => \A i \in {h} : ~(ns[i].t <= u)
    BY <1>1, <1>2, <1>9
  <2> HIDE DEF h
  <2> QED BY <1>8, <2>1, SteadyKeeps
<1>15. AllFull(ns, t, h)
  <2>1. AllFull(ds, t, h)
    BY <1>6 DEF AllFull, CallRows
  <2> HIDE DEF h
  <2> QED BY <1>8, <2>1, SteadyKeeps
<1>16. Owes(ns, h, calls)
  <2>1. Results(ns, h) = {}
    BY <1>8 DEF Steady
  <2>2. Len(calls) \in Nat
    BY DataAssumption, LenProperties
  <2>3. Len(calls) - Len(calls) = 0 /\ Len(calls) >= Len(calls) /\ \A n \in 1 .. Len(calls) : 0 + n = n
    BY <2>2
  <2>4. ns[h].calls = calls
    BY <1>1, <1>9
  <2> HIDE DEF h
  <2> QED BY <2>1, <2>3, <2>4 DEF Owes
<1>17. OnCall(ns, t, calls)
  <2>1. ns[h].t = t
    BY <1>1, <1>9
  <2> HIDE DEF h
  <2> QED BY <1>8, <1>9, <1>15, <1>16, <2>1 DEF OnCall
<1>18. Called(ms, ns, t, calls)
  BY <1>3, <1>11, <1>12, <1>13, <1>14, <1>17 DEF Effect, Kept, Called
<1> QED BY <1>4, <1>18

\* The result of the first call to come is appended.
LEMMA ResultEffect ==
  ASSUME NEW ms, Sound(ms), NEW t \in Turns, NEW id \in Ids, Newest(ms, t), HasUser(ms, t),
         NEW q \in Seq(Ids), NEW rest \in Seq(Ids), OnCall(ms, t, q),
         Len(q) = Len(rest) + 1, q[1] = id, \A n \in 1 .. Len(rest) : rest[n] = q[n + 1]
  PROVE  /\ Effect(ms, Append(ms, Tool(t, id, "result")), t)
         /\ OnCall(Append(ms, Tool(t, id, "result")), t, rest)
<1> DEFINE r == Tool(t, id, "result")  ns == Append(ms, r)
<1>1. r \in Rows /\ r.k = "tool" /\ r.t = t /\ r.id = id /\ r.res = "result"
  BY RowsAre
<1> HIDE DEF r
<1>2. Longer(ms, ns, r) /\ ns \in Seq(Rows) /\ ms \in Seq(Rows) /\ Paired(ms)
  BY <1>1, AppendIs DEF Sound
<1> HIDE DEF ns
<1>3. PICK h \in CallRows(ms) : LastIs(ms, h)
  BY DEF OnCall
<1>4. Paired(ns) /\ OnCall(ns, t, rest)
  BY <1>1, <1>2, ResultPaired
<1>5. /\ \A u, a : AllFull(ms, u, a) => AllFull(ns, u, a)
      /\ \A u : AllClosed(ms, u) => AllClosed(ns, u)
  BY <1>1, <1>2, <1>3, ResultKeeps
<1>6. Sorted(ns)
  <2>1. /\ Sorted(ms) /\ \A u : Present(ms, u) => u <= r.t
        /\ ~HasStop(ms, r.t)
        /\ r.k = "user" => ~Present(ms, r.t)
        /\ r.k \in {"asst", "tool", "stop"} => HasUser(ms, r.t)
    BY <1>1 DEF Sound, Newest
  <2> QED BY <1>2, <2>1, LongerSorted
<1>7. /\ \A u : HasUser(ns, u) <=> HasUser(ms, u)
      /\ \A u : HasStop(ns, u) <=> HasStop(ms, u)
      /\ \A u : HasReply(ns, u) <=> HasReply(ms, u)
      /\ \A u : Present(ns, u) => Present(ms, u) \/ u = t
  BY <1>1, <1>2, LongerRows
<1>8. Effect(ms, ns, t)
  BY <1>2, <1>4, <1>5, <1>6, <1>7 DEF Effect, Kept, Sound
<1> QED BY <1>4, <1>8 DEF ns, r

\* Cancelled rows answer the calls that have no tool row.
LEMMA FillEffect ==
  ASSUME NEW ms, Sound(ms), NEW t
  PROVE  Effect(ms, FillCancelled(ms), t) /\ \A u : AllClosed(FillCancelled(ms), u)
<1> DEFINE fs == FillCancelled(ms)
<1>1. ms \in Seq(Rows) /\ Sorted(ms) /\ Paired(ms)
  BY DEF Sound
<1>2. PICK e : Grown(ms, fs, e)
  BY <1>1, FillLays, LaidGrows
<1> HIDE DEF fs
<1>3. fs \in Seq(Rows)
  BY <1>2 DEF Grown
<1>4. Sorted(fs)
  BY <1>1, <1>2, GrownSorted
<1>5. Paired(fs) /\ (\A u : AllFull(ms, u, 0) => AllFull(fs, u, 0)) /\ \A u : AllClosed(fs, u)
  BY <1>1, <1>2, GrownPaired
<1>6. /\ \A u : HasUser(fs, u) <=> HasUser(ms, u)
      /\ \A u : HasStop(fs, u) <=> HasStop(ms, u)
      /\ \A u : HasReply(fs, u) <=> HasReply(ms, u)
      /\ \A u : Present(fs, u) <=> Present(ms, u)
  BY <1>1, <1>2, GrownRows
<1>7. Effect(ms, fs, t)
  BY <1>3, <1>4, <1>5, <1>6 DEF Effect, Kept, Sound
<1> QED BY <1>5, <1>7 DEF fs

\* close_stopped.
LEMMA CloseEffect ==
  ASSUME NEW ms, Sound(ms), NEW t \in Turns, Newest(ms, t), HasUser(ms, t), NEW part \in SUBSET Tokens
  PROVE  /\ Kept(ms, CloseRows(ms, t, part), t)
         /\ \A u : HasUser(CloseRows(ms, t, part), u) <=> HasUser(ms, u)
         /\ \A u : HasStop(CloseRows(ms, t, part), u) <=> HasStop(ms, u) \/ u = t
         /\ HasReply(CloseRows(ms, t, part), t)
         /\ \A u \in Nat : AllClosed(CloseRows(ms, t, part), u)
<1> DEFINE text == StopText(ms, part)
           said == IF text = {} THEN ms ELSE Commit(ms, Asst(t, <<>>, text))
           filled == FillCancelled(said)
           silent == text = {} /\ filled = said
           ended == IF silent THEN Commit(filled, Asst(t, <<>>, {"banner"})) ELSE filled
<1>1. t \in Nat
  BY TurnIsNat
<1>2. text \in SUBSET Words
  <2>1. EndsOpen(ms) => Last(ms).say \in SUBSET Words
    <3>1. ms \in Seq(Rows)
      BY DEF Sound
    <3>2. EndsOpen(ms) => Len(ms) \in 1 .. Len(ms)
      BY <3>1, EmptySeq, LenProperties DEF EndsOpen
    <3>3. EndsOpen(ms) => ms[Len(ms)] \in Rows
      BY <3>1, <3>2, ListedIs
    <3> QED BY <3>3, RowFields DEF Last
  <2> QED BY <2>1 DEF StopText, OpenText, Words
<1>3. CloseRows(ms, t, part) = Append(ended, StopLine(t))
  BY DEF CloseRows
<1> HIDE DEF text
<1>4. Sound(said) /\ Newest(said, t) /\ HasUser(said, t) /\ (said = ms \/ Effect(ms, said, t))
  <2>1. CASE text = {}
    BY <2>1
  <2>2. CASE text # {}
    <3>1. said = Commit(ms, Asst(t, <<>>, text))
      BY <2>2
    <3> HIDE DEF said
    <3>2. Effect(ms, said, t)
      BY <1>2, <3>1, AnswerEffect
    <3>3. Sound(said) /\ Newest(said, t)
      BY <1>1, <3>2, EffectNewest
    <3> QED BY <3>2, <3>3 DEF Effect
  <2> QED BY <2>1, <2>2
<1> HIDE DEF said
<1>5. Effect(said, filled, t) /\ \A u : AllClosed(filled, u)
  BY <1>4, FillEffect
<1> HIDE DEF filled
<1>6. Sound(filled) /\ Newest(filled, t)
  BY <1>1, <1>4, <1>5, EffectNewest
<1>7. HasUser(filled, t)
  BY <1>4, <1>5 DEF Effect
<1>8. /\ Sound(ended) /\ Newest(ended, t) /\ HasUser(ended, t) /\ \A u \in Nat : AllClosed(ended, u)
      /\ ended = filled \/ Effect(filled, ended, t)
  <2>1. CASE ~silent
    BY <1>5, <1>6, <1>7, <2>1
  <2>2. CASE silent
    <3>1. ended = Commit(filled, Asst(t, <<>>, {"banner"}))
      BY <2>2
    <3> HIDE DEF ended
    <3>2. {"banner"} \in SUBSET Words
      BY DEF Words
    <3>3. Effect(filled, ended, t)
      BY <1>6, <1>7, <3>1, <3>2, AnswerEffect
    <3>4. Sound(ended) /\ Newest(ended, t)
      BY <1>1, <1>6, <3>3, EffectNewest
    <3> QED BY <1>5, <1>7, <3>3, <3>4 DEF Effect, Kept
  <2> QED BY <2>1, <2>2
<1> HIDE DEF ended
<1>9. Effect(ms, filled, t)
  BY <1>4, <1>5, EffectChain
<1>10. Effect(ms, ended, t)
  BY <1>8, <1>9, EffectChain
<1> DEFINE out == Append(ended, StopLine(t))
<1>11. /\ Kept(ended, out, t)
       /\ \A u : HasUser(out, u) <=> HasUser(ended, u)
       /\ \A u : HasStop(out, u) <=> HasStop(ended, u) \/ u = t
       /\ HasReply(out, t)
  BY <1>8, StopEffect
<1> HIDE DEF out
<1>12. Kept(ms, out, t)
  BY <1>10, <1>11, EffectKept
<1>13. \A u \in Nat : AllClosed(out, u)
  BY <1>8, <1>11 DEF Kept
<1>14. CloseRows(ms, t, part) = out
  BY <1>3 DEF out
<1> QED BY <1>10, <1>11, <1>12, <1>13, <1>14 DEF Effect

-----------------------------------------------------------------------------
(* The inductive invariant.                                                *)

\* Where the send stands: what is set while it is posted, starting, draining.
StageInv ==
  /\ phase \in {"none", "posted"} <=> cur = 0
  /\ phase # "none" => busy /\ sends # 0
  /\ ~teardown /\ busy => phase # "none"
  /\ cur # 0 /\ cur \notin alive => sends \in cancelled
  /\ sends \in cancelled => alive = {}
  /\ 0 \notin alive
  /\ \A t \in cancelled \cup shut : t <= sends
  /\ \A t \in closed : t <= sends /\ (t = sends => phase = "none")
  /\ phase = "posted" => sends \notin shut
  /\ \A t \in Turns : base[t] <= list
  /\ alive # {} => base[cur] = list /\ cur \notin shut
  /\ phase # "draining" =>
       queue = <<>> /\ partial = {} /\ round = 0 /\ pending = <<>> /\ retries = 0

\* The loop runs: its turn has neither ended nor been stopped.
Live == phase = "draining" /\ cur \in alive
IsControl(i) == queue[i].k \in Control

\* Every worker is of a turn that has begun, the queue is the current turn's,
\* and a running loop has one worker or else one control item.
WorkInv ==
  /\ \A w \in workers : w.t <= sends /\ (phase \in {"posted", "starting"} => w.t # sends)
  /\ \A w \in workers : (w.pc = "refused" => w.k = "tool") /\ (w.k = "tool" => w.id \in Ids)
  /\ \A i \in 1 .. Len(queue) : queue[i].t = cur /\ (queue[i].k = "result" => queue[i].id \in Ids)
OneInv ==
  Live =>
    /\ \A v, w \in workers : v.t = cur /\ w.t = cur => v = w
    /\ \A i, j \in 1 .. Len(queue) : IsControl(i) /\ IsControl(j) => i = j
    /\ (\E w \in workers : w.t = cur) <=> ~\E i \in 1 .. Len(queue) : IsControl(i)

\* The requests of a turn: at most one for each round and retry, and in the
\* last round two for each retry and the final one, whose stream has begun.
Finale ==
  \/ \E w \in workers : w.t = cur /\ w.k = "final"
  \/ \E i \in 1 .. Len(queue) : queue[i].k \in {"final", "error"}
Budget ==
  IF round < MaxRounds THEN round + 1 + retries
  ELSE IF Finale THEN MaxRounds + 1 + 2 * retries ELSE MaxRounds + 2 * retries
BudgetInv ==
  /\ RequestBudget
  /\ \A t \in Turns : t > sends \/ (t = sends /\ phase \in {"posted", "starting"}) => requests[t] = 0
  /\ Live => requests[cur] <= Budget

\* The rows: whose they are and what the ended turns left.
PlaceInv ==
  /\ \A t \in Turns : Present(messages, t) =>
       base[t] = list /\ t <= sends /\ (phase \in {"posted", "starting"} => t # sends)
  /\ phase = "draining" /\ base[cur] = list => HasUser(messages, cur)
FullInv == \A t \in Turns : Ended(t) /\ outcome[t] = "ready" => AllFull(messages, t, 0)
ClosedInv == \A t \in closed : AllClosed(messages, t)
StopInv ==
  /\ \A t \in Turns : HasStop(messages, t) => Ended(t) /\ outcome[t] = "stopped"
  /\ \A t \in Turns : Ended(t) /\ HasUser(messages, t) /\ t \in cancelled /\ t \notin shut => HasStop(messages, t)
HoleInv == \A t \in Turns : Ended(t) /\ HasUser(messages, t) /\ t \notin shut => HasReply(messages, t)
RowsInv == Sound(messages) /\ PlaceInv /\ FullInv /\ ClosedInv /\ StopInv /\ HoleInv

\* While a tool runs, or its result or the next trigger is on the queue, the
\* calls to come are that tool's and the pending ones.  Otherwise none is.
NoneDue == pending = <<>> /\ AllFull(messages, cur, 0)
ChainInv ==
  Live =>
    /\ \A w \in workers : w.t = cur =>
         IF w.k = "tool" THEN OnCall(messages, cur, <<w.id>> \o pending) ELSE NoneDue
    /\ \A i \in 1 .. Len(queue) :
         /\ queue[i].k = "result" => OnCall(messages, cur, <<queue[i].id>> \o pending)
         /\ queue[i].k = "next" => OnCall(messages, cur, pending)
         /\ queue[i].k \in {"done", "final"} \/ (queue[i].k = "error" /\ queue[i].mark = "overflow") => NoneDue

IInv == TypeOK /\ StageInv /\ WorkInv /\ OneInv /\ BudgetInv /\ RowsInv /\ ChainInv

-----------------------------------------------------------------------------
(* How the rows' part of the invariant survives: nothing changes, a slice  *)
(* that goes on changes the rows, the send ends.                           *)

LEMMA TypeFacts ==
  ASSUME TypeOK
  PROVE  /\ sends \in Nat /\ sends <= MaxSends /\ cur \in {0, sends} /\ list \in Nat
         /\ (sends # 0 => sends \in Turns)
         /\ alive \subseteq {cur} /\ cancelled \subseteq Turns /\ shut \subseteq Turns /\ closed \subseteq Turns
         /\ messages \in Seq(Rows) /\ Turns \subseteq Nat
         /\ queue \in Seq(Items) /\ Len(queue) \in Nat /\ \A i \in 1 .. Len(queue) : queue[i] \in Items
         /\ workers \subseteq Workers /\ pending \in Seq(Ids) /\ partial \in SUBSET Tokens
         /\ round \in Nat /\ round <= MaxRounds /\ retries \in Nat /\ retries <= MaxOverflow
         /\ \A t \in Turns : base[t] \in Nat /\ requests[t] \in Nat
<1>1. queue \in Seq(Items) /\ Len(queue) \in Nat /\ \A i \in 1 .. Len(queue) : queue[i] \in Items
  BY LenProperties, ElementOfSeq DEF TypeOK
<1>2. sends \in 0 .. MaxSends /\ MaxSends \in Nat /\ list \in 0 .. MaxClears
  BY BoundAssumption DEF TypeOK
<1>3. round \in 0 .. MaxRounds /\ retries \in 0 .. MaxOverflow /\ MaxRounds \in Nat /\ MaxOverflow \in Nat
  BY BoundAssumption DEF TypeOK
<1>4. \A t \in Turns : base[t] \in Nat /\ requests[t] \in Nat
  BY DEF TypeOK
<1> QED BY <1>1, <1>2, <1>3, <1>4, TurnIsNat DEF TypeOK, Turns

\* A turn without rows has no call without a result.
LEMMA AbsentFull ==
  ASSUME NEW ms \in Seq(Rows), NEW t, ~Present(ms, t)
  PROVE  AllFull(ms, t, 0)
<1>1. \A i \in CallRows(ms) : i \in 1 .. Len(ms)
  BY CallsAre
<1> QED BY <1>1 DEF AllFull, Present

\* A turn with a question, a stop line or an answer has rows.
LEMMA HasPresent ==
  ASSUME NEW ms, NEW t
  PROVE  (HasUser(ms, t) => Present(ms, t)) /\ (HasStop(ms, t) => Present(ms, t)) /\ (HasReply(ms, t) => Present(ms, t))
BY DEF HasUser, HasStop, HasReply, Present

\* The turns with rows are turns.
LEMMA PresentTurn ==
  ASSUME NEW ms \in Seq(Rows), NEW t, Present(ms, t)
  PROVE  t \in Turns
BY ListedIs, RowFields DEF Present

\* The current turn may add rows.
LEMMA CurIsNewest ==
  ASSUME TypeOK, StageInv, RowsInv, phase \in {"starting", "draining"}
  PROVE  Newest(messages, cur) /\ cur = sends /\ cur \in Turns /\ cur \in Nat /\ cur # 0
<1>1. cur = sends /\ cur \in Turns /\ cur \in Nat /\ cur # 0
  BY TypeFacts DEF StageInv
<1>2. \A u : Present(messages, u) => u <= cur
  BY <1>1, TypeFacts, PresentTurn DEF RowsInv, PlaceInv
<1>3. ~HasStop(messages, cur)
  BY <1>1 DEF RowsInv, StopInv, Ended
<1> QED BY <1>1, <1>2, <1>3 DEF Newest

LEMMA SameRows ==
  ASSUME RowsInv, UNCHANGED <<uivars, turnvars>>
  PROVE  RowsInv'
<1>1. /\ messages' = messages /\ sends' = sends /\ cancelled' = cancelled /\ shut' = shut /\ list' = list
      /\ base' = base /\ phase' = phase /\ cur' = cur /\ closed' = closed /\ outcome' = outcome
  BY DEF uivars, turnvars
<1>2. PlaceInv'
  BY <1>1 DEF RowsInv, PlaceInv
<1>3. FullInv' /\ ClosedInv'
  BY <1>1 DEF RowsInv, FullInv, ClosedInv, Ended
<1>4. StopInv'
  BY <1>1 DEF RowsInv, StopInv, Ended
<1>5. HoleInv'
  BY <1>1 DEF RowsInv, HoleInv, Ended
<1> QED BY <1>1, <1>2, <1>3, <1>4, <1>5 DEF RowsInv

\* The slice goes on; the rows of the earlier turns are kept.
LEMMA MidRows ==
  ASSUME TypeOK, StageInv, RowsInv, phase = "draining",
         UNCHANGED <<uivars, phase, cur, closed, outcome>>,
         Sound(messages'), base[cur] = list,
         \A u : Present(messages', u) => Present(messages, u) \/ u = cur,
         \A u : HasUser(messages', u) <=> HasUser(messages, u),
         \A u : HasStop(messages', u) <=> HasStop(messages, u),
         \A u : HasReply(messages, u) => HasReply(messages', u),
         \A u : u # cur /\ AllFull(messages, u, 0) => AllFull(messages', u, 0),
         \A u \in Nat : u < cur /\ AllClosed(messages, u) => AllClosed(messages', u)
  PROVE  RowsInv'
<1>1. /\ sends' = sends /\ cancelled' = cancelled /\ shut' = shut /\ list' = list
      /\ base' = base /\ phase' = phase /\ cur' = cur /\ closed' = closed /\ outcome' = outcome
  BY DEF uivars
<1>2. cur = sends /\ cur \in Turns /\ cur \in Nat
  BY CurIsNewest
<1>3. \A t \in Turns : Ended(t)' <=> Ended(t)
  BY <1>1 DEF Ended
<1>4. ~Ended(cur)
  BY <1>2 DEF Ended
<1>5. PlaceInv'
  BY <1>1, <1>2 DEF RowsInv, PlaceInv
<1>6. FullInv'
  BY <1>1, <1>3, <1>4 DEF RowsInv, FullInv
<1>7. ClosedInv'
  <2>1. \A t \in closed : t \in Nat /\ t < cur
    <3>1. \A t \in closed : t \in Nat /\ t <= sends /\ t # sends
      BY TypeFacts DEF StageInv
    <3> QED BY <1>2, <3>1
  <2> QED BY <1>1, <2>1 DEF RowsInv, ClosedInv
<1>8. StopInv'
  BY <1>1, <1>3 DEF RowsInv, StopInv
<1>9. HoleInv'
  BY <1>1, <1>3 DEF RowsInv, HoleInv
<1> QED BY <1>5, <1>6, <1>7, <1>8, <1>9 DEF RowsInv

\* As when the current turn adds something that neither asks nor stops.
LEMMA MidEffect ==
  ASSUME TypeOK, StageInv, RowsInv, phase = "draining",
         UNCHANGED <<uivars, phase, cur, closed, outcome>>,
         base[cur] = list, Effect(messages, messages', cur)
  PROVE  RowsInv'
<1>1. /\ Sound(messages')
      /\ \A u : Present(messages', u) => Present(messages, u) \/ u = cur
      /\ \A u : HasUser(messages', u) <=> HasUser(messages, u)
      /\ \A u : HasStop(messages', u) <=> HasStop(messages, u)
      /\ \A u : HasReply(messages, u) => HasReply(messages', u)
      /\ \A u : u # cur /\ AllFull(messages, u, 0) => AllFull(messages', u, 0)
      /\ \A u \in Nat : u < cur /\ AllClosed(messages, u) => AllClosed(messages', u)
  BY DEF Effect, Kept
<1> QED BY <1>1, MidRows

\* The send ends with outcome o.
LEMMA EndRows ==
  ASSUME TypeOK, StageInv, RowsInv, phase # "none", UNCHANGED uivars,
         phase' = "none", cur' = 0, NEW o, outcome' = [outcome EXCEPT ![sends] = o],
         Kept(messages, messages', sends),
         \A u : u # sends => (HasUser(messages', u) <=> HasUser(messages, u))
                             /\ (HasStop(messages', u) <=> HasStop(messages, u)),
         Present(messages', sends) => base[sends] = list,
         o = "ready" => AllFull(messages', sends, 0),
         HasStop(messages', sends) => o = "stopped",
         HasUser(messages', sends) /\ sends \in cancelled /\ sends \notin shut => HasStop(messages', sends),
         HasUser(messages', sends) /\ sends \notin shut => HasReply(messages', sends),
         closed' \subseteq closed \cup {sends}, sends \in closed' => AllClosed(messages', sends)
  PROVE  RowsInv'
<1>1. sends' = sends /\ cancelled' = cancelled /\ shut' = shut /\ list' = list /\ base' = base
  BY DEF uivars
<1>2. sends \in Turns /\ sends \in Nat
  BY TypeFacts DEF StageInv
<1>3. \A t \in Turns : Ended(t)' <=> Ended(t) \/ t = sends
  BY <1>1, <1>2 DEF Ended
<1>4. \A t \in Turns : outcome'[t] = IF t = sends THEN o ELSE outcome[t]
  BY <1>2 DEF TypeOK
<1>5. /\ Sound(messages')
      /\ \A u : Present(messages', u) => Present(messages, u) \/ u = sends
      /\ \A u : HasReply(messages, u) => HasReply(messages', u)
      /\ \A u : AllFull(messages, u, 0) => AllFull(messages', u, 0)
      /\ \A u \in Nat : AllClosed(messages, u) => AllClosed(messages', u)
  BY DEF Kept
<1>6. PlaceInv'
  BY <1>1, <1>2, <1>5 DEF RowsInv, PlaceInv
<1>7. FullInv'
  BY <1>3, <1>4, <1>5 DEF RowsInv, FullInv
<1>8. ClosedInv'
  BY <1>5, TypeFacts DEF RowsInv, ClosedInv
<1>9. StopInv'
  <2>1. ASSUME NEW t \in Turns, HasStop(messages', t) PROVE Ended(t)' /\ outcome'[t] = "stopped"
    BY <1>3, <1>4, <2>1 DEF RowsInv, StopInv
  <2>2. ASSUME NEW t \in Turns, Ended(t)', HasUser(messages', t), t \in cancelled, t \notin shut
        PROVE  HasStop(messages', t)
    BY <1>3, <2>2 DEF RowsInv, StopInv
  <2> QED BY <1>1, <2>1, <2>2 DEF StopInv
<1>10. HoleInv'
  BY <1>1, <1>3, <1>5 DEF RowsInv, HoleInv
<1> QED BY <1>5, <1>6, <1>7, <1>8, <1>9, <1>10 DEF RowsInv

\* The rest of the invariant when the send ends.
LEMMA FinishKeeps ==
  ASSUME TypeOK, StageInv, WorkInv, BudgetInv, phase # "none", Finish, UNCHANGED <<uivars, workers>>,
         messages' \in Seq(Rows), outcome' \in [Turns -> {"none", "ready", "stopped", "error"}],
         closed' \subseteq closed \cup {sends}
  PROVE  TypeOK' /\ StageInv' /\ WorkInv' /\ OneInv' /\ BudgetInv' /\ ChainInv'
<1>1. /\ phase' = "none" /\ busy' = teardown /\ cur' = 0 /\ alive' = alive \ {cur}
      /\ queue' = <<>> /\ partial' = {} /\ round' = 0 /\ pending' = <<>> /\ retries' = 0
      /\ requests' = requests
      /\ teardown' = teardown /\ sends' = sends /\ cancelled' = cancelled /\ shut' = shut
      /\ list' = list /\ base' = base /\ workers' = workers
  BY DEF Finish, BusyAfter, Aborted, uivars
<1>2. alive' = {} /\ closed' \subseteq Turns /\ sends \in Turns /\ sends \in Nat
  BY <1>1, TypeFacts DEF StageInv
<1>3. <<>> \in Seq(Items) /\ <<>> \in Seq(Ids) /\ Len(<<>>) = 0
  BY EmptySeq
<1>4. TypeOK'
  <2>1. 0 \in 0 .. MaxRounds /\ 0 \in 0 .. MaxOverflow
    BY BoundAssumption
  <2> QED BY <1>1, <1>2, <1>3, <2>1 DEF TypeOK
<1>5. StageInv'
  BY <1>1, <1>2 DEF StageInv
<1>6. WorkInv'
  BY <1>1, <1>3 DEF WorkInv
<1>7. BudgetInv'
  BY <1>1 DEF BudgetInv, RequestBudget, Live
<1>8. OneInv' /\ ChainInv'
  BY <1>1 DEF OneInv, ChainInv, Live
<1> QED BY <1>4, <1>5, <1>6, <1>7, <1>8

-----------------------------------------------------------------------------
(* The steps that end the send.                                            *)

LEMMA IInvParts ==
  ASSUME IInv
  PROVE  TypeOK /\ StageInv /\ WorkInv /\ OneInv /\ BudgetInv /\ RowsInv /\ ChainInv
BY DEF IInv

\* Nothing changes.
LEMMA EffectItself ==
  ASSUME NEW ms, Sound(ms), NEW t
  PROVE  Effect(ms, ms, t)
BY DEF Effect, Kept

\* What holds where a slice takes an item.
LEMMA TakeFacts ==
  ASSUME IInv, NEW k, Take(k)
  PROVE  /\ phase = "draining" /\ sends \notin cancelled /\ cur \in alive /\ Live
         /\ cur = sends /\ cur \in Turns /\ cur \in Nat /\ base[cur] = list /\ cur \notin shut
         /\ Len(queue) \in Nat /\ 1 \in 1 .. Len(queue) /\ item = queue[1] /\ item.k = k /\ item.t = cur
         /\ item \in Items
         /\ Sound(messages) /\ Newest(messages, cur) /\ HasUser(messages, cur)
<1>1. TypeOK /\ StageInv /\ WorkInv /\ RowsInv
  BY IInvParts
<1>2. phase = "draining" /\ sends \notin cancelled /\ queue # <<>> /\ item.k = k
  BY DEF Take, StopSeen, item
<1>3. Newest(messages, cur) /\ cur = sends /\ cur \in Turns /\ cur \in Nat /\ cur # 0
  BY <1>1, <1>2, CurIsNewest
<1>4. cur \in alive
  BY <1>1, <1>2, <1>3 DEF StageInv
<1>5. base[cur] = list /\ cur \notin shut
  BY <1>1, <1>4 DEF StageInv
<1>6. queue \in Seq(Items) /\ Len(queue) \in Nat /\ \A i \in 1 .. Len(queue) : queue[i] \in Items
  BY <1>1, TypeFacts
<1>7. 1 \in 1 .. Len(queue) /\ item = queue[1]
  BY <1>2, <1>6, EmptySeq DEF item
<1>8. item.t = cur
  BY <1>1, <1>7 DEF WorkInv
<1>9. HasUser(messages, cur) /\ Sound(messages)
  BY <1>1, <1>2, <1>5 DEF RowsInv, PlaceInv
<1> QED BY <1>2, <1>3, <1>4, <1>5, <1>6, <1>7, <1>8, <1>9 DEF Live

\* What an item of the queue holds.
LEMMA ItemFields ==
  ASSUME NEW x \in Items
  PROVE  /\ x.k \in {"chunk", "stopped"} \cup Control /\ x.t \in Turns /\ x.say \in SUBSET Tokens
         /\ x.say \in SUBSET Words /\ x.calls \in CallLists \cup {<<>>} /\ x.id \in Ids \cup {None}
BY DEF Items, Words

LEMMA SayWords ==
  {"status"} \in SUBSET Words /\ {"banner"} \in SUBSET Words /\ {"error"} \in SUBSET Words
BY DEF Words

\* The send ends with outcome o and the rows are those of EndRows.
LEMMA EndKeeps ==
  ASSUME IInv, phase # "none", UNCHANGED <<uivars, workers>>, NEW o \in {"ready", "stopped", "error"},
         EndWith(o),
         Kept(messages, messages', sends),
         \A u : u # sends => (HasUser(messages', u) <=> HasUser(messages, u))
                             /\ (HasStop(messages', u) <=> HasStop(messages, u)),
         Present(messages', sends) => base[sends] = list,
         o = "ready" => AllFull(messages', sends, 0),
         HasStop(messages', sends) => o = "stopped",
         HasUser(messages', sends) /\ sends \in cancelled /\ sends \notin shut => HasStop(messages', sends),
         HasUser(messages', sends) /\ sends \notin shut => HasReply(messages', sends),
         closed' \subseteq closed \cup {sends}, sends \in closed' => AllClosed(messages', sends)
  PROVE  IInv'
<1>1. TypeOK /\ StageInv /\ WorkInv /\ BudgetInv /\ RowsInv
  BY IInvParts
<1>2. Finish /\ outcome' = [outcome EXCEPT ![sends] = o]
  BY DEF EndWith
<1>3. phase' = "none" /\ cur' = 0 /\ UNCHANGED uivars
  BY <1>2 DEF Finish
<1>4. messages' \in Seq(Rows)
  BY DEF Kept, Sound
<1>5. outcome' \in [Turns -> {"none", "ready", "stopped", "error"}]
  BY <1>1, <1>2 DEF TypeOK
<1>6. RowsInv'
  BY <1>1, <1>2, <1>3, EndRows
<1>7. TypeOK' /\ StageInv' /\ WorkInv' /\ OneInv' /\ BudgetInv' /\ ChainInv'
  BY <1>1, <1>2, <1>4, <1>5, FinishKeeps
<1> QED BY <1>6, <1>7 DEF IInv

\* The send ends in a slice of a live turn that was not stopped.
LEMMA EndOfTurn ==
  ASSUME IInv, NEW k, Take(k), UNCHANGED <<uivars, workers, closed>>, NEW o \in {"ready", "error"},
         EndWith(o), Effect(messages, messages', cur), HasReply(messages', cur),
         o = "ready" => AllFull(messages', cur, 0)
  PROVE  IInv'
<1>1. /\ phase = "draining" /\ sends \notin cancelled /\ cur = sends /\ base[cur] = list
      /\ Newest(messages, cur)
  BY TakeFacts
<1>2. TypeOK /\ StageInv
  BY IInvParts
<1>3. sends \notin closed
  BY <1>1, <1>2 DEF StageInv
<1>4. /\ Kept(messages, messages', sends)
      /\ \A u : HasUser(messages', u) <=> HasUser(messages, u)
      /\ \A u : HasStop(messages', u) <=> HasStop(messages, u)
  BY <1>1 DEF Effect
<1>5. ~HasStop(messages', sends)
  BY <1>1, <1>4 DEF Newest
<1>6. closed' = closed
  OBVIOUS
<1> QED BY <1>1, <1>3, <1>4, <1>5, <1>6, EndKeeps

LEMMA SkipSendKeeps ==
  ASSUME IInv, SkipSend
  PROVE  IInv'
<1>1. /\ phase = "posted" /\ EndWith("stopped") /\ UNCHANGED <<uivars, workers>>
      /\ messages' = messages /\ closed' = closed
  BY DEF SkipSend
<1>2. TypeOK /\ StageInv /\ RowsInv /\ Sound(messages)
  BY IInvParts DEF RowsInv
<1>3. ~Present(messages, sends)
  BY <1>1, <1>2, PresentTurn DEF RowsInv, PlaceInv, Sound
<1>4. ~HasUser(messages, sends) /\ ~HasStop(messages, sends)
  BY <1>3, HasPresent
<1>5. Kept(messages, messages, sends)
  BY <1>2, EffectItself DEF Effect
<1>6. sends \notin closed
  BY <1>1, <1>2 DEF StageInv
<1> QED BY <1>1, <1>3, <1>4, <1>5, <1>6, EndKeeps

LEMMA BodyRefusedKeeps ==
  ASSUME IInv, BodyRefused
  PROVE  IInv'
<1>1. /\ phase = "starting" /\ EndWith("error") /\ UNCHANGED <<uivars, workers>>
      /\ closed' = closed /\ Say({"error"})
  BY DEF BodyRefused
<1>2. TypeOK /\ StageInv /\ RowsInv /\ Sound(messages)
  BY IInvParts DEF RowsInv
<1>3. Newest(messages, cur) /\ cur = sends /\ cur \in Turns
  BY <1>1, <1>2, CurIsNewest
<1>4. ~Present(messages, sends)
  BY <1>1, <1>2, PresentTurn DEF RowsInv, PlaceInv, Sound
<1>5. ~HasUser(messages, sends) /\ ~HasStop(messages, sends)
  BY <1>4, HasPresent
<1>6. Effect(messages, messages', sends) /\ (Running \/ messages' = messages)
  <2>1. CASE Running
    <3>1. messages' = Fold(messages, cur, {"error"})
      BY <1>1, <2>1 DEF Say
    <3> QED BY <1>2, <1>3, <2>1, <3>1, FoldEffect, SayWords
  <2>2. CASE ~Running
    <3>1. messages' = messages
      BY <1>1, <2>2 DEF Say
    <3> QED BY <1>2, <3>1, EffectItself
  <2> QED BY <2>1, <2>2
<1>7. Present(messages', sends) => base[sends] = list
  BY <1>3, <1>4, <1>6 DEF Running, CanWrite
<1>8. sends \notin closed
  BY <1>1, <1>2 DEF StageInv
<1>9. /\ Kept(messages, messages', sends)
      /\ \A u : HasUser(messages', u) <=> HasUser(messages, u)
      /\ \A u : HasStop(messages', u) <=> HasStop(messages, u)
  BY <1>6 DEF Effect
<1> QED BY <1>1, <1>5, <1>7, <1>8, <1>9, EndKeeps

LEMMA BodyAbortedKeeps ==
  ASSUME IInv, BodyAborted
  PROVE  IInv'
<1>1. /\ phase = "starting" /\ Finish /\ UNCHANGED <<uivars, workers>>
      /\ closed' = closed /\ messages' = messages /\ outcome' = outcome
  BY DEF BodyAborted
<1>2. TypeOK /\ StageInv /\ WorkInv /\ BudgetInv /\ RowsInv /\ Sound(messages)
  BY IInvParts DEF RowsInv
<1>3. ~Present(messages, sends)
  BY <1>1, <1>2, PresentTurn DEF RowsInv, PlaceInv, Sound
<1>4. ~HasUser(messages, sends) /\ ~HasStop(messages, sends) /\ AllFull(messages, sends, 0)
  BY <1>2, <1>3, HasPresent, AbsentFull DEF Sound
<1>5. Kept(messages, messages, sends)
  BY <1>2, EffectItself DEF Effect
<1>6. sends \notin closed
  BY <1>1, <1>2 DEF StageInv
<1>7. outcome' = [outcome EXCEPT ![sends] = outcome[sends]]
  BY <1>1, <1>2 DEF TypeOK
<1>8. phase' = "none" /\ cur' = 0 /\ phase # "none" /\ UNCHANGED uivars
  BY <1>1 DEF Finish
<1>9. RowsInv'
  BY <1>1, <1>2, <1>3, <1>4, <1>5, <1>6, <1>7, <1>8, EndRows
<1>10. /\ messages' \in Seq(Rows) /\ outcome' \in [Turns -> {"none", "ready", "stopped", "error"}]
       /\ closed' \subseteq closed \cup {sends}
  BY <1>1, <1>2 DEF TypeOK
<1>11. TypeOK' /\ StageInv' /\ WorkInv' /\ OneInv' /\ BudgetInv' /\ ChainInv'
  BY <1>1, <1>2, <1>8, <1>10, FinishKeeps
<1> QED BY <1>9, <1>11 DEF IInv

LEMMA DrainRefusedKeeps ==
  ASSUME IInv, DrainRefused
  PROVE  IInv'
<1>1. /\ phase = "starting" /\ EndWith("error") /\ UNCHANGED <<uivars, workers>> /\ Running
      /\ closed' = closed
      /\ messages' = Append(Append(messages, User(cur)), Asst(cur, <<>>, {"error"}))
  BY DEF DrainRefused
<1>2. TypeOK /\ StageInv /\ RowsInv /\ Sound(messages)
  BY IInvParts DEF RowsInv
<1>3. Newest(messages, cur) /\ cur = sends /\ cur \in Turns /\ cur \in Nat
  BY <1>1, <1>2, CurIsNewest
<1>4. ~Present(messages, sends)
  BY <1>1, <1>2, PresentTurn DEF RowsInv, PlaceInv, Sound
<1>5. ~HasStop(messages, sends) /\ sends \notin closed /\ sends \notin cancelled /\ base[sends] = list
  BY <1>1, <1>2, <1>3 DEF Newest, StageInv, Running, CanWrite
<1> DEFINE asked == Append(messages, User(cur))
<1>6. /\ Kept(messages, asked, cur)
      /\ \A u : HasUser(asked, u) <=> HasUser(messages, u) \/ u = cur
      /\ \A u : HasStop(asked, u) <=> HasStop(messages, u)
  BY <1>2, <1>3, <1>4, UserEffect
<1> HIDE DEF asked
<1>7. Sound(asked) /\ HasUser(asked, cur) /\ Newest(asked, cur)
  <2>1. \A u : Present(asked, u) => u <= cur
    BY <1>3, <1>6 DEF Kept, Newest
  <2> QED BY <1>3, <1>6, <2>1 DEF Kept, Newest
<1>8. Effect(asked, messages', cur) /\ HasReply(messages', cur)
  <2>1. messages' = Append(asked, Asst(cur, <<>>, {"error"}))
    BY <1>1 DEF asked
  <2> QED BY <1>3, <1>7, <2>1, AnswerEffect, SayWords
<1>9. Kept(messages, messages', sends)
  BY <1>3, <1>6, <1>8 DEF Effect, Kept
<1>10. \A u : u # sends => (HasUser(messages', u) <=> HasUser(messages, u))
  BY <1>3, <1>6, <1>8 DEF Effect
<1>11. \A u : HasStop(messages', u) <=> HasStop(messages, u)
  BY <1>6, <1>8 DEF Effect
<1> QED BY <1>1, <1>3, <1>5, <1>8, <1>9, <1>10, <1>11, EndKeeps

\* close_stopped and the end of the send.
LEMMA CloseKeeps ==
  ASSUME IInv, phase = "draining", CloseStopped, EndWith("stopped"), UNCHANGED <<uivars, workers>>
  PROVE  IInv'
<1>1. TypeOK /\ StageInv /\ RowsInv /\ Sound(messages)
  BY IInvParts DEF RowsInv
<1>2. Newest(messages, cur) /\ cur = sends /\ cur \in Turns /\ cur \in Nat
  BY <1>1, CurIsNewest
<1>3. sends \notin closed /\ partial \in SUBSET Tokens
  BY <1>1, TypeFacts DEF StageInv
<1>4. Present(messages, sends) => base[sends] = list
  BY <1>1, <1>2 DEF RowsInv, PlaceInv
<1>5. CASE CanWrite(cur)
  <2>1. messages' = CloseRows(messages, cur, partial) /\ closed' = closed \cup {cur}
    BY <1>2, <1>3, <1>5 DEF CloseStopped
  <2>2. base[sends] = list /\ HasUser(messages, cur)
    BY <1>1, <1>2, <1>5 DEF CanWrite, RowsInv, PlaceInv
  <2>3. /\ Kept(messages, messages', cur)
        /\ \A u : HasUser(messages', u) <=> HasUser(messages, u)
        /\ \A u : HasStop(messages', u) <=> HasStop(messages, u) \/ u = cur
        /\ HasReply(messages', cur)
        /\ \A u \in Nat : AllClosed(messages', u)
    BY <1>1, <1>2, <1>3, <2>1, <2>2, CloseEffect
  <2> QED BY <1>2, <2>1, <2>2, <2>3, EndKeeps
<1>6. CASE ~CanWrite(cur)
  <2>1. messages' = messages /\ closed' = closed
    BY <1>6 DEF CloseStopped
  <2>2. Kept(messages, messages', sends)
    BY <1>1, <2>1, EffectItself DEF Effect
  <2>3. cur \in shut \/ ~Present(messages, sends)
    BY <1>2, <1>4, <1>6 DEF CanWrite
  <2>4. ~HasUser(messages, sends) \/ sends \in shut
    BY <1>2, <2>3, HasPresent
  <2> QED BY <1>3, <1>4, <2>1, <2>2, <2>4, EndKeeps
<1> QED BY <1>5, <1>6

LEMMA SliceStopKeeps ==
  ASSUME IInv, SliceStop
  PROVE  IInv'
BY CloseKeeps DEF SliceStop

LEMMA TakeStoppedKeeps ==
  ASSUME IInv, TakeStopped
  PROVE  IInv'
BY CloseKeeps DEF TakeStopped, Take

LEMMA TakeAnswerKeeps ==
  ASSUME IInv, TakeAnswer
  PROVE  IInv'
<1>1. /\ Take("done") /\ EndWith("ready") /\ UNCHANGED <<uivars, closed, workers>>
      /\ messages' = Commit(messages, Asst(item.t, <<>>, IF item.say = {} THEN {"banner"} ELSE item.say))
  BY DEF TakeAnswer
<1>2. /\ cur \in Turns /\ Live /\ 1 \in 1 .. Len(queue) /\ item = queue[1] /\ item.k = "done" /\ item.t = cur
      /\ item \in Items /\ Sound(messages) /\ Newest(messages, cur) /\ HasUser(messages, cur)
  BY <1>1, TakeFacts
<1>3. AllFull(messages, cur, 0)
  BY <1>2, IInvParts DEF ChainInv, NoneDue
<1> DEFINE say == IF item.say = {} THEN {"banner"} ELSE item.say
<1>4. say \in SUBSET Words
  BY <1>2, ItemFields, SayWords
<1>5. messages' = Commit(messages, Asst(cur, <<>>, say))
  BY <1>1, <1>2
<1> HIDE DEF say
<1>6. Effect(messages, messages', cur) /\ HasReply(messages', cur)
  BY <1>2, <1>4, <1>5, AnswerEffect
<1>7. AllFull(messages', cur, 0)
  BY <1>3, <1>6 DEF Effect, Kept
<1> QED BY <1>1, <1>6, <1>7, EndOfTurn

LEMMA TakeFinalKeeps ==
  ASSUME IInv, TakeFinal
  PROVE  IInv'
<1>1. /\ Take("final") /\ EndWith("ready") /\ UNCHANGED <<uivars, closed, workers>>
      /\ messages' = IF item.say # {} THEN Commit(messages, Asst(item.t, <<>>, item.say))
                     ELSE Fold(Commit(messages, Asst(item.t, <<>>, {"banner"})), item.t, {"banner"})
  BY DEF TakeFinal
<1>2. /\ cur \in Turns /\ cur \in Nat /\ Live
      /\ 1 \in 1 .. Len(queue) /\ item = queue[1] /\ item.k = "final" /\ item.t = cur
      /\ item \in Items /\ Sound(messages) /\ Newest(messages, cur) /\ HasUser(messages, cur)
  BY <1>1, TakeFacts
<1>3. AllFull(messages, cur, 0)
  BY <1>2, IInvParts DEF ChainInv, NoneDue
<1>4. Effect(messages, messages', cur) /\ HasReply(messages', cur)
  <2>1. CASE item.say # {}
    <3>1. messages' = Commit(messages, Asst(cur, <<>>, item.say)) /\ item.say \in SUBSET Words
      BY <1>1, <1>2, <2>1, ItemFields
    <3> QED BY <1>2, <3>1, AnswerEffect
  <2>2. CASE item.say = {}
    <3> DEFINE noted == Commit(messages, Asst(cur, <<>>, {"banner"}))
    <3>1. Effect(messages, noted, cur) /\ HasReply(noted, cur)
      BY <1>2, AnswerEffect, SayWords
    <3>2. messages' = Fold(noted, cur, {"banner"})
      BY <1>1, <1>2, <2>2
    <3> HIDE DEF noted
    <3>3. Sound(noted) /\ Newest(noted, cur)
      BY <1>2, <3>1, EffectNewest
    <3>4. Effect(noted, messages', cur)
      BY <1>2, <3>2, <3>3, FoldEffect, SayWords
    <3>5. Effect(messages, messages', cur)
      BY <3>1, <3>4, EffectChain
    <3> QED BY <3>1, <3>4, <3>5 DEF Effect, Kept
  <2> QED BY <2>1, <2>2
<1>5. AllFull(messages', cur, 0)
  BY <1>3, <1>4 DEF Effect, Kept
<1> QED BY <1>1, <1>4, <1>5, EndOfTurn

LEMMA TakeErrorKeeps ==
  ASSUME IInv, TakeError
  PROVE  IInv'
<1>1. /\ Take("error") /\ EndWith("error") /\ UNCHANGED <<uivars, closed, workers>>
      /\ messages' = Commit(messages, Asst(cur, <<>>, {"error"}))
  BY DEF TakeError, ErrorRows
<1>2. cur \in Turns /\ Sound(messages) /\ Newest(messages, cur) /\ HasUser(messages, cur)
  BY <1>1, TakeFacts
<1>3. Effect(messages, messages', cur) /\ HasReply(messages', cur)
  BY <1>1, <1>2, AnswerEffect, SayWords
<1> QED BY <1>1, <1>3, EndOfTurn

\* A turn at its calls has a response.
LEMMA OnCallReply ==
  ASSUME NEW ms \in Seq(Rows), NEW t, NEW q, OnCall(ms, t, q)
  PROVE  HasReply(ms, t)
<1>1. PICK h \in CallRows(ms) : ms[h].t = t
  BY DEF OnCall
<1>2. h \in 1 .. Len(ms) /\ ms[h].k = "asst"
  BY CallsAre
<1> QED BY <1>1, <1>2 DEF HasReply

\* The result line and the tool row.
LEMMA ResultRowsAre ==
  ASSUME IInv, Take("result")
  PROVE  /\ Effect(messages, ResultRows, cur) /\ OnCall(ResultRows, cur, pending)
         /\ Sound(ResultRows) /\ Newest(ResultRows, cur) /\ HasReply(ResultRows, cur)
<1>1. /\ cur \in Turns /\ cur \in Nat /\ Live
      /\ 1 \in 1 .. Len(queue) /\ item = queue[1] /\ item.k = "result" /\ item.t = cur
      /\ Sound(messages) /\ Newest(messages, cur) /\ HasUser(messages, cur)
  BY TakeFacts
<1>2. item.id \in Ids /\ pending \in Seq(Ids)
  BY <1>1, IInvParts, TypeFacts DEF WorkInv
<1> DEFINE q == <<item.id>> \o pending
<1>3. OnCall(messages, cur, q)
  BY <1>1, IInvParts DEF ChainInv
<1>4. /\ q \in Seq(Ids) /\ Len(q) = Len(pending) + 1 /\ q[1] = item.id
      /\ \A n \in 1 .. Len(pending) : pending[n] = q[n + 1]
  <2>1. <<item.id>> \in Seq(Ids) /\ Len(<<item.id>>) = 1 /\ <<item.id>>[1] = item.id
    BY <1>2
  <2>2. Len(pending) \in Nat
    BY <1>2, LenProperties
  <2>3. /\ q \in Seq(Ids) /\ Len(q) = 1 + Len(pending)
        /\ \A i \in 1 .. 1 + Len(pending) : q[i] = IF i <= 1 THEN <<item.id>>[i] ELSE pending[i - 1]
    BY <1>2, <2>1, ConcatProperties
  <2> HIDE DEF q
  <2>4. q[1] = item.id
    BY <2>1, <2>2, <2>3
  <2>5. ASSUME NEW n \in 1 .. Len(pending) PROVE pending[n] = q[n + 1]
    <3>1. n + 1 \in 1 .. 1 + Len(pending) /\ ~(n + 1 <= 1) /\ n + 1 - 1 = n
      BY <2>2
    <3> QED BY <2>3, <3>1
  <2> QED BY <2>2, <2>3, <2>4, <2>5
<1> HIDE DEF q
<1> DEFINE fs == Fold(messages, cur, {"status"})  ns == Append(fs, Tool(cur, item.id, "result"))
<1>5. Effect(messages, fs, cur) /\ Calls(messages, fs)
  BY <1>1, FoldEffect, SayWords
<1>6. ResultRows = ns
  BY <1>1 DEF ResultRows
<1> HIDE DEF fs
<1>7. Sound(fs) /\ Newest(fs, cur) /\ HasUser(fs, cur) /\ OnCall(fs, cur, q)
  <2>1. Sound(fs) /\ Newest(fs, cur)
    BY <1>1, <1>5, EffectNewest
  <2> QED BY <1>1, <1>3, <1>5, <2>1 DEF Effect, Calls
<1>8. Effect(fs, ns, cur) /\ OnCall(ns, cur, pending)
  BY <1>1, <1>2, <1>4, <1>7, ResultEffect
<1> HIDE DEF ns
<1>9. Effect(messages, ns, cur)
  BY <1>5, <1>8, EffectChain
<1>10. Sound(ns) /\ Newest(ns, cur)
  BY <1>1, <1>9, EffectNewest
<1>11. HasReply(ns, cur)
  BY <1>8, <1>10, OnCallReply DEF Sound
<1> QED BY <1>6, <1>8, <1>9, <1>10, <1>11

LEMMA TakeResultDocumentGoneKeeps ==
  ASSUME IInv, TakeResultDocumentGone
  PROVE  IInv'
<1>1. /\ Take("result") /\ EndWith("error") /\ UNCHANGED <<uivars, closed, workers>>
      /\ messages' = Append(ResultRows, Open(cur, {"error"}))
  BY DEF TakeResultDocumentGone
<1>2. cur \in Turns
  BY <1>1, TakeFacts
<1> DEFINE ms == ResultRows  r == Open(cur, {"error"})  ns == Append(ms, r)
<1>3. Effect(messages, ms, cur) /\ Sound(ms) /\ Newest(ms, cur) /\ HasReply(ms, cur)
  BY <1>1, ResultRowsAre
<1> HIDE DEF ms
<1>4. r \in Rows /\ r.k = "open" /\ r.t = cur
  <2>1. ms \in Seq(Rows)
    BY <1>3 DEF Sound
  <2> QED BY <1>2, <2>1, FoldIs, SayWords
<1> HIDE DEF r
<1>5. Longer(ms, ns, r) /\ ns \in Seq(Rows)
  BY <1>3, <1>4, AppendIs DEF Sound
<1>6. /\ Kept(ms, ns, r.t)
      /\ \A u : HasUser(ns, u) <=> HasUser(ms, u)
      /\ \A u : HasStop(ns, u) <=> HasStop(ms, u)
  BY <1>3, <1>4, <1>5, AppendEffect
<1>7. Effect(ms, ns, cur)
  BY <1>4, <1>6 DEF Effect
<1>8. messages' = ns
  BY <1>1 DEF ms, r
<1> HIDE DEF ns
<1>9. Effect(messages, messages', cur) /\ HasReply(messages', cur)
  <2>1. Effect(messages, ns, cur)
    BY <1>3, <1>7, EffectChain
  <2> QED BY <1>3, <1>7, <1>8, <2>1 DEF Effect, Kept
<1> QED BY <1>1, <1>9, EndOfTurn

-----------------------------------------------------------------------------
(* The steps that take an item and go on.                                  *)

\* The queue without its first item, and with another one behind it.
LEMMA Dropped ==
  ASSUME NEW q \in Seq(Items), q # <<>>, NEW rest, rest = Tail(q) \o <<>>
  PROVE  /\ rest \in Seq(Items) /\ Len(rest) \in Nat
         /\ \A i \in 1 .. Len(rest) : i + 1 \in 2 .. Len(q) /\ rest[i] = q[i + 1]
         /\ \A i \in 2 .. Len(q) : \E j \in 1 .. Len(rest) : rest[j] = q[i]
         /\ \A i, j \in 1 .. Len(rest) : i # j => i + 1 # j + 1
<1>1. Tail(q) \in Seq(Items) /\ Len(Tail(q)) = Len(q) - 1 /\ Len(q) \in Nat \ {0}
  BY EmptySeq, HeadTailProperties
<1>2. \A i \in 1 .. Len(Tail(q)) : Tail(q)[i] = q[i + 1]
  BY HeadTailProperties
<1>3. rest = Tail(q)
  BY <1>1, ConcatEmptySeq
<1>4. \A i \in 1 .. Len(rest) : i + 1 \in 2 .. Len(q)
  BY <1>1, <1>3
<1>5. ASSUME NEW i \in 2 .. Len(q) PROVE \E j \in 1 .. Len(rest) : rest[j] = q[i]
  <2>1. i - 1 \in 1 .. Len(rest) /\ i - 1 + 1 = i
    BY <1>1, <1>3
  <2> QED BY <1>2, <1>3, <2>1
<1>6. \A i, j \in 1 .. Len(rest) : i # j => i + 1 # j + 1
  BY <1>1, <1>3
<1> QED BY <1>1, <1>2, <1>3, <1>4, <1>5, <1>6

LEMMA Swapped ==
  ASSUME NEW q \in Seq(Items), q # <<>>, NEW x \in Items, NEW rest, rest = Tail(q) \o <<x>>
  PROVE  /\ rest \in Seq(Items) /\ Len(rest) \in Nat /\ Len(rest) \in 1 .. Len(rest) /\ rest[Len(rest)] = x
         /\ \A i \in 1 .. Len(rest) : i = Len(rest) \/ (i + 1 \in 2 .. Len(q) /\ rest[i] = q[i + 1])
<1> DEFINE tl == Tail(q)
<1>1. tl \in Seq(Items) /\ Len(tl) = Len(q) - 1 /\ Len(q) \in Nat \ {0}
  BY EmptySeq, HeadTailProperties
<1>2. \A i \in 1 .. Len(tl) : tl[i] = q[i + 1]
  BY HeadTailProperties
<1>3. <<x>> \in Seq(Items) /\ Len(<<x>>) = 1 /\ <<x>>[1] = x
  OBVIOUS
<1> HIDE DEF tl
<1>4. rest = tl \o <<x>>
  BY DEF tl
<1>5. /\ rest \in Seq(Items) /\ Len(rest) = Len(tl) + 1
      /\ \A i \in 1 .. Len(tl) + 1 : rest[i] = IF i <= Len(tl) THEN tl[i] ELSE <<x>>[i - Len(tl)]
  BY <1>1, <1>3, <1>4, ConcatProperties
<1>6. /\ Len(rest) = Len(q) /\ Len(rest) \in 1 .. Len(rest) /\ Len(rest) \in Nat
      /\ Len(rest) \in 1 .. Len(tl) + 1 /\ ~(Len(rest) <= Len(tl)) /\ Len(rest) - Len(tl) = 1
  <2>1. Len(rest) = Len(tl) + 1
    BY <1>5
  <2> QED BY <1>1, <2>1
<1>7. rest[Len(rest)] = x
  BY <1>3, <1>5, <1>6
<1>8. ASSUME NEW i \in 1 .. Len(rest), i # Len(rest) PROVE i + 1 \in 2 .. Len(q) /\ rest[i] = q[i + 1]
  <2>1. Len(tl) \in Nat /\ Len(rest) = Len(tl) + 1
    BY <1>1, <1>5
  <2>2. i \in 1 .. Len(tl) /\ i \in 1 .. Len(tl) + 1 /\ i <= Len(tl) /\ i + 1 \in 2 .. Len(q)
    BY <1>6, <1>8, <2>1
  <2> QED BY <1>2, <1>5, <2>2
<1> QED BY <1>5, <1>6, <1>7, <1>8

\* The item taken was all the loop waited for.
LEMMA ControlTaken ==
  ASSUME IInv, NEW k \in Control, Take(k)
  PROVE  /\ \A w \in workers : w.t # cur
         /\ \A i \in 2 .. Len(queue) : ~IsControl(i) /\ i \in 1 .. Len(queue)
         /\ k \notin {"final", "error"} => ~Finale
<1>1. Live /\ 1 \in 1 .. Len(queue) /\ queue[1].k = k /\ Len(queue) \in Nat
  BY TakeFacts
<1>2. IsControl(1)
  BY <1>1 DEF IsControl
<1>3. /\ \A i, j \in 1 .. Len(queue) : IsControl(i) /\ IsControl(j) => i = j
      /\ (\E w \in workers : w.t = cur) <=> ~\E i \in 1 .. Len(queue) : IsControl(i)
  BY <1>1, IInvParts DEF OneInv
<1>4. \A w \in workers : w.t # cur
  BY <1>1, <1>2, <1>3
<1>5. \A i \in 2 .. Len(queue) : i \in 1 .. Len(queue) /\ i # 1
  BY <1>1
<1>6. \A i \in 2 .. Len(queue) : ~IsControl(i)
  BY <1>1, <1>2, <1>3, <1>5
<1>7. k \notin {"final", "error"} => ~Finale
  <2>1. ASSUME NEW i \in 1 .. Len(queue), queue[i].k \in {"final", "error"} PROVE i = 1
    <3>1. IsControl(i)
      BY <2>1 DEF IsControl, Control
    <3> QED BY <1>1, <1>2, <1>3, <3>1
  <2> QED BY <1>1, <1>4, <2>1 DEF Finale
<1> QED BY <1>4, <1>5, <1>6, <1>7

\* The types, and where the send stands, while it goes on.
LEMMA GoOn ==
  ASSUME TypeOK, StageInv, UNCHANGED <<uivars, busy, phase, cur, alive, closed, outcome>>,
         messages' \in Seq(Rows), partial' \in SUBSET Tokens, round' \in 0 .. MaxRounds,
         pending' \in Seq(Ids), retries' \in 0 .. MaxOverflow, requests' \in [Turns -> Nat],
         queue' \in Seq(Items), workers' \subseteq Workers,
         phase # "draining" => UNCHANGED <<queue, partial, round, pending, retries>>
  PROVE  TypeOK' /\ StageInv'
<1>1. /\ busy' = busy /\ phase' = phase /\ cur' = cur /\ alive' = alive /\ closed' = closed
      /\ outcome' = outcome /\ teardown' = teardown /\ sends' = sends /\ cancelled' = cancelled
      /\ shut' = shut /\ list' = list /\ base' = base
  BY DEF uivars
<1>2. TypeOK'
  BY <1>1 DEF TypeOK
<1>3. StageInv'
  BY <1>1 DEF StageInv
<1> QED BY <1>2, <1>3

\* The budget, when no request is made; when one is.
LEMMA SameBudget ==
  ASSUME BudgetInv, UNCHANGED <<sends, phase, cur, alive, requests, round, retries>>, TypeOK, StageInv,
         Live /\ Finale => Finale'
  PROVE  BudgetInv'
<1>1. RequestBudget' /\ (Live' <=> Live)
  BY DEF BudgetInv, RequestBudget, Live
<1>2. Live => requests[cur] <= Budget'
  <2>1. ASSUME Live PROVE requests[cur] <= Budget'
    <3>1. requests[cur] <= Budget
      BY <2>1 DEF BudgetInv
    <3>2. CASE round < MaxRounds
      BY <3>1, <3>2 DEF Budget
    <3>3. CASE ~(round < MaxRounds) /\ (Finale <=> Finale')
      BY <3>1, <3>3 DEF Budget
    <3>4. CASE ~(round < MaxRounds) /\ ~Finale /\ Finale'
      <4>1. requests[cur] <= MaxRounds + 2 * retries
        BY <3>1, <3>4 DEF Budget
      <4>2. Budget' = MaxRounds + 1 + 2 * retries
        BY <3>4 DEF Budget
      <4>3. retries \in Nat /\ MaxRounds \in Nat /\ requests[cur] \in Nat
        <5>1. cur \in Turns
          BY <2>1, TypeFacts DEF Live, StageInv
        <5> QED BY <5>1, TypeFacts, BoundAssumption
      <4> QED BY <4>1, <4>2, <4>3
    <3> QED BY <2>1, <3>2, <3>3, <3>4
  <2> QED BY <2>1
<1> QED BY <1>1, <1>2 DEF BudgetInv

LEMMA BudgetSums ==
  ASSUME NEW a \in Nat, NEW r \in Nat, NEW m \in Nat, NEW b \in Nat, a <= m, r <= b
  PROVE  /\ a + 1 + r \in Nat /\ m + 1 + 2 * r \in Nat /\ m + 2 * r \in Nat
         /\ a + 1 + r <= m + 1 + 2 * b /\ m + 1 + 2 * r <= m + 1 + 2 * b /\ m + 2 * r <= m + 1 + 2 * b
OBVIOUS

LEMMA CountKeeps ==
  ASSUME TypeOK, TypeOK', BudgetInv, UNCHANGED sends, phase' = "draining", phase \in {"starting", "draining"},
         cur' = cur, cur \in Turns, cur = sends,
         requests' = [requests EXCEPT ![cur] = @ + 1], requests[cur] + 1 <= Budget'
  PROVE  BudgetInv'
<1>1. \A t \in Turns : requests'[t] = IF t = cur THEN requests[cur] + 1 ELSE requests[t]
  BY DEF TypeOK
<1>2. requests'[cur] <= Budget' /\ requests'[cur] \in Nat
  BY <1>1, TypeFacts
<1>3. Budget' \in Nat /\ Budget' <= MaxRounds + 1 + 2 * MaxOverflow
  <2>1. /\ round' \in Nat /\ round' <= MaxRounds /\ retries' \in Nat /\ retries' <= MaxOverflow
        /\ MaxRounds \in Nat /\ MaxOverflow \in Nat
    BY BoundAssumption DEF TypeOK
  <2> DEFINE a == round'  r == retries'  m == MaxRounds  b == MaxOverflow
  <2>5. a \in Nat /\ a <= m /\ r \in Nat /\ r <= b /\ m \in Nat /\ b \in Nat
    BY <2>1
  <2> HIDE DEF a, r, m, b
  <2>6. /\ a + 1 + r \in Nat /\ m + 1 + 2 * r \in Nat /\ m + 2 * r \in Nat
        /\ a + 1 + r <= m + 1 + 2 * b /\ m + 1 + 2 * r <= m + 1 + 2 * b /\ m + 2 * r <= m + 1 + 2 * b
    BY <2>5, BudgetSums
  <2>2. CASE round' < MaxRounds
    <3>1. Budget' = round' + 1 + retries'
      BY <2>2 DEF Budget
    <3> QED BY <2>6, <3>1 DEF a, r, m, b
  <2>3. CASE ~(round' < MaxRounds) /\ Finale'
    <3>1. Budget' = MaxRounds + 1 + 2 * retries'
      BY <2>3 DEF Budget
    <3> QED BY <2>6, <3>1 DEF a, r, m, b
  <2>4. CASE ~(round' < MaxRounds) /\ ~Finale'
    <3>1. Budget' = MaxRounds + 2 * retries'
      BY <2>4 DEF Budget
    <3> QED BY <2>6, <3>1 DEF a, r, m, b
  <2> QED BY <2>2, <2>3, <2>4
<1>4. requests'[cur] <= MaxRounds + 1 + 2 * MaxOverflow
  BY <1>2, <1>3, BoundAssumption
<1>5. \A t \in Turns : requests'[t] <= MaxRounds + 1 + 2 * MaxOverflow
  BY <1>1, <1>4 DEF BudgetInv, RequestBudget
<1>6. ASSUME NEW t \in Turns, t > sends PROVE requests'[t] = 0
  <2>1. t # cur
    BY <1>6, TypeFacts
  <2> QED BY <1>1, <1>6, <2>1 DEF BudgetInv
<1> QED BY <1>2, <1>5, <1>6 DEF BudgetInv, RequestBudget

-----------------------------------------------------------------------------
(* Another worker, or another control item, after a control item.          *)

LEMMA SpawnKeeps ==
  ASSUME IInv, NEW k \in Control, Take(k), UNCHANGED <<sends, phase, cur, alive>>,
         queue' = Tail(queue) \o <<>>, NEW wk \in Workers, workers' = workers \cup {wk},
         wk.t = cur, wk.pc = "new", wk.k = "tool" => wk.id \in Ids,
         IF wk.k = "tool" THEN OnCall(messages', cur, <<wk.id>> \o pending')
                          ELSE pending' = <<>> /\ AllFull(messages', cur, 0)
  PROVE  WorkInv' /\ OneInv' /\ ChainInv' /\ queue' \in Seq(Items) /\ workers' \subseteq Workers
<1>1. TypeOK /\ StageInv /\ WorkInv /\ OneInv
  BY IInvParts
<1>2. /\ phase = "draining" /\ cur = sends /\ cur \in Nat /\ Live /\ 1 \in 1 .. Len(queue)
      /\ queue[1].k = k
  BY TakeFacts
<1>3. /\ queue \in Seq(Items) /\ queue # <<>> /\ workers \subseteq Workers
  BY <1>1, TypeFacts DEF Take
<1>4. /\ queue' \in Seq(Items) /\ Len(queue') \in Nat
      /\ \A i \in 1 .. Len(queue') : i + 1 \in 2 .. Len(queue) /\ queue'[i] = queue[i + 1]
  BY <1>3, Dropped
<1>5. /\ \A w \in workers : w.t # cur
      /\ \A i \in 2 .. Len(queue) : ~IsControl(i) /\ i \in 1 .. Len(queue)
  BY ControlTaken
<1>6. \A i \in 1 .. Len(queue') : queue'[i].k \notin Control
  BY <1>4, <1>5 DEF IsControl
<1>7. WorkInv'
  <2>1. \A i \in 1 .. Len(queue') : queue'[i].t = cur /\ (queue'[i].k = "result" => queue'[i].id \in Ids)
    BY <1>1, <1>4, <1>5 DEF WorkInv
  <2>2. \A w \in workers' : w.t <= sends /\ (phase \in {"posted", "starting"} => w.t # sends)
    BY <1>1, <1>2 DEF WorkInv
  <2>3. \A w \in workers' : (w.pc = "refused" => w.k = "tool") /\ (w.k = "tool" => w.id \in Ids)
    BY <1>1 DEF WorkInv
  <2> QED BY <2>1, <2>2, <2>3 DEF WorkInv
<1>8. OneInv'
  <2>1. \A w \in workers' : w.t = cur <=> w = wk
    BY <1>5
  <2>2. wk \in workers'
    OBVIOUS
  <2> QED BY <1>6, <2>1, <2>2 DEF OneInv, IsControl
<1>9. ChainInv'
  <2>1. \A w \in workers' : w.t = cur => w = wk
    BY <1>5
  <2> QED BY <1>6, <2>1 DEF ChainInv, NoneDue, Control
<1> QED BY <1>3, <1>4, <1>7, <1>8, <1>9

LEMMA TriggerKeeps ==
  ASSUME IInv, NEW k \in Control, Take(k), UNCHANGED <<sends, phase, cur, alive, workers>>,
         queue' = Tail(queue) \o TriggerNext, OnCall(messages', cur, pending')
  PROVE  WorkInv' /\ OneInv' /\ ChainInv' /\ queue' \in Seq(Items)
<1>1. TypeOK /\ StageInv /\ WorkInv /\ OneInv
  BY IInvParts
<1>2. /\ phase = "draining" /\ cur = sends /\ cur \in Turns /\ Live /\ 1 \in 1 .. Len(queue)
      /\ queue[1].k = k
  BY TakeFacts
<1> DEFINE x == Item("next", cur)
<1>3. x \in Items /\ x.k = "next" /\ x.t = cur
  BY <1>2 DEF Item, Items, Control
<1>4. queue' = Tail(queue) \o <<x>>
  BY DEF TriggerNext
<1> HIDE DEF x
<1>5. queue \in Seq(Items) /\ queue # <<>>
  BY <1>1, TypeFacts DEF Take
<1>6. /\ queue' \in Seq(Items) /\ Len(queue') \in Nat /\ Len(queue') \in 1 .. Len(queue')
      /\ queue'[Len(queue')] = x
      /\ \A i \in 1 .. Len(queue') : i = Len(queue') \/ (i + 1 \in 2 .. Len(queue) /\ queue'[i] = queue[i + 1])
  <2> DEFINE q == queue  rest == queue'
  <2>1. q \in Seq(Items) /\ q # <<>> /\ x \in Items /\ rest = Tail(q) \o <<x>>
    BY <1>3, <1>4, <1>5
  <2> HIDE DEF q, rest
  <2>2. /\ rest \in Seq(Items) /\ Len(rest) \in Nat /\ Len(rest) \in 1 .. Len(rest) /\ rest[Len(rest)] = x
        /\ \A i \in 1 .. Len(rest) : i = Len(rest) \/ (i + 1 \in 2 .. Len(q) /\ rest[i] = q[i + 1])
    BY <2>1, Swapped
  <2> QED BY <2>2 DEF q, rest
<1>7. /\ \A w \in workers : w.t # cur
      /\ \A i \in 2 .. Len(queue) : ~IsControl(i) /\ i \in 1 .. Len(queue)
  BY ControlTaken
<1>8. \A i \in 1 .. Len(queue') : queue'[i].k \in Control => i = Len(queue')
  BY <1>6, <1>7 DEF IsControl
<1>9. WorkInv'
  <2>1. ASSUME NEW i \in 1 .. Len(queue') PROVE queue'[i].t = cur /\ (queue'[i].k = "result" => queue'[i].id \in Ids)
    <3>1. CASE i = Len(queue')
      BY <1>3, <1>6, <3>1
    <3>2. CASE i # Len(queue')
      <4>1. i + 1 \in 1 .. Len(queue) /\ queue'[i] = queue[i + 1]
        BY <1>6, <1>7, <3>2
      <4> QED BY <1>1, <4>1 DEF WorkInv
    <3> QED BY <3>1, <3>2
  <2> QED BY <1>1, <2>1 DEF WorkInv
<1>10. OneInv'
  <2>1. queue'[Len(queue')].k \in Control
    BY <1>3, <1>6 DEF Control
  <2> QED BY <1>6, <1>7, <1>8, <2>1 DEF OneInv, IsControl
<1>11. ChainInv'
  <2>1. \A i \in 1 .. Len(queue') : queue'[i].k \in Control => queue'[i].k = "next"
    BY <1>3, <1>6, <1>8
  <2> QED BY <1>7, <2>1 DEF ChainInv, Control
<1> QED BY <1>6, <1>9, <1>10, <1>11

LEMMA TakeChunkKeeps ==
  ASSUME IInv, TakeChunk
  PROVE  IInv'
<1>1. /\ Take("chunk") /\ messages' = Fold(messages, item.t, item.say) /\ queue' = Tail(queue) \o <<>>
      /\ UNCHANGED <<uivars, busy, phase, cur, alive, closed, outcome>> /\ sends' = sends
      /\ phase' = phase /\ cur' = cur /\ alive' = alive /\ workers' = workers /\ partial' = partial
      /\ round' = round /\ pending' = pending /\ retries' = retries /\ requests' = requests
  BY DEF TakeChunk, Queued, uivars, loopvars
<1>2. TypeOK /\ StageInv /\ WorkInv /\ OneInv /\ BudgetInv /\ RowsInv /\ ChainInv
  BY IInvParts
<1>3. /\ phase = "draining" /\ Live /\ cur \in Turns /\ base[cur] = list /\ item \in Items /\ item.t = cur
      /\ 1 \in 1 .. Len(queue) /\ queue[1].k = "chunk" /\ Len(queue) \in Nat
      /\ Sound(messages) /\ Newest(messages, cur)
  BY <1>1, TakeFacts
<1>4. Effect(messages, messages', cur) /\ Calls(messages, messages')
  BY <1>1, <1>3, FoldEffect, ItemFields
<1>5. RowsInv'
  <2>1. UNCHANGED <<uivars, phase, cur, closed, outcome>>
    BY <1>1
  <2> QED BY <1>2, <1>3, <1>4, <2>1, MidEffect
<1>6. queue \in Seq(Items) /\ queue # <<>>
  BY <1>1, <1>2, TypeFacts DEF Take
<1>7. /\ queue' \in Seq(Items) /\ Len(queue') \in Nat
      /\ \A i \in 1 .. Len(queue') : i + 1 \in 2 .. Len(queue) /\ queue'[i] = queue[i + 1]
      /\ \A i \in 2 .. Len(queue) : \E j \in 1 .. Len(queue') : queue'[j] = queue[i]
      /\ \A i, j \in 1 .. Len(queue') : i # j => i + 1 # j + 1
  <2> DEFINE q == queue  rest == queue'
  <2>1. q \in Seq(Items) /\ q # <<>> /\ rest = Tail(q) \o <<>>
    BY <1>1, <1>6
  <2> HIDE DEF q, rest
  <2>2. /\ rest \in Seq(Items) /\ Len(rest) \in Nat
        /\ \A i \in 1 .. Len(rest) : i + 1 \in 2 .. Len(q) /\ rest[i] = q[i + 1]
        /\ \A i \in 2 .. Len(q) : \E j \in 1 .. Len(rest) : rest[j] = q[i]
        /\ \A i, j \in 1 .. Len(rest) : i # j => i + 1 # j + 1
    BY <2>1, Dropped
  <2> QED BY <2>2 DEF q, rest
<1>8. \A i \in 2 .. Len(queue) : i \in 1 .. Len(queue)
  BY <1>3
<1>9. \A i \in 1 .. Len(queue) : i = 1 \/ i \in 2 .. Len(queue)
  BY <1>3
<1>10. \A i \in 1 .. Len(queue') : i + 1 \in 1 .. Len(queue) /\ queue'[i] = queue[i + 1]
  BY <1>7, <1>8
<1>11. TypeOK' /\ StageInv'
  <2>1. messages' \in Seq(Rows)
    BY <1>4 DEF Effect, Kept, Sound
  <2>2. /\ partial' \in SUBSET Tokens /\ round' \in 0 .. MaxRounds /\ pending' \in Seq(Ids)
        /\ retries' \in 0 .. MaxOverflow /\ requests' \in [Turns -> Nat] /\ workers' \subseteq Workers
    BY <1>1, <1>2 DEF TypeOK
  <2> QED BY <1>1, <1>2, <1>3, <1>7, <2>1, <2>2, GoOn
<1>12. WorkInv'
  <2>1. \A i \in 1 .. Len(queue') : queue'[i].t = cur /\ (queue'[i].k = "result" => queue'[i].id \in Ids)
    BY <1>2, <1>10 DEF WorkInv
  <2> QED BY <1>1, <1>2, <2>1 DEF WorkInv
<1>13. OneInv'
  <2>1. /\ \A v, w \in workers : v.t = cur /\ w.t = cur => v = w
        /\ \A i, j \in 1 .. Len(queue) : IsControl(i) /\ IsControl(j) => i = j
        /\ (\E w \in workers : w.t = cur) <=> ~\E i \in 1 .. Len(queue) : IsControl(i)
    BY <1>2, <1>3 DEF OneInv
  <2>2. ~IsControl(1)
    BY <1>3 DEF IsControl, Control
  <2>3. ASSUME NEW i \in 1 .. Len(queue'), NEW j \in 1 .. Len(queue'), IsControl(i)', IsControl(j)'
        PROVE  i = j
    <3>1. IsControl(i + 1) /\ IsControl(j + 1)
      BY <1>10, <2>3 DEF IsControl
    <3>2. i + 1 = j + 1
      BY <1>10, <2>1, <3>1
    <3> QED BY <1>7, <3>2
  <2>4. ASSUME NEW i \in 1 .. Len(queue), IsControl(i) PROVE \E j \in 1 .. Len(queue') : IsControl(j)'
    <3>1. i \in 2 .. Len(queue)
      BY <1>9, <2>2, <2>4
    <3>2. PICK j \in 1 .. Len(queue') : queue'[j] = queue[i]
      BY <1>7, <3>1
    <3> QED BY <2>4, <3>2 DEF IsControl
  <2>5. ASSUME NEW i \in 1 .. Len(queue'), IsControl(i)' PROVE \E j \in 1 .. Len(queue) : IsControl(j)
    BY <1>10, <2>5 DEF IsControl
  <2>6. (\E w \in workers : w.t = cur) <=> ~\E i \in 1 .. Len(queue') : IsControl(i)'
    BY <2>1, <2>4, <2>5
  <2>7. \A i, j \in 1 .. Len(queue') : IsControl(i)' /\ IsControl(j)' => i = j
    BY <2>3
  <2> QED BY <1>1, <2>1, <2>6, <2>7 DEF OneInv
<1>14. BudgetInv'
  <2>1. ASSUME Finale PROVE Finale'
    <3>1. CASE \E w \in workers : w.t = cur /\ w.k = "final"
      BY <1>1, <3>1 DEF Finale
    <3>2. CASE \E i \in 1 .. Len(queue) : queue[i].k \in {"final", "error"}
      <4>1. PICK i \in 1 .. Len(queue) : queue[i].k \in {"final", "error"}
        BY <3>2
      <4>2. i \in 2 .. Len(queue)
        BY <1>3, <1>9, <4>1
      <4>3. PICK j \in 1 .. Len(queue') : queue'[j] = queue[i]
        BY <1>7, <4>2
      <4> QED BY <4>1, <4>3 DEF Finale
    <3> QED BY <2>1, <3>1, <3>2 DEF Finale
  <2> QED BY <1>1, <1>2, <2>1, SameBudget
<1>15. ChainInv'
  <2>1. AllFull(messages, cur, 0) => AllFull(messages', cur, 0)
    BY <1>4 DEF Effect, Kept
  <2>2. \A q : OnCall(messages, cur, q) => OnCall(messages', cur, q)
    BY <1>4 DEF Calls
  <2>3. NoneDue => NoneDue'
    BY <1>1, <2>1 DEF NoneDue
  <2>4. ASSUME NEW w \in workers, w.t = cur
        PROVE  IF w.k = "tool" THEN OnCall(messages', cur, <<w.id>> \o pending) ELSE NoneDue'
    BY <1>2, <1>3, <2>2, <2>3, <2>4 DEF ChainInv
  <2>5. ASSUME NEW i \in 1 .. Len(queue')
        PROVE  /\ queue'[i].k = "result" => OnCall(messages', cur, <<queue'[i].id>> \o pending)
               /\ queue'[i].k = "next" => OnCall(messages', cur, pending)
               /\ queue'[i].k \in {"done", "final"} \/ (queue'[i].k = "error" /\ queue'[i].mark = "overflow") => NoneDue'
    <3>1. i + 1 \in 1 .. Len(queue) /\ queue'[i] = queue[i + 1]
      BY <1>10
    <3> DEFINE x == queue[i + 1]
    <3>2. /\ x.k = "result" => OnCall(messages, cur, <<x.id>> \o pending)
          /\ x.k = "next" => OnCall(messages, cur, pending)
          /\ x.k \in {"done", "final"} \/ (x.k = "error" /\ x.mark = "overflow") => NoneDue
      BY <1>2, <1>3, <3>1 DEF ChainInv
    <3> HIDE DEF x
    <3>3. queue'[i] = x
      BY <3>1 DEF x
    <3> QED BY <2>2, <2>3, <3>2, <3>3
  <2> QED BY <1>1, <2>4, <2>5 DEF ChainInv
<1> QED BY <1>5, <1>11, <1>12, <1>13, <1>14, <1>15 DEF IInv

LEMMA TakeCallsKeeps ==
  ASSUME IInv, TakeCalls
  PROVE  IInv'
<1>1. /\ Take("done") /\ item.calls # <<>> /\ messages' = Commit(messages, Asst(item.t, item.calls, item.say))
      /\ queue' = Tail(queue) \o TriggerNext /\ pending' = pending \o item.calls
      /\ UNCHANGED <<uivars, busy, phase, cur, alive, closed, outcome>> /\ sends' = sends
      /\ phase' = phase /\ cur' = cur /\ alive' = alive /\ workers' = workers /\ partial' = partial
      /\ round' = round /\ retries' = retries /\ requests' = requests
  BY DEF TakeCalls, Queued, uivars
<1>2. TypeOK /\ StageInv /\ WorkInv /\ OneInv /\ BudgetInv /\ RowsInv /\ ChainInv
  BY IInvParts
<1>3. /\ phase = "draining" /\ Live /\ cur \in Turns /\ base[cur] = list /\ item \in Items /\ item.t = cur
      /\ 1 \in 1 .. Len(queue) /\ item = queue[1] /\ item.k = "done"
      /\ Sound(messages) /\ Newest(messages, cur) /\ HasUser(messages, cur)
  BY <1>1, TakeFacts
<1>4. pending = <<>> /\ AllFull(messages, cur, 0)
  BY <1>2, <1>3 DEF ChainInv, NoneDue
<1>5. item.calls \in CallLists /\ item.say \in SUBSET Words /\ item.calls \in Seq(Ids)
  BY <1>1, <1>3, ItemFields, DataAssumption
<1>6. pending' = item.calls
  BY <1>1, <1>4, <1>5, ConcatEmptySeq
<1>7. /\ Sound(messages')
      /\ \A u : Present(messages', u) => Present(messages, u) \/ u = cur
      /\ \A u : HasUser(messages', u) <=> HasUser(messages, u)
      /\ \A u : HasStop(messages', u) <=> HasStop(messages, u)
      /\ \A u : HasReply(messages, u) => HasReply(messages', u)
      /\ \A u : u # cur /\ AllFull(messages, u, 0) => AllFull(messages', u, 0)
      /\ \A u \in Nat : u < cur /\ AllClosed(messages, u) => AllClosed(messages', u)
      /\ OnCall(messages', cur, item.calls)
  <2>1. messages' = Commit(messages, Asst(cur, item.calls, item.say))
    BY <1>1, <1>3
  <2> DEFINE calls == item.calls  say == item.say
  <2>2. calls \in CallLists /\ calls # <<>> /\ say \in SUBSET Words
    BY <1>1, <1>5
  <2> HIDE DEF calls, say
  <2>3. Called(messages, Commit(messages, Asst(cur, calls, say)), cur, calls)
    BY <1>3, <1>4, <2>2, CallsEffect
  <2>4. Called(messages, messages', cur, item.calls)
    BY <2>1, <2>3 DEF calls, say
  <2> QED BY <2>4 DEF Called
<1>8. RowsInv'
  <2>1. UNCHANGED <<uivars, phase, cur, closed, outcome>>
    BY <1>1
  <2> QED BY <1>2, <1>3, <1>7, <2>1, MidRows
<1>9. WorkInv' /\ OneInv' /\ ChainInv' /\ queue' \in Seq(Items)
  <2>1. UNCHANGED <<sends, phase, cur, alive, workers>> /\ OnCall(messages', cur, pending') /\ "done" \in Control
    BY <1>1, <1>6, <1>7 DEF Control
  <2> QED BY <1>1, <2>1, TriggerKeeps
<1>10. TypeOK' /\ StageInv'
  <2>1. messages' \in Seq(Rows) /\ pending' \in Seq(Ids)
    BY <1>5, <1>6, <1>7 DEF Sound
  <2>2. /\ partial' \in SUBSET Tokens /\ round' \in 0 .. MaxRounds
        /\ retries' \in 0 .. MaxOverflow /\ requests' \in [Turns -> Nat] /\ workers' \subseteq Workers
    BY <1>1, <1>2 DEF TypeOK
  <2> QED BY <1>1, <1>2, <1>3, <1>9, <2>1, <2>2, GoOn
<1>11. BudgetInv'
  <2>1. ~Finale
    BY <1>1, ControlTaken DEF Control
  <2> QED BY <1>1, <1>2, <2>1, SameBudget
<1> QED BY <1>8, <1>9, <1>10, <1>11 DEF IInv

LEMMA TakeResultKeeps ==
  ASSUME IInv, TakeResult
  PROVE  IInv'
<1>1. /\ Take("result") /\ messages' = ResultRows
      /\ queue' = Tail(queue) \o TriggerNext /\ pending' = pending
      /\ UNCHANGED <<uivars, busy, phase, cur, alive, closed, outcome>> /\ sends' = sends
      /\ phase' = phase /\ cur' = cur /\ alive' = alive /\ workers' = workers /\ partial' = partial
      /\ round' = round /\ retries' = retries /\ requests' = requests
  BY DEF TakeResult, Queued, uivars, loopvars
<1>2. TypeOK /\ StageInv /\ WorkInv /\ OneInv /\ BudgetInv /\ RowsInv /\ ChainInv
  BY IInvParts
<1>3. phase = "draining" /\ base[cur] = list
  BY <1>1, TakeFacts
<1>4. Effect(messages, messages', cur) /\ OnCall(messages', cur, pending) /\ Sound(messages')
  BY <1>1, ResultRowsAre
<1>5. RowsInv'
  <2>1. UNCHANGED <<uivars, phase, cur, closed, outcome>>
    BY <1>1
  <2> QED BY <1>2, <1>3, <1>4, <2>1, MidEffect
<1>6. WorkInv' /\ OneInv' /\ ChainInv' /\ queue' \in Seq(Items)
  <2>1. UNCHANGED <<sends, phase, cur, alive, workers>> /\ OnCall(messages', cur, pending') /\ "result" \in Control
    BY <1>1, <1>4 DEF Control
  <2> QED BY <1>1, <2>1, TriggerKeeps
<1>7. TypeOK' /\ StageInv'
  <2>1. messages' \in Seq(Rows)
    BY <1>4 DEF Sound
  <2>2. /\ partial' \in SUBSET Tokens /\ round' \in 0 .. MaxRounds /\ pending' \in Seq(Ids)
        /\ retries' \in 0 .. MaxOverflow /\ requests' \in [Turns -> Nat] /\ workers' \subseteq Workers
    BY <1>1, <1>2 DEF TypeOK
  <2> QED BY <1>1, <1>2, <1>3, <1>6, <2>1, <2>2, GoOn
<1>8. BudgetInv'
  <2>1. ~Finale
    BY <1>1, ControlTaken DEF Control
  <2> QED BY <1>1, <1>2, <2>1, SameBudget
<1> QED BY <1>5, <1>6, <1>7, <1>8 DEF IInv

LEMMA NextRoundKeeps ==
  ASSUME IInv, NextRound
  PROVE  IInv'
<1> DEFINE k == IF round + 1 < MaxRounds THEN "llm" ELSE "final"
           wk == Worker(k, cur, requests[cur] + 1, None)
<1>1. /\ Take("next") /\ pending = <<>> /\ messages' = messages
      /\ round' = CappedRound /\ queue' = Tail(queue) \o <<>> /\ pending' = pending
      /\ requests' = [requests EXCEPT ![cur] = @ + 1] /\ workers' = workers \cup {wk}
      /\ UNCHANGED <<uivars, turnvars>> /\ sends' = sends
      /\ phase' = phase /\ cur' = cur /\ alive' = alive /\ partial' = partial /\ retries' = retries
  BY DEF NextRound, Queued, Spawn, uivars, turnvars
<1>2. TypeOK /\ StageInv /\ WorkInv /\ OneInv /\ BudgetInv /\ RowsInv /\ ChainInv
  BY IInvParts
<1>3. /\ phase = "draining" /\ Live /\ cur \in Turns /\ cur = sends
      /\ 1 \in 1 .. Len(queue) /\ queue[1].k = "next" /\ "next" \in Control
  BY <1>1, TakeFacts DEF Control
<1>4. /\ round \in Nat /\ round <= MaxRounds /\ retries \in Nat /\ requests[cur] \in Nat
      /\ MaxRounds \in Nat \ {0} /\ MaxOverflow \in Nat
  BY <1>2, <1>3, TypeFacts, BoundAssumption
<1>5. /\ wk \in Workers /\ wk.t = cur /\ wk.k = k /\ wk.pc = "new" /\ k \in {"llm", "final"}
  BY <1>3, <1>4 DEF Worker, Workers
<1> HIDE DEF wk
<1>6. AllFull(messages, cur, 0)
  <2>1. OnCall(messages, cur, pending)
    BY <1>2, <1>3 DEF ChainInv
  <2>2. PICK h \in CallRows(messages) :
          messages[h].t = cur /\ AllFull(messages, cur, h) /\ Owes(messages, h, pending)
    BY <2>1 DEF OnCall
  <2>3. Full(messages, h)
    <3>1. Len(messages[h].calls) \in Nat
      BY <1>2, CallsAre, LenProperties DEF RowsInv, Sound
    <3>2. Len(pending) = 0
      BY <1>1, EmptySeq
    <3>3. Len(messages[h].calls) - 0 = Len(messages[h].calls)
      BY <3>1
    <3> QED BY <2>2, <3>2, <3>3 DEF Owes, Full
  <2> QED BY <2>2, <2>3 DEF AllFull
<1>7. RowsInv'
  BY <1>1, <1>2, SameRows
<1>8. WorkInv' /\ OneInv' /\ ChainInv' /\ queue' \in Seq(Items) /\ workers' \subseteq Workers
  <2>1. UNCHANGED <<sends, phase, cur, alive>> /\ wk.k # "tool" /\ pending' = <<>> /\ AllFull(messages', cur, 0)
    BY <1>1, <1>5, <1>6
  <2> QED BY <1>1, <1>3, <1>5, <2>1, SpawnKeeps
<1>9. TypeOK' /\ StageInv'
  <2>1. messages' \in Seq(Rows) /\ pending' \in Seq(Ids) /\ partial' \in SUBSET Tokens /\ retries' \in 0 .. MaxOverflow
    BY <1>1, <1>2 DEF TypeOK
  <2>2. round' \in 0 .. MaxRounds
    BY <1>1, <1>4 DEF CappedRound
  <2>3. requests' \in [Turns -> Nat]
    <3>1. requests \in [Turns -> Nat] /\ requests[cur] + 1 \in Nat
      BY <1>2, <1>4 DEF TypeOK
    <3> QED BY <1>1, <1>3, <3>1
  <2>4. UNCHANGED <<uivars, busy, phase, cur, alive, closed, outcome>>
    BY <1>1 DEF turnvars
  <2> QED BY <1>2, <1>3, <1>8, <2>1, <2>2, <2>3, <2>4, GoOn
<1>10. BudgetInv'
  <2>1. ~Finale /\ requests[cur] <= Budget
    BY <1>1, <1>2, <1>3, ControlTaken DEF BudgetInv
  <2>2. requests[cur] + 1 <= Budget'
    <3>1. CASE round + 1 < MaxRounds
      <4>1. Budget = round + 1 + retries
        BY <1>4, <3>1 DEF Budget
      <4>2. round' = round + 1 /\ round' < MaxRounds
        BY <1>1, <3>1 DEF CappedRound
      <4>3. Budget' = round + 1 + 1 + retries
        BY <1>1, <4>2 DEF Budget
      <4> QED BY <1>4, <2>1, <4>1, <4>3
    <3>2. CASE ~(round + 1 < MaxRounds)
      <4>1. Finale' /\ round' = MaxRounds
        BY <1>1, <1>5, <3>2 DEF CappedRound, Finale
      <4>2. Budget' = MaxRounds + 1 + 2 * retries
        BY <1>1, <1>4, <4>1 DEF Budget
      <4>3. Budget = (IF round < MaxRounds THEN round + 1 + retries ELSE MaxRounds + 2 * retries)
        BY <2>1 DEF Budget
      <4> DEFINE a == requests[cur]  r == retries  m == MaxRounds  n == round  b == Budget
      <4>4. /\ a \in Nat /\ r \in Nat /\ m \in Nat /\ n \in Nat /\ n <= m /\ ~(n + 1 < m) /\ a <= b
            /\ b = (IF n < m THEN n + 1 + r ELSE m + 2 * r)
        BY <1>4, <2>1, <3>2, <4>3
      <4> HIDE DEF a, r, m, n, b
      <4>5. a + 1 <= m + 1 + 2 * r
        BY <4>4
      <4> QED BY <4>2, <4>5 DEF a, r, m
    <3> QED BY <3>1, <3>2
  <2> QED BY <1>1, <1>2, <1>3, <1>9, <2>2, CountKeeps
<1> QED BY <1>7, <1>8, <1>9, <1>10 DEF IInv

LEMMA TakeOverflowKeeps ==
  ASSUME IInv, TakeOverflow
  PROVE  IInv'
<1> DEFINE wk == Worker("llm", cur, requests[cur] + 1, None)
<1>1. /\ Take("error") /\ item.mark = "overflow" /\ retries < MaxOverflow /\ messages' = messages
      /\ retries' = retries + 1 /\ queue' = Tail(queue) \o <<>> /\ pending' = pending
      /\ requests' = [requests EXCEPT ![cur] = @ + 1] /\ workers' = workers \cup {wk}
      /\ UNCHANGED <<uivars, turnvars>> /\ sends' = sends
      /\ phase' = phase /\ cur' = cur /\ alive' = alive /\ partial' = partial /\ round' = round
  BY DEF TakeOverflow, MayRetry, Queued, Spawn, uivars, turnvars
<1>2. TypeOK /\ StageInv /\ WorkInv /\ OneInv /\ BudgetInv /\ RowsInv /\ ChainInv
  BY IInvParts
<1>3. /\ phase = "draining" /\ Live /\ cur \in Turns /\ cur = sends
      /\ 1 \in 1 .. Len(queue) /\ item = queue[1] /\ item.k = "error" /\ "error" \in Control
  BY <1>1, TakeFacts DEF Control
<1>4. /\ round \in Nat /\ round <= MaxRounds /\ retries \in Nat /\ requests[cur] \in Nat
      /\ MaxRounds \in Nat \ {0} /\ MaxOverflow \in Nat
  BY <1>2, <1>3, TypeFacts, BoundAssumption
<1>5. /\ wk \in Workers /\ wk.t = cur /\ wk.k = "llm" /\ wk.pc = "new"
  BY <1>3, <1>4 DEF Worker, Workers
<1> HIDE DEF wk
<1>6. pending = <<>> /\ AllFull(messages, cur, 0)
  BY <1>1, <1>2, <1>3 DEF ChainInv, NoneDue
<1>7. RowsInv'
  BY <1>1, <1>2, SameRows
<1>8. WorkInv' /\ OneInv' /\ ChainInv' /\ queue' \in Seq(Items) /\ workers' \subseteq Workers
  <2>1. UNCHANGED <<sends, phase, cur, alive>> /\ wk.k # "tool" /\ pending' = <<>> /\ AllFull(messages', cur, 0)
    BY <1>1, <1>5, <1>6
  <2> QED BY <1>1, <1>3, <1>5, <2>1, SpawnKeeps
<1>9. TypeOK' /\ StageInv'
  <2>1. messages' \in Seq(Rows) /\ pending' \in Seq(Ids) /\ partial' \in SUBSET Tokens /\ round' \in 0 .. MaxRounds
    BY <1>1, <1>2 DEF TypeOK
  <2>2. retries' \in 0 .. MaxOverflow
    BY <1>1, <1>4
  <2>3. requests' \in [Turns -> Nat]
    <3>1. requests \in [Turns -> Nat] /\ requests[cur] + 1 \in Nat
      BY <1>2, <1>4 DEF TypeOK
    <3> QED BY <1>1, <1>3, <3>1
  <2>4. UNCHANGED <<uivars, busy, phase, cur, alive, closed, outcome>>
    BY <1>1 DEF turnvars
  <2> QED BY <1>2, <1>3, <1>8, <2>1, <2>2, <2>3, <2>4, GoOn
<1>10. BudgetInv'
  <2>1. Finale /\ requests[cur] <= Budget
    BY <1>2, <1>3 DEF BudgetInv, Finale
  <2>2. requests[cur] + 1 <= Budget'
    <3> DEFINE a == requests[cur]  r == retries  m == MaxRounds  n == round  b == Budget  c == Budget'
    <3>1. /\ a \in Nat /\ r \in Nat /\ m \in Nat /\ n \in Nat /\ a <= b
          /\ b = (IF n < m THEN n + 1 + r ELSE m + 1 + 2 * r)
      BY <1>4, <2>1 DEF Budget
    <3>2. \/ n < m /\ c = n + 1 + (r + 1)
          \/ ~(n < m) /\ c = m + 1 + 2 * (r + 1)
          \/ ~(n < m) /\ c = m + 2 * (r + 1)
      <4>1. round' = round /\ retries' = retries + 1
        BY <1>1
      <4>2. CASE round < MaxRounds
        BY <4>1, <4>2 DEF Budget
      <4>3. CASE ~(round < MaxRounds) /\ Finale'
        BY <4>1, <4>3 DEF Budget
      <4>4. CASE ~(round < MaxRounds) /\ ~Finale'
        BY <4>1, <4>4 DEF Budget
      <4> QED BY <4>2, <4>3, <4>4
    <3> HIDE DEF a, r, m, n, b, c
    <3>3. a + 1 <= c
      BY <3>1, <3>2
    <3> QED BY <3>3 DEF a, c
  <2> QED BY <1>1, <1>2, <1>3, <1>9, <2>2, CountKeeps
<1> QED BY <1>7, <1>8, <1>9, <1>10 DEF IInv

LEMMA StartToolKeeps ==
  ASSUME IInv, StartTool
  PROVE  IInv'
<1> DEFINE wk == Worker("tool", cur, requests[cur], NextCall)
<1>1. /\ Take("next") /\ pending # <<>> /\ messages' = Fold(messages, cur, {"status"})
      /\ queue' = Tail(queue) \o <<>> /\ pending' = Tail(pending) /\ workers' = workers \cup {wk}
      /\ UNCHANGED <<uivars, busy, phase, cur, alive, closed, outcome>> /\ sends' = sends
      /\ phase' = phase /\ cur' = cur /\ alive' = alive /\ partial' = partial
      /\ round' = round /\ retries' = retries /\ requests' = requests
  BY DEF StartTool, Queued, uivars
<1>2. TypeOK /\ StageInv /\ WorkInv /\ OneInv /\ BudgetInv /\ RowsInv /\ ChainInv
  BY IInvParts
<1>3. /\ phase = "draining" /\ Live /\ cur \in Turns /\ base[cur] = list
      /\ 1 \in 1 .. Len(queue) /\ queue[1].k = "next" /\ "next" \in Control
      /\ Sound(messages) /\ Newest(messages, cur)
  BY <1>1, TakeFacts DEF Control
<1>4. pending \in Seq(Ids) /\ requests[cur] \in Nat
  BY <1>2, <1>3, TypeFacts
<1>5. NextCall \in Ids /\ pending' \in Seq(Ids) /\ <<NextCall>> \o pending' = pending
  <2>1. Head(pending) \in Ids /\ Tail(pending) \in Seq(Ids) /\ pending = <<Head(pending)>> \o Tail(pending)
    BY <1>1, <1>4, HeadTailProperties
  <2> QED BY <1>1, <2>1 DEF NextCall
<1>6. wk \in Workers /\ wk.t = cur /\ wk.k = "tool" /\ wk.pc = "new" /\ wk.id = NextCall
  BY <1>3, <1>4, <1>5 DEF Worker, Workers
<1> HIDE DEF wk
<1>7. Effect(messages, messages', cur) /\ Calls(messages, messages')
  BY <1>1, <1>3, FoldEffect, SayWords
<1>8. OnCall(messages', cur, <<wk.id>> \o pending')
  <2>1. OnCall(messages, cur, pending)
    BY <1>2, <1>3 DEF ChainInv
  <2>2. OnCall(messages', cur, pending)
    BY <1>7, <2>1 DEF Calls
  <2> QED BY <1>5, <1>6, <2>2
<1>9. RowsInv'
  <2>1. UNCHANGED <<uivars, phase, cur, closed, outcome>>
    BY <1>1
  <2> QED BY <1>2, <1>3, <1>7, <2>1, MidEffect
<1>10. WorkInv' /\ OneInv' /\ ChainInv' /\ queue' \in Seq(Items) /\ workers' \subseteq Workers
  <2>1. UNCHANGED <<sends, phase, cur, alive>> /\ wk.id \in Ids
    BY <1>1, <1>5, <1>6
  <2> QED BY <1>1, <1>3, <1>6, <1>8, <2>1, SpawnKeeps
<1>11. TypeOK' /\ StageInv'
  <2>1. messages' \in Seq(Rows)
    BY <1>7 DEF Effect, Kept, Sound
  <2>2. /\ partial' \in SUBSET Tokens /\ round' \in 0 .. MaxRounds
        /\ retries' \in 0 .. MaxOverflow /\ requests' \in [Turns -> Nat]
    BY <1>1, <1>2 DEF TypeOK
  <2> QED BY <1>1, <1>2, <1>3, <1>5, <1>10, <2>1, <2>2, GoOn
<1>12. BudgetInv'
  <2>1. ~Finale
    BY <1>1, ControlTaken DEF Control
  <2> QED BY <1>1, <1>2, <2>1, SameBudget
<1> QED BY <1>9, <1>10, <1>11, <1>12 DEF IInv

-----------------------------------------------------------------------------
(* The clicks and the first steps of a send.                               *)

\* While no send is on its way no turn is alive.
LEMMA IdleFacts ==
  ASSUME TypeOK, StageInv
  PROVE  /\ phase \in {"none", "posted"} => cur = 0 /\ alive = {}
         /\ phase # "none" => sends \in Turns
         /\ alive \ {cur} = {}
BY TypeFacts DEF StageInv

LEMMA SendClickKeeps ==
  ASSUME IInv, SendClick
  PROVE  IInv'
<1>1. /\ ~busy /\ ~teardown /\ sends < MaxSends /\ busy' = TRUE /\ phase' = "posted" /\ sends' = sends + 1
      /\ outcome' = [outcome EXCEPT ![sends + 1] = "ready"]
      /\ teardown' = teardown /\ cur' = cur /\ alive' = alive /\ cancelled' = cancelled /\ shut' = shut
      /\ closed' = closed /\ list' = list /\ base' = base /\ messages' = messages /\ partial' = partial
      /\ round' = round /\ pending' = pending /\ retries' = retries /\ requests' = requests
      /\ queue' = queue /\ workers' = workers
  BY DEF SendClick, loopvars
<1>2. TypeOK /\ StageInv /\ WorkInv /\ BudgetInv /\ RowsInv
  BY IInvParts
<1>3. phase = "none" /\ cur = 0 /\ alive = {} /\ sends \in Nat
  BY <1>1, <1>2, IdleFacts, TypeFacts DEF StageInv
<1>4. sends + 1 \in Turns /\ sends + 1 \in 0 .. MaxSends /\ sends + 1 # 0
  BY <1>1, <1>3, BoundAssumption DEF Turns
<1>5. \A t \in Turns : t <= sends => t <= sends + 1 /\ t # sends + 1
  BY <1>3, TurnIsNat
<1>6. TypeOK'
  BY <1>1, <1>2, <1>3, <1>4 DEF TypeOK
<1>7. StageInv'
  <2>1. \A t \in cancelled \cup shut \cup closed : t \in Turns /\ t <= sends
    BY <1>2, TypeFacts DEF StageInv
  <2>2. \A t \in cancelled \cup shut \cup closed : t <= sends' /\ t # sends'
    BY <1>1, <1>5, <2>1
  <2>3. /\ queue = <<>> /\ partial = {} /\ round = 0 /\ pending = <<>> /\ retries = 0
        /\ \A t \in Turns : base[t] <= list
    BY <1>2, <1>3 DEF StageInv
  <2> QED BY <1>1, <1>3, <1>4, <2>2, <2>3 DEF StageInv
<1>8. WorkInv'
  <2>1. \A w \in workers : w.t \in Turns /\ w.t <= sends
    BY <1>2, TypeFacts DEF WorkInv, Workers
  <2>2. \A w \in workers : w.t <= sends' /\ w.t # sends'
    BY <1>1, <1>5, <2>1
  <2> QED BY <1>1, <1>2, <2>2 DEF WorkInv
<1>9. OneInv' /\ ChainInv'
  BY <1>1 DEF OneInv, ChainInv, Live
<1>10. BudgetInv'
  <2>1. \A t \in Turns : t > sends + 1 \/ t = sends + 1 => t > sends
    BY <1>3, TurnIsNat
  <2> QED BY <1>1, <1>2, <2>1 DEF BudgetInv, RequestBudget, Live
<1>11. \A t \in Turns : Ended(t)' <=> Ended(t)
  <2>1. \A t \in Turns : t <= sends + 1 /\ t # sends + 1 <=> t <= sends
    BY <1>3, TurnIsNat
  <2> QED BY <1>1, <1>3, <2>1 DEF Ended
<1>12. \A t \in Turns : Ended(t) => outcome'[t] = outcome[t]
  <2>1. \A t \in Turns : Ended(t) => t # sends + 1
    BY <1>5 DEF Ended
  <2> QED BY <1>1, <1>2, <2>1 DEF TypeOK
<1>13. RowsInv'
  <2>1. PlaceInv'
    BY <1>1, <1>2, <1>5 DEF RowsInv, PlaceInv
  <2>2. FullInv' /\ ClosedInv'
    BY <1>1, <1>2, <1>11, <1>12 DEF RowsInv, FullInv, ClosedInv
  <2>3. StopInv'
    BY <1>1, <1>2, <1>11, <1>12 DEF RowsInv, StopInv
  <2>4. HoleInv'
    BY <1>1, <1>2, <1>11 DEF RowsInv, HoleInv
  <2> QED BY <1>1, <1>2, <2>1, <2>2, <2>3, <2>4 DEF RowsInv
<1> QED BY <1>6, <1>7, <1>8, <1>9, <1>10, <1>13 DEF IInv

\* What Stop, Clear and dispose leave of the rest: no turn is alive.
LEMMA StopKeeps ==
  ASSUME IInv, UNCHANGED <<phase, sends, cur, closed, base, outcome, partial, loopvars, queue, workers, busy>>,
         alive' = {}, cancelled' \in SUBSET Turns, shut' \in SUBSET Turns,
         cancelled \subseteq cancelled', phase # "none" => sends \in cancelled', \A t \in cancelled' : t <= sends,
         \A t \in shut' : t <= sends, phase = "posted" => shut' = shut,
         teardown' \/ (busy => phase # "none"), teardown' \in BOOLEAN,
         list' \in 0 .. MaxClears, list <= list', messages' \in Seq(Rows), RowsInv'
  PROVE  IInv'
<1>1. TypeOK /\ StageInv /\ WorkInv /\ BudgetInv
  BY IInvParts
<1>2. /\ phase' = phase /\ sends' = sends /\ cur' = cur /\ closed' = closed /\ base' = base
      /\ outcome' = outcome /\ partial' = partial /\ queue' = queue /\ workers' = workers /\ busy' = busy
      /\ round' = round /\ pending' = pending /\ retries' = retries /\ requests' = requests
  BY DEF loopvars
<1>3. TypeOK'
  BY <1>1, <1>2 DEF TypeOK
<1>4. \A t \in Turns : base[t] <= list'
  <2>1. \A t \in Turns : base[t] \in Nat /\ base[t] <= list
    BY <1>1, TypeFacts DEF StageInv
  <2>2. list \in Nat /\ list' \in Nat
    BY <1>1, TypeFacts
  <2> QED BY <2>1, <2>2
<1>5. StageInv'
  BY <1>1, <1>2, <1>4 DEF StageInv
<1>6. WorkInv'
  BY <1>1, <1>2 DEF WorkInv
<1>7. OneInv' /\ ChainInv'
  BY DEF OneInv, ChainInv, Live
<1>8. BudgetInv'
  BY <1>1, <1>2 DEF BudgetInv, RequestBudget, Live
<1> QED BY <1>3, <1>5, <1>6, <1>7, <1>8 DEF IInv

LEMMA StopClickKeeps ==
  ASSUME IInv, StopClick
  PROVE  IInv'
<1>1. /\ busy /\ ~teardown /\ alive' = alive \ {cur} /\ cancelled' = cancelled \cup {sends}
      /\ UNCHANGED <<phase, sends, cur, closed, base, outcome, partial, loopvars, queue, workers, busy>>
      /\ teardown' = teardown /\ shut' = shut /\ list' = list /\ messages' = messages
      /\ phase' = phase /\ sends' = sends /\ cur' = cur /\ closed' = closed /\ base' = base /\ outcome' = outcome
  BY DEF StopClick, StopSend, Aborted
<1>2. TypeOK /\ StageInv /\ RowsInv
  BY IInvParts
<1>3. phase # "none" /\ sends \in Turns /\ alive' = {} /\ sends \in Nat
  BY <1>1, <1>2, IdleFacts, TurnIsNat DEF StageInv
<1>4. \A t \in Turns : Ended(t)' <=> Ended(t)
  BY <1>1 DEF Ended
<1>5. ~Ended(sends)
  BY <1>3 DEF Ended
<1>6. RowsInv'
  <2>1. PlaceInv'
    BY <1>1, <1>2 DEF RowsInv, PlaceInv
  <2>2. FullInv' /\ ClosedInv' /\ HoleInv'
    BY <1>1, <1>2, <1>4 DEF RowsInv, FullInv, ClosedInv, HoleInv
  <2>3. StopInv'
    BY <1>1, <1>2, <1>4, <1>5 DEF RowsInv, StopInv
  <2> QED BY <1>1, <1>2, <2>1, <2>2, <2>3 DEF RowsInv
<1>7. cancelled' \in SUBSET Turns /\ shut' \in SUBSET Turns /\ \A t \in cancelled' \cup shut' : t <= sends
  BY <1>1, <1>2, <1>3, TypeFacts DEF StageInv
<1>8. list' \in 0 .. MaxClears /\ list <= list' /\ messages' \in Seq(Rows)
  BY <1>1, <1>2, TypeFacts DEF TypeOK
<1>9. teardown' \in BOOLEAN /\ cancelled \subseteq cancelled' /\ sends \in cancelled'
  BY <1>1, <1>2 DEF TypeOK
<1>10. (\A t \in cancelled' : t <= sends) /\ (\A t \in shut' : t <= sends)
  BY <1>7
<1> QED BY <1>1, <1>3, <1>6, <1>7, <1>8, <1>9, <1>10, StopKeeps

\* An empty transcript.
LEMMA EmptyRows ==
  /\ Sound(<<>>)
  /\ \A t : ~Present(<<>>, t) /\ ~HasUser(<<>>, t) /\ ~HasStop(<<>>, t) /\ AllFull(<<>>, t, 0) /\ AllClosed(<<>>, t)
<1>1. <<>> \in Seq(Rows) /\ Len(<<>>) = 0 /\ 1 .. Len(<<>>) = {}
  BY EmptySeq
<1>2. CallRows(<<>>) = {}
  BY <1>1, CallsAre
<1>3. Sound(<<>>)
  BY <1>1, <1>2 DEF Sound, Sorted, Paired
<1> QED BY <1>1, <1>2, <1>3 DEF Present, HasUser, HasStop, AllFull, AllClosed

LEMMA ClearClickKeeps ==
  ASSUME IInv, ClearClick
  PROVE  IInv'
<1>1. /\ ~teardown /\ list < MaxClears /\ list' = list + 1 /\ messages' = <<>>
      /\ IF busy THEN alive' = alive \ {cur} /\ cancelled' = cancelled \cup {sends}
                 ELSE alive' = alive /\ cancelled' = cancelled
      /\ UNCHANGED <<phase, sends, cur, closed, base, outcome, partial, loopvars, queue, workers, busy>>
      /\ teardown' = teardown /\ shut' = shut
      /\ phase' = phase /\ sends' = sends /\ cur' = cur /\ closed' = closed /\ base' = base
  BY DEF ClearClick, StopSend, Aborted
<1>2. TypeOK /\ StageInv /\ RowsInv
  BY IInvParts
<1>3. /\ busy <=> phase # "none"
      /\ alive' = {} /\ (phase # "none" => sends \in Turns /\ sends \in cancelled')
  BY <1>1, <1>2, IdleFacts DEF StageInv
<1>4. list' \in 0 .. MaxClears /\ list <= list' /\ \A t \in Turns : base[t] # list'
  <2>1. list \in Nat /\ MaxClears \in Nat
    BY <1>2, TypeFacts, BoundAssumption
  <2>2. \A t \in Turns : base[t] \in Nat /\ base[t] <= list
    BY <1>2, TypeFacts DEF StageInv
  <2> QED BY <1>1, <2>1, <2>2
<1>5. RowsInv'
  <2>1. phase = "draining" => cur \in Turns
    BY <1>2, TypeFacts DEF StageInv
  <2>2. PlaceInv'
    BY <1>1, <1>4, <2>1, EmptyRows DEF PlaceInv
  <2>3. FullInv' /\ ClosedInv' /\ StopInv' /\ HoleInv'
    BY <1>1, EmptyRows DEF FullInv, ClosedInv, StopInv, HoleInv
  <2> QED BY <1>1, <2>2, <2>3, EmptyRows DEF RowsInv
<1>6. cancelled' \in SUBSET Turns /\ shut' \in SUBSET Turns /\ \A t \in cancelled' \cup shut' : t <= sends
  BY <1>1, <1>2, <1>3, TypeFacts DEF StageInv
<1>7. messages' \in Seq(Rows)
  BY <1>1, EmptySeq
<1>8. cancelled \subseteq cancelled' /\ teardown' \in BOOLEAN
  BY <1>1, <1>2 DEF TypeOK
<1> QED BY <1>1, <1>3, <1>4, <1>5, <1>6, <1>7, <1>8, StopKeeps

LEMMA DisposeKeeps ==
  ASSUME IInv, Dispose
  PROVE  IInv'
<1>1. /\ ~teardown /\ teardown' = TRUE
      /\ IF phase # "none" THEN alive' = alive \ {cur} /\ cancelled' = cancelled \cup {sends}
                           ELSE alive' = alive /\ cancelled' = cancelled
      /\ shut' = shut \cup ({cur} \ {0}) \/ (cur # 0 /\ shut' = shut)
      /\ UNCHANGED <<phase, sends, cur, closed, base, outcome, partial, loopvars, queue, workers, busy>>
      /\ list' = list /\ messages' = messages
      /\ phase' = phase /\ sends' = sends /\ cur' = cur /\ closed' = closed /\ base' = base /\ outcome' = outcome
  BY DEF Dispose, StopSend, Aborted
<1>2. TypeOK /\ StageInv /\ RowsInv
  BY IInvParts
<1>3. /\ alive' = {} /\ (phase # "none" => sends \in Turns /\ sends \in cancelled')
      /\ cancelled \subseteq cancelled' /\ (\A t \in cancelled' : t \in cancelled \/ (t = sends /\ phase # "none"))
  BY <1>1, <1>2, IdleFacts
<1>4. /\ shut \subseteq shut' /\ (phase = "posted" => shut' = shut)
      /\ \A t \in shut' : t \in shut \/ (t = sends /\ sends \in Turns)
  BY <1>1, <1>2, IdleFacts, TypeFacts
<1>5. \A t \in Turns : Ended(t)' <=> Ended(t)
  BY <1>1 DEF Ended
<1>6. RowsInv'
  <2>1. PlaceInv'
    BY <1>1, <1>2 DEF RowsInv, PlaceInv
  <2>2. FullInv' /\ ClosedInv' /\ HoleInv'
    BY <1>1, <1>2, <1>4, <1>5 DEF RowsInv, FullInv, ClosedInv, HoleInv
  <2>3. \A t \in Turns : Ended(t) /\ t \in cancelled' => t \in cancelled
    BY <1>3 DEF Ended
  <2>4. StopInv'
    BY <1>1, <1>2, <1>4, <1>5, <2>3 DEF RowsInv, StopInv
  <2> QED BY <1>1, <1>2, <2>1, <2>2, <2>4 DEF RowsInv
<1>7. cancelled' \in SUBSET Turns /\ shut' \in SUBSET Turns /\ \A t \in cancelled' \cup shut' : t <= sends
  <2>1. sends <= sends
    BY <1>2, TypeFacts
  <2> QED BY <1>2, <1>3, <1>4, <2>1, TypeFacts DEF StageInv
<1>8. list' \in 0 .. MaxClears /\ list <= list' /\ messages' \in Seq(Rows)
  BY <1>1, <1>2, TypeFacts DEF TypeOK
<1>9. teardown' \in BOOLEAN /\ (\A t \in cancelled' : t <= sends) /\ (\A t \in shut' : t <= sends)
  BY <1>1, <1>7
<1> QED BY <1>1, <1>3, <1>4, <1>6, <1>7, <1>8, <1>9, StopKeeps

LEMMA BeginSendKeeps ==
  ASSUME IInv, BeginSend
  PROVE  IInv'
<1>1. /\ phase = "posted" /\ sends \notin cancelled /\ phase' = "starting" /\ cur' = sends
      /\ alive' = alive \cup {sends} /\ base' = [base EXCEPT ![sends] = list]
      /\ busy' = busy /\ teardown' = teardown /\ sends' = sends /\ cancelled' = cancelled /\ shut' = shut
      /\ closed' = closed /\ list' = list /\ messages' = messages /\ outcome' = outcome /\ partial' = partial
      /\ round' = round /\ pending' = pending /\ retries' = retries /\ requests' = requests
      /\ queue' = queue /\ workers' = workers
  BY DEF BeginSend, loopvars
<1>2. TypeOK /\ StageInv /\ WorkInv /\ BudgetInv /\ RowsInv
  BY IInvParts
<1>3. alive = {} /\ cur = 0 /\ sends \in Turns /\ sends # 0 /\ list \in Nat /\ sends \in Nat
  BY <1>1, <1>2, IdleFacts, TypeFacts, TurnIsNat
<1>4. /\ \A t \in Turns : base'[t] = IF t = sends THEN list ELSE base[t]
      /\ base' \in [Turns -> 0 .. MaxClears]
  BY <1>1, <1>2, <1>3 DEF TypeOK
<1>5. TypeOK'
  BY <1>1, <1>2, <1>3, <1>4 DEF TypeOK
<1>6. StageInv'
  <2>1. \A t \in Turns : base'[t] <= list
    BY <1>2, <1>3, <1>4 DEF StageInv
  <2> QED BY <1>1, <1>2, <1>3, <1>4, <2>1 DEF StageInv
<1>7. WorkInv'
  <2>1. queue' = <<>> /\ Len(queue') = 0
    BY <1>1, <1>2, EmptySeq DEF StageInv
  <2> QED BY <1>1, <1>2, <2>1 DEF WorkInv
<1>8. OneInv' /\ ChainInv'
  BY <1>1 DEF OneInv, ChainInv, Live
<1>9. BudgetInv'
  BY <1>1, <1>2 DEF BudgetInv, RequestBudget, Live
<1>10. \A t \in Turns : Ended(t)' <=> Ended(t)
  BY <1>1 DEF Ended
<1>11. RowsInv'
  <2>1. PlaceInv'
    BY <1>1, <1>2, <1>4 DEF RowsInv, PlaceInv
  <2>2. FullInv' /\ ClosedInv' /\ HoleInv'
    BY <1>1, <1>2, <1>10 DEF RowsInv, FullInv, ClosedInv, HoleInv
  <2>3. StopInv'
    BY <1>1, <1>2, <1>10 DEF RowsInv, StopInv
  <2> QED BY <1>1, <1>2, <2>1, <2>2, <2>3 DEF RowsInv
<1> QED BY <1>5, <1>6, <1>7, <1>8, <1>9, <1>11 DEF IInv

LEMMA StartLoopKeeps ==
  ASSUME IInv, StartLoop
  PROVE  IInv'
<1> DEFINE wk == Worker("llm", cur, requests[cur] + 1, None)
<1>1. /\ phase = "starting" /\ Running /\ phase' = "draining" /\ messages' = Append(messages, User(cur))
      /\ requests' = [requests EXCEPT ![cur] = @ + 1] /\ workers' = workers \cup {wk}
      /\ busy' = busy /\ teardown' = teardown /\ sends' = sends /\ cancelled' = cancelled /\ shut' = shut
      /\ closed' = closed /\ list' = list /\ base' = base /\ outcome' = outcome /\ partial' = partial
      /\ cur' = cur /\ alive' = alive
      /\ round' = round /\ pending' = pending /\ retries' = retries /\ queue' = queue
  BY DEF StartLoop, Spawn, uivars
<1>2. TypeOK /\ StageInv /\ WorkInv /\ BudgetInv /\ RowsInv /\ Sound(messages)
  BY IInvParts DEF RowsInv
<1>3. Newest(messages, cur) /\ cur = sends /\ cur \in Turns /\ cur \in Nat /\ cur # 0
  BY <1>1, <1>2, CurIsNewest
<1>4. ~Present(messages, cur)
  BY <1>1, <1>2, <1>3, PresentTurn DEF RowsInv, PlaceInv, Sound
<1>5. /\ Kept(messages, messages', cur)
      /\ \A u : HasUser(messages', u) <=> HasUser(messages, u) \/ u = cur
      /\ \A u : HasStop(messages', u) <=> HasStop(messages, u)
  BY <1>1, <1>2, <1>3, <1>4, UserEffect
<1>6. base[cur] = list /\ requests[cur] = 0
  BY <1>1, <1>2, <1>3 DEF Running, CanWrite, BudgetInv
<1>7. queue = <<>> /\ Len(queue) = 0 /\ partial = {} /\ round = 0 /\ pending = <<>> /\ retries = 0
  BY <1>1, <1>2, EmptySeq DEF StageInv
<1>8. wk \in Workers /\ wk.t = cur /\ wk.k = "llm" /\ wk.pc = "new"
  BY <1>3, <1>6 DEF Worker, Workers
<1> HIDE DEF wk
<1>9. TypeOK'
  <2>1. messages' \in Seq(Rows)
    BY <1>5 DEF Kept, Sound
  <2>2. requests' \in [Turns -> Nat]
    <3>1. requests \in [Turns -> Nat] /\ requests[cur] + 1 \in Nat
      BY <1>2, <1>6 DEF TypeOK
    <3> QED BY <1>1, <1>3, <3>1
  <2>3. workers' \subseteq Workers
    BY <1>1, <1>2, <1>8 DEF TypeOK
  <2> QED BY <1>1, <1>2, <2>1, <2>2, <2>3 DEF TypeOK
<1>10. StageInv'
  BY <1>1, <1>2 DEF StageInv
<1>11. WorkInv'
  <2>1. \A w \in workers' : w.t <= sends
    BY <1>1, <1>2, <1>3, <1>8 DEF WorkInv
  <2>2. \A w \in workers' : (w.pc = "refused" => w.k = "tool") /\ (w.k = "tool" => w.id \in Ids)
    BY <1>1, <1>2, <1>8 DEF WorkInv
  <2> QED BY <1>1, <1>7, <2>1, <2>2 DEF WorkInv
<1>12. \A w \in workers' : w.t = cur <=> w = wk
  BY <1>1, <1>2, <1>3, <1>8 DEF WorkInv
<1>13. OneInv'
  <2>1. wk \in workers'
    BY <1>1
  <2> QED BY <1>1, <1>7, <1>12, <2>1 DEF OneInv
<1>14. BudgetInv'
  <2>1. Budget' = 1
    <3>1. round' < MaxRounds /\ round' + 1 + retries' = 1
      BY <1>1, <1>7, BoundAssumption
    <3> QED BY <3>1 DEF Budget
  <2>2. requests[cur] + 1 <= Budget'
    BY <1>6, <2>1
  <2> QED BY <1>1, <1>2, <1>3, <1>9, <2>2, CountKeeps
<1>15. ChainInv'
  <2>1. AllFull(messages', cur, 0)
    BY <1>2, <1>4, <1>5, AbsentFull DEF Kept, Sound
  <2> QED BY <1>1, <1>7, <1>8, <1>12, <2>1 DEF ChainInv, NoneDue
<1>16. \A t \in Turns : Ended(t)' <=> Ended(t)
  BY <1>1 DEF Ended
<1>17. ~Ended(cur)
  BY <1>1, <1>3 DEF Ended
<1>18. RowsInv'
  <2>1. /\ Sound(messages')
        /\ \A u : Present(messages', u) => Present(messages, u) \/ u = cur
        /\ \A u : HasReply(messages, u) => HasReply(messages', u)
        /\ \A u : AllFull(messages, u, 0) => AllFull(messages', u, 0)
        /\ \A u \in Nat : AllClosed(messages, u) => AllClosed(messages', u)
    BY <1>5 DEF Kept
  <2>2. PlaceInv'
    <3>1. \A t \in Turns : Present(messages', t) => base[t] = list /\ t <= sends
      BY <1>2, <1>3, <1>6, <2>1 DEF RowsInv, PlaceInv
    <3>2. HasUser(messages', cur)
      BY <1>5
    <3> QED BY <1>1, <3>1, <3>2 DEF PlaceInv
  <2>3. FullInv' /\ ClosedInv'
    BY <1>1, <1>2, <1>16, <2>1, TypeFacts DEF RowsInv, FullInv, ClosedInv
  <2>4. StopInv'
    BY <1>1, <1>2, <1>5, <1>16, <1>17 DEF RowsInv, StopInv
  <2>5. HoleInv'
    BY <1>1, <1>2, <1>5, <1>16, <1>17, <2>1 DEF RowsInv, HoleInv
  <2> QED BY <2>1, <2>2, <2>3, <2>4, <2>5 DEF RowsInv
<1> QED BY <1>9, <1>10, <1>11, <1>13, <1>14, <1>15, <1>18 DEF IInv

-----------------------------------------------------------------------------
(* The workers.                                                            *)

\* A worker of a turn that is alive is the running loop's.
LEMMA WorkerFacts ==
  ASSUME IInv, NEW w \in workers
  PROVE  /\ w \in Workers /\ w.t \in Turns /\ (w.k = "tool" => w.id \in Ids)
         /\ (w.t \in alive => Live /\ w.t = cur /\ cur \in Turns)
         /\ (w.t = cur => phase = "draining")
<1>1. TypeOK /\ StageInv /\ WorkInv
  BY IInvParts
<1>2. w \in Workers /\ w.t \in Turns /\ (w.k = "tool" => w.id \in Ids)
  BY <1>1, TypeFacts DEF Workers, WorkInv
<1>3. w.t = cur => phase = "draining"
  <2>1. w.t = cur => cur = sends /\ cur # 0
    BY <1>1, <1>2, TypeFacts, TurnIsNat
  <2>2. phase \in {"none", "posted", "starting", "draining"}
    BY <1>1 DEF TypeOK
  <2> QED BY <1>1, <2>1, <2>2 DEF WorkInv, StageInv
<1>4. w.t \in alive => w.t = cur
  BY <1>1, TypeFacts
<1> QED BY <1>2, <1>3, <1>4 DEF Live

\* What a worker's step leaves alone.
LEMMA WorkerStep ==
  ASSUME IInv, UNCHANGED workervars, queue' \in Seq(Items), workers' \subseteq Workers,
         partial' \in SUBSET Tokens, phase # "draining" => UNCHANGED <<queue, partial>>,
         WorkInv', OneInv', ChainInv', Live /\ Finale => Finale'
  PROVE  IInv'
<1>1. /\ UNCHANGED <<uivars, busy, phase, cur, alive, closed, outcome>> /\ UNCHANGED <<uivars, turnvars>>
      /\ UNCHANGED <<sends, phase, cur, alive, requests, round, retries>>
      /\ messages' = messages /\ round' = round /\ pending' = pending /\ retries' = retries
      /\ requests' = requests
  BY DEF workervars, uivars, turnvars, loopvars
<1>2. TypeOK /\ StageInv /\ BudgetInv /\ RowsInv
  BY IInvParts
<1>3. TypeOK' /\ StageInv'
  <2>1. /\ messages' \in Seq(Rows) /\ round' \in 0 .. MaxRounds /\ pending' \in Seq(Ids)
        /\ retries' \in 0 .. MaxOverflow /\ requests' \in [Turns -> Nat]
    BY <1>1, <1>2 DEF TypeOK
  <2> QED BY <1>1, <1>2, <2>1, GoOn
<1>4. RowsInv'
  BY <1>1, <1>2, SameRows
<1>5. BudgetInv'
  BY <1>1, <1>2, SameBudget
<1> QED BY <1>3, <1>4, <1>5 DEF IInv

\* One more item.
LEMMA Put1 ==
  ASSUME NEW q \in Seq(Items), NEW x \in Items, NEW r, r = Append(q, x)
  PROVE  /\ r \in Seq(Items) /\ Len(q) \in Nat /\ Len(q) + 1 \in 1 .. Len(r) /\ r[Len(q) + 1] = x
         /\ \A i \in 1 .. Len(r) : i \in 1 .. Len(q) \/ i = Len(q) + 1
         /\ \A i \in 1 .. Len(q) : i \in 1 .. Len(r) /\ r[i] = q[i] /\ i # Len(q) + 1
<1>1. Len(q) \in Nat /\ r \in Seq(Items) /\ Len(r) = Len(q) + 1 /\ r[Len(q) + 1] = x
      /\ \A i \in 1 .. Len(q) : r[i] = q[i]
  BY AppendProperties, LenProperties
<1>2. /\ Len(q) + 1 \in 1 .. Len(r)
      /\ \A i \in 1 .. Len(r) : i \in 1 .. Len(q) \/ i = Len(q) + 1
      /\ \A i \in 1 .. Len(q) : i \in 1 .. Len(r) /\ i # Len(q) + 1
  <2> DEFINE n == Len(q)  m == Len(r)
  <2>1. n \in Nat /\ m = n + 1
    BY <1>1
  <2> HIDE DEF n, m
  <2>2. /\ n + 1 \in 1 .. m
        /\ \A i \in 1 .. m : i \in 1 .. n \/ i = n + 1
        /\ \A i \in 1 .. n : i \in 1 .. m /\ i # n + 1
    BY <2>1
  <2> QED BY <2>2 DEF n, m
<1> QED BY <1>1, <1>2

\* A worker goes on as v, and may put a piece of text or a refusal.
LEMMA WorkerGoesOn ==
  ASSUME IInv, NEW w \in workers, NEW v \in Workers, workers' = (workers \ {w}) \cup {v},
         v.t = w.t, v.k = w.k, v.id = w.id, v.pc = "refused" => v.k = "tool",
         UNCHANGED workervars, partial' = partial, NEW x \in Items, x.k \in {"chunk", "stopped"}, x.t = w.t,
         queue' = queue \/ (w.t \in alive /\ queue' = Append(queue, x))
  PROVE  IInv'
<1>1. TypeOK /\ StageInv /\ WorkInv /\ OneInv /\ ChainInv
  BY IInvParts
<1>2. /\ messages' = messages /\ pending' = pending /\ phase' = phase /\ cur' = cur /\ alive' = alive
      /\ sends' = sends
  BY DEF workervars, turnvars, uivars, loopvars
<1>3. queue \in Seq(Items) /\ workers \subseteq Workers /\ partial \in SUBSET Tokens
  BY <1>1, TypeFacts
<1>4. /\ (w.k = "tool" => w.id \in Ids)
      /\ (w.t \in alive => Live /\ w.t = cur)
  BY WorkerFacts
<1>5. /\ queue' \in Seq(Items)
      /\ \A i \in 1 .. Len(queue') : (i \in 1 .. Len(queue) /\ queue'[i] = queue[i]) \/ (queue'[i] = x /\ x.t = cur)
      /\ \A i \in 1 .. Len(queue) : i \in 1 .. Len(queue') /\ queue'[i] = queue[i]
  <2>1. CASE queue' = queue
    BY <1>3, <2>1
  <2>2. CASE w.t \in alive /\ queue' = Append(queue, x)
    <3> DEFINE q == queue  r == queue'
    <3>1. q \in Seq(Items) /\ r = Append(q, x)
      BY <1>3, <2>2
    <3> HIDE DEF q, r
    <3>2. /\ r \in Seq(Items) /\ Len(q) \in Nat /\ Len(q) + 1 \in 1 .. Len(r) /\ r[Len(q) + 1] = x
          /\ \A i \in 1 .. Len(r) : i \in 1 .. Len(q) \/ i = Len(q) + 1
          /\ \A i \in 1 .. Len(q) : i \in 1 .. Len(r) /\ r[i] = q[i]
      BY <3>1, Put1
    <3>3. \A i \in 1 .. Len(r) : (i \in 1 .. Len(q) /\ r[i] = q[i]) \/ r[i] = x
      BY <3>2
    <3>4. x.t = cur
      BY <1>4, <2>2
    <3> QED BY <3>2, <3>3, <3>4 DEF q, r
  <2> QED BY <2>1, <2>2
<1>6. \A i \in 1 .. Len(queue') : IsControl(i)' => i \in 1 .. Len(queue) /\ queue'[i] = queue[i] /\ IsControl(i)
  BY <1>5 DEF IsControl, Control
<1>7. \A i \in 1 .. Len(queue) : IsControl(i) => i \in 1 .. Len(queue') /\ IsControl(i)'
  BY <1>5 DEF IsControl
<1>8. \A u \in workers' : u \in workers \/ u = v
  OBVIOUS
<1>9. WorkInv'
  <2>1. \A u \in workers' : u.t <= sends /\ (phase \in {"posted", "starting"} => u.t # sends)
    BY <1>1, <1>8 DEF WorkInv
  <2>2. \A u \in workers' : (u.pc = "refused" => u.k = "tool") /\ (u.k = "tool" => u.id \in Ids)
    BY <1>1, <1>4, <1>8 DEF WorkInv
  <2>3. \A i \in 1 .. Len(queue') : queue'[i].t = cur /\ (queue'[i].k = "result" => queue'[i].id \in Ids)
    BY <1>1, <1>5 DEF WorkInv
  <2> QED BY <1>2, <2>1, <2>2, <2>3 DEF WorkInv
<1>10. OneInv'
  <2>1. ASSUME Live PROVE /\ \A a, b \in workers' : a.t = cur /\ b.t = cur => a = b
                          /\ \A i, j \in 1 .. Len(queue') : IsControl(i)' /\ IsControl(j)' => i = j
                          /\ (\E u \in workers' : u.t = cur) <=> ~\E i \in 1 .. Len(queue') : IsControl(i)'
    <3>1. /\ \A a, b \in workers : a.t = cur /\ b.t = cur => a = b
          /\ \A i, j \in 1 .. Len(queue) : IsControl(i) /\ IsControl(j) => i = j
          /\ (\E u \in workers : u.t = cur) <=> ~\E i \in 1 .. Len(queue) : IsControl(i)
      BY <1>1, <2>1 DEF OneInv
    <3>2. \A a, b \in workers' : a.t = cur /\ b.t = cur => a = b
      BY <3>1
    <3>3. \A i, j \in 1 .. Len(queue') : IsControl(i)' /\ IsControl(j)' => i = j
      BY <1>6, <3>1
    <3>4. (\E u \in workers' : u.t = cur) <=> (\E u \in workers : u.t = cur)
      OBVIOUS
    <3>5. (\E i \in 1 .. Len(queue') : IsControl(i)') <=> (\E i \in 1 .. Len(queue) : IsControl(i))
      BY <1>6, <1>7
    <3> QED BY <3>1, <3>2, <3>3, <3>4, <3>5
  <2> QED BY <1>2, <2>1 DEF OneInv, Live
<1>11. ChainInv'
  <2>1. ASSUME Live PROVE
          /\ \A u \in workers' : u.t = cur =>
               IF u.k = "tool" THEN OnCall(messages, cur, <<u.id>> \o pending) ELSE NoneDue
          /\ \A i \in 1 .. Len(queue') :
               /\ queue'[i].k = "result" => OnCall(messages, cur, <<queue'[i].id>> \o pending)
               /\ queue'[i].k = "next" => OnCall(messages, cur, pending)
               /\ queue'[i].k \in {"done", "final"} \/ (queue'[i].k = "error" /\ queue'[i].mark = "overflow") => NoneDue
    <3>1. /\ \A u \in workers : u.t = cur =>
               IF u.k = "tool" THEN OnCall(messages, cur, <<u.id>> \o pending) ELSE NoneDue
          /\ \A i \in 1 .. Len(queue) :
               /\ queue[i].k = "result" => OnCall(messages, cur, <<queue[i].id>> \o pending)
               /\ queue[i].k = "next" => OnCall(messages, cur, pending)
               /\ queue[i].k \in {"done", "final"} \/ (queue[i].k = "error" /\ queue[i].mark = "overflow") => NoneDue
      BY <1>1, <2>1 DEF ChainInv
    <3>2. v.t = cur => IF v.k = "tool" THEN OnCall(messages, cur, <<v.id>> \o pending) ELSE NoneDue
      BY <3>1
    <3>3. x.k \notin {"result", "next", "done", "final", "error"}
      OBVIOUS
    <3> QED BY <1>5, <1>8, <3>1, <3>2, <3>3
  <2>2. NoneDue' <=> NoneDue
    BY <1>2 DEF NoneDue
  <2> QED BY <1>2, <2>1, <2>2 DEF ChainInv, Live
<1>12. Live /\ Finale => Finale'
  <2>1. (\E u \in workers : u.t = cur /\ u.k = "final") => \E u \in workers' : u.t = cur /\ u.k = "final"
    OBVIOUS
  <2>2. (\E i \in 1 .. Len(queue) : queue[i].k \in {"final", "error"})
          => \E i \in 1 .. Len(queue') : queue'[i].k \in {"final", "error"}
    BY <1>5
  <2> QED BY <1>2, <2>1, <2>2 DEF Finale
<1>13. phase # "draining" => UNCHANGED <<queue, partial>>
  BY <1>4 DEF Live
<1> QED BY <1>3, <1>5, <1>9, <1>10, <1>11, <1>12, <1>13, WorkerStep

\* A worker returns and, if its turn runs, leaves item x.
LEMMA WorkerReturns ==
  ASSUME IInv, NEW w \in workers, workers' = workers \ {w}, UNCHANGED workervars,
         partial' \in SUBSET Tokens, partial' = partial \/ w.t = cur,
         NEW x \in Items, x.k \in Control, x.t = w.t,
         x.k = "result" => w.k = "tool" /\ x.id = w.id, x.k # "next",
         x.k \in {"done", "final"} \/ (x.k = "error" /\ x.mark = "overflow") => w.k # "tool",
         w.k = "final" => x.k \in {"final", "error"},
         IF w.t \in alive THEN queue' = Append(queue, x) ELSE queue' = queue
  PROVE  IInv'
<1>1. TypeOK /\ StageInv /\ WorkInv /\ OneInv /\ ChainInv
  BY IInvParts
<1>2. /\ messages' = messages /\ pending' = pending /\ phase' = phase /\ cur' = cur /\ alive' = alive
      /\ sends' = sends
  BY DEF workervars, turnvars, uivars, loopvars
<1>3. queue \in Seq(Items) /\ workers \subseteq Workers /\ workers' \subseteq Workers
  BY <1>1, TypeFacts
<1>4. /\ (w.k = "tool" => w.id \in Ids)
      /\ (w.t \in alive => Live /\ w.t = cur) /\ (w.t = cur => phase = "draining")
  BY WorkerFacts
<1>5. \A u \in workers' : u \in workers
  OBVIOUS
<1>6. phase # "draining" => UNCHANGED <<queue, partial>>
  BY <1>4 DEF Live
<1>7. CASE w.t \notin alive
  <2>1. queue' = queue
    BY <1>7
  <2>2. Live => w.t # cur
    BY <1>7 DEF Live
  <2>3. WorkInv'
    BY <1>1, <1>2, <1>5, <2>1 DEF WorkInv
  <2>4. Live => ((\E u \in workers' : u.t = cur) <=> (\E u \in workers : u.t = cur))
    BY <2>2
  <2>5. OneInv'
    BY <1>1, <1>2, <1>5, <2>1, <2>4 DEF OneInv, Live, IsControl
  <2>6. ChainInv'
    BY <1>1, <1>2, <1>5, <2>1 DEF ChainInv, Live, NoneDue
  <2>7. Live /\ Finale => Finale'
    BY <1>2, <2>1, <2>2 DEF Finale
  <2>8. queue' \in Seq(Items)
    BY <1>3, <2>1
  <2> QED BY <1>3, <1>6, <2>3, <2>5, <2>6, <2>7, <2>8, WorkerStep
<1>8. CASE w.t \in alive
  <2>1. Live /\ w.t = cur /\ queue' = Append(queue, x)
    BY <1>4, <1>8
  <2>2. /\ \A a, b \in workers : a.t = cur /\ b.t = cur => a = b
        /\ \A i \in 1 .. Len(queue) : ~IsControl(i)
    BY <1>1, <2>1 DEF OneInv
  <2>3. \A u \in workers' : u.t # cur
    BY <2>1, <2>2
  <2>4. /\ queue' \in Seq(Items) /\ Len(queue) + 1 \in 1 .. Len(queue') /\ queue'[Len(queue) + 1] = x
        /\ \A i \in 1 .. Len(queue') : (i \in 1 .. Len(queue) /\ queue'[i] = queue[i]) \/ i = Len(queue) + 1
        /\ \A i \in 1 .. Len(queue) : i \in 1 .. Len(queue') /\ queue'[i] = queue[i]
    <3> DEFINE q == queue  r == queue'
    <3>1. q \in Seq(Items) /\ r = Append(q, x)
      BY <1>3, <2>1
    <3> HIDE DEF q, r
    <3>2. /\ r \in Seq(Items) /\ Len(q) \in Nat /\ Len(q) + 1 \in 1 .. Len(r) /\ r[Len(q) + 1] = x
          /\ \A i \in 1 .. Len(r) : i \in 1 .. Len(q) \/ i = Len(q) + 1
          /\ \A i \in 1 .. Len(q) : i \in 1 .. Len(r) /\ r[i] = q[i]
      BY <3>1, Put1
    <3>3. \A i \in 1 .. Len(r) : (i \in 1 .. Len(q) /\ r[i] = q[i]) \/ i = Len(q) + 1
      BY <3>2
    <3> QED BY <3>2, <3>3 DEF q, r
  <2>5. ASSUME NEW i \in 1 .. Len(queue'), queue'[i].k \in Control
        PROVE  i = Len(queue) + 1 /\ queue'[i] = x
    BY <2>2, <2>4, <2>5 DEF IsControl
  <2>6. WorkInv'
    <3>1. \A u \in workers' : /\ u.t <= sends /\ (phase \in {"posted", "starting"} => u.t # sends)
                              /\ (u.pc = "refused" => u.k = "tool") /\ (u.k = "tool" => u.id \in Ids)
      BY <1>1, <1>5 DEF WorkInv
    <3>2. ASSUME NEW i \in 1 .. Len(queue')
          PROVE  queue'[i].t = cur /\ (queue'[i].k = "result" => queue'[i].id \in Ids)
      <4>1. CASE i \in 1 .. Len(queue) /\ queue'[i] = queue[i]
        BY <1>1, <4>1 DEF WorkInv
      <4>2. CASE i = Len(queue) + 1
        BY <1>4, <2>1, <2>4, <4>2
      <4> QED BY <2>4, <4>1, <4>2
    <3> QED BY <1>2, <3>1, <3>2 DEF WorkInv
  <2>7. OneInv'
    <3>1. \E i \in 1 .. Len(queue') : IsControl(i)'
      BY <2>4 DEF IsControl
    <3>2. \A i, j \in 1 .. Len(queue') : IsControl(i)' /\ IsControl(j)' => i = j
      BY <2>5 DEF IsControl
    <3> QED BY <1>2, <2>3, <3>1, <3>2 DEF OneInv
  <2>8. ChainInv'
    <3>1. IF w.k = "tool" THEN OnCall(messages, cur, <<w.id>> \o pending) ELSE NoneDue
      BY <1>1, <2>1 DEF ChainInv
    <3>2. /\ x.k = "result" => OnCall(messages, cur, <<x.id>> \o pending)
          /\ x.k = "next" => OnCall(messages, cur, pending)
          /\ x.k \in {"done", "final"} \/ (x.k = "error" /\ x.mark = "overflow") => NoneDue
      BY <3>1
    <3>3. \A i \in 1 .. Len(queue') :
            queue'[i].k \in {"result", "next", "done", "final", "error"} => queue'[i] = x
      BY <2>5 DEF Control
    <3>4. NoneDue' <=> NoneDue
      BY <1>2 DEF NoneDue
    <3>5. \A i \in 1 .. Len(queue') :
           /\ queue'[i].k = "result" => OnCall(messages, cur, <<queue'[i].id>> \o pending)
           /\ queue'[i].k = "next" => OnCall(messages, cur, pending)
           /\ queue'[i].k \in {"done", "final"} \/ (queue'[i].k = "error" /\ queue'[i].mark = "overflow") => NoneDue
      BY <3>2, <3>3
    <3> QED BY <1>2, <2>3, <3>4, <3>5 DEF ChainInv
  <2>9. Live /\ Finale => Finale'
    <3>1. ASSUME NEW u \in workers, u.t = cur, u.k = "final" PROVE Finale'
      <4>1. u = w
        BY <2>1, <2>2, <3>1
      <4> QED BY <2>4, <3>1, <4>1 DEF Finale
    <3>2. \A i \in 1 .. Len(queue) : queue[i].k \notin {"final", "error"}
      BY <2>2 DEF IsControl, Control
    <3> QED BY <3>1, <3>2 DEF Finale
  <2> QED BY <1>3, <1>6, <2>4, <2>6, <2>7, <2>8, <2>9, WorkerStep
<1> QED BY <1>7, <1>8

LEMMA BeginKeeps ==
  ASSUME IInv, NEW w \in workers, Begin(w)
  PROVE  IInv'
<1>1. w \in Workers /\ w.t \in Turns /\ partial \in SUBSET Tokens
  BY WorkerFacts, IInvParts, TypeFacts
<1>2. UNCHANGED workervars /\ partial' = partial /\ queue' = queue
  BY DEF Begin
<1>3. CASE w.t \in alive
  <2> DEFINE v == [w EXCEPT !.pc = "running"]  x == Item("chunk", w.t)
  <2>1. workers' = (workers \ {w}) \cup {v}
    BY <1>3 DEF Begin, Replace
  <2>2. v \in Workers /\ v.t = w.t /\ v.k = w.k /\ v.id = w.id /\ v.pc # "refused"
    BY <1>1 DEF Workers
  <2>3. x \in Items /\ x.k = "chunk" /\ x.t = w.t
    BY <1>1 DEF Item, Items
  <2> HIDE DEF v, x
  <2> QED BY <1>2, <2>1, <2>2, <2>3, WorkerGoesOn
<1>4. CASE w.t \notin alive
  <2> DEFINE x == Item("error", w.t)
  <2>1. workers' = workers \ {w}
    BY <1>4 DEF Begin, Gone
  <2>2. x \in Items /\ x.k = "error" /\ x.t = w.t /\ x.mark # "overflow" /\ x.k \in Control
    BY <1>1 DEF Item, Items, Control, None
  <2> HIDE DEF x
  <2> QED BY <1>1, <1>2, <1>4, <2>1, <2>2, WorkerReturns
<1> QED BY <1>3, <1>4

LEMMA StreamKeeps ==
  ASSUME IInv, NEW w \in workers, NEW y \in Tokens, Stream(w, y)
  PROVE  IInv'
<1> DEFINE v == [w EXCEPT !.sent = @ \cup {y}]  x == [Item("chunk", w.t) EXCEPT !.say = {y}]
<1>1. /\ workers' = (workers \ {w}) \cup {v} /\ UNCHANGED workervars /\ partial' = partial
      /\ queue' = IF w.t \in alive THEN Append(queue, x) ELSE queue
      /\ w.pc = "running"
  BY DEF Stream, Replace, Put, Accepts
<1>2. w \in Workers /\ w.t \in Turns
  BY WorkerFacts
<1>3. v \in Workers /\ v.t = w.t /\ v.k = w.k /\ v.id = w.id /\ v.pc # "refused"
  BY <1>1, <1>2 DEF Workers
<1>4. x \in Items /\ x.k = "chunk" /\ x.t = w.t
  BY <1>2 DEF Item, Items
<1> HIDE DEF v, x
<1> QED BY <1>1, <1>3, <1>4, WorkerGoesOn

LEMMA StreamCutKeeps ==
  ASSUME IInv, NEW w \in workers, StreamCut(w)
  PROVE  IInv'
<1>1. /\ workers' = workers \ {w} /\ UNCHANGED workervars /\ queue' = queue /\ w.t \in cancelled
      /\ partial' = partial \/ (w.t = cur /\ partial' = w.sent)
  BY DEF StreamCut, NotePartial, Gone
<1>2. TypeOK /\ StageInv
  BY IInvParts
<1>3. w \in Workers /\ w.t \in Turns /\ partial \in SUBSET Tokens
  BY <1>2, WorkerFacts, TypeFacts
<1>4. partial' \in SUBSET Tokens
  BY <1>1, <1>3 DEF Workers
<1>5. w.t \notin alive
  <2>1. ASSUME w.t \in alive PROVE FALSE
    <3>1. w.t = cur /\ cur \in {0, sends} /\ cur # 0
      BY <1>2, <1>3, <2>1, TypeFacts, TurnIsNat
    <3> QED BY <1>1, <1>2, <2>1, <3>1 DEF StageInv
  <2> QED BY <2>1
<1> DEFINE x == Item("error", w.t)
<1>6. x \in Items /\ x.k = "error" /\ x.t = w.t /\ x.mark # "overflow" /\ x.k \in Control
  BY <1>3 DEF Item, Items, Control, None
<1> HIDE DEF x
<1>7. partial' = partial \/ w.t = cur
  BY <1>1
<1> QED BY <1>1, <1>4, <1>5, <1>6, <1>7, WorkerReturns

LEMMA StreamDoneKeeps ==
  ASSUME IInv, NEW w \in workers, w.k # "tool", NEW c \in CallLists, StreamDone(w, c)
  PROVE  IInv'
<1> DEFINE x == [Item(IF w.k = "llm" THEN "done" ELSE "final", w.t) EXCEPT !.say = w.sent, !.calls = c]
<1>1. /\ workers' = workers \ {w} /\ UNCHANGED workervars /\ partial' = partial
      /\ queue' = IF w.t \in alive THEN Append(queue, x) ELSE queue
  BY DEF StreamDone, Put, Accepts, Gone
<1>2. w \in Workers /\ w.t \in Turns /\ partial \in SUBSET Tokens
  BY WorkerFacts, IInvParts, TypeFacts
<1>3. /\ x \in Items /\ x.k \in Control /\ x.t = w.t /\ x.k \in {"done", "final"}
      /\ w.k = "final" => x.k = "final"
  BY <1>2 DEF Item, Items, Control, Workers
<1> HIDE DEF x
<1>4. partial' \in SUBSET Tokens
  BY <1>1, <1>2
<1> QED BY <1>1, <1>3, <1>4, WorkerReturns

LEMMA StreamFailedKeeps ==
  ASSUME IInv, NEW w \in workers, w.k # "tool", NEW mark \in {None, "overflow"}, StreamFailed(w, mark)
  PROVE  IInv'
<1> DEFINE x == [Item("error", w.t) EXCEPT !.mark = mark]
<1>1. /\ workers' = workers \ {w} /\ UNCHANGED workervars /\ partial' = partial
      /\ queue' = IF w.t \in alive THEN Append(queue, x) ELSE queue
  BY DEF StreamFailed, Put, Accepts, Gone
<1>2. w \in Workers /\ w.t \in Turns /\ partial \in SUBSET Tokens
  BY WorkerFacts, IInvParts, TypeFacts
<1>3. x \in Items /\ x.k \in Control /\ x.t = w.t /\ x.k = "error"
  BY <1>2 DEF Item, Items, Control
<1> HIDE DEF x
<1>4. partial' \in SUBSET Tokens
  BY <1>1, <1>2
<1> QED BY <1>1, <1>3, <1>4, WorkerReturns

LEMMA ToolRefusedKeeps ==
  ASSUME IInv, NEW w \in workers, w.k = "tool", ToolRefused(w)
  PROVE  IInv'
<1> DEFINE v == [w EXCEPT !.pc = "refused"]  x == Item("stopped", w.t)
<1>1. /\ workers' = (workers \ {w}) \cup {v} /\ UNCHANGED workervars /\ partial' = partial
      /\ queue' = IF w.t \in alive THEN Append(queue, x) ELSE queue
  BY DEF ToolRefused, Replace, Put, Accepts
<1>2. w \in Workers /\ w.t \in Turns
  BY WorkerFacts
<1>3. v \in Workers /\ v.t = w.t /\ v.k = w.k /\ v.id = w.id
  BY <1>2 DEF Workers
<1>4. x \in Items /\ x.k = "stopped" /\ x.t = w.t
  BY <1>2 DEF Item, Items
<1> HIDE DEF v, x
<1> QED BY <1>1, <1>3, <1>4, WorkerGoesOn

LEMMA ToolDoneKeeps ==
  ASSUME IInv, NEW w \in workers, w.k = "tool", NEW mark \in {None, "mutated"}, ToolDone(w, mark)
  PROVE  IInv'
<1> DEFINE x == [Item("result", w.t) EXCEPT !.id = w.id, !.mark = mark]
<1>1. /\ workers' = workers \ {w} /\ UNCHANGED workervars /\ partial' = partial
      /\ queue' = IF w.t \in alive THEN Append(queue, x) ELSE queue
  BY DEF ToolDone, Put, Accepts, Gone
<1>2. w \in Workers /\ w.t \in Turns /\ partial \in SUBSET Tokens
  BY WorkerFacts, IInvParts, TypeFacts
<1>3. x \in Items /\ x.k \in Control /\ x.t = w.t /\ x.k = "result" /\ x.id = w.id
  BY <1>2 DEF Item, Items, Control, Workers
<1> HIDE DEF x
<1>4. partial' \in SUBSET Tokens
  BY <1>1, <1>2
<1> QED BY <1>1, <1>3, <1>4, WorkerReturns

LEMMA ToolDisposedKeeps ==
  ASSUME IInv, NEW w \in workers, w.k = "tool", ToolDisposed(w)
  PROVE  IInv'
<1> DEFINE x == Item("error", w.t)
<1>1. /\ workers' = workers \ {w} /\ UNCHANGED workervars /\ partial' = partial
      /\ queue' = IF w.t \in alive THEN Append(queue, x) ELSE queue
  BY DEF ToolDisposed, Put, Accepts, Gone
<1>2. w \in Workers /\ w.t \in Turns /\ partial \in SUBSET Tokens
  BY WorkerFacts, IInvParts, TypeFacts
<1>3. x \in Items /\ x.k \in Control /\ x.t = w.t /\ x.k = "error" /\ x.mark # "overflow"
  BY <1>2 DEF Item, Items, Control, None
<1> HIDE DEF x
<1>4. partial' \in SUBSET Tokens
  BY <1>1, <1>2
<1> QED BY <1>1, <1>3, <1>4, WorkerReturns

-----------------------------------------------------------------------------
(* The invariant holds of every behaviour.                                 *)

LEMMA InitKeeps ==
  ASSUME Init
  PROVE  IInv
<1>1. /\ busy = FALSE /\ phase = "none" /\ teardown = FALSE /\ sends = 0 /\ cur = 0 /\ list = 0
      /\ alive = {} /\ cancelled = {} /\ shut = {} /\ closed = {} /\ base = [t \in Turns |-> 0]
      /\ messages = <<>> /\ outcome = [t \in Turns |-> "none"] /\ partial = {} /\ round = 0
      /\ pending = <<>> /\ retries = 0 /\ requests = [t \in Turns |-> 0] /\ queue = <<>> /\ workers = {}
  BY DEF Init
<1>2. /\ 0 \in 0 .. MaxSends /\ 0 \in 0 .. MaxClears /\ 0 \in 0 .. MaxRounds /\ 0 \in 0 .. MaxOverflow
      /\ MaxRounds \in Nat /\ MaxOverflow \in Nat
  BY BoundAssumption
<1>3. <<>> \in Seq(Rows) /\ <<>> \in Seq(Items) /\ <<>> \in Seq(Ids) /\ Len(<<>>) = 0
  BY EmptySeq
<1>4. TypeOK
  BY <1>1, <1>2, <1>3 DEF TypeOK
<1>5. StageInv
  BY <1>1 DEF StageInv
<1>6. WorkInv
  BY <1>1, <1>3 DEF WorkInv
<1>7. OneInv /\ ChainInv
  BY <1>1 DEF OneInv, ChainInv, Live
<1>8. BudgetInv
  <2>1. 0 <= MaxRounds + 1 + 2 * MaxOverflow
    BY <1>2
  <2> QED BY <1>1, <2>1 DEF BudgetInv, RequestBudget, Live
<1>9. RowsInv
  BY <1>1, EmptyRows DEF RowsInv, PlaceInv, FullInv, ClosedInv, StopInv, HoleInv
<1> QED BY <1>4, <1>5, <1>6, <1>7, <1>8, <1>9 DEF IInv

LEMMA NextKeeps ==
  ASSUME IInv, [Next]_vars
  PROVE  IInv'
<1>1. CASE Clicks
  BY <1>1, SendClickKeeps, StopClickKeeps, ClearClickKeeps, DisposeKeeps DEF Clicks
<1>2. CASE SendDrain
  BY <1>2, SkipSendKeeps, BeginSendKeeps, BodyRefusedKeeps, BodyAbortedKeeps, StartLoopKeeps,
     DrainRefusedKeeps DEF SendDrain
<1>3. CASE Slice
  BY <1>3, SliceStopKeeps, TakeChunkKeeps, TakeAnswerKeeps, TakeCallsKeeps, NextRoundKeeps, StartToolKeeps,
     TakeResultKeeps, TakeResultDocumentGoneKeeps, TakeFinalKeeps, TakeOverflowKeeps, TakeErrorKeeps,
     TakeStoppedKeeps DEF Slice
<1>4. CASE Work
  <2>1. CASE \E w \in workers : Begin(w)
    BY <2>1, BeginKeeps
  <2>2. CASE \E w \in Streams : StreamEnds(w) \/ \E x \in Tokens : Stream(w, x)
    <3>1. PICK w \in Streams : StreamEnds(w) \/ \E x \in Tokens : Stream(w, x)
      BY <2>2
    <3>2. w \in workers /\ w.k # "tool"
      BY DEF Streams
    <3> QED BY <3>1, <3>2, StreamKeeps, StreamCutKeeps, StreamDoneKeeps, StreamFailedKeeps DEF StreamEnds
  <2>3. CASE \E w \in Tools : ToolEnds(w) \/ ToolRefused(w)
    <3>1. PICK w \in Tools : ToolEnds(w) \/ ToolRefused(w)
      BY <2>3
    <3>2. w \in workers /\ w.k = "tool"
      BY DEF Tools
    <3> QED BY <3>1, <3>2, ToolDoneKeeps, ToolDisposedKeeps, ToolRefusedKeeps DEF ToolEnds
  <2> QED BY <1>4, <2>1, <2>2, <2>3 DEF Work
<1>5. CASE UNCHANGED vars
  <2>1. /\ busy' = busy /\ phase' = phase /\ teardown' = teardown /\ sends' = sends /\ cur' = cur
        /\ alive' = alive /\ cancelled' = cancelled /\ shut' = shut /\ closed' = closed /\ list' = list
        /\ base' = base /\ messages' = messages /\ outcome' = outcome /\ partial' = partial
        /\ round' = round /\ pending' = pending /\ retries' = retries /\ requests' = requests
        /\ queue' = queue /\ workers' = workers
    BY <1>5 DEF vars
  <2>2. TypeOK /\ StageInv /\ WorkInv /\ OneInv /\ BudgetInv /\ RowsInv /\ ChainInv
    BY IInvParts
  <2>3. TypeOK' /\ StageInv'
    BY <2>1, <2>2 DEF TypeOK, StageInv
  <2>4. WorkInv' /\ OneInv'
    BY <2>1, <2>2 DEF WorkInv, OneInv, Live, IsControl
  <2>5. BudgetInv'
    <3>1. Finale => Finale'
      BY <2>1 DEF Finale
    <3> QED BY <2>1, <2>2, <3>1, SameBudget
  <2>6. RowsInv'
    BY <2>1, <2>2, SameRows DEF uivars, turnvars
  <2>7. ChainInv'
    BY <2>1, <2>2 DEF ChainInv, Live, NoneDue
  <2> QED BY <2>3, <2>4, <2>5, <2>6, <2>7 DEF IInv
<1> QED BY <1>1, <1>2, <1>3, <1>4, <1>5 DEF Next

\* The invariant holds in every state: it ties the transcript to the loop's
\* program counter, which item or worker drives it and which calls are still due.
THEOREM Invariance == Spec => []IInv
<1>1. Init => IInv
  BY InitKeeps
<1>2. IInv /\ [Next]_vars => IInv'
  BY NextKeeps
<1> QED BY <1>1, <1>2, PTL DEF Spec

-----------------------------------------------------------------------------
(* What the runs check, for every value of the constants.                  *)

LEMMA TranscriptHolds ==
  ASSUME IInv
  PROVE  TranscriptInv
<1>1. TypeOK /\ RowsInv /\ messages \in Seq(Rows) /\ Sorted(messages) /\ Paired(messages)
  BY IInvParts DEF RowsInv, Sound
<1>2. DOMAIN messages = 1 .. Len(messages)
  BY <1>1, LenProperties
<1>3. RowsInTurnOrder
  <2>1. \A i \in DOMAIN messages : Present(messages, messages[i].t)
    BY <1>2 DEF Present
  <2>2. \A i \in DOMAIN messages : base[messages[i].t] = list
    BY <1>1, <2>1, PresentTurn DEF RowsInv, PlaceInv
  <2> QED BY <1>1, <1>2, <2>2 DEF Sorted, RowsInTurnOrder
<1>4. ASSUME NEW i \in CallRows(messages)
      PROVE  LET calls == messages[i].calls  done == Results(messages, i) IN
               /\ \A j \in done : \E n \in DOMAIN calls :
                    /\ messages[j].id = calls[n]
                    /\ \A m \in 1 .. n - 1 : Answering(messages, {k \in done : k < j}, calls[m])
               /\ \A j, k \in done : messages[j].id = messages[k].id => j = k
               /\ Ended(messages[i].t) /\ outcome[messages[i].t] = "ready"
                    => \A n \in DOMAIN calls : Answering(messages, done, calls[n])
  <2>1. i \in 1 .. Len(messages) /\ i # 0 /\ messages[i].t \in Turns
        /\ DOMAIN messages[i].calls = 1 .. Len(messages[i].calls)
    <3>1. i \in 1 .. Len(messages) /\ messages[i].calls \in Seq(Ids)
      BY <1>1, CallsAre
    <3>2. messages[i].t \in Turns
      BY <1>1, <3>1, PresentTurn DEF Present
    <3> QED BY <3>1, <3>2, LenProperties
  <2> DEFINE calls == messages[i].calls  done == Results(messages, i)
  <2>2. PairedAt(messages, i)
    BY <1>1 DEF Paired
  <2>3. ASSUME NEW j \in done
        PROVE  \E n \in DOMAIN calls :
                 /\ messages[j].id = calls[n]
                 /\ \A m \in 1 .. n - 1 : Answering(messages, {k \in done : k < j}, calls[m])
    <3>1. PICK n \in 1 .. Len(calls) :
            /\ messages[j].id = calls[n]
            /\ \A m \in 1 .. n - 1 : \E k \in done : k < j /\ messages[k].id = calls[m]
      BY <2>2 DEF PairedAt
    <3>2. \A m \in 1 .. n - 1 : Answering(messages, {k \in done : k < j}, calls[m])
      BY <3>1 DEF Answering
    <3> QED BY <2>1, <3>1, <3>2
  <2>4. \A j, k \in done : messages[j].id = messages[k].id => j = k
    BY <2>2 DEF PairedAt
  <2>5. ASSUME Ended(messages[i].t), outcome[messages[i].t] = "ready"
        PROVE  \A n \in DOMAIN calls : Answering(messages, done, calls[n])
    <3>1. Full(messages, i)
      BY <1>1, <2>1, <2>5 DEF RowsInv, FullInv, AllFull
    <3> QED BY <2>1, <3>1 DEF Full, Answering
  <2> QED BY <2>3, <2>4, <2>5
<1> QED BY <1>3, <1>4 DEF TranscriptInv, AnsweredInOrder

\* Every row of the transcript belongs to the turn and the list it was written
\* for, in the order of the turns, and the results of a response's calls follow
\* it in the order of the calls, once each, all of them once the turn ended
\* Ready: for any number of sends, rounds, tokens, calls and late workers.
THEOREM TranscriptIsSound == Spec => []TranscriptInv
<1>1. IInv => TranscriptInv
  BY TranscriptHolds
<1> QED BY <1>1, Invariance, PTL

LEMMA ClosedCallsHold ==
  ASSUME IInv
  PROVE  StopClosesCalls
<1>1. TypeOK /\ RowsInv /\ messages \in Seq(Rows)
  BY IInvParts DEF RowsInv, Sound
<1>2. ASSUME NEW t \in closed, NEW i \in CallRows(messages), messages[i].t <= t
      PROVE  \A n \in DOMAIN messages[i].calls : Answering(messages, Answers(messages, i), messages[i].calls[n])
  <2>1. DOMAIN messages[i].calls = 1 .. Len(messages[i].calls)
    BY <1>1, CallsAre, LenProperties
  <2>2. ClosedAt(messages, i)
    BY <1>1, <1>2 DEF RowsInv, ClosedInv, AllClosed
  <2> QED BY <2>1, <2>2 DEF ClosedAt, Answering
<1> QED BY <1>2 DEF StopClosesCalls

\* After close_stopped no call up to that turn is without a tool row, wherever
\* in the loop Stop came and however many calls were pending.
THEOREM StoppedCallsAnswered == Spec => []StopClosesCalls
<1>1. IInv => StopClosesCalls
  BY ClosedCallsHold
<1> QED BY <1>1, Invariance, PTL

LEMMA StopLinesHold ==
  ASSUME IInv
  PROVE  StopIsShown
<1>1. TypeOK /\ RowsInv /\ messages \in Seq(Rows) /\ Sorted(messages)
  BY IInvParts DEF RowsInv, Sound
<1>2. DOMAIN messages = 1 .. Len(messages) /\ Len(messages) \in Nat
  BY <1>1, LenProperties
<1>3. ASSUME NEW t \in Turns
      PROVE  /\ Cardinality(StopLines(t)) <= 1
             /\ StopLines(t) # {} => Ended(t) /\ outcome[t] = "stopped"
             /\ Ended(t) /\ Started(t) /\ t \in cancelled /\ t \notin shut => StopLines(t) # {}
             /\ \A i \in StopLines(t), j \in DOMAIN messages : j > i => messages[j].t > t
  <2>1. \A i : i \in StopLines(t) <=> i \in 1 .. Len(messages) /\ messages[i].k = "stop" /\ messages[i].t = t
    BY <1>2 DEF StopLines, RowsOf
  <2>2. (HasStop(messages, t) <=> StopLines(t) # {}) /\ (Started(t) <=> HasUser(messages, t))
    BY <1>2, <2>1 DEF HasStop, HasUser, Started, RowsOf
  <2>3. ASSUME NEW i \in StopLines(t), NEW j \in 1 .. Len(messages), i < j
        PROVE  t < messages[j].t /\ messages[j].t \in Nat
    <3>1. t < messages[j].t
      BY <1>1, <2>1, <2>3 DEF Sorted
    <3>2. messages[j].t \in Turns
      BY <1>1, PresentTurn DEF Present
    <3> QED BY <3>1, <3>2, TurnIsNat
  <2>4. Cardinality(StopLines(t)) <= 1
    <3>1. CASE StopLines(t) = {}
      BY <3>1, FS_EmptySet
    <3>2. CASE StopLines(t) # {}
      <4>1. PICK i : i \in StopLines(t)
        BY <3>2
      <4>2. ASSUME NEW j \in StopLines(t), i # j PROVE FALSE
        <5>1. i \in 1 .. Len(messages) /\ j \in 1 .. Len(messages) /\ messages[i].t = t /\ messages[j].t = t
          BY <2>1, <4>1
        <5>2. i < j \/ j < i
          BY <1>2, <4>2, <5>1
        <5>3. t < t /\ t \in Nat
          BY <2>3, <4>1, <5>1, <5>2, TurnIsNat
        <5> QED BY <5>3
      <4>3. StopLines(t) = {i}
        BY <4>1, <4>2
      <4>4. Cardinality({i}) = 1
        BY FS_Singleton
      <4>5. Cardinality(StopLines(t)) = 1
        BY <4>3, <4>4, Zenon
      <4> QED BY <4>5
    <3> QED BY <3>1, <3>2
  <2>5. \A i \in StopLines(t), j \in DOMAIN messages : j > i => messages[j].t > t
    <3>1. ASSUME NEW i \in StopLines(t), NEW j \in DOMAIN messages, j > i PROVE messages[j].t > t
      <4>1. i \in 1 .. Len(messages) /\ j \in 1 .. Len(messages)
        BY <1>2, <2>1
      <4>2. i < j
        BY <1>2, <3>1, <4>1
      <4>3. t < messages[j].t /\ messages[j].t \in Nat /\ t \in Nat
        BY <2>3, <4>1, <4>2, TurnIsNat
      <4> QED BY <4>3
    <3> QED BY <3>1
  <2>6. StopLines(t) # {} => Ended(t) /\ outcome[t] = "stopped"
    BY <1>1, <2>2 DEF RowsInv, StopInv
  <2>7. Ended(t) /\ Started(t) /\ t \in cancelled /\ t \notin shut => StopLines(t) # {}
    BY <1>1, <2>2 DEF RowsInv, StopInv
  <2> QED BY <2>4, <2>5, <2>6, <2>7
<1> QED BY <1>3 DEF StopIsShown

\* A stopped send shows one stop line, its last row, unless its window closed;
\* a send that was not stopped shows none.
THEOREM StopLineIsLast == Spec => []StopIsShown
<1>1. IInv => StopIsShown
  BY StopLinesHold
<1> QED BY <1>1, Invariance, PTL

LEMMA NoHoleHolds ==
  ASSUME IInv
  PROVE  NoHoleAfterUser
<1>1. TypeOK /\ RowsInv /\ messages \in Seq(Rows) /\ Sorted(messages)
  BY IInvParts DEF RowsInv, Sound
<1>2. DOMAIN messages = 1 .. Len(messages) /\ Len(messages) \in Nat
  BY <1>1, LenProperties
<1>3. ASSUME NEW i \in DOMAIN messages, messages[i].k = "user", Ended(messages[i].t), messages[i].t \notin shut
      PROVE  \E j \in DOMAIN messages :
               j > i /\ messages[j].k \in {"asst", "stop"} /\ messages[j].t = messages[i].t
  <2>1. messages[i].t \in Turns /\ HasUser(messages, messages[i].t)
    BY <1>1, <1>2, <1>3, PresentTurn DEF Present, HasUser
  <2>2. HasReply(messages, messages[i].t)
    BY <1>1, <1>3, <2>1 DEF RowsInv, HoleInv
  <2>3. PICK j \in 1 .. Len(messages) : messages[j].k \in {"asst", "stop"} /\ messages[j].t = messages[i].t
    BY <2>2 DEF HasReply
  <2>4. i <= j /\ i # j
    BY <1>1, <1>2, <1>3, <2>3 DEF Sorted
  <2>5. j > i
    BY <1>2, <2>4
  <2> QED BY <1>2, <2>3, <2>5
<1> QED BY <1>3 DEF NoHoleAfterUser

\* No ended turn leaves its question without a committed answer, error or stop
\* row, unless its document closed on it.
THEOREM QuestionsAreAnswered == Spec => []NoHoleAfterUser
<1>1. IInv => NoHoleAfterUser
  BY NoHoleHolds
<1> QED BY <1>1, Invariance, PTL

LEMMA LoopHolds ==
  ASSUME IInv
  PROVE  LoopInv
<1>1. TypeOK /\ StageInv /\ OneInv /\ BudgetInv
  BY IInvParts
<1>2. LoopHasWork
  <2>1. SUFFICES ASSUME phase = "draining", cur \in alive
        PROVE  Cardinality({w \in workers : w.t = cur}) + Cardinality(ControlItems) = 1
    BY DEF LoopHasWork
  <2>2. /\ \A v, w \in workers : v.t = cur /\ w.t = cur => v = w
        /\ \A i, j \in 1 .. Len(queue) : IsControl(i) /\ IsControl(j) => i = j
        /\ (\E w \in workers : w.t = cur) <=> ~\E i \in 1 .. Len(queue) : IsControl(i)
    BY <1>1, <2>1 DEF OneInv, Live
  <2>3. \A i : i \in ControlItems <=> i \in 1 .. Len(queue) /\ IsControl(i)
    BY <1>1, LenProperties DEF ControlItems, IsControl, TypeOK
  <2> DEFINE ws == {w \in workers : w.t = cur}
  <2>4. CASE \E w \in workers : w.t = cur
    <3>1. PICK w \in workers : w.t = cur
      BY <2>4
    <3>2. ws = {w}
      BY <2>2, <3>1
    <3>3. ControlItems = {}
      BY <2>2, <2>3, <2>4
    <3>4. Cardinality(ws) = 1 /\ Cardinality(ControlItems) = 0
      BY <3>2, <3>3, FS_Singleton, FS_EmptySet
    <3> QED BY <3>4
  <2>5. CASE ~\E w \in workers : w.t = cur
    <3>1. PICK i \in 1 .. Len(queue) : IsControl(i)
      BY <2>2, <2>5
    <3>2. ControlItems = {i}
      BY <2>2, <2>3, <3>1
    <3>3. ws = {}
      BY <2>5
    <3>4. Cardinality(ws) = 0 /\ Cardinality(ControlItems) = 1
      BY <3>2, <3>3, FS_Singleton, FS_EmptySet
    <3> QED BY <3>4
  <2> QED BY <2>4, <2>5
<1>3. BusyIffSending
  <2>1. alive # {} => cur # 0 /\ alive \subseteq {cur}
    BY <1>1 DEF TypeOK, StageInv
  <2>2. phase \in {"none", "posted", "starting", "draining"}
    BY <1>1 DEF TypeOK
  <2>3. ~teardown => (busy <=> phase # "none")
    BY <1>1 DEF StageInv
  <2> QED BY <1>1, <2>1, <2>2, <2>3 DEF BusyIffSending, StageInv
<1>4. RequestBudget
  BY <1>1 DEF BudgetInv
<1> QED BY <1>1, <1>2, <1>3, <1>4 DEF LoopInv

\* The running loop is driven by exactly one worker or one control item, makes
\* no more requests than its rounds and retries allow, and the button is on Stop
\* exactly while a send is on its way, whenever clicks and answers come.
THEOREM LoopIsDriven == Spec => []LoopInv
<1>1. IInv => LoopInv
  BY LoopHolds
<1> QED BY <1>1, Invariance, PTL
=============================================================================
