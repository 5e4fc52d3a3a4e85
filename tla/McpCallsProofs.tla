--------------------------- MODULE McpCallsProofs ---------------------------
(***************************************************************************)
(* Proofs about McpCalls: for any requests, notifications, keys and        *)
(* documents, the permit and the gates are held where the calls are, the   *)
(* scopes are those of the calls in flight, and edits stay apart.          *)
(***************************************************************************)
EXTENDS McpCalls, SequencesExt, SequenceTheorems,
        FiniteSetTheorems, WellFoundedInduction, TLAPS

-----------------------------------------------------------------------------
(* Lists: what the operations on them keep.                                *)

\* Every non-empty set of natural numbers has a least element: < on Nat is
\* well-founded, which the library states without an operator parameter.
LEMMA LeastNat ==
  ASSUME NEW T \in SUBSET Nat, T # {}
  PROVE  \E n \in T : \A m \in T : n <= m
<1> DEFINE R == {ss \in Nat \X Nat : ss[1] < ss[2]}
<1>1. IsWellFoundedOn(R, Nat)
  BY NatLessThanWellFounded, Zenon DEF OpToRel
<1>2. PICK x \in T : \A y \in T : <<y, x>> \notin R
  <2> HIDE DEF R
  <2> QED BY <1>1, WFMin
<1>3. \A y \in T : ~(y < x)
  BY <1>2
<1> QED BY <1>2, <1>3

\* Induction up to a bound: a set that has 0 and, with every n below the
\* bound, n + 1.
LEMMA BoundedInduction ==
  ASSUME NEW N \in Nat, NEW G,
         0 \in G, \A n \in 1 .. N : n - 1 \in G => n \in G
  PROVE  0 .. N \subseteq G
<1> DEFINE Bad == (0 .. N) \ G
<1> SUFFICES ASSUME Bad # {} PROVE FALSE
  OBVIOUS
<1>1. Bad \in SUBSET Nat
  OBVIOUS
<1>2. PICK m \in Bad : \A k \in Bad : m <= k
  <2> HIDE DEF Bad
  <2> QED BY <1>1, LeastNat
<1>3. m \in 1 .. N /\ m - 1 \in 0 .. N
  OBVIOUS
<1>4. m - 1 \in G
  <2> SUFFICES ASSUME m - 1 \notin G PROVE FALSE
    OBVIOUS
  <2>1. m - 1 \in Bad
    BY <1>3
  <2>2. m <= m - 1
    BY <2>1, <1>2
  <2> QED BY <2>2, <1>3
<1> QED BY <1>3, <1>4

\* The recursive function in Without exists.
LEMMA WithoutExists ==
  ASSUME NEW X, NEW q \in Seq(X), NEW S
  PROVE  \E f : f = [n \in 0 .. Len(q) |-> WithoutStep(q, S, f, n)]
<1> DEFINE Solves(f, m) == /\ f \in [0 .. m -> Seq(X)]
                           /\ \A n \in 0 .. m : f[n] = WithoutStep(q, S, f, n)
           G == {m \in 0 .. Len(q) : \E f : Solves(f, m)}
<1>0. Len(q) \in Nat
  BY LenProperties
<1>1. 0 \in G
  <2> DEFINE g == [n \in 0 .. 0 |-> <<>>]
  <2>1. Solves(g, 0)
    BY EmptySeq DEF WithoutStep
  <2>2. 0 \in 0 .. Len(q)
    BY <1>0
  <2> QED BY <2>1, <2>2
<1>2. ASSUME NEW m \in 1 .. Len(q), m - 1 \in G PROVE m \in G
  <2>1. PICK f : Solves(f, m - 1)
    BY <1>2
  <2> DEFINE g == [n \in 0 .. m |-> IF n < m THEN f[n] ELSE WithoutStep(q, S, f, m)]
  <2>2. m \in Nat /\ m # 0 /\ m - 1 \in 0 .. m - 1
    BY <1>0
  <2>3. q[m] \in X /\ f[m - 1] \in Seq(X)
    BY <2>1, <2>2, ElementOfSeq
  <2>4. WithoutStep(q, S, f, m) \in Seq(X)
    BY <2>2, <2>3, AppendProperties DEF WithoutStep
  <2>5. \A n \in 0 .. m : n < m => n \in 0 .. m - 1
    BY <2>2
  <2>6. g \in [0 .. m -> Seq(X)]
    BY <2>1, <2>4, <2>5
  <2>7. ASSUME NEW n \in 0 .. m PROVE g[n] = WithoutStep(q, S, g, n)
    <3>1. n = 0 \/ (n - 1 \in 0 .. m - 1 /\ n - 1 \in 0 .. m /\ n - 1 < m)
      BY <2>2
    <3>2. g[n] = WithoutStep(q, S, f, n)
      BY <2>1, <2>5, <2>2
    <3>3. n # 0 => g[n - 1] = f[n - 1]
      BY <3>1
    <3> HIDE DEF g
    <3> QED BY <3>2, <3>3 DEF WithoutStep
  <2>8. Solves(g, m)
    BY <2>6, <2>7
  <2> HIDE DEF Solves
  <2> QED BY <2>8, <1>0
<1>3. Len(q) \in G
  <2> HIDE DEF G
  <2>1. 0 .. Len(q) \subseteq G
    BY <1>0, <1>1, <1>2, BoundedInduction
  <2> QED BY <2>1, <1>0
<1>4. PICK f : Solves(f, Len(q))
  BY <1>3
<1>5. f = [n \in 0 .. Len(q) |-> WithoutStep(q, S, f, n)]
  BY <1>4
<1> QED BY <1>5

\* What is left is a sequence of the elements of q that are not in S, and none
\* comes more often than before.
LEMMA WithoutProperties ==
  ASSUME NEW X, NEW q \in Seq(X), NEW S
  PROVE  /\ Without(q, S) \in Seq(X)
         /\ \A x : Contains(Without(q, S), x) <=> Contains(q, x) /\ x \notin S
         /\ IsDistinct(q) => IsDistinct(Without(q, S))
<1> DEFINE f == CHOOSE f : f = [n \in 0 .. Len(q) |-> WithoutStep(q, S, f, n)]
<1>0. Len(q) \in Nat /\ \A n \in 1 .. Len(q) : q[n] \in X
  BY LenProperties, ElementOfSeq
<1>1. f = [n \in 0 .. Len(q) |-> WithoutStep(q, S, f, n)]
  BY WithoutExists
<1>2. Without(q, S) = f[Len(q)]
  BY DEF Without
<1> HIDE DEF f
<1> DEFINE Has(n, x) == \E i \in 1 .. n : q[i] = x
           Good(n) == /\ f[n] \in Seq(X)
                      /\ \A x : Contains(f[n], x) <=> Has(n, x) /\ x \notin S
                      /\ IsDistinct(q) => IsDistinct(f[n])
           G == {n \in 0 .. Len(q) : Good(n)}
<1>3. 0 \in G
  <2>1. f[0] = <<>> /\ 0 \in 0 .. Len(q)
    BY <1>0, <1>1 DEF WithoutStep
  <2>2. <<>> \in Seq(X) /\ Len(<<>>) = 0
    BY EmptySeq
  <2>3. \A x : ~Contains(<<>>, x) /\ ~Has(0, x)
    BY <2>2 DEF Contains
  <2>4. IsDistinct(<<>>)
    BY <2>2 DEF IsDistinct
  <2> HIDE DEF Has
  <2> QED BY <2>1, <2>2, <2>3, <2>4
<1>4. ASSUME NEW n \in 1 .. Len(q), n - 1 \in G PROVE n \in G
  <2>1. Good(n - 1) /\ n \in 0 .. Len(q) /\ n - 1 \in Nat
    BY <1>4, <1>0
  <2>2. f[n] = IF q[n] \in S THEN f[n - 1] ELSE Append(f[n - 1], q[n])
    <3>1. n \in 0 .. Len(q) /\ n # 0
      BY <1>0
    <3>2. f[n] = WithoutStep(q, S, f, n)
      BY <1>1, <3>1
    <3> QED BY <3>1, <3>2 DEF WithoutStep
  <2>3. \A x : Has(n, x) <=> Has(n - 1, x) \/ q[n] = x
    BY <2>1
  <2>4. CASE q[n] \in S
    <3>1. f[n] = f[n - 1]
      BY <2>2, <2>4
    <3>2. \A x : Contains(f[n], x) <=> Has(n, x) /\ x \notin S
      BY <3>1, <2>1, <2>3, <2>4
    <3> HIDE DEF Has
    <3> QED BY <3>1, <3>2, <2>1
  <2>5. CASE q[n] \notin S
    <3> DEFINE p == f[n - 1]
    <3>1. p \in Seq(X) /\ Len(p) \in Nat /\ f[n] = Append(p, q[n]) /\ q[n] \in X
      BY <2>1, <2>2, <2>5, <1>0, LenProperties
    <3>2. /\ f[n] \in Seq(X) /\ Len(f[n]) = Len(p) + 1
          /\ f[n][Len(p) + 1] = q[n]
          /\ \A i \in 1 .. Len(p) : f[n][i] = p[i]
      BY <3>1, AppendProperties
    <3>3. \A x : Contains(f[n], x) <=> Contains(p, x) \/ x = q[n]
      BY <3>1, <3>2 DEF Contains
    <3>4. \A x : Contains(f[n], x) <=> Has(n, x) /\ x \notin S
      <4> HIDE DEF Has
      <4> QED BY <3>3, <2>1, <2>3, <2>5
    <3>5. ASSUME IsDistinct(q) PROVE IsDistinct(f[n])
      <4>1. ~Has(n - 1, q[n])
        BY <3>5, <2>1, <1>0 DEF IsDistinct
      <4>2. \A i \in 1 .. Len(p) : p[i] # q[n]
        <5> HIDE DEF Has
        <5> QED BY <4>1, <2>1 DEF Contains
      <4>3. IsDistinct(p)
        BY <3>5, <2>1
      <4>4. \A i \in 1 .. Len(f[n]) : i \in 1 .. Len(p) \/ i = Len(p) + 1
        BY <3>1, <3>2
      <4> HIDE DEF p
      <4> QED BY <4>2, <4>3, <4>4, <3>1, <3>2 DEF IsDistinct
    <3> HIDE DEF Has
    <3> QED BY <3>2, <3>4, <3>5, <2>1
  <2> QED BY <2>4, <2>5
<1>5. Len(q) \in G
  <2> HIDE DEF G
  <2>1. 0 .. Len(q) \subseteq G
    BY <1>0, <1>3, <1>4, BoundedInduction
  <2> QED BY <2>1, <1>0
<1>6. \A x : Has(Len(q), x) <=> Contains(q, x)
  BY DEF Contains
<1> HIDE DEF Has
<1> QED BY <1>2, <1>5, <1>6

LEMMA AppendContains ==
  ASSUME NEW X, NEW q \in Seq(X), NEW e \in X
  PROVE  /\ Append(q, e) \in Seq(X)
         /\ \A x : Contains(Append(q, e), x) <=> Contains(q, x) \/ x = e
         /\ IsDistinct(q) /\ ~Contains(q, e) => IsDistinct(Append(q, e))
<1>1. /\ Append(q, e) \in Seq(X) /\ Len(q) \in Nat
      /\ Len(Append(q, e)) = Len(q) + 1 /\ Append(q, e)[Len(q) + 1] = e
      /\ \A i \in 1 .. Len(q) : Append(q, e)[i] = q[i]
  BY AppendProperties, LenProperties
<1>2. \A i \in 1 .. Len(Append(q, e)) : i \in 1 .. Len(q) \/ i = Len(q) + 1
  BY <1>1
<1>3. \A x : Contains(Append(q, e), x) <=> Contains(q, x) \/ x = e
  BY <1>1, <1>2 DEF Contains
<1>4. IsDistinct(q) /\ ~Contains(q, e) => IsDistinct(Append(q, e))
  BY <1>1, <1>2 DEF IsDistinct, Contains
<1> QED BY <1>1, <1>3, <1>4

LEMMA TailContains ==
  ASSUME NEW X, NEW q \in Seq(X), q # <<>>
  PROVE  /\ Head(q) \in X /\ Tail(q) \in Seq(X)
         /\ \A x : Contains(q, x) <=> Contains(Tail(q), x) \/ x = Head(q)
         /\ IsDistinct(q) => IsDistinct(Tail(q)) /\ ~Contains(Tail(q), Head(q))
<1>1. /\ Head(q) \in X /\ Tail(q) \in Seq(X) /\ Head(q) = q[1]
      /\ Len(q) \in Nat /\ Len(q) # 0 /\ Len(Tail(q)) = Len(q) - 1
      /\ \A i \in 1 .. Len(Tail(q)) : Tail(q)[i] = q[i + 1]
  BY HeadTailProperties, LenProperties, EmptySeq
<1>2. \A i \in 1 .. Len(q) : i = 1 \/ i - 1 \in 1 .. Len(Tail(q))
  BY <1>1
<1>3. \A i \in 1 .. Len(Tail(q)) : i + 1 \in 1 .. Len(q)
  BY <1>1
<1>4. \A x : Contains(q, x) <=> Contains(Tail(q), x) \/ x = Head(q)
  <2> SUFFICES ASSUME NEW x PROVE Contains(q, x) <=> Contains(Tail(q), x) \/ x = Head(q)
    OBVIOUS
  <2>1. ASSUME Contains(q, x) PROVE Contains(Tail(q), x) \/ x = Head(q)
    <3>1. PICK i \in 1 .. Len(q) : q[i] = x
      BY <2>1 DEF Contains
    <3>2. i # 1 => i - 1 \in 1 .. Len(Tail(q)) /\ Tail(q)[i - 1] = x
      BY <1>1, <1>2, <3>1
    <3> QED BY <3>1, <3>2, <1>1 DEF Contains
  <2>2. ASSUME Contains(Tail(q), x) \/ x = Head(q) PROVE Contains(q, x)
    BY <2>2, <1>1, <1>3 DEF Contains
  <2> QED BY <2>1, <2>2
<1>5. ASSUME IsDistinct(q) PROVE IsDistinct(Tail(q)) /\ ~Contains(Tail(q), Head(q))
  BY <1>1, <1>3, <1>5 DEF IsDistinct, Contains
<1> QED BY <1>1, <1>4, <1>5

LEMMA EmptyContains ==
  /\ \A x : ~Contains(<<>>, x)
  /\ IsDistinct(<<>>)
  /\ \A X : <<>> \in Seq(X)
BY EmptySeq DEF Contains, IsDistinct

-----------------------------------------------------------------------------
(* McpCalls.                                                               *)

Items == [req : Requests, part : {"prepare", "body", "uno"}]

\* The queue of the main thread: one item of a kind per request, whichever of
\* the two places it is in.
QueueInv ==
  /\ queue \in Seq(Items) /\ running \in Items \cup {Idle}
  /\ IsDistinct(queue) /\ ~Contains(queue, running)

NoticeInv ==
  notice \in [Notices -> [pc : {"new", "cancel", "done"}, todo : SUBSET Requests,
                          at : Requests \cup {Nobody}]]

\* An item says where its request stands, and the permit is with the request
\* whose item, or whose finished preparation, it is.
ItemInv ==
  \A r \in Requests :
    /\ OnMain(r, "prepare") => req[r].pc = "prepare"
    /\ OnMain(r, "body") => req[r].pc = "body"
    /\ OnMain(r, "uno") => req[r].asked /\ req[r].alive
    /\ req[r].pc \in {"prepare", "prepared", "body"} => permit = r

\* What a call knows of its tool at each point, and the gate that goes with it.
ToolInv ==
  \A r \in Requests :
    /\ req[r].pc \in {"new", "permit", "prepare"} => req[r].tool = "none"
    /\ req[r].pc = "prepared" => req[r].tool \in Tools
    /\ req[r].pc = "gate" => req[r].tool \in NeedsGate
    /\ req[r].pc \in {"start", "enter", "agent"} => req[r].tool \in Async
    /\ req[r].pc \in {"again", "body"} => req[r].tool \in {"edit", "read"}
    /\ req[r].tool \in NeedsGate => req[r].doc \in Docs
    /\ req[r].tool \in NeedsGate /\ req[r].pc \in {"start", "enter", "again", "body", "agent"}
         => gate[req[r].doc] = r

\* No tool has begun before its body is claimed or started, and a refusal is
\* only given to a call that has not.
BeganInv ==
  \A r \in Requests :
    /\ req[r].pc \in {"new", "permit", "prepare", "prepared", "gate", "again", "start", "enter"}
         => ~req[r].began
    /\ req[r].pc = "body" /\ running # Item(r, "body") => ~req[r].began
    /\ req[r].answer \in {"busy", "timeout"} => req[r].pc \in {"over", "done"}

\* A body that runs is one its call waits for, or one its deadline abandoned.
AliveInv ==
  \A r \in Requests : req[r].alive =>
    /\ req[r].pc \in {"body", "agent", "over", "done"}
    /\ req[r].pc = "body" => running = Item(r, "body")
    /\ req[r].pc \in {"over", "done"} => req[r].answer = "error" /\ req[r].tool \in Async

KeyInv == \A r \in Requests : InFlight(r) => req[r].key \in Keys

IInv ==
  /\ TypeOK /\ QueueInv /\ NoticeInv /\ ItemInv /\ ToolInv /\ BeganInv /\ AliveInv /\ KeyInv
  /\ ScopesMatch /\ RefusedDidNothing

\* Every action keeps IInv; the facts about the queue come from the lemmas on
\* sequences, so the provers see it through Contains only.
LEMMA RecordStep ==
  ASSUME TypeOK, NEW r \in Requests, NEW c \in Calls, req' = [req EXCEPT ![r] = c]
  PROVE  req' \in [Requests -> Calls]
BY DEF TypeOK

LEMMA ItemEqual ==
  /\ \A r, q, a, b : Item(r, a) = Item(q, b) <=> r = q /\ a = b
  /\ \A r \in Requests : \A a : Item(r, a) # Idle
BY McpAssumption DEF Item, Idle

LEMMA ArriveStep ==
  ASSUME IInv, NEW r \in Requests, Arrive(r)
  PROVE  IInv'
<1> USE McpAssumption DEF IInv
<1>0. PICK k \in Keys : /\ req' = [req EXCEPT ![r].pc = "permit", ![r].key = k]
                        /\ scopes' = [scopes EXCEPT ![k] = @ \cup {r}]
  BY DEF Arrive
<1>1. TypeOK'
  <2>1. req[r] \in Calls
    BY DEF TypeOK
  <2>2. [req[r] EXCEPT !.pc = "permit", !.key = k] \in Calls
    BY <2>1 DEF Arrive, Calls, Tools
  <2>3. req' \in [Requests -> Calls]
    <3>1. req' = [req EXCEPT ![r] = [req[r] EXCEPT !.pc = "permit", !.key = k]]
      BY <1>0
    <3> QED BY <3>1, <2>2, RecordStep
  <2> QED BY <1>0, <2>3 DEF Arrive, TypeOK
<1>2. QueueInv' /\ NoticeInv'
  BY DEF Arrive, QueueInv, NoticeInv
<1>3. ItemInv'
  BY DEF Arrive, TypeOK, Calls, ItemInv, OnMain
<1>4. ToolInv'
  BY DEF Arrive, TypeOK, Calls, ToolInv, Tools, Async, NeedsGate
<1>5. BeganInv'
  BY DEF Arrive, TypeOK, Calls, BeganInv
<1>6. KeyInv'
  BY DEF Arrive, TypeOK, Calls, KeyInv, InFlight
<1>7. ScopesMatch'
  BY DEF Arrive, TypeOK, Calls, ScopesMatch, InFlight
<1>8. RefusedDidNothing'
  BY DEF Arrive, TypeOK, Calls, BeganInv, RefusedDidNothing
<1>9. AliveInv'
  BY DEF Arrive, TypeOK, Calls, AliveInv
<1> QED BY <1>1, <1>2, <1>3, <1>4, <1>5, <1>6, <1>7, <1>8, <1>9

LEMMA RefuseEarlyStep ==
  ASSUME IInv, NEW r \in Requests, RefuseEarly(r)
  PROVE  IInv'
<1> USE McpAssumption DEF IInv
<1>1. TypeOK'
  <2>1. req[r] \in Calls
    BY DEF TypeOK
  <2>2. [req[r] EXCEPT !.pc = "over", !.answer = "error"] \in Calls
    BY <2>1 DEF RefuseEarly, Over, Calls, Tools
  <2>3. req' \in [Requests -> Calls]
    <3>1. req' = [req EXCEPT ![r] = [req[r] EXCEPT !.pc = "over", !.answer = "error"]]
      BY DEF RefuseEarly, Over
    <3> QED BY <3>1, <2>2, RecordStep
  <2> QED BY <2>3 DEF RefuseEarly, Over, TypeOK
<1>2. QueueInv' /\ NoticeInv'
  BY DEF RefuseEarly, Over, QueueInv, NoticeInv
<1>3. ItemInv'
  BY DEF RefuseEarly, Over, TypeOK, Calls, ItemInv, OnMain
<1>4. ToolInv'
  BY DEF RefuseEarly, Over, TypeOK, Calls, ToolInv, Tools, Async, NeedsGate
<1>5. BeganInv'
  BY DEF RefuseEarly, Over, TypeOK, Calls, BeganInv
<1>6. KeyInv'
  BY DEF RefuseEarly, Over, TypeOK, Calls, KeyInv, InFlight
<1>7. ScopesMatch'
  BY DEF RefuseEarly, Over, TypeOK, Calls, ScopesMatch, InFlight
<1>8. RefusedDidNothing'
  BY DEF RefuseEarly, Over, TypeOK, Calls, BeganInv, RefusedDidNothing
<1>9. AliveInv'
  BY DEF RefuseEarly, Over, TypeOK, Calls, AliveInv
<1> QED BY <1>1, <1>2, <1>3, <1>4, <1>5, <1>6, <1>7, <1>8, <1>9

LEMMA PermitTimeoutStep ==
  ASSUME IInv, NEW r \in Requests, PermitTimeout(r)
  PROVE  IInv'
<1> USE McpAssumption DEF IInv
<1>1. TypeOK'
  <2>1. req[r] \in Calls
    BY DEF TypeOK
  <2>2. [req[r] EXCEPT !.pc = "over", !.answer = "busy"] \in Calls
    BY <2>1 DEF PermitTimeout, Over, Calls, Tools
  <2>3. req' \in [Requests -> Calls]
    <3>1. req' = [req EXCEPT ![r] = [req[r] EXCEPT !.pc = "over", !.answer = "busy"]]
      BY DEF PermitTimeout, Over
    <3> QED BY <3>1, <2>2, RecordStep
  <2> QED BY <2>3 DEF PermitTimeout, Over, TypeOK
<1>2. QueueInv' /\ NoticeInv'
  BY DEF PermitTimeout, Over, QueueInv, NoticeInv
<1>3. ItemInv'
  BY DEF PermitTimeout, Over, TypeOK, Calls, ItemInv, OnMain
<1>4. ToolInv'
  BY DEF PermitTimeout, Over, TypeOK, Calls, ToolInv, Tools, Async, NeedsGate
<1>5. BeganInv'
  BY DEF PermitTimeout, Over, TypeOK, Calls, BeganInv
<1>6. KeyInv'
  BY DEF PermitTimeout, Over, TypeOK, Calls, KeyInv, InFlight
<1>7. ScopesMatch'
  BY DEF PermitTimeout, Over, TypeOK, Calls, ScopesMatch, InFlight
<1>8. RefusedDidNothing'
  BY DEF PermitTimeout, Over, TypeOK, Calls, BeganInv, RefusedDidNothing
<1>9. AliveInv'
  BY DEF PermitTimeout, Over, TypeOK, Calls, AliveInv
<1> QED BY <1>1, <1>2, <1>3, <1>4, <1>5, <1>6, <1>7, <1>8, <1>9

LEMMA PutPermitBackStep ==
  ASSUME IInv, NEW r \in Requests, PutPermitBack(r)
  PROVE  IInv'
<1> USE McpAssumption DEF IInv
<1>1. TypeOK'
  BY DEF PutPermitBack, AfterPrepare, To, TypeOK, Calls, New
<1>2. QueueInv' /\ NoticeInv'
  BY DEF PutPermitBack, AfterPrepare, To, QueueInv, NoticeInv
<1>3. ItemInv'
  BY DEF PutPermitBack, AfterPrepare, To, TypeOK, Calls, ItemInv, OnMain
<1>4. ToolInv'
  BY DEF PutPermitBack, AfterPrepare, To, TypeOK, Calls, ToolInv, Tools, Async, NeedsGate
<1>5. BeganInv'
  BY DEF PutPermitBack, AfterPrepare, To, TypeOK, Calls, BeganInv
<1>6. KeyInv'
  BY DEF PutPermitBack, AfterPrepare, To, TypeOK, Calls, KeyInv, InFlight
<1>7. ScopesMatch'
  BY DEF PutPermitBack, AfterPrepare, To, TypeOK, Calls, ScopesMatch, InFlight
<1>8. RefusedDidNothing'
  BY DEF PutPermitBack, AfterPrepare, To, TypeOK, Calls, BeganInv, RefusedDidNothing
<1>9. AliveInv'
  BY DEF PutPermitBack, AfterPrepare, To, TypeOK, Calls, AliveInv
<1> QED BY <1>1, <1>2, <1>3, <1>4, <1>5, <1>6, <1>7, <1>8, <1>9

LEMMA TakeGateStep ==
  ASSUME IInv, NEW r \in Requests, TakeGate(r)
  PROVE  IInv'
<1> USE McpAssumption DEF IInv
<1>1. TypeOK'
  <2>1. req[r] \in Calls
    BY DEF TypeOK
  <2>2. [req[r] EXCEPT !.pc = IF req[r].tool \in Async THEN "start" ELSE "again"] \in Calls
    BY <2>1 DEF TakeGate, To, Calls, Tools
  <2>3. req' \in [Requests -> Calls]
    <3>1. req' = [req EXCEPT ![r] =
                 [req[r] EXCEPT !.pc = IF req[r].tool \in Async THEN "start" ELSE "again"]]
      BY DEF TakeGate, To
    <3> QED BY <3>1, <2>2, RecordStep
  <2> QED BY <2>3 DEF TakeGate, To, TypeOK
<1>2. QueueInv' /\ NoticeInv'
  BY DEF TakeGate, To, QueueInv, NoticeInv
<1>3. ItemInv'
  BY DEF TakeGate, To, TypeOK, Calls, ItemInv, OnMain
<1>4. ToolInv'
  BY DEF TakeGate, To, TypeOK, Calls, ToolInv, Tools, Async, NeedsGate
<1>5. BeganInv'
  BY DEF TakeGate, To, TypeOK, Calls, BeganInv
<1>6. KeyInv'
  BY DEF TakeGate, To, TypeOK, Calls, KeyInv, InFlight
<1>7. ScopesMatch'
  BY DEF TakeGate, To, TypeOK, Calls, ScopesMatch, InFlight
<1>8. RefusedDidNothing'
  BY DEF TakeGate, To, TypeOK, Calls, BeganInv, RefusedDidNothing
<1>9. AliveInv'
  BY DEF TakeGate, To, TypeOK, Calls, AliveInv
<1> QED BY <1>1, <1>2, <1>3, <1>4, <1>5, <1>6, <1>7, <1>8, <1>9

LEMMA GateTimeoutStep ==
  ASSUME IInv, NEW r \in Requests, GateTimeout(r)
  PROVE  IInv'
<1> USE McpAssumption DEF IInv
<1>1. TypeOK'
  <2>1. req[r] \in Calls
    BY DEF TypeOK
  <2>2. [req[r] EXCEPT !.pc = "over", !.answer = "busy"] \in Calls
    BY <2>1 DEF GateTimeout, Over, Calls, Tools
  <2>3. req' \in [Requests -> Calls]
    <3>1. req' = [req EXCEPT ![r] = [req[r] EXCEPT !.pc = "over", !.answer = "busy"]]
      BY DEF GateTimeout, Over
    <3> QED BY <3>1, <2>2, RecordStep
  <2> QED BY <2>3 DEF GateTimeout, Over, TypeOK
<1>2. QueueInv' /\ NoticeInv'
  BY DEF GateTimeout, Over, QueueInv, NoticeInv
<1>3. ItemInv'
  BY DEF GateTimeout, Over, TypeOK, Calls, ItemInv, OnMain
<1>4. ToolInv'
  BY DEF GateTimeout, Over, TypeOK, Calls, ToolInv, Tools, Async, NeedsGate
<1>5. BeganInv'
  BY DEF GateTimeout, Over, TypeOK, Calls, BeganInv
<1>6. KeyInv'
  BY DEF GateTimeout, Over, TypeOK, Calls, KeyInv, InFlight
<1>7. ScopesMatch'
  BY DEF GateTimeout, Over, TypeOK, Calls, ScopesMatch, InFlight
<1>8. RefusedDidNothing'
  BY DEF GateTimeout, Over, TypeOK, Calls, BeganInv, RefusedDidNothing
<1>9. AliveInv'
  BY DEF GateTimeout, Over, TypeOK, Calls, AliveInv
<1> QED BY <1>1, <1>2, <1>3, <1>4, <1>5, <1>6, <1>7, <1>8, <1>9

LEMMA CheckAgentStep ==
  ASSUME IInv, NEW r \in Requests, CheckAgent(r)
  PROVE  IInv'
<1> USE McpAssumption DEF IInv
<1>1. TypeOK'
  <2>1. req[r] \in Calls
    BY DEF TypeOK
  <2>2. /\ [req[r] EXCEPT !.pc = "over", !.answer = "stopped"] \in Calls
        /\ [req[r] EXCEPT !.pc = "enter"] \in Calls
    BY <2>1 DEF Calls
  <2>3. req' \in [Requests -> Calls]
    <3>1. \/ req' = [req EXCEPT ![r] = [req[r] EXCEPT !.pc = "over", !.answer = "stopped"]]
          \/ req' = [req EXCEPT ![r] = [req[r] EXCEPT !.pc = "enter"]]
      BY DEF CheckAgent, Over, To
    <3> QED BY <3>1, <2>2, RecordStep
  <2> QED BY <2>3 DEF CheckAgent, Over, To, TypeOK
<1>2. QueueInv' /\ NoticeInv'
  BY DEF CheckAgent, Over, To, Refuses, QueueInv, NoticeInv
<1>3. ItemInv'
  BY DEF CheckAgent, Over, To, Refuses, TypeOK, Calls, ItemInv, OnMain
<1>4. ToolInv'
  BY DEF CheckAgent, Over, To, Refuses, TypeOK, Calls, ToolInv, Tools, Async, NeedsGate
<1>5. BeganInv'
  BY DEF CheckAgent, Over, To, Refuses, TypeOK, Calls, BeganInv
<1>6. KeyInv'
  BY DEF CheckAgent, Over, To, Refuses, TypeOK, Calls, KeyInv, InFlight
<1>7. ScopesMatch'
  <2>1. /\ req[r].pc = "start" /\ req'[r].pc \in {"over", "enter"} /\ req'[r].key = req[r].key
        /\ \A q \in Requests \ {r} : req'[q] = req[q]
        /\ UNCHANGED scopes
    BY DEF CheckAgent, Over, To, TypeOK, Calls
  <2>2. \A q \in Requests : (InFlight(q)' <=> InFlight(q)) /\ req'[q].key = req[q].key
    BY <2>1 DEF InFlight
  <2> QED BY <2>1, <2>2 DEF ScopesMatch
<1>8. RefusedDidNothing'
  BY DEF CheckAgent, Over, To, Refuses, TypeOK, Calls, BeganInv, RefusedDidNothing
<1>9. AliveInv'
  BY DEF CheckAgent, Over, To, Refuses, TypeOK, Calls, AliveInv
<1> QED BY <1>1, <1>2, <1>3, <1>4, <1>5, <1>6, <1>7, <1>8, <1>9

LEMMA EnterAgentStep ==
  ASSUME IInv, NEW r \in Requests, EnterAgent(r)
  PROVE  IInv'
<1> USE McpAssumption DEF IInv
<1>1. TypeOK'
  <2>1. req[r] \in Calls
    BY DEF TypeOK
  <2>2. [req[r] EXCEPT !.pc = "agent", !.began = TRUE, !.alive = TRUE] \in Calls
    BY <2>1 DEF EnterAgent, Calls
  <2>3. req' \in [Requests -> Calls]
    <3>1. req' = [req EXCEPT ![r] = [req[r] EXCEPT !.pc = "agent", !.began = TRUE, !.alive = TRUE]]
      BY DEF EnterAgent
    <3> QED BY <3>1, <2>2, RecordStep
  <2> QED BY <2>3 DEF EnterAgent, TypeOK
<1>2. QueueInv' /\ NoticeInv'
  BY DEF EnterAgent, QueueInv, NoticeInv
<1>3. ItemInv'
  BY DEF EnterAgent, TypeOK, Calls, ItemInv, OnMain
<1>4. ToolInv'
  BY DEF EnterAgent, TypeOK, Calls, ToolInv, Tools, Async, NeedsGate
<1>5. BeganInv'
  BY DEF EnterAgent, TypeOK, Calls, BeganInv
<1>6. KeyInv'
  BY DEF EnterAgent, TypeOK, Calls, KeyInv, InFlight
<1>7. ScopesMatch'
  BY DEF EnterAgent, TypeOK, Calls, ScopesMatch, InFlight
<1>8. RefusedDidNothing'
  BY DEF EnterAgent, TypeOK, Calls, BeganInv, RefusedDidNothing
<1>9. AliveInv'
  BY DEF EnterAgent, TypeOK, Calls, AliveInv
<1> QED BY <1>1, <1>2, <1>3, <1>4, <1>5, <1>6, <1>7, <1>8, <1>9

LEMMA AgentTimeoutStep ==
  ASSUME IInv, NEW r \in Requests, AgentTimeout(r)
  PROVE  IInv'
<1> USE McpAssumption DEF IInv
<1>1. TypeOK'
  <2>1. req[r] \in Calls
    BY DEF TypeOK
  <2>2. [req[r] EXCEPT !.pc = "over", !.answer = "error"] \in Calls
    BY <2>1 DEF AgentTimeout, Over, Calls, Tools
  <2>3. req' \in [Requests -> Calls]
    <3>1. req' = [req EXCEPT ![r] = [req[r] EXCEPT !.pc = "over", !.answer = "error"]]
      BY DEF AgentTimeout, Over
    <3> QED BY <3>1, <2>2, RecordStep
  <2> QED BY <2>3 DEF AgentTimeout, Over, TypeOK
<1>2. QueueInv' /\ NoticeInv'
  BY DEF AgentTimeout, Over, QueueInv, NoticeInv
<1>3. ItemInv'
  BY DEF AgentTimeout, Over, TypeOK, Calls, ItemInv, OnMain
<1>4. ToolInv'
  BY DEF AgentTimeout, Over, TypeOK, Calls, ToolInv, Tools, Async, NeedsGate
<1>5. BeganInv'
  BY DEF AgentTimeout, Over, TypeOK, Calls, BeganInv
<1>6. KeyInv'
  BY DEF AgentTimeout, Over, TypeOK, Calls, KeyInv, InFlight
<1>7. ScopesMatch'
  BY DEF AgentTimeout, Over, TypeOK, Calls, ScopesMatch, InFlight
<1>8. RefusedDidNothing'
  BY DEF AgentTimeout, Over, TypeOK, Calls, BeganInv, RefusedDidNothing
<1>9. AliveInv'
  BY DEF AgentTimeout, Over, TypeOK, Calls, AliveInv, ToolInv
<1> QED BY <1>1, <1>2, <1>3, <1>4, <1>5, <1>6, <1>7, <1>8, <1>9

LEMMA PutGateBackStep ==
  ASSUME IInv, NEW r \in Requests, PutGateBack(r)
  PROVE  IInv'
<1> USE McpAssumption DEF IInv
<1>1. TypeOK'
  BY DEF PutGateBack, TypeOK, Calls, New
<1>2. QueueInv' /\ NoticeInv'
  BY DEF PutGateBack, QueueInv, NoticeInv
<1>3. ItemInv'
  BY DEF PutGateBack, TypeOK, Calls, ItemInv, OnMain
<1>4. ToolInv'
  BY DEF PutGateBack, TypeOK, Calls, ToolInv, Tools, Async, NeedsGate
<1>5. BeganInv'
  BY DEF PutGateBack, TypeOK, Calls, BeganInv
<1>6. KeyInv'
  BY DEF PutGateBack, TypeOK, Calls, KeyInv, InFlight
<1>7. ScopesMatch'
  BY DEF PutGateBack, TypeOK, Calls, ScopesMatch, InFlight
<1>8. RefusedDidNothing'
  BY DEF PutGateBack, TypeOK, Calls, BeganInv, RefusedDidNothing
<1>9. AliveInv'
  BY DEF PutGateBack, TypeOK, Calls, AliveInv
<1> QED BY <1>1, <1>2, <1>3, <1>4, <1>5, <1>6, <1>7, <1>8, <1>9

LEMMA ReplyStep ==
  ASSUME IInv, NEW r \in Requests, Reply(r)
  PROVE  IInv'
<1> USE McpAssumption DEF IInv
<1>1. TypeOK'
  <2>1. req[r] \in Calls
    BY DEF TypeOK
  <2>2. Answered(req[r]) \in Calls
    <3>1. /\ req[r].answer \in {"none", "ok", "error", "stopped", "busy", "timeout"}
          /\ req[r].began \in BOOLEAN /\ req[r].alive \in BOOLEAN /\ req[r].asked \in BOOLEAN
          /\ req[r].tool \in Tools \cup {"none"} /\ req[r].doc \in Docs \cup {Nobody}
      BY <2>1 DEF Calls
    <3> DEFINE u == IF req[r].alive THEN req[r].tool ELSE "none"
               w == IF req[r].alive THEN req[r].doc ELSE Nobody
               v == req[r].alive /\ req[r].asked
    <3>2. u \in Tools \cup {"none"} /\ w \in Docs \cup {Nobody} /\ v \in BOOLEAN
      BY <3>1
    <3>3. Answered(req[r]) =
            [New EXCEPT !.pc = "done", !.answer = req[r].answer, !.began = req[r].began,
                        !.alive = req[r].alive, !.tool = u, !.doc = w, !.asked = v]
      BY DEF Answered
    <3>4. New \in Calls
      BY DEF Calls, New
    <3> HIDE DEF u, v, w
    <3> QED BY <3>1, <3>2, <3>3, <3>4 DEF Calls
  <2>3. req' \in [Requests -> Calls]
    <3>1. req' = [req EXCEPT ![r] = Answered(req[r])]
      BY DEF Reply
    <3> QED BY <3>1, <2>2, RecordStep
  <2>4. scopes' \in [Keys -> SUBSET Requests]
    BY DEF Reply, Unregistered, TypeOK
  <2> QED BY <2>3, <2>4 DEF Reply, TypeOK
<1>2. QueueInv' /\ NoticeInv'
  BY DEF Reply, Answered, Unregistered, New, QueueInv, NoticeInv
<1>3. ItemInv'
  BY DEF Reply, Answered, Unregistered, New, TypeOK, Calls, ItemInv, OnMain
<1>4. ToolInv'
  BY DEF Reply, Answered, Unregistered, New, TypeOK, Calls, ToolInv, Tools, Async, NeedsGate
<1>5. BeganInv'
  BY DEF Reply, Answered, Unregistered, New, TypeOK, Calls, BeganInv
<1>6. KeyInv'
  BY DEF Reply, Answered, Unregistered, New, TypeOK, Calls, KeyInv, InFlight
<1>7. ScopesMatch'
  BY DEF Reply, Answered, Unregistered, New, TypeOK, Calls, ScopesMatch, InFlight
<1>8. RefusedDidNothing'
  BY DEF Reply, Answered, Unregistered, New, TypeOK, Calls, BeganInv, RefusedDidNothing
<1>9. AliveInv'
  BY DEF Reply, Answered, Unregistered, New, TypeOK, Calls, AliveInv
<1> QED BY <1>1, <1>2, <1>3, <1>4, <1>5, <1>6, <1>7, <1>8, <1>9

LEMMA AgentEndsStep ==
  ASSUME IInv, NEW r \in Requests, AgentEnds(r)
  PROVE  IInv'
<1> USE McpAssumption DEF IInv
<1>1. TypeOK'
  <2>1. req[r] \in Calls
    BY DEF TypeOK
  <2>2. [req[r] EXCEPT !.alive = FALSE, !.pc = IF @ = "agent" THEN "over" ELSE @,
                     !.answer = IF req[r].pc = "agent" THEN "ok" ELSE @] \in Calls
    <3> DEFINE c == req[r]
    <3>1. CASE c.pc = "agent"
      <4>1. [c EXCEPT !.alive = FALSE, !.pc = "over", !.answer = "ok"] \in Calls
        BY <2>1 DEF Calls
      <4> QED BY <3>1, <4>1
    <3>2. CASE c.pc # "agent"
      <4>1. [c EXCEPT !.alive = FALSE, !.pc = c.pc, !.answer = c.answer] \in Calls
        BY <2>1 DEF Calls
      <4> QED BY <3>2, <4>1
    <3> QED BY <3>1, <3>2
  <2>3. req' \in [Requests -> Calls]
    <3>1. req' = [req EXCEPT ![r] =
           [req[r] EXCEPT !.alive = FALSE, !.pc = IF @ = "agent" THEN "over" ELSE @,
                     !.answer = IF req[r].pc = "agent" THEN "ok" ELSE @]]
      BY DEF AgentEnds
    <3> QED BY <3>1, <2>2, RecordStep
  <2> QED BY <2>3 DEF AgentEnds, TypeOK
<1>2. QueueInv' /\ NoticeInv'
  BY DEF AgentEnds, QueueInv, NoticeInv
<1>3. ItemInv'
  BY DEF AgentEnds, TypeOK, Calls, ItemInv, OnMain
<1>4. ToolInv'
  BY DEF AgentEnds, TypeOK, Calls, ToolInv, Tools, Async, NeedsGate
<1>5. BeganInv'
  BY DEF AgentEnds, TypeOK, Calls, BeganInv
<1>6. KeyInv'
  BY DEF AgentEnds, TypeOK, Calls, KeyInv, InFlight
<1>7. ScopesMatch'
  BY DEF AgentEnds, TypeOK, Calls, ScopesMatch, InFlight
<1>8. RefusedDidNothing'
  BY DEF AgentEnds, TypeOK, Calls, BeganInv, RefusedDidNothing
<1>9. AliveInv'
  BY DEF AgentEnds, TypeOK, Calls, AliveInv
<1> QED BY <1>1, <1>2, <1>3, <1>4, <1>5, <1>6, <1>7, <1>8, <1>9

LEMMA TakePermitStep ==
  ASSUME IInv, NEW r \in Requests, TakePermit(r)
  PROVE  IInv'
<1> USE McpAssumption DEF IInv
<1> DEFINE i == Item(r, IF req[r].pc = "permit" THEN "prepare" ELSE "body")
<1>0. /\ queue' = Append(queue, i) /\ queue' \in Seq(Items)
      /\ \A x : Contains(queue', x) <=> Contains(queue, x) \/ x = i
      /\ IsDistinct(queue') /\ i # running
  <2>1. queue' = Append(queue, i) /\ queue \in Seq(Items) /\ i \in Items
    BY DEF TakePermit, QueueInv, Items, Item
  <2>2. ~Contains(queue, i) /\ i # running
    BY DEF TakePermit, ItemInv, OnMain
  <2> QED BY <2>1, <2>2, AppendContains DEF QueueInv
<1>1. TypeOK'
  <2>1. req[r] \in Calls
    BY DEF TypeOK
  <2>2. [req[r] EXCEPT !.pc = IF req[r].pc = "permit" THEN "prepare" ELSE "body"] \in Calls
    BY <2>1 DEF TakePermit, To, Calls, Tools
  <2>3. req' \in [Requests -> Calls]
    <3>1. req' = [req EXCEPT ![r] =
                 [req[r] EXCEPT !.pc = IF req[r].pc = "permit" THEN "prepare" ELSE "body"]]
      BY DEF TakePermit, To
    <3> QED BY <3>1, <2>2, RecordStep
  <2> QED BY <1>0, <2>3 DEF TakePermit, To, TypeOK
<1>2. QueueInv' /\ NoticeInv'
  BY <1>0 DEF TakePermit, To, QueueInv, NoticeInv
<1>3. ItemInv'
  BY <1>0, ItemEqual DEF TakePermit, To, TypeOK, Calls, ItemInv, OnMain
<1>4. ToolInv'
  BY <1>0 DEF TakePermit, To, TypeOK, Calls, ToolInv, Tools, Async, NeedsGate
<1>5. BeganInv'
  BY <1>0 DEF TakePermit, To, TypeOK, Calls, BeganInv
<1>6. KeyInv'
  BY <1>0 DEF TakePermit, To, TypeOK, Calls, KeyInv, InFlight
<1>7. ScopesMatch'
  BY <1>0 DEF TakePermit, To, TypeOK, Calls, ScopesMatch, InFlight
<1>8. RefusedDidNothing'
  BY <1>0 DEF TakePermit, To, TypeOK, Calls, BeganInv, RefusedDidNothing
<1>9. AliveInv'
  BY <1>0 DEF TakePermit, To, TypeOK, Calls, AliveInv
<1> QED BY <1>1, <1>2, <1>3, <1>4, <1>5, <1>6, <1>7, <1>8, <1>9

LEMMA AskMainStep ==
  ASSUME IInv, NEW r \in Requests, AskMain(r)
  PROVE  IInv'
<1> USE McpAssumption DEF IInv
<1> DEFINE i == Item(r, "uno")
<1>0. /\ queue' = Append(queue, i) /\ queue' \in Seq(Items)
      /\ \A x : Contains(queue', x) <=> Contains(queue, x) \/ x = i
      /\ IsDistinct(queue') /\ i # running
  <2>1. queue' = Append(queue, i) /\ queue \in Seq(Items) /\ i \in Items
    BY DEF AskMain, QueueInv, Items, Item
  <2>2. ~Contains(queue, i) /\ i # running
    BY DEF AskMain, ItemInv, OnMain
  <2> QED BY <2>1, <2>2, AppendContains DEF QueueInv
<1>1. TypeOK'
  <2>1. req[r] \in Calls
    BY DEF TypeOK
  <2>2. [req[r] EXCEPT !.asked = TRUE] \in Calls
    BY <2>1 DEF AskMain, Calls, Tools
  <2>3. req' \in [Requests -> Calls]
    <3>1. req' = [req EXCEPT ![r] = [req[r] EXCEPT !.asked = TRUE]]
      BY DEF AskMain
    <3> QED BY <3>1, <2>2, RecordStep
  <2> QED BY <1>0, <2>3 DEF AskMain, TypeOK
<1>2. QueueInv' /\ NoticeInv'
  BY <1>0 DEF AskMain, QueueInv, NoticeInv
<1>3. ItemInv'
  BY <1>0, ItemEqual DEF AskMain, TypeOK, Calls, ItemInv, OnMain
<1>4. ToolInv'
  BY <1>0 DEF AskMain, TypeOK, Calls, ToolInv, Tools, Async, NeedsGate
<1>5. BeganInv'
  BY <1>0 DEF AskMain, TypeOK, Calls, BeganInv
<1>6. KeyInv'
  BY <1>0 DEF AskMain, TypeOK, Calls, KeyInv, InFlight
<1>7. ScopesMatch'
  BY <1>0 DEF AskMain, TypeOK, Calls, ScopesMatch, InFlight
<1>8. RefusedDidNothing'
  BY <1>0 DEF AskMain, TypeOK, Calls, BeganInv, RefusedDidNothing
<1>9. AliveInv'
  BY <1>0 DEF AskMain, TypeOK, Calls, AliveInv
<1> QED BY <1>1, <1>2, <1>3, <1>4, <1>5, <1>6, <1>7, <1>8, <1>9

LEMMA GiveUpStep ==
  ASSUME IInv, NEW r \in Requests, GiveUp(r)
  PROVE  IInv'
<1> USE McpAssumption DEF IInv
<1> DEFINE i == Item(r, req[r].pc)
<1>0. /\ Contains(queue, i) /\ i # running /\ queue' \in Seq(Items) /\ IsDistinct(queue')
      /\ \A x : Contains(queue', x) <=> Contains(queue, x) /\ x # i
  BY WithoutProperties DEF GiveUp, MayGiveUp, QueueInv
<1>1. TypeOK'
  <2>1. req[r] \in Calls
    BY DEF TypeOK
  <2>2. [req[r] EXCEPT !.pc = "over", !.answer = "timeout"] \in Calls
    BY <2>1 DEF GiveUp, Over, MayGiveUp, Calls, Tools
  <2>3. req' \in [Requests -> Calls]
    <3>1. req' = [req EXCEPT ![r] = [req[r] EXCEPT !.pc = "over", !.answer = "timeout"]]
      BY DEF GiveUp, Over, MayGiveUp
    <3> QED BY <3>1, <2>2, RecordStep
  <2> QED BY <1>0, <2>3 DEF GiveUp, Over, MayGiveUp, TypeOK
<1>2. QueueInv' /\ NoticeInv'
  BY <1>0 DEF GiveUp, Over, MayGiveUp, QueueInv, NoticeInv
<1>3. ItemInv'
  <2>1. ~OnMain(r, "prepare")' /\ ~OnMain(r, "body")'
    <3>1. \A p \in {"prepare", "body"} : OnMain(r, p) => Item(r, p) = i
      BY DEF ItemInv
    <3>2. UNCHANGED running
      BY DEF GiveUp
    <3> HIDE DEF i
    <3>3. ASSUME NEW p \in {"prepare", "body"}, OnMain(r, p)' PROVE FALSE
      BY <1>0, <3>1, <3>2, <3>3 DEF OnMain
    <3> QED BY <3>3
  <2>2. ASSUME NEW q \in Requests, NEW p, OnMain(q, p)' PROVE OnMain(q, p)
    BY <1>0, <2>2 DEF GiveUp, OnMain
  <2>3. \A q \in Requests : q # r => req'[q] = req[q]
    BY DEF GiveUp, Over, TypeOK
  <2>4. /\ req'[r].pc = "over" /\ req'[r].asked = req[r].asked
        /\ req'[r].alive = req[r].alive /\ UNCHANGED permit
    BY DEF GiveUp, Over, TypeOK, Calls
  <2> QED BY <2>1, <2>2, <2>3, <2>4 DEF ItemInv
<1>4. ToolInv'
  BY <1>0 DEF GiveUp, Over, MayGiveUp, TypeOK, Calls, ToolInv, Tools, Async, NeedsGate
<1>5. BeganInv'
  BY <1>0 DEF GiveUp, Over, MayGiveUp, TypeOK, Calls, BeganInv
<1>6. KeyInv'
  BY <1>0 DEF GiveUp, Over, MayGiveUp, TypeOK, Calls, KeyInv, InFlight
<1>7. ScopesMatch'
  BY <1>0 DEF GiveUp, Over, MayGiveUp, TypeOK, Calls, ScopesMatch, InFlight
<1>8. RefusedDidNothing'
  BY <1>0 DEF GiveUp, Over, MayGiveUp, TypeOK, Calls, BeganInv, RefusedDidNothing
<1>9. AliveInv'
  BY <1>0 DEF GiveUp, Over, MayGiveUp, TypeOK, Calls, AliveInv
<1> QED BY <1>1, <1>2, <1>3, <1>4, <1>5, <1>6, <1>7, <1>8, <1>9

LEMMA ClaimStep ==
  ASSUME IInv, Claim
  PROVE  IInv'
<1> USE McpAssumption DEF IInv
<1>1. PICK i : i = Head(queue)
  OBVIOUS
<1>2. /\ i \in Items /\ queue' \in Seq(Items) /\ IsDistinct(queue') /\ ~Contains(queue', i)
      /\ \A x : Contains(queue, x) <=> Contains(queue', x) \/ x = i
  BY <1>1, TailContains DEF Claim, QueueInv
<1>3. PICK r \in Requests, p \in {"prepare", "body", "uno"} : i = Item(r, p)
  BY <1>2 DEF Items, Item
<1>4. /\ i.req = r /\ i.part = p /\ i # Idle /\ running = Idle
      /\ Contains(queue, i) /\ ~Contains(queue', Idle)
      /\ UNCHANGED <<permit, gate, scopes, notice>>
  <2>1. ~Contains(queue, Idle)
    BY DEF Claim, QueueInv
  <2>2. i.req = r /\ i.part = p
    BY <1>3 DEF Item
  <2> QED BY <1>2, <1>3, <2>1, <2>2, ItemEqual DEF Claim
<1>5. p # "uno" => req[r].pc = p
  BY <1>3, <1>4 DEF ItemInv, OnMain
<1>6. req[r] \in Calls
  BY DEF TypeOK
<1>7. ASSUME NEW a \in {"error", "stopped"}, p # "uno", UNCHANGED running,
             req' = [req EXCEPT ![r] = [req[r] EXCEPT !.pc = "over", !.answer = a]]
      PROVE  IInv'
  <2>1. TypeOK'
    <3>1. [req[r] EXCEPT !.pc = "over", !.answer = a] \in Calls
      BY <1>6 DEF Calls
    <3> QED BY <1>4, <1>7, <3>1, RecordStep DEF TypeOK
  <2>2. QueueInv' /\ NoticeInv'
    BY <1>2, <1>4, <1>7 DEF QueueInv, NoticeInv
  <2>3. ItemInv'
    BY <1>2, <1>3, <1>4, <1>7, ItemEqual DEF TypeOK, Calls, ItemInv, OnMain
  <2>4. ToolInv'
    BY <1>4, <1>5, <1>7 DEF TypeOK, Calls, ToolInv, Tools, Async, NeedsGate
  <2>5. BeganInv' /\ RefusedDidNothing'
    BY <1>4, <1>7 DEF TypeOK, Calls, BeganInv, RefusedDidNothing
  <2>6. KeyInv' /\ ScopesMatch'
    BY <1>4, <1>5, <1>7 DEF TypeOK, Calls, KeyInv, ScopesMatch, InFlight
  <2>7. AliveInv'
    BY <1>3, <1>4, <1>5, <1>7, ItemEqual DEF TypeOK, Calls, AliveInv
  <2> QED BY <2>1, <2>2, <2>3, <2>4, <2>5, <2>6, <2>7
<1>8. ASSUME running' = i, UNCHANGED req
      PROVE  IInv'
  <2>1. TypeOK' /\ QueueInv' /\ NoticeInv'
    BY <1>2, <1>4, <1>8 DEF TypeOK, QueueInv, NoticeInv
  <2>2. ItemInv'
    BY <1>2, <1>3, <1>4, <1>8, ItemEqual DEF ItemInv, OnMain
  <2>3. ToolInv' /\ RefusedDidNothing' /\ KeyInv' /\ ScopesMatch'
    BY <1>4, <1>8 DEF ToolInv, RefusedDidNothing, KeyInv, ScopesMatch, InFlight
  <2>4. BeganInv' /\ AliveInv'
    BY <1>3, <1>4, <1>8, ItemEqual DEF BeganInv, AliveInv
  <2> QED BY <2>1, <2>2, <2>3, <2>4
<1>9. \/ p = "prepare" /\ Over(r, "error") /\ UNCHANGED running
      \/ p = "body" /\ Over(r, "stopped") /\ UNCHANGED running
      \/ running' = i /\ UNCHANGED req
  BY <1>1, <1>4 DEF Claim
<1> QED BY <1>7, <1>8, <1>9 DEF Over

LEMMA FinishPrepareStep ==
  ASSUME IInv, FinishPrepare
  PROVE  IInv'
<1> USE McpAssumption DEF IInv
<1>r. PICK r \in Requests : running = Item(r, "prepare") /\ running.req = r
  BY DEF FinishPrepare, QueueInv, Items, Item, Idle
<1>0. /\ running = Item(r, "prepare") /\ OnMain(r, "prepare")
      /\ running' = Idle /\ UNCHANGED queue /\ ~Contains(queue, Idle)
      /\ req[r].pc = "prepare"
  <2>1. ~Contains(queue, Idle)
    <3>1. \A x : Contains(queue, x) => x \in Items
      BY ElementOfSeq DEF QueueInv, Contains
    <3>2. Idle \notin Items
      BY DEF Items, Idle, Item
    <3> QED BY <3>1, <3>2
  <2> QED BY <1>r, <2>1 DEF FinishPrepare, OnMain, ItemInv
<1>t. PICK t \in Tools : \E d \in IF t \in NeedsGate THEN Docs ELSE {Nobody} :
       req' = [req EXCEPT ![r].pc = "prepared", ![r].tool = t, ![r].doc = d,
                          ![r].answer = IF t = "refused" THEN "error" ELSE @]
  BY <1>r DEF FinishPrepare
<1>p. PICK d \in IF t \in NeedsGate THEN Docs ELSE {Nobody} :
       req' = [req EXCEPT ![r].pc = "prepared", ![r].tool = t, ![r].doc = d,
                          ![r].answer = IF t = "refused" THEN "error" ELSE @]
  BY <1>t
<1>1. TypeOK'
  <2>1. req[r] \in Calls
    BY DEF TypeOK
  <2>2. [req[r] EXCEPT !.pc = "prepared", !.tool = t, !.doc = d,
                       !.answer = IF t = "refused" THEN "error" ELSE @] \in Calls
    BY <2>1 DEF Calls, Tools, NeedsGate
  <2>3. req' \in [Requests -> Calls]
    <3>1. req' = [req EXCEPT ![r] =
                 [req[r] EXCEPT !.pc = "prepared", !.tool = t, !.doc = d,
                                !.answer = IF t = "refused" THEN "error" ELSE @]]
      BY <1>p
    <3> QED BY <3>1, <2>2, RecordStep
  <2> QED BY <1>0, <1>p, <2>3 DEF Idle, Item, FinishPrepare, TypeOK
<1>2. QueueInv' /\ NoticeInv'
  BY <1>0, <1>p DEF FinishPrepare, QueueInv, NoticeInv
<1>3. ItemInv'
  BY <1>0, <1>p, ItemEqual DEF FinishPrepare, TypeOK, Calls, ItemInv, OnMain, QueueInv
<1>4. ToolInv'
  <2>1. /\ req'[r].pc = "prepared" /\ req'[r].tool = t /\ req'[r].doc = d
        /\ \A q \in Requests \ {r} : req'[q] = req[q]
    BY <1>p DEF TypeOK, Calls
  <2>2. gate' = gate
    BY DEF FinishPrepare
  <2>3. t \in NeedsGate => d \in Docs
    BY <1>p
  <2> QED BY <2>1, <2>2, <2>3 DEF ToolInv
<1>5. BeganInv'
  BY <1>0, <1>p, ItemEqual DEF FinishPrepare, TypeOK, Calls, BeganInv, ItemInv, OnMain
<1>6. KeyInv'
  BY <1>0, <1>p DEF FinishPrepare, TypeOK, Calls, KeyInv, InFlight
<1>7. ScopesMatch'
  BY <1>0, <1>p DEF FinishPrepare, TypeOK, Calls, ScopesMatch, InFlight
<1>8. RefusedDidNothing'
  BY <1>0, <1>p DEF FinishPrepare, TypeOK, Calls, BeganInv, RefusedDidNothing
<1>9. AliveInv'
  BY <1>0, <1>p, ItemEqual DEF FinishPrepare, TypeOK, Calls, AliveInv
<1> QED BY <1>1, <1>2, <1>3, <1>4, <1>5, <1>6, <1>7, <1>8, <1>9

LEMMA EnterBodyStep ==
  ASSUME IInv, EnterBody
  PROVE  IInv'
<1> USE McpAssumption DEF IInv
<1>r. PICK r \in Requests : running = Item(r, "body") /\ running.req = r
  BY DEF EnterBody, QueueInv, Items, Item, Idle
<1>0. /\ running = Item(r, "body") /\ OnMain(r, "body") /\ UNCHANGED <<running, queue>>
      /\ req[r].pc = "body" /\ ~req[r].began
  BY <1>r DEF EnterBody, OnMain, ItemInv
<1>1. TypeOK'
  <2>1. req[r] \in Calls
    BY DEF TypeOK
  <2>2. [req[r] EXCEPT !.began = TRUE, !.alive = TRUE] \in Calls
    BY <2>1 DEF Calls
  <2>3. req' \in [Requests -> Calls]
    <3>1. req' = [req EXCEPT ![r] = [req[r] EXCEPT !.began = TRUE, !.alive = TRUE]]
      BY <1>r DEF EnterBody
    <3> QED BY <3>1, <2>2, RecordStep
  <2> QED BY <1>0, <2>3 DEF EnterBody, TypeOK
<1>2. QueueInv' /\ NoticeInv'
  BY <1>0 DEF EnterBody, QueueInv, NoticeInv
<1>3. ItemInv'
  BY <1>0, <1>r DEF EnterBody, TypeOK, Calls, ItemInv, OnMain
<1>4. ToolInv'
  BY <1>0, <1>r DEF EnterBody, TypeOK, Calls, ToolInv, Tools, Async, NeedsGate
<1>5. BeganInv'
  BY <1>0, <1>r, ItemEqual DEF EnterBody, TypeOK, Calls, BeganInv
<1>6. KeyInv'
  BY <1>0, <1>r DEF EnterBody, TypeOK, Calls, KeyInv, InFlight
<1>7. ScopesMatch'
  BY <1>0, <1>r DEF EnterBody, TypeOK, Calls, ScopesMatch, InFlight
<1>8. RefusedDidNothing'
  BY <1>0, <1>r DEF EnterBody, TypeOK, Calls, BeganInv, RefusedDidNothing
<1>9. AliveInv'
  BY <1>0, <1>r DEF EnterBody, TypeOK, Calls, AliveInv
<1> QED BY <1>1, <1>2, <1>3, <1>4, <1>5, <1>6, <1>7, <1>8, <1>9

LEMMA FinishBodyStep ==
  ASSUME IInv, FinishBody
  PROVE  IInv'
<1> USE McpAssumption DEF IInv
<1>r. PICK r \in Requests : running = Item(r, "body") /\ running.req = r
  BY DEF FinishBody, QueueInv, Items, Item, Idle
<1>0. /\ running = Item(r, "body") /\ OnMain(r, "body")
      /\ running' = Idle /\ UNCHANGED queue /\ ~Contains(queue, Idle)
      /\ req[r].pc = "body"
  <2>1. ~Contains(queue, Idle)
    <3>1. \A x : Contains(queue, x) => x \in Items
      BY ElementOfSeq DEF QueueInv, Contains
    <3>2. Idle \notin Items
      BY DEF Items, Idle, Item
    <3> QED BY <3>1, <3>2
  <2> QED BY <1>r, <2>1 DEF FinishBody, OnMain, ItemInv
<1>1. TypeOK'
  <2>1. req[r] \in Calls
    BY DEF TypeOK
  <2>2. [req[r] EXCEPT !.pc = "over", !.answer = "ok", !.alive = FALSE] \in Calls
    BY <2>1 DEF FinishBody, Calls, Tools
  <2>3. req' \in [Requests -> Calls]
    <3>1. req' = [req EXCEPT ![r] = [req[r] EXCEPT !.pc = "over", !.answer = "ok", !.alive = FALSE]]
      BY <1>r DEF FinishBody
    <3> QED BY <3>1, <2>2, RecordStep
  <2> QED BY <1>0, <1>r, <2>3 DEF Idle, Item, FinishBody, TypeOK
<1>2. QueueInv' /\ NoticeInv'
  BY <1>0, <1>r DEF FinishBody, QueueInv, NoticeInv
<1>3. ItemInv'
  BY <1>0, <1>r, ItemEqual DEF FinishBody, TypeOK, Calls, ItemInv, OnMain, QueueInv
<1>4. ToolInv'
  <2>1. /\ req'[r].pc = "over" /\ req'[r].tool = req[r].tool /\ req'[r].doc = req[r].doc
        /\ \A q \in Requests \ {r} : req'[q] = req[q]
    BY <1>r DEF FinishBody, TypeOK, Calls
  <2>2. gate' = gate
    BY DEF FinishBody
  <2>3. req[r].pc # "done"
    BY <1>0
  <2> QED BY <2>1, <2>2, <2>3 DEF ToolInv
<1>5. BeganInv'
  BY <1>0, <1>r, ItemEqual DEF FinishBody, TypeOK, Calls, BeganInv, ItemInv, OnMain
<1>6. KeyInv'
  BY <1>0, <1>r DEF FinishBody, TypeOK, Calls, KeyInv, InFlight
<1>7. ScopesMatch'
  BY <1>0, <1>r DEF FinishBody, TypeOK, Calls, ScopesMatch, InFlight
<1>8. RefusedDidNothing'
  BY <1>0, <1>r DEF FinishBody, TypeOK, Calls, BeganInv, RefusedDidNothing
<1>9. AliveInv'
  BY <1>0, <1>r, ItemEqual DEF FinishBody, TypeOK, Calls, AliveInv
<1> QED BY <1>1, <1>2, <1>3, <1>4, <1>5, <1>6, <1>7, <1>8, <1>9

LEMMA FinishUnoStep ==
  ASSUME IInv, FinishUno
  PROVE  IInv'
<1> USE McpAssumption DEF IInv
<1>r. PICK r \in Requests : running = Item(r, "uno") /\ running.req = r
  BY DEF FinishUno, QueueInv, Items, Item, Idle
<1>0. /\ running = Item(r, "uno") /\ OnMain(r, "uno")
      /\ running' = Idle /\ UNCHANGED queue /\ ~Contains(queue, Idle)
  <2>1. ~Contains(queue, Idle)
    <3>1. \A x : Contains(queue, x) => x \in Items
      BY ElementOfSeq DEF QueueInv, Contains
    <3>2. Idle \notin Items
      BY DEF Items, Idle, Item
    <3> QED BY <3>1, <3>2
  <2> QED BY <1>r, <2>1 DEF FinishUno, OnMain, ItemInv
<1>1. TypeOK'
  BY <1>0 DEF FinishUno, TypeOK, Idle, Item
<1>2. QueueInv' /\ NoticeInv'
  BY <1>0 DEF FinishUno, QueueInv, NoticeInv
<1>3. ItemInv'
  BY <1>0, ItemEqual DEF FinishUno, TypeOK, Calls, ItemInv, OnMain, QueueInv
<1>4. ToolInv'
  BY <1>0 DEF FinishUno, TypeOK, Calls, ToolInv, Tools, Async, NeedsGate
<1>5. BeganInv'
  BY <1>0, ItemEqual DEF FinishUno, TypeOK, Calls, BeganInv, ItemInv, OnMain
<1>6. KeyInv'
  BY <1>0 DEF FinishUno, TypeOK, Calls, KeyInv, InFlight
<1>7. ScopesMatch'
  BY <1>0 DEF FinishUno, TypeOK, Calls, ScopesMatch, InFlight
<1>8. RefusedDidNothing'
  BY <1>0 DEF FinishUno, TypeOK, Calls, BeganInv, RefusedDidNothing
<1>9. AliveInv'
  BY <1>0, ItemEqual DEF FinishUno, TypeOK, Calls, AliveInv
<1> QED BY <1>1, <1>2, <1>3, <1>4, <1>5, <1>6, <1>7, <1>8, <1>9

LEMMA NotifyStep ==
  ASSUME IInv, NEW n \in Notices, Notify(n)
  PROVE  IInv'
<1> USE McpAssumption DEF IInv
<1>1. TypeOK'
  BY DEF Notify, TypeOK, Calls, New
<1>2. QueueInv' /\ NoticeInv'
  <2>1. PICK k \in Keys :
          notice' = [notice EXCEPT ![n] = [pc |-> "cancel", todo |-> scopes[k], at |-> Nobody]]
    BY DEF Notify
  <2>2. scopes[k] \in SUBSET Requests
    BY DEF TypeOK
  <2> QED BY <2>1, <2>2 DEF Notify, QueueInv, NoticeInv
<1>3. ItemInv'
  BY DEF Notify, TypeOK, Calls, ItemInv, OnMain
<1>4. ToolInv'
  BY DEF Notify, TypeOK, Calls, ToolInv, Tools, Async, NeedsGate
<1>5. BeganInv'
  BY DEF Notify, TypeOK, Calls, BeganInv
<1>6. KeyInv'
  BY DEF Notify, TypeOK, Calls, KeyInv, InFlight
<1>7. ScopesMatch'
  BY DEF Notify, TypeOK, Calls, ScopesMatch, InFlight
<1>8. RefusedDidNothing'
  BY DEF Notify, TypeOK, Calls, BeganInv, RefusedDidNothing
<1>9. AliveInv'
  BY DEF Notify, TypeOK, Calls, AliveInv
<1> QED BY <1>1, <1>2, <1>3, <1>4, <1>5, <1>6, <1>7, <1>8, <1>9

LEMMA NoticeDoneStep ==
  ASSUME IInv, NEW n \in Notices, NoticeDone(n)
  PROVE  IInv'
<1> USE McpAssumption DEF IInv
<1>1. TypeOK'
  BY DEF NoticeDone, TypeOK, Calls, New
<1>2. QueueInv' /\ NoticeInv'
  BY DEF NoticeDone, QueueInv, NoticeInv
<1>3. ItemInv'
  BY DEF NoticeDone, TypeOK, Calls, ItemInv, OnMain
<1>4. ToolInv'
  BY DEF NoticeDone, TypeOK, Calls, ToolInv, Tools, Async, NeedsGate
<1>5. BeganInv'
  BY DEF NoticeDone, TypeOK, Calls, BeganInv
<1>6. KeyInv'
  BY DEF NoticeDone, TypeOK, Calls, KeyInv, InFlight
<1>7. ScopesMatch'
  BY DEF NoticeDone, TypeOK, Calls, ScopesMatch, InFlight
<1>8. RefusedDidNothing'
  BY DEF NoticeDone, TypeOK, Calls, BeganInv, RefusedDidNothing
<1>9. AliveInv'
  BY DEF NoticeDone, TypeOK, Calls, AliveInv
<1> QED BY <1>1, <1>2, <1>3, <1>4, <1>5, <1>6, <1>7, <1>8, <1>9

LEMMA FlagStep ==
  ASSUME IInv, NEW n \in Notices, Flag(n)
  PROVE  IInv'
<1> USE McpAssumption DEF IInv
<1>1. PICK r \in notice[n].todo :
        /\ req' = [req EXCEPT ![r].stopped = TRUE]
        /\ notice' = [notice EXCEPT ![n].todo = @ \ {r},
                                    ![n].at = IF req[r].stopped THEN Nobody ELSE r]
        /\ UNCHANGED <<permit, gate, scopes, queue, running>>
  BY DEF Flag
<1>2. r \in Requests /\ req[r] \in Calls
  BY DEF NoticeInv, TypeOK
<1>3. TypeOK'
  <2>1. [req[r] EXCEPT !.stopped = TRUE] \in Calls
    BY <1>2 DEF Calls
  <2>2. req' \in [Requests -> Calls]
    BY <1>1, <1>2, <2>1, RecordStep
  <2> QED BY <1>1, <2>2 DEF TypeOK
<1>4. QueueInv'
  BY <1>1 DEF QueueInv
<1>5. NoticeInv'
  <2>1. notice[n] \in [pc : {"new", "cancel", "done"}, todo : SUBSET Requests,
                       at : Requests \cup {Nobody}]
    BY DEF NoticeInv
  <2>2. ASSUME NEW a \in Requests \cup {Nobody}
        PROVE  [notice[n] EXCEPT !.todo = @ \ {r}, !.at = a]
                 \in [pc : {"new", "cancel", "done"}, todo : SUBSET Requests,
                      at : Requests \cup {Nobody}]
    BY <2>1
  <2>3. notice' = [notice EXCEPT ![n] = [notice[n] EXCEPT !.todo = @ \ {r},
                     !.at = IF req[r].stopped THEN Nobody ELSE r]]
    BY <1>1
  <2>4. (IF req[r].stopped THEN Nobody ELSE r) \in Requests \cup {Nobody}
    BY <1>2
  <2> QED BY <2>2, <2>3, <2>4 DEF NoticeInv
<1>6. ItemInv' /\ ToolInv' /\ BeganInv' /\ AliveInv' /\ KeyInv' /\ ScopesMatch'
      /\ RefusedDidNothing'
  <2>1. /\ \A q \in Requests : /\ req'[q].pc = req[q].pc /\ req'[q].asked = req[q].asked
                               /\ req'[q].alive = req[q].alive /\ req'[q].tool = req[q].tool
                               /\ req'[q].doc = req[q].doc /\ req'[q].began = req[q].began
                               /\ req'[q].answer = req[q].answer /\ req'[q].key = req[q].key
        /\ UNCHANGED <<permit, gate, scopes, queue, running>>
    BY <1>1, <1>2 DEF TypeOK, Calls
  <2>2. ItemInv'
    BY <2>1 DEF ItemInv, OnMain
  <2>3. ToolInv' /\ BeganInv' /\ AliveInv'
    BY <2>1 DEF ToolInv, BeganInv, AliveInv
  <2>4. KeyInv' /\ ScopesMatch' /\ RefusedDidNothing'
    BY <2>1 DEF KeyInv, ScopesMatch, RefusedDidNothing, InFlight
  <2> QED BY <2>2, <2>3, <2>4
<1> QED BY <1>3, <1>4, <1>5, <1>6

LEMMA SweepStep ==
  ASSUME IInv, NEW n \in Notices, Sweep(n)
  PROVE  IInv'
<1> USE McpAssumption DEF IInv
<1>1. PICK r : r = notice[n].at
  OBVIOUS
<1> DEFINE i == Item(r, "prepare")
<1>2. r \in Requests /\ req[r] \in Calls
  BY <1>1 DEF Sweep, NoticeInv, TypeOK
<1>3. /\ queue' \in Seq(Items) /\ IsDistinct(queue')
      /\ \A x : Contains(queue', x) <=> Contains(queue, x) /\ x # i
      /\ UNCHANGED <<permit, gate, scopes, running>>
      /\ notice' = [notice EXCEPT ![n].at = Nobody]
      /\ ~Contains(queue, running)
  BY <1>1, WithoutProperties DEF Sweep, Swept, QueueInv
<1>4. QueueInv' /\ NoticeInv'
  BY <1>3 DEF QueueInv, NoticeInv
<1>5. CASE Contains(queue, i)
  <2>1. /\ req' = [req EXCEPT ![r] = [req[r] EXCEPT !.pc = "over", !.answer = "error"]]
        /\ req[r].pc = "prepare" /\ i # running
    BY <1>1, <1>2, <1>3, <1>5 DEF Sweep, ItemInv, OnMain
  <2>2. TypeOK'
    <3>1. [req[r] EXCEPT !.pc = "over", !.answer = "error"] \in Calls
      BY <1>2 DEF Calls
    <3> QED BY <1>2, <1>3, <2>1, <3>1, RecordStep DEF TypeOK
  <2>3. ItemInv'
    BY <1>2, <1>3, <2>1, ItemEqual DEF TypeOK, Calls, ItemInv, OnMain
  <2>4. ToolInv'
    BY <1>2, <1>3, <2>1 DEF TypeOK, Calls, ToolInv, Tools, Async, NeedsGate
  <2>5. BeganInv' /\ RefusedDidNothing'
    BY <1>2, <1>3, <2>1 DEF TypeOK, Calls, BeganInv, RefusedDidNothing
  <2>6. KeyInv' /\ ScopesMatch'
    BY <1>2, <1>3, <2>1 DEF TypeOK, Calls, KeyInv, ScopesMatch, InFlight
  <2>7. AliveInv'
    BY <1>2, <1>3, <2>1 DEF TypeOK, Calls, AliveInv
  <2> QED BY <1>4, <2>2, <2>3, <2>4, <2>5, <2>6, <2>7
<1>6. CASE ~Contains(queue, i)
  <2>1. UNCHANGED req /\ \A x : Contains(queue', x) => Contains(queue, x)
    BY <1>1, <1>3, <1>6 DEF Sweep
  <2>2. ItemInv'
    BY <1>3, <2>1 DEF ItemInv, OnMain
  <2>3. TypeOK' /\ ToolInv' /\ BeganInv' /\ AliveInv' /\ KeyInv' /\ ScopesMatch'
        /\ RefusedDidNothing'
    BY <1>3, <2>1 DEF TypeOK, ToolInv, BeganInv, AliveInv, KeyInv, ScopesMatch,
                      RefusedDidNothing, InFlight
  <2> QED BY <1>4, <2>2, <2>3
<1> QED BY <1>5, <1>6

-----------------------------------------------------------------------------
LEMMA InitInv == Init => IInv
<1> SUFFICES ASSUME Init PROVE IInv
  OBVIOUS
<1>1. New \in Calls /\ Idle.req = Nobody
  BY DEF New, Calls, Idle, Item
<1>2. TypeOK
  BY <1>1 DEF Init, TypeOK
<1>3. QueueInv /\ NoticeInv
  BY EmptyContains DEF Init, QueueInv, NoticeInv
<1>4. ItemInv
  BY EmptyContains, ItemEqual DEF Init, ItemInv, OnMain, New
<1>5. ToolInv /\ BeganInv /\ AliveInv /\ KeyInv
  BY DEF Init, ToolInv, BeganInv, AliveInv, KeyInv, InFlight, New, NeedsGate
<1>6. ScopesMatch /\ RefusedDidNothing
  BY DEF Init, ScopesMatch, RefusedDidNothing, InFlight, New
<1> QED BY <1>2, <1>3, <1>4, <1>5, <1>6 DEF IInv

LEMMA StepInv == IInv /\ [Next]_vars => IInv'
<1> SUFFICES ASSUME IInv, [Next]_vars PROVE IInv'
  OBVIOUS
<1>1. CASE UNCHANGED vars
  BY <1>1 DEF vars, IInv, TypeOK, QueueInv, NoticeInv, ItemInv, ToolInv, BeganInv, AliveInv,
              KeyInv, ScopesMatch, RefusedDidNothing, InFlight, OnMain
<1>2. ASSUME NEW r \in Requests, Work(r) PROVE IInv'
  BY <1>2, TakePermitStep, PutPermitBackStep, TakeGateStep, CheckAgentStep, EnterAgentStep,
     PutGateBackStep, ReplyStep DEF Work
<1>3. ASSUME NEW r \in Requests, Timeout(r) PROVE IInv'
  BY <1>3, PermitTimeoutStep, GiveUpStep, GateTimeoutStep, AgentTimeoutStep DEF Timeout
<1>4. CASE Main
  BY <1>4, ClaimStep, FinishPrepareStep, EnterBodyStep, FinishBodyStep, FinishUnoStep DEF Main
<1>5. ASSUME NEW n \in Notices, Cancel(n) PROVE IInv'
  BY <1>5, NotifyStep, FlagStep, SweepStep, NoticeDoneStep DEF Cancel
<1> QED
  BY <1>1, <1>2, <1>3, <1>4, <1>5, ArriveStep, RefuseEarlyStep, AskMainStep, AgentEndsStep DEF Next

\* IInv holds in every reachable state.
THEOREM Invariance == Spec => []IInv
BY InitInv, StepInv, PTL DEF Spec

\* The permit is with the call the main thread works for, and a key's scopes are
\* exactly its calls in flight.
THEOREM CallsInOrder == Spec => []CallInv
<1>1. IInv => CallInv
  BY DEF IInv, CallInv, OneFastTool, ItemInv
<1> QED BY <1>1, Invariance, PTL

\* Of two edits of one document that overlap, on the main thread, off it, or one
\* here and one there, one has been abandoned at its own deadline and is answered
\* with an error: the gate is with every other.
THEOREM EditsUnderTheGate == Spec => []EditsApart
<1>1. IInv => EditsApart
  <2> SUFFICES ASSUME IInv, NEW r \in Requests, NEW q \in Requests, r # q, Editing(r), Editing(q),
                      req[r].doc = req[q].doc, ~Abandoned(r), ~Abandoned(q)
               PROVE  FALSE
    BY DEF EditsApart
  <2>1. ASSUME NEW c \in Requests, Editing(c), ~Abandoned(c)
        PROVE  req[c].doc \in Docs /\ gate[req[c].doc] = c
    BY <2>1 DEF IInv, AliveInv, ToolInv, Editing, Abandoned
  <2> QED BY <2>1
<1> QED BY <1>1, Invariance, PTL

\* A call answered 429 or 504 has not begun its tool ...
THEOREM RefusalIsTrue == Spec => []RefusedDidNothing
<1>1. IInv => RefusedDidNothing
  BY DEF IInv
<1> QED BY <1>1, Invariance, PTL

\* ... and a call that was cancelled before its last look at the scope does not
\* get past it any more.
THEOREM StopComesFirst == Spec => StopBeforeStart
<1>1. IInv /\ [Next]_vars =>
        [\A r \in Requests : req[r].stopped /\ ~Passed(r) => ~Passed(r)']_vars
  <2> SUFFICES ASSUME IInv, Next, NEW r \in Requests, req[r].stopped, ~Passed(r)
               PROVE  ~Passed(r)'
    OBVIOUS
  <2>0. /\ ~req[r].began /\ req[r].pc # "enter" /\ running # Item(r, "body")
        /\ req \in [Requests -> Calls]
    BY DEF Passed, IInv, TypeOK
  <2> SUFFICES ~req'[r].began /\ req'[r].pc # "enter" /\ running' # Item(r, "body")
    BY DEF Passed
  <2> USE DEF Calls
  <2>1. ASSUME NEW q \in Requests,
               Arrive(q) \/ RefuseEarly(q) \/ Work(q) \/ Timeout(q) \/ AskMain(q) \/ AgentEnds(q)
        PROVE  ~req'[r].began /\ req'[r].pc # "enter" /\ running' # Item(r, "body")
    <3>1. CASE Arrive(q) \/ AskMain(q) \/ AgentEnds(q)
      BY <2>0, <3>1 DEF Arrive, AskMain, AgentEnds
    <3>2. CASE TakePermit(q) \/ PutPermitBack(q) \/ TakeGate(q) \/ PutGateBack(q)
      BY <2>0, <3>2 DEF TakePermit, PutPermitBack, AfterPrepare, TakeGate, PutGateBack, To
    <3>3. CASE CheckAgent(q)
      BY <2>0, <3>3 DEF CheckAgent, Refuses, Over, To
    <3>4. CASE EnterAgent(q)
      BY <2>0, <3>4 DEF EnterAgent
    <3>5. CASE Reply(q)
      BY <2>0, <3>5 DEF Reply, Answered, New
    <3>6. CASE Timeout(q) \/ RefuseEarly(q)
      BY <2>0, <3>6 DEF Timeout, PermitTimeout, GiveUp, GateTimeout, AgentTimeout, RefuseEarly, Over
    <3> QED BY <2>1, <3>1, <3>2, <3>3, <3>4, <3>5, <3>6 DEF Work
  <2>2. CASE Claim
    <3>1. CASE UNCHANGED running
      BY <2>0, <2>2, <3>1 DEF Claim, Over
    <3>2. CASE running' = Head(queue) /\ UNCHANGED req
      <4>1. Head(queue) = Item(r, "body") => FALSE
        BY <2>2, <3>2 DEF Claim, Refuses, Over, Item, Idle
      <4> QED BY <2>0, <3>2, <4>1
    <3> QED BY <2>2, <3>1, <3>2 DEF Claim
  <2>3. CASE FinishPrepare \/ EnterBody \/ FinishBody \/ FinishUno
    <3>0. Idle # Item(r, "body")
      BY DEF Idle, Item
    <3>1. CASE FinishPrepare
      <4>1. PICK t \in Tools : \E d \in IF t \in NeedsGate THEN Docs ELSE {Nobody} :
              req' = [req EXCEPT ![running.req].pc = "prepared", ![running.req].tool = t,
                        ![running.req].doc = d,
                        ![running.req].answer = IF t = "refused" THEN "error" ELSE @]
        BY <3>1 DEF FinishPrepare
      <4> QED BY <2>0, <3>0, <3>1, <4>1 DEF FinishPrepare
    <3>2. CASE FinishBody \/ FinishUno
      BY <2>0, <3>0, <3>2 DEF FinishBody, FinishUno
    <3>3. CASE EnterBody
      <4>1. PICK q \in Requests : running = Item(q, "body") /\ running.req = q
        BY <3>3 DEF EnterBody, IInv, QueueInv, Items, Item, Idle
      <4>2. q # r
        BY <2>0, <4>1
      <4> QED BY <2>0, <3>3, <4>1, <4>2 DEF EnterBody
    <3> QED BY <2>3, <3>1, <3>2, <3>3
  <2>4. ASSUME NEW n \in Notices, Cancel(n)
        PROVE  ~req'[r].began /\ req'[r].pc # "enter" /\ running' # Item(r, "body")
    <3>1. CASE Notify(n) \/ NoticeDone(n)
      BY <2>0, <3>1 DEF Notify, NoticeDone
    <3>2. CASE Flag(n)
      <4>1. \E q : req' = [req EXCEPT ![q].stopped = TRUE]
        BY <3>2 DEF Flag
      <4> QED BY <2>0, <3>2, <4>1 DEF Flag
    <3>3. CASE Sweep(n)
      <4>1. \/ UNCHANGED req
            \/ req' = [req EXCEPT ![notice[n].at].pc = "over", ![notice[n].at].answer = "error"]
        BY <3>3 DEF Sweep
      <4> QED BY <2>0, <3>3, <4>1 DEF Sweep
    <3> QED BY <2>4, <3>1, <3>2, <3>3 DEF Cancel
  <2> QED BY <2>1, <2>2, <2>3, <2>4 DEF Next, Main
<1> QED BY <1>1, Invariance, PTL DEF Spec, StopBeforeStart
=============================================================================
