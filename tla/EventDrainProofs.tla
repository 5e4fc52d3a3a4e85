---------------------------- MODULE EventDrainProofs ----------------------------
(***************************************************************************)
(* Proofs about EventDrain: for any number of fragments, workers and       *)
(* failures and any limits, a slice to come and the text wherever it is    *)
(* satisfy DrainInv, and the drain implements StreamPromise.               *)
(***************************************************************************)
EXTENDS EventDrain, SequencesExt, SequenceTheorems,
        FiniteSetTheorems, WellFoundedInduction, TLAPS

-----------------------------------------------------------------------------
(* Numbers.                                                                *)

\* Every non-empty set of natural numbers has a least element: < on Nat is
\* well-founded, which the library states without an operator parameter.
LEMMA LeastNat ==
  ASSUME NEW T \in SUBSET Nat, T # {}
  PROVE  \E n \in T : \A m \in T : n <= m
<1> DEFINE R == {ss \in Nat \X Nat : ss[1] < ss[2]}
<1>1. IsWellFoundedOn(R, Nat)
  BY NatLessThanWellFounded, Zenon DEF OpToRel
<1>2. PICK x \in T : \A y \in T : <<y, x>> \notin R
  <2> HIDE DEF R
  <2> QED BY <1>1, WFMin
<1>3. \A y \in T : ~(y < x)
  BY <1>2
<1> QED BY <1>2, <1>3

\* Induction up to a bound: a set that has 0 and, with every n below the
\* bound, n + 1.
LEMMA BoundedInduction ==
  ASSUME NEW N \in Nat, NEW G,
         0 \in G, \A n \in 1 .. N : n - 1 \in G => n \in G
  PROVE  0 .. N \subseteq G
<1> DEFINE Bad == (0 .. N) \ G
<1> SUFFICES ASSUME Bad # {} PROVE FALSE
  OBVIOUS
<1>1. Bad \in SUBSET Nat
  OBVIOUS
<1>2. PICK m \in Bad : \A k \in Bad : m <= k
  <2> HIDE DEF Bad
  <2> QED BY <1>1, LeastNat
<1>3. m \in 1 .. N /\ m - 1 \in 0 .. N
  OBVIOUS
<1>4. m - 1 \in G
  <2> SUFFICES ASSUME m - 1 \notin G PROVE FALSE
    OBVIOUS
  <2>1. m - 1 \in Bad
    BY <1>3
  <2>2. m <= m - 1
    BY <2>1, <1>2
  <2> QED BY <2>2, <1>3
<1> QED BY <1>3, <1>4

-----------------------------------------------------------------------------
(* Texts: sequences of fragments, with the laws of \o they need.           *)

Texts == Seq(Fragments)

\* One text behind another.
LEMMA Joined ==
  ASSUME NEW a \in Texts, NEW b \in Texts
  PROVE  a \o b \in Texts
BY ConcatProperties DEF Texts

\* Where the fragments of the two are.
LEMMA JoinedAt ==
  ASSUME NEW a \in Texts, NEW b \in Texts
  PROVE  /\ Len(a) \in Nat /\ Len(b) \in Nat /\ Len(a \o b) = Len(a) + Len(b)
         /\ \A i \in 1 .. Len(a) + Len(b) : (a \o b)[i] = IF i <= Len(a) THEN a[i] ELSE b[i - Len(a)]
BY ConcatProperties, LenProperties DEF Texts

\* The empty text.
LEMMA NoText ==
  /\ <<>> \in Texts
  /\ \A a \in Texts : a \o <<>> = a /\ <<>> \o a = a
BY EmptySeq, ConcatEmptySeq DEF Texts

\* Three texts, bracketed from either side.
LEMMA Regroup ==
  ASSUME NEW a \in Texts, NEW b \in Texts, NEW c \in Texts
  PROVE  (a \o b) \o c = a \o (b \o c)
BY ConcatAssociative DEF Texts

-----------------------------------------------------------------------------
(* Text and Folded: what the two recursive functions return.               *)

\* The function in Text.
IsText(q, f) ==
  /\ f \in [0 .. Len(q) -> Texts]
  /\ f[0] = <<>>
  /\ \A n \in 1 .. Len(q) : f[n] = f[n - 1] \o q[n].text

\* What an item of the queue holds.
LEMMA ItemFields ==
  ASSUME NEW x \in Items
  PROVE  /\ x.kind \in Kinds \cup {"done"} /\ x.text \in Texts
         /\ (x.kind = "done" => x = DoneItem /\ x.text = <<>>)
         /\ (x.kind # "done" => x.kind \in Kinds /\ x \in [kind : Kinds, text : Texts])
<1>1. <<>> \in Texts
  BY NoText
<1>2. CASE x = DoneItem
  BY <1>1, <1>2 DEF DoneItem, Kinds
<1>3. CASE x \in [kind : Kinds, text : Texts]
  BY <1>3 DEF Kinds
<1> QED BY <1>2, <1>3 DEF Items, Texts

\* The recursive function in Text exists, and Text is its last value.
LEMMA TextFunction ==
  ASSUME NEW q \in Seq(Items)
  PROVE  \E f : IsText(q, f) /\ Text(q) = f[Len(q)]
<1> DEFINE Solves(f, m) == /\ f \in [0 .. m -> Texts]
                           /\ \A n \in 0 .. m : f[n] = TextStep(q, f, n)
           G == {m \in 0 .. Len(q) : \E f : Solves(f, m)}
<1>0. Len(q) \in Nat
  BY LenProperties
<1>1. 0 \in G
  <2> DEFINE g == [n \in 0 .. 0 |-> <<>>]
  <2>1. Solves(g, 0)
    BY NoText DEF TextStep
  <2>2. 0 \in 0 .. Len(q)
    BY <1>0
  <2> QED BY <2>1, <2>2
<1>2. ASSUME NEW m \in 1 .. Len(q), m - 1 \in G PROVE m \in G
  <2>1. PICK f : Solves(f, m - 1)
    BY <1>2
  <2> DEFINE g == [n \in 0 .. m |-> IF n < m THEN f[n] ELSE TextStep(q, f, m)]
  <2>2. m \in Nat /\ m # 0 /\ m - 1 \in 0 .. m - 1
    BY <1>0
  <2>3. q[m].text \in Texts /\ f[m - 1] \in Texts
    BY <2>1, <2>2, ElementOfSeq, ItemFields
  <2>4. TextStep(q, f, m) \in Texts
    BY <2>2, <2>3, Joined DEF TextStep
  <2>5. \A n \in 0 .. m : n < m => n \in 0 .. m - 1
    BY <2>2
  <2>6. g \in [0 .. m -> Texts]
    BY <2>1, <2>4, <2>5
  <2>7. ASSUME NEW n \in 0 .. m PROVE g[n] = TextStep(q, g, n)
    <3>1. n = 0 \/ (n - 1 \in 0 .. m - 1 /\ n - 1 \in 0 .. m /\ n - 1 < m)
      BY <2>2
    <3>2. g[n] = TextStep(q, f, n)
      BY <2>1, <2>5, <2>2
    <3>3. n # 0 => g[n - 1] = f[n - 1]
      BY <3>1
    <3> HIDE DEF g
    <3> QED BY <3>2, <3>3 DEF TextStep
  <2>8. Solves(g, m)
    BY <2>6, <2>7
  <2> HIDE DEF Solves
  <2> QED BY <2>8, <1>0
<1>3. Len(q) \in G
  <2> HIDE DEF G
  <2>1. 0 .. Len(q) \subseteq G
    BY <1>0, <1>1, <1>2, BoundedInduction
  <2> QED BY <2>1, <1>0
<1>4. PICK f : Solves(f, Len(q))
  BY <1>3
<1>5. f = [n \in 0 .. Len(q) |-> TextStep(q, f, n)]
  BY <1>4
<1> DEFINE h == CHOOSE f1 : f1 = [n \in 0 .. Len(q) |-> TextStep(q, f1, n)]
<1>6. h = [n \in 0 .. Len(q) |-> TextStep(q, h, n)]
  BY <1>5
<1>7. Text(q) = h[Len(q)]
  BY DEF Text
<1> HIDE DEF h
<1>8. h[0] = <<>> /\ \A n \in 1 .. Len(q) : h[n] = h[n - 1] \o q[n].text
  BY <1>6, <1>0 DEF TextStep
<1>9. \A n \in 0 .. Len(q) : h[n] = f[n]
  <2> DEFINE H == {n \in 0 .. Len(q) : h[n] = f[n]}
  <2>1. 0 \in H
    <3>1. 0 \in 0 .. Len(q) /\ f[0] = TextStep(q, f, 0)
      BY <1>0, <1>4
    <3>2. f[0] = <<>>
      BY <3>1 DEF TextStep
    <3> QED BY <3>1, <3>2, <1>8
  <2>2. ASSUME NEW n \in 1 .. Len(q), n - 1 \in H PROVE n \in H
    <3>1. n \in 0 .. Len(q) /\ n # 0
      BY <1>0
    <3> QED BY <2>2, <3>1, <1>4, <1>8 DEF TextStep
  <2>3. 0 .. Len(q) \subseteq H
    <3> HIDE DEF H
    <3> QED BY <1>0, <2>1, <2>2, BoundedInduction
  <2> QED BY <2>3
<1>10. h \in [0 .. Len(q) -> Texts]
  BY <1>4, <1>6, <1>9
<1> QED BY <1>7, <1>8, <1>10 DEF IsText

\* Two functions that build the same text agree.
LEMMA TextUnique ==
  ASSUME NEW q \in Seq(Items), NEW f, IsText(q, f)
  PROVE  Text(q) = f[Len(q)]
<1>1. PICK h : IsText(q, h) /\ Text(q) = h[Len(q)]
  BY TextFunction
<1>2. Len(q) \in Nat
  BY LenProperties
<1> DEFINE H == {n \in 0 .. Len(q) : h[n] = f[n]}
<1>3. 0 \in H
  BY <1>2, <1>1 DEF IsText
<1>4. ASSUME NEW n \in 1 .. Len(q), n - 1 \in H PROVE n \in H
  <2>1. n \in 0 .. Len(q)
    BY <1>2
  <2> QED BY <2>1, <1>4, <1>1 DEF IsText
<1>5. 0 .. Len(q) \subseteq H
  <2> HIDE DEF H
  <2> QED BY <1>2, <1>3, <1>4, BoundedInduction
<1>6. Len(q) \in H
  BY <1>5, <1>2
<1> QED BY <1>6, <1>1

\* The text of items is a sequence of fragments.
LEMMA TextType ==
  ASSUME NEW q \in Seq(Items)
  PROVE  Text(q) \in Texts
<1>1. PICK h : IsText(q, h) /\ Text(q) = h[Len(q)]
  BY TextFunction
<1>2. Len(q) \in 0 .. Len(q)
  BY LenProperties
<1> QED BY <1>1, <1>2 DEF IsText

\* No items, no text.
LEMMA TextEmpty == Text(<<>>) = <<>>
<1>1. PICK h : IsText(<<>>, h) /\ Text(<<>>) = h[Len(<<>>)]
  BY TextFunction, EmptySeq
<1> QED BY <1>1, EmptySeq DEF IsText

\* One item.
LEMMA TextOne ==
  ASSUME NEW x \in Items
  PROVE  Text(<<x>>) = x.text
<1>1. <<x>> \in Seq(Items) /\ Len(<<x>>) = 1 /\ <<x>>[1] = x
  OBVIOUS
<1>2. PICK h : IsText(<<x>>, h) /\ Text(<<x>>) = h[Len(<<x>>)]
  BY TextFunction, <1>1
<1>3. h[0] = <<>> /\ h[1] = h[0] \o x.text
  <2>1. 1 \in 1 .. Len(<<x>>) /\ 1 - 1 = 0
    BY <1>1
  <2> QED BY <2>1, <1>1, <1>2 DEF IsText
<1>4. x.text \in Texts
  BY ItemFields
<1>5. <<>> \o x.text = x.text
  BY <1>4, NoText
<1> QED BY <1>1, <1>2, <1>3, <1>5

\* The text of two runs of items is the one text after the other.
LEMMA TextConcat ==
  ASSUME NEW p \in Seq(Items), NEW q \in Seq(Items)
  PROVE  Text(p \o q) = Text(p) \o Text(q)
<1>1. PICK f : IsText(p, f) /\ Text(p) = f[Len(p)]
  BY TextFunction
<1>2. PICK g : IsText(q, g) /\ Text(q) = g[Len(q)]
  BY TextFunction
<1>3. /\ Len(p) \in Nat /\ Len(q) \in Nat /\ p \o q \in Seq(Items)
      /\ Len(p \o q) = Len(p) + Len(q)
      /\ \A i \in 1 .. Len(p) + Len(q) : (p \o q)[i] = IF i <= Len(p) THEN p[i] ELSE q[i - Len(p)]
  BY LenProperties, ConcatProperties
<1> DEFINE P == Len(p)
           Q == Len(q)
           h == [n \in 0 .. P + Q |-> IF n <= P THEN f[n] ELSE f[P] \o g[n - P]]
<1>4. f[P] \in Texts /\ \A n \in 0 .. Q : g[n] \in Texts
  <2>1. P \in 0 .. P
    BY <1>3
  <2> QED BY <2>1, <1>1, <1>2 DEF IsText
<1>5. h \in [0 .. P + Q -> Texts]
  <2> SUFFICES ASSUME NEW n \in 0 .. P + Q
               PROVE  (IF n <= P THEN f[n] ELSE f[P] \o g[n - P]) \in Texts
    OBVIOUS
  <2>1. CASE n <= P
    <3>1. n \in 0 .. P
      BY <1>3, <2>1
    <3> QED BY <3>1, <2>1, <1>1 DEF IsText
  <2>2. CASE ~(n <= P)
    <3>1. n - P \in 0 .. Q
      BY <1>3, <2>2
    <3>2. g[n - P] \in Texts
      BY <3>1, <1>4
    <3> QED BY <3>2, <2>2, <1>4, Joined
  <2> QED BY <2>1, <2>2
<1>6. h[0] = <<>>
  BY <1>1, <1>3 DEF IsText
<1>7. ASSUME NEW n \in 1 .. P + Q PROVE h[n] = h[n - 1] \o (p \o q)[n].text
  <2>1. n \in 0 .. P + Q /\ n - 1 \in 0 .. P + Q
    BY <1>3
  <2>2. CASE n <= P
    <3>1. n \in 1 .. P /\ n - 1 <= P /\ (p \o q)[n] = p[n]
      BY <1>3, <2>2
    <3>2. f[n] = f[n - 1] \o p[n].text
      BY <3>1, <1>1 DEF IsText
    <3>3. h[n] = f[n] /\ h[n - 1] = f[n - 1]
      BY <2>1, <2>2, <3>1
    <3> QED BY <3>1, <3>2, <3>3
  <2>3. CASE ~(n <= P)
    <3>1. n - P \in 1 .. Q /\ (n - 1) - P = (n - P) - 1 /\ (p \o q)[n] = q[n - P] /\ (n - P) - 1 \in 0 .. Q
      BY <1>3, <2>3
    <3>2. g[n - P] = g[(n - P) - 1] \o q[n - P].text
      BY <3>1, <1>2 DEF IsText
    <3>3. h[n] = f[P] \o g[n - P]
      BY <2>1, <2>3
    <3>4. h[n - 1] = f[P] \o g[(n - P) - 1]
      <4>1. CASE n - 1 <= P
        <5>1. n - 1 = P /\ (n - P) - 1 = 0
          BY <4>1, <2>3, <1>3
        <5>2. h[n - 1] = f[P] /\ g[0] = <<>>
          BY <5>1, <4>1, <2>1, <1>2 DEF IsText
        <5>3. f[P] \o <<>> = f[P]
          BY <1>4, NoText
        <5> HIDE DEF h
        <5> QED BY <5>1, <5>2, <5>3
      <4>2. CASE ~(n - 1 <= P)
        BY <4>2, <2>1, <3>1
      <4> QED BY <4>1, <4>2
    <3>5. q[n - P] \in Items
      BY <3>1, ElementOfSeq
    <3>6. q[n - P].text \in Texts
      BY <3>5, ItemFields
    <3>7. g[(n - P) - 1] \in Texts
      BY <3>1, <1>4
    <3>8. (f[P] \o g[(n - P) - 1]) \o q[n - P].text = f[P] \o (g[(n - P) - 1] \o q[n - P].text)
      <4> DEFINE a == f[P]  b == g[(n - P) - 1]  c == q[n - P].text
      <4>1. a \in Texts /\ b \in Texts /\ c \in Texts
        BY <1>4, <3>6, <3>7
      <4> HIDE DEF a, b, c
      <4>2. (a \o b) \o c = a \o (b \o c)
        BY <4>1, Regroup
      <4> QED BY <4>2 DEF a, b, c
    <3> HIDE DEF h
    <3> QED BY <3>1, <3>2, <3>3, <3>4, <3>8
  <2> QED BY <2>2, <2>3
<1>8. IsText(p \o q, h)
  <2> HIDE DEF h
  <2> QED BY <1>3, <1>5, <1>6, <1>7 DEF IsText
<1>9. Text(p \o q) = h[P + Q]
  <2> HIDE DEF h
  <2> QED BY <1>8, <1>3, TextUnique
<1>10. h[P + Q] = f[P] \o g[Q]
  <2>1. P + Q \in 0 .. P + Q
    BY <1>3
  <2>2. CASE Q = 0
    <3>1. g[Q] = <<>> /\ h[P + Q] = f[P]
      BY <2>2, <2>1, <1>2, <1>3 DEF IsText
    <3>2. f[P] \o <<>> = f[P]
      BY <1>4, NoText
    <3> HIDE DEF h
    <3> QED BY <3>1, <3>2
  <2>3. CASE Q # 0
    <3>1. ~(P + Q <= P) /\ (P + Q) - P = Q
      BY <2>3, <1>3
    <3> QED BY <3>1, <2>1
  <2> QED BY <2>2, <2>3
<1> QED BY <1>1, <1>2, <1>9, <1>10

-----------------------------------------------------------------------------
(* The screen and its two buffers.                                         *)

Screens == [shown : Texts, thinking : Texts, content : Texts]

\* What the screen and its buffers hold, in the order it will be shown.
Total(d) == (d.shown \o d.thinking) \o d.content

\* What is shown is never taken back.
LEMMA BufferShows ==
  ASSUME NEW d \in Screens, NEW x \in Items
  PROVE  Len(d.shown) \in Nat /\ Len(Buffer(d, x).shown) \in Nat /\ Len(Buffer(d, x).shown) >= Len(d.shown)
<1> DEFINE s == d.shown  t == d.thinking  c == d.content
<1>1. s \in Texts /\ t \in Texts /\ c \in Texts
  BY DEF Screens
<1>2. x.kind \in Kinds \cup {"done"}
  BY ItemFields
<1>3. Buffer(d, x).shown \in {s, (s \o t) \o c}
  <2>1. CASE x.kind = "done"
    BY <2>1 DEF Buffer
  <2>2. CASE x.kind = "thinking"
    BY <2>2 DEF Buffer, Screens
  <2>3. CASE x.kind = "chunk"
    BY <2>3 DEF Buffer, Screens
  <2> QED BY <1>2, <2>1, <2>2, <2>3 DEF Kinds
<1> HIDE DEF s, t, c
<1>4. Len(s) \in Nat /\ Len((s \o t) \o c) \in Nat /\ Len((s \o t) \o c) >= Len(s)
  <2> DEFINE y == s \o t
  <2>1. y \in Texts /\ Len(y) = Len(s) + Len(t) /\ Len(s) \in Nat /\ Len(t) \in Nat
    BY <1>1, Joined, JoinedAt
  <2> HIDE DEF y
  <2>2. Len(y \o c) = Len(y) + Len(c) /\ Len(c) \in Nat
    BY <1>1, <2>1, JoinedAt
  <2>3. Len(y \o c) \in Nat /\ Len(y \o c) >= Len(s)
    BY <2>1, <2>2
  <2> QED BY <2>1, <2>3 DEF y
<1>5. d.shown = s
  BY DEF s
<1> QED BY <1>3, <1>4, <1>5

\* An item's text goes behind everything the screen and its buffers hold.
LEMMA BufferText ==
  ASSUME NEW d \in Screens, NEW x \in Items
  PROVE  Buffer(d, x) \in Screens /\ Total(Buffer(d, x)) = Total(d) \o x.text
<1> DEFINE s == d.shown  t == d.thinking  c == d.content  y == x.text
<1>1. /\ s \in Texts /\ t \in Texts /\ c \in Texts
      /\ d = [shown |-> s, thinking |-> t, content |-> c]
  BY DEF Screens
<1>2. /\ y \in Texts /\ x.kind \in Kinds \cup {"done"} /\ (x.kind = "done" => y = <<>>)
  BY ItemFields
<1>3. Total(d) = (s \o t) \o c
  BY DEF Total
<1> DEFINE all == (s \o t) \o c
<1>4. /\ all \in Texts /\ all \o <<>> = all /\ all \o y \in Texts /\ (all \o y) \o <<>> = all \o y
  <2>1. all \in Texts
    BY <1>1, Joined
  <2> HIDE DEF all, y
  <2> QED BY <2>1, <1>2, Joined, NoText
<1>5. CASE x.kind = "done"
  <2>1. Buffer(d, x) = d
    BY <1>5 DEF Buffer
  <2> QED BY <2>1, <1>2, <1>3, <1>4, <1>5
<1>6. CASE x.kind = "thinking" /\ c # <<>>
  <2>1. Buffer(d, x) = [shown |-> all, thinking |-> y, content |-> <<>>]
    BY <1>6 DEF Buffer
  <2>2. Total(Buffer(d, x)) = (all \o y) \o <<>>
    <3> DEFINE r == Buffer(d, x)
    <3> HIDE DEF r, all, y, s, t, c
    <3>1. Total(r) = (r.shown \o r.thinking) \o r.content
      BY DEF Total
    <3> QED BY <3>1, <2>1 DEF r
  <2>3. Buffer(d, x) \in Screens
    <3> HIDE DEF all, y
    <3> QED BY <2>1, <1>2, <1>4, NoText DEF Screens
  <2> QED BY <2>2, <2>3, <1>3, <1>4
<1>7. CASE x.kind = "thinking" /\ c = <<>>
  <2>1. Buffer(d, x) = [shown |-> s, thinking |-> t \o y, content |-> <<>>]
    BY <1>1, <1>7 DEF Buffer
  <2>2. Total(Buffer(d, x)) = (s \o (t \o y)) \o <<>>
    <3> DEFINE r == Buffer(d, x)
    <3> HIDE DEF r, all, y, s, t, c
    <3>1. Total(r) = (r.shown \o r.thinking) \o r.content
      BY DEF Total
    <3> QED BY <3>1, <2>1 DEF r
  <2> HIDE DEF s, t, y, c
  <2>3. t \o y \in Texts /\ s \o (t \o y) \in Texts
    BY <1>1, <1>2, Joined
  <2>4. Buffer(d, x) \in Screens
    BY <2>1, <2>3, <1>1, NoText DEF Screens
  <2>5. (s \o (t \o y)) \o <<>> = s \o (t \o y)
    BY <2>3, NoText
  <2>6. (s \o t) \o y = s \o (t \o y)
    BY <1>1, <1>2, Regroup
  <2>7. s \o t \in Texts
    BY <1>1, Joined
  <2>8. (s \o t) \o c = s \o t
    BY <2>7, <1>7, NoText
  <2> QED BY <2>2, <2>4, <2>5, <2>6, <2>8, <1>3 DEF y
<1>8. CASE x.kind = "chunk" /\ t # <<>>
  <2>1. Buffer(d, x) = [shown |-> all, thinking |-> <<>>, content |-> y]
    BY <1>8 DEF Buffer
  <2>2. Total(Buffer(d, x)) = (all \o <<>>) \o y
    <3> DEFINE r == Buffer(d, x)
    <3> HIDE DEF r, all, y, s, t, c
    <3>1. Total(r) = (r.shown \o r.thinking) \o r.content
      BY DEF Total
    <3> QED BY <3>1, <2>1 DEF r
  <2>3. Buffer(d, x) \in Screens
    <3> HIDE DEF all, y
    <3> QED BY <2>1, <1>2, <1>4, NoText DEF Screens
  <2> QED BY <2>2, <2>3, <1>3, <1>4
<1>9. CASE x.kind = "chunk" /\ t = <<>>
  <2>1. Buffer(d, x) = [shown |-> s, thinking |-> <<>>, content |-> c \o y]
    BY <1>1, <1>9 DEF Buffer
  <2>2. Total(Buffer(d, x)) = (s \o <<>>) \o (c \o y)
    <3> DEFINE r == Buffer(d, x)
    <3> HIDE DEF r, all, y, s, t, c
    <3>1. Total(r) = (r.shown \o r.thinking) \o r.content
      BY DEF Total
    <3> QED BY <3>1, <2>1 DEF r
  <2> HIDE DEF s, t, y, c
  <2>3. c \o y \in Texts /\ s \o <<>> = s
    BY <1>1, <1>2, Joined, NoText
  <2>4. Buffer(d, x) \in Screens
    BY <2>1, <2>3, <1>1, NoText DEF Screens
  <2>5. (s \o c) \o y = s \o (c \o y)
    BY <1>1, <1>2, Regroup
  <2> QED BY <2>2, <2>3, <2>4, <2>5, <1>3, <1>9 DEF y
<1> QED BY <1>2, <1>5, <1>6, <1>7, <1>8, <1>9 DEF Kinds

\* The function in Folded exists; its values are screens that hold the text
\* of the items behind what was there before.
LEMMA FoldedText ==
  ASSUME NEW q \in Seq(Items), Screen \in Screens
  PROVE  /\ Folded(q) \in Screens /\ Total(Folded(q)) = Total(Screen) \o Text(q)
         /\ Len(Folded(q).shown) \in Nat /\ Len(Folded(q).shown) >= Len(shown)
<1> DEFINE Solves(f, m) == /\ f \in [0 .. m -> Screens]
                           /\ \A n \in 0 .. m : f[n] = FoldStep(Screen, q, f, n)
           G == {m \in 0 .. Len(q) : \E f : Solves(f, m)}
<1>0. Len(q) \in Nat
  BY LenProperties
<1>1. 0 \in G
  <2> DEFINE g == [n \in 0 .. 0 |-> Screen]
  <2>1. Solves(g, 0)
    BY DEF FoldStep
  <2>2. 0 \in 0 .. Len(q)
    BY <1>0
  <2> QED BY <2>1, <2>2
<1>2. ASSUME NEW m \in 1 .. Len(q), m - 1 \in G PROVE m \in G
  <2>1. PICK f : Solves(f, m - 1)
    BY <1>2
  <2> DEFINE g == [n \in 0 .. m |-> IF n < m THEN f[n] ELSE FoldStep(Screen, q, f, m)]
  <2>2. m \in Nat /\ m # 0 /\ m - 1 \in 0 .. m - 1
    BY <1>0
  <2>3. q[m] \in Items /\ f[m - 1] \in Screens
    BY <2>1, <2>2, ElementOfSeq
  <2>4. FoldStep(Screen, q, f, m) \in Screens
    BY <2>2, <2>3, BufferText DEF FoldStep
  <2>5. \A n \in 0 .. m : n < m => n \in 0 .. m - 1
    BY <2>2
  <2>6. g \in [0 .. m -> Screens]
    BY <2>1, <2>4, <2>5
  <2>7. ASSUME NEW n \in 0 .. m PROVE g[n] = FoldStep(Screen, q, g, n)
    <3>1. n = 0 \/ (n - 1 \in 0 .. m - 1 /\ n - 1 \in 0 .. m /\ n - 1 < m)
      BY <2>2
    <3>2. g[n] = FoldStep(Screen, q, f, n)
      BY <2>1, <2>5, <2>2
    <3>3. n # 0 => g[n - 1] = f[n - 1]
      BY <3>1
    <3> HIDE DEF g
    <3> QED BY <3>2, <3>3 DEF FoldStep
  <2>8. Solves(g, m)
    BY <2>6, <2>7
  <2> HIDE DEF Solves
  <2> QED BY <2>8, <1>0
<1>3. Len(q) \in G
  <2> HIDE DEF G
  <2>1. 0 .. Len(q) \subseteq G
    BY <1>0, <1>1, <1>2, BoundedInduction
  <2> QED BY <2>1, <1>0
<1>4. PICK f : Solves(f, Len(q))
  BY <1>3
<1>5. f = [n \in 0 .. Len(q) |-> FoldStep(Screen, q, f, n)]
  BY <1>4
<1> DEFINE h == CHOOSE f1 : f1 = [n \in 0 .. Len(q) |-> FoldStep(Screen, q, f1, n)]
<1>6. h = [n \in 0 .. Len(q) |-> FoldStep(Screen, q, h, n)]
  BY <1>5
<1>7. Folded(q) = h[Len(q)]
  BY DEF Folded
<1> HIDE DEF h
<1>8. h[0] = Screen
  BY <1>6, <1>0 DEF FoldStep
<1>9. \A n \in 1 .. Len(q) : h[n] = Buffer(h[n - 1], q[n])
  BY <1>6, <1>0 DEF FoldStep
<1>10. PICK t : IsText(q, t) /\ Text(q) = t[Len(q)]
  BY TextFunction
<1>11. Total(Screen) \in Texts
  BY Joined DEF Total, Screens
<1> DEFINE H == {n \in 0 .. Len(q) : /\ h[n] \in Screens /\ Total(h[n]) = Total(Screen) \o t[n]
                                    /\ Len(h[n].shown) \in Nat /\ Len(h[n].shown) >= Len(shown)}
<1>12. 0 \in H
  <2>1. t[0] = <<>> /\ 0 \in 0 .. Len(q)
    BY <1>10, <1>0 DEF IsText
  <2>2. Total(Screen) \o <<>> = Total(Screen)
    BY <1>11, NoText
  <2>3. Len(h[0].shown) \in Nat /\ Len(h[0].shown) >= Len(shown) /\ Len(shown) \in Nat
    <3>1. Screen.shown = shown /\ Screen.shown \in Texts
      BY DEF Screen, Screens
    <3>2. Len(Screen.shown) \in Nat
      BY <3>1, LenProperties DEF Texts
    <3> QED BY <3>1, <3>2, <1>8
  <2> QED BY <2>1, <2>2, <2>3, <1>8
<1>13. ASSUME NEW n \in 1 .. Len(q), n - 1 \in H PROVE n \in H
  <2>1. n \in 0 .. Len(q) /\ n - 1 \in 0 .. Len(q) /\ q[n] \in Items
    BY <1>0, ElementOfSeq
  <2>2. h[n - 1] \in Screens /\ Total(h[n - 1]) = Total(Screen) \o t[n - 1]
    BY <1>13
  <2>3. h[n] \in Screens /\ Total(h[n]) = Total(h[n - 1]) \o q[n].text
    BY <2>1, <2>2, <1>9, BufferText
  <2>4. t[n] = t[n - 1] \o q[n].text /\ t[n - 1] \in Texts
    BY <2>1, <1>10 DEF IsText
  <2>5. q[n].text \in Texts
    BY <2>1, ItemFields
  <2>6. (Total(Screen) \o t[n - 1]) \o q[n].text = Total(Screen) \o (t[n - 1] \o q[n].text)
    <3> DEFINE a == Total(Screen)  b == t[n - 1]  c == q[n].text
    <3>1. a \in Texts /\ b \in Texts /\ c \in Texts
      BY <1>11, <2>4, <2>5
    <3> HIDE DEF a, b, c
    <3>2. (a \o b) \o c = a \o (b \o c)
      BY <3>1, Regroup
    <3> QED BY <3>2 DEF a, b, c
  <2>7. Len(h[n].shown) \in Nat /\ Len(h[n].shown) >= Len(shown)
    <3>1. Len(h[n - 1].shown) \in Nat /\ Len(h[n - 1].shown) >= Len(shown)
      BY <1>13
    <3>2. Len(h[n].shown) \in Nat /\ Len(h[n].shown) >= Len(h[n - 1].shown)
      BY <2>1, <2>2, <1>9, BufferShows
    <3>3. Len(shown) \in Nat
      BY LenProperties DEF Screen, Screens, Texts
    <3> QED BY <3>1, <3>2, <3>3
  <2> QED BY <2>1, <2>2, <2>3, <2>4, <2>6, <2>7
<1>14. 0 .. Len(q) \subseteq H
  <2> HIDE DEF H
  <2> QED BY <1>0, <1>12, <1>13, BoundedInduction
<1>15. Len(q) \in H
  <2> HIDE DEF H
  <2>1. Len(q) \in 0 .. Len(q)
    BY <1>0
  <2> QED BY <1>14, <2>1
<1> QED BY <1>7, <1>10, <1>15

-----------------------------------------------------------------------------
(* What the producer, the queue and the screen do to the items.            *)

\* Text of a queue and of its two parts, wherever it is cut.
LEMMA TextSplit ==
  ASSUME NEW q \in Seq(Items), NEW n \in 0 .. Len(q)
  PROVE  /\ SubSeq(q, 1, n) \in Seq(Items) /\ SubSeq(q, n + 1, Len(q)) \in Seq(Items)
         /\ Len(SubSeq(q, 1, n)) = n /\ Len(SubSeq(q, n + 1, Len(q))) = Len(q) - n
         /\ \A i \in 1 .. n : SubSeq(q, 1, n)[i] = q[i]
         /\ \A i \in 1 .. Len(q) - n : SubSeq(q, n + 1, Len(q))[i] = q[n + i]
         /\ Text(q) = Text(SubSeq(q, 1, n)) \o Text(SubSeq(q, n + 1, Len(q)))
<1>1. Len(q) \in Nat /\ \A i \in 1 .. Len(q) : q[i] \in Items
  BY LenProperties, ElementOfSeq
<1>2. /\ SubSeq(q, 1, n) \in Seq(Items) /\ Len(SubSeq(q, 1, n)) = n
      /\ \A i \in 1 .. n : SubSeq(q, 1, n)[i] = q[i]
  <2>1. 1 \in Int /\ n \in Int /\ \A i \in 1 .. n : q[i] \in Items
    BY <1>1
  <2>2. /\ SubSeq(q, 1, n) \in Seq(Items)
        /\ Len(SubSeq(q, 1, n)) = IF 1 <= n THEN n - 1 + 1 ELSE 0
        /\ \A i \in 1 .. n - 1 + 1 : SubSeq(q, 1, n)[i] = q[1 + i - 1]
    BY <2>1, SubSeqProperties
  <2> QED BY <2>2, <1>1
<1>3. /\ SubSeq(q, n + 1, Len(q)) \in Seq(Items) /\ Len(SubSeq(q, n + 1, Len(q))) = Len(q) - n
      /\ \A i \in 1 .. Len(q) - n : SubSeq(q, n + 1, Len(q))[i] = q[n + i]
  <2>1. n + 1 \in Int /\ Len(q) \in Int /\ \A i \in n + 1 .. Len(q) : q[i] \in Items
    BY <1>1
  <2>2. /\ SubSeq(q, n + 1, Len(q)) \in Seq(Items)
        /\ Len(SubSeq(q, n + 1, Len(q))) = IF n + 1 <= Len(q) THEN Len(q) - (n + 1) + 1 ELSE 0
        /\ \A i \in 1 .. Len(q) - (n + 1) + 1 : SubSeq(q, n + 1, Len(q))[i] = q[n + 1 + i - 1]
    BY <2>1, SubSeqProperties
  <2> DEFINE y == SubSeq(q, n + 1, Len(q))
  <2>3. Len(q) - (n + 1) + 1 = Len(q) - n
    BY <1>1
  <2>4. /\ y \in Seq(Items) /\ Len(y) = IF n + 1 <= Len(q) THEN Len(q) - (n + 1) + 1 ELSE 0
        /\ \A i \in 1 .. Len(q) - n : y[i] = q[n + 1 + i - 1]
    BY <2>2, <2>3
  <2> HIDE DEF y
  <2>5. Len(y) = Len(q) - n
    BY <2>4, <1>1
  <2>6. ASSUME NEW i \in 1 .. Len(q) - n PROVE y[i] = q[n + i]
    <3>1. n + 1 + i - 1 = n + i
      OBVIOUS
    <3> QED BY <3>1, <2>4
  <2> QED BY <2>4, <2>5, <2>6 DEF y
<1>4. SubSeq(q, 1, n) \o SubSeq(q, n + 1, Len(q)) = q
  <2>1. 1 \in 1 .. Len(q) + 1 /\ n \in 1 - 1 .. Len(q) /\ Len(q) \in n .. Len(q)
    BY <1>1
  <2>2. SubSeq(q, 1, n) \o SubSeq(q, n + 1, Len(q)) = SubSeq(q, 1, Len(q))
    BY <2>1, ConcatAdjacentSubSeq
  <2>3. SubSeq(q, 1, Len(q)) = q
    BY SubSeqFull
  <2> QED BY <2>2, <2>3
<1> DEFINE x == SubSeq(q, 1, n)
           y == SubSeq(q, n + 1, Len(q))
<1>5. Text(x \o y) = Text(x) \o Text(y)
  <2>1. x \in Seq(Items) /\ y \in Seq(Items)
    BY <1>2, <1>3
  <2> HIDE DEF x, y
  <2> QED BY <2>1, TextConcat
<1> QED BY <1>2, <1>3, <1>4, <1>5

\* Taking the first item.
LEMMA TextHead ==
  ASSUME NEW q \in Seq(Items), q # <<>>
  PROVE  /\ Head(q) \in Items /\ Tail(q) \in Seq(Items) /\ Len(Tail(q)) = Len(q) - 1 /\ Len(q) \in Nat \ {0}
         /\ Head(q) = q[1] /\ \A i \in 1 .. Len(Tail(q)) : Tail(q)[i] = q[i + 1]
         /\ Text(q) = Head(q).text \o Text(Tail(q))
<1>1. /\ Len(q) \in Nat \ {0} /\ Head(q) \in Items /\ Tail(q) \in Seq(Items) /\ Len(Tail(q)) = Len(q) - 1
      /\ \A i \in 1 .. Len(Tail(q)) : Tail(q)[i] = q[i + 1]
  BY HeadTailProperties, EmptySeq
<1>2. Head(q) = q[1]
  BY <1>1
<1>3. 1 \in 0 .. Len(q)
  BY <1>1
<1>4. /\ Text(q) = Text(SubSeq(q, 1, 1)) \o Text(SubSeq(q, 1 + 1, Len(q)))
      /\ SubSeq(q, 1, 1) \in Seq(Items) /\ Len(SubSeq(q, 1, 1)) = 1 /\ SubSeq(q, 1, 1)[1] = q[1]
  <2>1. 1 \in 1 .. 1
    OBVIOUS
  <2> QED BY <2>1, <1>3, TextSplit
<1>5. Tail(q) = SubSeq(q, 1 + 1, Len(q))
  <2>1. Tail(q) = SubSeq(q, 2, Len(q))
    BY TailIsSubSeq
  <2> QED BY <2>1
<1>6. SubSeq(q, 1, 1) = <<q[1]>>
  <2>1. <<q[1]>> \in Seq(Items) /\ Len(<<q[1]>>) = 1 /\ <<q[1]>>[1] = q[1]
    BY <1>1, <1>2
  <2> DEFINE x == SubSeq(q, 1, 1)
             y == <<q[1]>>
  <2>2. x \in Seq(Items) /\ y \in Seq(Items) /\ Len(x) = 1 /\ Len(y) = 1 /\ x[1] = y[1]
    BY <2>1, <1>4
  <2> HIDE DEF x, y
  <2>3. \A i \in 1 .. Len(x) : x[i] = y[i]
    BY <2>2
  <2>4. x = y
    BY <2>2, <2>3, SeqEqual
  <2> QED BY <2>4 DEF x, y
<1>7. Text(<<q[1]>>) = q[1].text
  BY <1>1, <1>2, TextOne
<1> QED BY <1>1, <1>2, <1>4, <1>5, <1>6, <1>7

\* A new run at the end.
LEMMA TextAppend ==
  ASSUME NEW q \in Seq(Items), NEW x \in Items
  PROVE  /\ Append(q, x) \in Seq(Items) /\ Len(Append(q, x)) = Len(q) + 1
         /\ Text(Append(q, x)) = Text(q) \o x.text
<1>1. /\ Append(q, x) \in Seq(Items) /\ Len(Append(q, x)) = Len(q) + 1
  BY AppendProperties
<1>2. Append(q, x) = q \o <<x>>
  BY AppendIsConcat
<1>3. <<x>> \in Seq(Items)
  OBVIOUS
<1>4. Text(q \o <<x>>) = Text(q) \o Text(<<x>>)
  BY <1>3, TextConcat
<1> QED BY <1>1, <1>2, <1>4, TextOne

Extended(q, e) == [q EXCEPT ![Len(q)].text = Append(@, e)]

\* A fragment at the end of the last run.
LEMMA TextExtend ==
  ASSUME NEW q \in Seq(Items), q # <<>>, NEW e \in Fragments, q[Len(q)].kind \in Kinds,
         NEW r, r = Extended(q, e)
  PROVE  /\ r \in Seq(Items) /\ Len(r) = Len(q) /\ r # <<>>
         /\ \A i \in 1 .. Len(q) : r[i].kind = q[i].kind
         /\ Text(r) = Text(q) \o <<e>>
<1>1. PICK f \in Seq(Items), x \in Items : q = Append(f, x)
  BY SequenceEmptyOrAppend
<1>2. /\ Len(f) \in Nat /\ Len(q) = Len(f) + 1 /\ q[Len(q)] = x /\ \A i \in 1 .. Len(f) : q[i] = f[i]
  BY <1>1, AppendProperties, LenProperties
<1>3. x.kind \in Kinds /\ x \in [kind : Kinds, text : Texts]
  <2>1. x.kind # "done"
    BY <1>2 DEF Kinds
  <2> QED BY <2>1, ItemFields
<1> DEFINE y == [x EXCEPT !.text = Append(@, e)]
<1>4. y.kind = x.kind /\ y.text = x.text \o <<e>> /\ y \in Items
  <2>1. x.text \in Seq(Fragments)
    BY <1>3 DEF Texts
  <2>2. Append(x.text, e) = x.text \o <<e>> /\ Append(x.text, e) \in Texts
    BY <2>1, AppendIsConcat, AppendProperties DEF Texts
  <2>3. y \in [kind : Kinds, text : Texts] /\ y.kind = x.kind /\ y.text = Append(x.text, e)
    BY <1>3, <2>2
  <2> HIDE DEF y
  <2> QED BY <2>2, <2>3 DEF Items, Texts
<1>5. DOMAIN q = 1 .. Len(q) /\ Len(q) \in 1 .. Len(q)
  BY <1>2, LenProperties
<1>6. r = [q EXCEPT ![Len(q)] = y]
  BY <1>2, <1>5 DEF Extended
<1> HIDE DEF y
<1>7. /\ r \in Seq(Items) /\ Len(r) = Len(q) /\ \A i \in 1 .. Len(q) : r[i] = IF i = Len(q) THEN y ELSE q[i]
  <2> DEFINE n == Len(q)
  <2>1. n \in 1 .. Len(q) /\ r = [q EXCEPT ![n] = y]
    BY <1>5, <1>6
  <2> HIDE DEF n
  <2>2. /\ [q EXCEPT ![n] = y] \in Seq(Items) /\ Len([q EXCEPT ![n] = y]) = Len(q)
        /\ \A j \in 1 .. Len(q) : [q EXCEPT ![n] = y][j] = IF j = n THEN y ELSE q[j]
    BY <2>1, <1>4, ExceptSeq
  <2> QED BY <2>1, <2>2 DEF n
<1>8. r = Append(f, y)
  <2>1. /\ Append(f, y) \in Seq(Items) /\ Len(Append(f, y)) = Len(f) + 1
        /\ \A i \in 1 .. Len(f) : Append(f, y)[i] = f[i]
        /\ Append(f, y)[Len(f) + 1] = y
    BY <1>4, AppendProperties
  <2>2. ASSUME NEW i \in 1 .. Len(r) PROVE r[i] = Append(f, y)[i]
    <3>1. CASE i = Len(q)
      BY <3>1, <2>1, <1>2, <1>7
    <3>2. CASE i # Len(q)
      <4>1. i \in 1 .. Len(f)
        BY <3>2, <1>2, <1>7
      <4> QED BY <3>2, <4>1, <2>1, <1>2, <1>7
    <3> QED BY <3>1, <3>2
  <2>3. Len(r) = Len(Append(f, y))
    BY <2>1, <1>2, <1>7
  <2> DEFINE z == Append(f, y)
  <2>4. z \in Seq(Items) /\ Len(r) = Len(z) /\ \A i \in 1 .. Len(r) : r[i] = z[i]
    BY <2>1, <2>2, <2>3
  <2> HIDE DEF z
  <2>5. r = z
    BY <2>4, <1>7, SeqEqual
  <2> QED BY <2>5 DEF z
<1>9. Text(r) = Text(f) \o (x.text \o <<e>>) /\ Text(q) = Text(f) \o x.text
  BY <1>1, <1>4, <1>8, TextAppend
<1>10. (Text(f) \o x.text) \o <<e>> = Text(f) \o (x.text \o <<e>>)
  <2> DEFINE a == Text(f)  b == x.text  c == <<e>>
  <2>1. a \in Texts /\ b \in Texts /\ c \in Texts
    <3>1. a \in Texts
      BY TextType
    <3>2. c \in Texts
      BY DEF Texts
    <3> QED BY <3>1, <3>2, <1>3
  <2> HIDE DEF a, b, c
  <2>2. (a \o b) \o c = a \o (b \o c)
    BY <2>1, Regroup
  <2> QED BY <2>2 DEF a, b, c
<1>11. r # <<>>
  BY <1>7, <1>2, EmptySeq
<1>12. \A i \in 1 .. Len(q) : r[i].kind = q[i].kind
  BY <1>7, <1>2, <1>4
<1> QED BY <1>7, <1>9, <1>10, <1>11, <1>12

-----------------------------------------------------------------------------
(* The text in a line: screen and buffers, batch, queue, batcher.          *)

Line(a, b, r, u) == ((a \o b) \o r) \o u
InLine(a, b, r, u) == a \in Texts /\ b \in Texts /\ r \in Texts /\ u \in Texts

\* The batcher hands its runs on.
LEMMA LineEmit ==
  ASSUME NEW a, NEW b, NEW r, NEW u, InLine(a, b, r, u)
  PROVE  Line(a, b, r \o u, <<>>) = Line(a, b, r, u)
<1>0. a \in Texts /\ b \in Texts /\ r \in Texts /\ u \in Texts
  BY DEF InLine
<1> DEFINE x == a \o b
<1>1. x \in Texts
  BY <1>0, Joined
<1> HIDE DEF x
<1>2. r \o u \in Texts
  BY <1>0, Joined
<1>3. (x \o (r \o u)) \o <<>> = x \o (r \o u)
  <2>1. x \o (r \o u) \in Texts
    BY <1>0, <1>1, <1>2, Joined
  <2> QED BY <2>1, NoText
<1>4. (x \o r) \o u = x \o (r \o u)
  BY <1>0, <1>1, Regroup
<1> QED BY <1>3, <1>4 DEF Line, x

\* The slice takes a batch.
LEMMA LineTake ==
  ASSUME NEW a, NEW b, NEW r, NEW u, InLine(a, b, r, u)
  PROVE  Line(a, <<>>, b \o r, u) = Line(a, b, r, u)
<1>0. a \in Texts /\ b \in Texts /\ r \in Texts /\ u \in Texts
  BY DEF InLine
<1>1. a \o <<>> = a
  BY <1>0, NoText
<1>2. (a \o b) \o r = a \o (b \o r)
  BY <1>0, Regroup
<1> QED BY <1>1, <1>2 DEF Line

\* An item of the batch goes to the screen or into a buffer.
LEMMA LineShow ==
  ASSUME NEW a, NEW b, NEW r, NEW u, InLine(a, b, r, u), NEW x \in Texts
  PROVE  Line(a \o x, b, r, u) = Line(a, x \o b, r, u)
<1>0. a \in Texts /\ b \in Texts /\ r \in Texts /\ u \in Texts
  BY DEF InLine
<1>1. (a \o x) \o b = a \o (x \o b)
  BY <1>0, Regroup
<1> QED BY <1>1 DEF Line

\* The whole batch does.
LEMMA LineShowAll ==
  ASSUME NEW a, NEW b, NEW r, NEW u, InLine(a, b, r, u)
  PROVE  Line(a \o b, <<>>, r, u) = Line(a, b, r, u)
<1>0. a \in Texts /\ b \in Texts /\ r \in Texts /\ u \in Texts
  BY DEF InLine
<1>1. (a \o b) \o <<>> = a \o b
  BY <1>0, Joined, NoText
<1> QED BY <1>1 DEF Line

\* The queue does, when there is no batch.
LEMMA LineShowRest ==
  ASSUME NEW a, NEW r, NEW u, InLine(a, <<>>, r, u)
  PROVE  Line(a \o r, <<>>, <<>>, u) = Line(a, <<>>, r, u)
<1>0. a \in Texts /\ r \in Texts
  BY DEF InLine
<1>1. a \o r \in Texts
  BY <1>0, Joined
<1>2. (a \o r) \o <<>> = a \o r /\ a \o <<>> = a
  BY <1>0, <1>1, NoText
<1> QED BY <1>2 DEF Line

\* A fragment is put.
LEMMA LinePut ==
  ASSUME NEW a, NEW b, NEW r, NEW u, InLine(a, b, r, u), NEW x \in Texts
  PROVE  Line(a, b, r, u \o x) = Line(a, b, r, u) \o x
<1>0. a \in Texts /\ b \in Texts /\ r \in Texts /\ u \in Texts
  BY DEF InLine
<1> DEFINE y == (a \o b) \o r
<1>1. a \o b \in Texts
  BY <1>0, Joined
<1>2. y \in Texts
  BY <1>0, <1>1, Joined
<1> HIDE DEF y
<1>3. (y \o u) \o x = y \o (u \o x)
  BY <1>0, <1>2, Regroup
<1> QED BY <1>3 DEF Line, y

\* The whole line is a text, and no part is longer.
LEMMA LineLength ==
  ASSUME NEW a, NEW b, NEW r, NEW u, InLine(a, b, r, u)
  PROVE  /\ Line(a, b, r, u) \in Texts
         /\ Len(a) \in Nat /\ Len(b) \in Nat /\ Len(r) \in Nat /\ Len(u) \in Nat
         /\ Len(Line(a, b, r, u)) = Len(a) + Len(b) + Len(r) + Len(u)
         /\ \A i \in 1 .. Len(a) : a[i] = Line(a, b, r, u)[i]
         /\ \A i \in 1 .. Len(a) + Len(b) + Len(r) : ((a \o b) \o r)[i] = Line(a, b, r, u)[i]
<1>0. a \in Texts /\ b \in Texts /\ r \in Texts /\ u \in Texts
  BY DEF InLine
<1>1. Len(a) \in Nat /\ Len(b) \in Nat /\ Len(r) \in Nat /\ Len(u) \in Nat
  BY <1>0, LenProperties DEF Texts
<1> DEFINE x == a \o b
           y == (a \o b) \o r
           z == ((a \o b) \o r) \o u
<1>2. /\ x \in Texts /\ Len(x) = Len(a) + Len(b)
      /\ \A i \in 1 .. Len(a) + Len(b) : x[i] = IF i <= Len(a) THEN a[i] ELSE b[i - Len(a)]
  BY <1>0, Joined, JoinedAt
<1>3. /\ y \in Texts /\ Len(y) = Len(x) + Len(r)
      /\ \A i \in 1 .. Len(x) + Len(r) : y[i] = IF i <= Len(x) THEN x[i] ELSE r[i - Len(x)]
  <2> HIDE DEF x
  <2>1. /\ x \o r \in Texts /\ Len(x \o r) = Len(x) + Len(r)
        /\ \A i \in 1 .. Len(x) + Len(r) : (x \o r)[i] = IF i <= Len(x) THEN x[i] ELSE r[i - Len(x)]
    BY <1>0, <1>2, Joined, JoinedAt
  <2> QED BY <2>1 DEF x
<1>4. /\ z \in Texts /\ Len(z) = Len(y) + Len(u)
      /\ \A i \in 1 .. Len(y) + Len(u) : z[i] = IF i <= Len(y) THEN y[i] ELSE u[i - Len(y)]
  <2> HIDE DEF y
  <2>1. /\ y \o u \in Texts /\ Len(y \o u) = Len(y) + Len(u)
        /\ \A i \in 1 .. Len(y) + Len(u) : (y \o u)[i] = IF i <= Len(y) THEN y[i] ELSE u[i - Len(y)]
    BY <1>0, <1>3, Joined, JoinedAt
  <2> QED BY <2>1 DEF y
<1>5. z = Line(a, b, r, u) /\ y = (a \o b) \o r
  BY DEF Line
<1> HIDE DEF x, y, z
<1>6. Len(z) = Len(a) + Len(b) + Len(r) + Len(u) /\ Len(y) = Len(a) + Len(b) + Len(r)
  BY <1>1, <1>2, <1>3, <1>4
<1>7. ASSUME NEW i \in 1 .. Len(a) + Len(b) + Len(r) PROVE y[i] = z[i]
  BY <1>1, <1>4, <1>6
<1>8. ASSUME NEW i \in 1 .. Len(a) PROVE a[i] = z[i]
  <2>1. i \in 1 .. Len(a) + Len(b) /\ i \in 1 .. Len(a) + Len(b) + Len(r) /\ i <= Len(a) /\ i <= Len(x)
        /\ i \in 1 .. Len(x) + Len(r)
    BY <1>1, <1>2
  <2>2. x[i] = a[i]
    BY <2>1, <1>2
  <2>3. y[i] = x[i]
    BY <2>1, <1>3
  <2>4. y[i] = z[i]
    BY <2>1, <1>7
  <2> QED BY <2>2, <2>3, <2>4
<1> QED BY <1>1, <1>4, <1>5, <1>6, <1>7, <1>8

-----------------------------------------------------------------------------
(* The inductive invariant.                                                *)

\* Where the closure of the next slice is while the drain is open: posted
\* with its event, posted by the timer's thread that pokes for it, waiting
\* for an armed timer, for the thread that fires, or with that thread.
Posted == pending = <<"live">> /\ target = "none" /\ timer = "off" /\ firing = Idle /\ pokes = 1
Poking == pending = <<"live">> /\ target = "none" /\ timer = "off" /\ firing = [at |-> "poke", fn |-> "live"] /\ pokes = 0
Armed == pending = <<>> /\ target = "live" /\ timer = "armed" /\ firing = Idle /\ pokes = 0
Fired == pending = <<>> /\ target = "live" /\ timer = "off" /\ firing = [at |-> "fire", fn |-> "none"] /\ pokes = 0
Taken == pending = <<>> /\ target = "none" /\ timer = "off" /\ firing = [at |-> "enqueue", fn |-> "live"] /\ pokes = 0
Gone == pending = <<>> /\ target = "none" /\ timer = "off" /\ firing = Idle /\ pokes = 0

\* While a slice runs, after a failed poke and after the end there is none.
CallbackInv ==
  /\ ~more
  /\ \/ ~closed /\ pc = "vcl" /\ (Posted \/ Poking \/ Armed \/ Fired \/ Taken)
     \/ Gone /\ (pc = "vcl" => closed \/ stranded) /\ (closed => pc = "vcl")

\* A batch is left only inside a slice, and a reason only at the end.
StageInv ==
  /\ pc \in {"vcl", "stoprest", "rearm"} /\ ~closed => batch = <<>>
  /\ ended # "no" <=> pc = "finish" \/ closed

\* The terminal item is the last thing its worker sent, so the drain that
\* it ends has nothing left to show.
DoneInv ==
  /\ \A i \in 1 .. Len(batch) : batch[i].kind = "done" => i = Len(batch) /\ raw = <<>> /\ runs = <<>> /\ ~working
  /\ \A i \in 1 .. Len(raw) : raw[i].kind = "done" => i = Len(raw) /\ runs = <<>> /\ ~working
  /\ \A i \in 1 .. Len(runs) : runs[i].kind # "done"
  /\ ended = "done" => ~working /\ batch = <<>> /\ raw = <<>> /\ runs = <<>> /\ thinking = <<>> /\ content = <<>>

\* Nothing is shown that was not put, and a discarded batcher holds nothing.
CountInv ==
  /\ Len(Everywhere) <= put
  /\ dropped => runs = <<>>

\* What Stop found on its way is on the way or shown.
TailInv ==
  /\ pc = "stoprest" /\ ~dropped => Len((shown \o thinking \o content) \o Text(raw)) >= tail
  /\ ended = "stopped" /\ ~dropped => Len(shown) >= tail

IInv == TypeOK /\ CallbackInv /\ StageInv /\ DoneInv /\ CountInv /\ TailInv /\ InOrder

-----------------------------------------------------------------------------
(* Consequences and common cases.                                          *)

Limits == /\ MaxFragments \in Nat /\ MaxImmediate \in Nat /\ MaxFails \in Nat
          /\ MaxRounds \in Nat \ {0} /\ BatchLimit \in Nat \ {0}

\* The assumptions on the constants, one by one.
LEMMA ConstantsAre == Limits
BY DrainAssumption DEF Limits

\* What is where, as texts.
LEMMA Parts ==
  ASSUME TypeOK
  PROVE  /\ Screen \in Screens /\ Total(Screen) = (shown \o thinking) \o content /\ Total(Screen) \in Texts
         /\ shown \in Texts /\ thinking \in Texts /\ content \in Texts
         /\ batch \in Seq(Items) /\ raw \in Seq(Items) /\ runs \in Seq(Items)
         /\ Text(batch) \in Texts /\ Text(raw) \in Texts /\ Text(runs) \in Texts
         /\ Everywhere = Line(Total(Screen), Text(batch), Text(raw), Text(runs))
<1>1. shown \in Texts /\ thinking \in Texts /\ content \in Texts /\ batch \in Seq(Items) /\ raw \in Seq(Items) /\ runs \in Seq(Items)
  BY DEF TypeOK, Texts
<1>2. Screen \in Screens
  BY <1>1 DEF Screen, Screens
<1>3. Total(Screen) = (shown \o thinking) \o content
  BY DEF Total, Screen
<1>4. (shown \o thinking) \o content \in Texts
  <2>1. shown \o thinking \in Texts
    BY <1>1, Joined
  <2> QED BY <2>1, <1>1, Joined
<1>5. Text(batch) \in Texts /\ Text(raw) \in Texts /\ Text(runs) \in Texts
  BY <1>1, TextType
<1>6. Everywhere = Line(Total(Screen), Text(batch), Text(raw), Text(runs))
  BY <1>3 DEF Everywhere, Line
<1> QED BY <1>1, <1>2, <1>3, <1>4, <1>5, <1>6

\* What is shown is a beginning of what was put.
LEMMA ShownIs ==
  ASSUME TypeOK, InOrder, CountInv
  PROVE  shown = [i \in 1 .. Len(shown) |-> i] /\ Len(shown) \in Nat /\ Len(shown) <= put
<1> DEFINE T == Total(Screen)  x == shown \o thinking
<1>1. /\ shown \in Texts /\ thinking \in Texts /\ content \in Texts /\ T \in Texts /\ T = x \o content
      /\ Text(batch) \in Texts /\ Text(raw) \in Texts /\ Text(runs) \in Texts
      /\ Everywhere = Line(T, Text(batch), Text(raw), Text(runs))
  BY Parts
<1>2. x \in Texts
  BY <1>1, Joined
<1>3. /\ Len(shown) \in Nat /\ Len(thinking) \in Nat /\ Len(x) = Len(shown) + Len(thinking)
      /\ \A i \in 1 .. Len(shown) + Len(thinking) : x[i] = IF i <= Len(shown) THEN shown[i] ELSE thinking[i - Len(shown)]
  BY <1>1, JoinedAt
<1>4. /\ Len(content) \in Nat /\ Len(x \o content) = Len(x) + Len(content)
      /\ \A i \in 1 .. Len(x) + Len(content) : (x \o content)[i] = IF i <= Len(x) THEN x[i] ELSE content[i - Len(x)]
  <2> HIDE DEF x
  <2> QED BY <1>1, <1>2, JoinedAt
<1> HIDE DEF T, x
<1> DEFINE E == Everywhere
<1>5. /\ Len(T) \in Nat /\ Len(E) >= Len(T) /\ Len(E) \in Nat
      /\ \A i \in 1 .. Len(T) : T[i] = E[i]
  <2> DEFINE b == Text(batch)  r == Text(raw)  u == Text(runs)
  <2>1. T \in Texts /\ b \in Texts /\ r \in Texts /\ u \in Texts
    BY <1>1
  <2>3. E = Line(T, b, r, u)
    BY <1>1
  <2>4. InLine(T, b, r, u)
    BY <2>1 DEF InLine
  <2> HIDE DEF b, r, u
  <2>2. /\ Len(T) \in Nat /\ Len(b) \in Nat /\ Len(r) \in Nat /\ Len(u) \in Nat
        /\ Len(Line(T, b, r, u)) = Len(T) + Len(b) + Len(r) + Len(u)
        /\ \A i \in 1 .. Len(T) : T[i] = Line(T, b, r, u)[i]
    BY <2>4, LineLength
  <2> HIDE DEF E
  <2> QED BY <2>3, <2>2
<1>6. E = [i \in 1 .. Len(E) |-> i] /\ Len(E) <= put
  BY DEF InOrder, CountInv
<1> HIDE DEF E
<1>7. ASSUME NEW i \in 1 .. Len(shown) PROVE shown[i] = i
  <2>1. i \in 1 .. Len(shown) + Len(thinking) /\ i <= Len(shown) /\ i <= Len(x) /\ i \in 1 .. Len(x) + Len(content)
        /\ i \in 1 .. Len(T) /\ i \in 1 .. Len(E)
    BY <1>1, <1>3, <1>4, <1>5
  <2>2. x[i] = shown[i]
    BY <2>1, <1>3
  <2>3. T[i] = x[i]
    BY <2>1, <1>1, <1>4
  <2>4. T[i] = E[i]
    BY <2>1, <1>5
  <2>5. E[i] = i
    BY <2>1, <1>6
  <2> QED BY <2>2, <2>3, <2>4, <2>5
<1>8. shown = [i \in 1 .. Len(shown) |-> shown[i]]
  BY <1>1, LenProperties DEF Texts
<1>9. put \in Nat
  BY ConstantsAre DEF TypeOK, Limits
<1> QED BY <1>1, <1>3, <1>4, <1>5, <1>6, <1>7, <1>8, <1>9

\* A step that keeps the text in its line.
LEMMA LineKept ==
  ASSUME InOrder, CountInv, Everywhere' = Everywhere, put' = put, dropped' = dropped,
         runs' = runs \/ runs' = <<>>
  PROVE  InOrder' /\ CountInv'
<1>1. InOrder'
  BY DEF InOrder
<1>2. CountInv'
  BY DEF CountInv
<1> QED BY <1>1, <1>2

\* A step that touches no text at all.
LEMMA TextsKept ==
  ASSUME IInv, UNCHANGED <<put, dropped, runs, raw, batch, display>>
  PROVE  InOrder' /\ CountInv' /\ runs' \in Seq(Items) /\ raw' \in Seq(Items) /\ batch' \in Seq(Items)
<1>1. UNCHANGED <<shown, thinking, content>>
  BY DEF display
<1>2. Everywhere' = Everywhere
  BY <1>1 DEF Everywhere
<1>3. InOrder' /\ CountInv'
  BY <1>2, LineKept DEF IInv
<1> QED BY <1>3 DEF IInv, TypeOK

\* The types that CallbackInv does not give.
TextTypes ==
  {runs, raw, batch} \subseteq Seq(Items) /\ {shown, thinking, content} \subseteq Seq(Fragments)
RestTypes ==
  /\ put \in 0 .. MaxFragments /\ rounds \in 0 .. MaxRounds
  /\ {working, dropped, cancelled, closed, stranded} \subseteq BOOLEAN
  /\ burst \subseteq {"armed", "fires"}
  /\ pc \in {"vcl", "batch", "stop", "stoprest", "rearm", "finish"}
  /\ streak \in 0 .. MaxImmediate
  /\ ended \in {"no", "done", "stopped", "error"} /\ tail \in 0 .. put /\ fails \in 0 .. MaxFails

\* TypeOK in three parts.
LEMMA TypesFrom ==
  ASSUME CallbackInv', TextTypes', RestTypes'
  PROVE  TypeOK'
<1>1. /\ more' \in BOOLEAN /\ target' \in Closures \cup {"none"} /\ timer' \in {"off", "armed"}
      /\ pending' \in Seq(Closures) /\ pokes' \in 0 .. 3
      /\ firing' \in [at : {"no", "fire", "enqueue", "poke"}, fn : Closures \cup {"none"}]
  <2>1. "live" \in Closures /\ <<>> \in Seq(Closures) /\ <<"live">> \in Seq(Closures) /\ 0 \in 0 .. 3 /\ 1 \in 0 .. 3
    BY EmptySeq DEF Closures
  <2>2. (Posted \/ Poking \/ Armed \/ Fired \/ Taken \/ Gone)'
    BY DEF CallbackInv
  <2>3. more' = FALSE
    BY DEF CallbackInv
  <2>4. target' \in {"live", "none"} /\ timer' \in {"off", "armed"} /\ pending' \in {<<>>, <<"live">>} /\ pokes' \in {0, 1}
        /\ firing' \in {Idle, [at |-> "poke", fn |-> "live"], [at |-> "fire", fn |-> "none"], [at |-> "enqueue", fn |-> "live"]}
    BY <2>2 DEF Posted, Poking, Armed, Fired, Taken, Gone
  <2>5. firing' \in [at : {"no", "fire", "enqueue", "poke"}, fn : Closures \cup {"none"}]
    BY <2>4 DEF Idle, Closures
  <2>6. pending' \in Seq(Closures) /\ pokes' \in 0 .. 3
    BY <2>1, <2>4
  <2>7. target' \in Closures \cup {"none"} /\ timer' \in {"off", "armed"} /\ more' \in BOOLEAN
    BY <2>1, <2>3, <2>4
  <2> QED BY <2>5, <2>6, <2>7
<1> QED BY <1>1 DEF TypeOK, TextTypes, RestTypes

\* What TypeOK says of the texts and the rest.
LEMMA TypesInto ==
  ASSUME TypeOK
  PROVE  TextTypes /\ RestTypes
BY DEF TypeOK, TextTypes, RestTypes

\* A step of the re-arm's timer.
LEMMA RearmStep ==
  ASSUME IInv, CallbackInv',
         UNCHANGED <<producer, batcher, raw, display, slice, cancelled, closed, ended, tail>>,
         stranded' \in BOOLEAN, fails' \in 0 .. MaxFails
  PROVE  IInv'
<1>1. UNCHANGED <<put, working, rounds, runs, dropped, burst, raw, thinking, content, shown, pc, batch, streak,
                  cancelled, closed, ended, tail>>
  BY DEF producer, batcher, display, slice
<1>2. InOrder' /\ CountInv'
  BY <1>1, TextsKept DEF display
<1>3. TextTypes /\ RestTypes
  BY TypesInto DEF IInv
<1>4. TextTypes' /\ RestTypes'
  BY <1>1, <1>3 DEF TextTypes, RestTypes
<1>5. TypeOK'
  BY <1>4, TypesFrom
<1>6. StageInv'
  BY <1>1 DEF StageInv, IInv
<1>7. DoneInv'
  BY <1>1 DEF DoneInv, IInv
<1>8. TailInv'
  BY <1>1 DEF TailInv, IInv
<1> QED BY <1>2, <1>5, <1>6, <1>7, <1>8 DEF IInv

\* The timer expires only when it holds the next slice.
LEMMA ExpirePreserves ==
  ASSUME IInv, Expire
  PROVE  IInv'
<1>1. UNCHANGED <<producer, batcher, raw, display, slice, target, pending, pokes, cancelled, closed, ended, tail, stranded, fails>>
      /\ timer = "armed" /\ timer' = "off" /\ firing' = [at |-> "fire", fn |-> "none"]
  BY DEF Expire
<1>2. UNCHANGED <<pc, more>>
  BY <1>1 DEF slice
<1>3. Armed /\ ~closed /\ pc = "vcl" /\ ~more
  BY <1>1 DEF CallbackInv, IInv, Posted, Poking, Fired, Taken, Gone
<1>4. Fired'
  BY <1>1, <1>3 DEF Armed, Fired
<1>5. CallbackInv'
  BY <1>1, <1>2, <1>3, <1>4 DEF CallbackInv
<1>6. stranded' \in BOOLEAN /\ fails' \in 0 .. MaxFails
  BY <1>1, TypesInto DEF RestTypes, IInv
<1> QED BY <1>1, <1>5, <1>6, RearmStep

\* Its thread takes the closure.
LEMMA TakeTargetPreserves ==
  ASSUME IInv, TakeTarget
  PROVE  IInv'
<1>1. UNCHANGED <<producer, batcher, raw, display, slice, timer, pending, pokes, cancelled, closed, ended, tail, stranded, fails>>
      /\ firing.at = "fire" /\ target' = "none"
      /\ firing' = IF target = "none" THEN Idle ELSE [at |-> "enqueue", fn |-> target]
  BY DEF TakeTarget
<1>2. UNCHANGED <<pc, more>>
  BY <1>1 DEF slice
<1>3. Fired /\ ~closed /\ pc = "vcl" /\ ~more
  BY <1>1 DEF CallbackInv, IInv, Posted, Poking, Armed, Taken, Gone, Idle
<1>4. Taken'
  BY <1>1, <1>3 DEF Fired, Taken
<1>5. CallbackInv'
  BY <1>1, <1>2, <1>3, <1>4 DEF CallbackInv
<1>6. stranded' \in BOOLEAN /\ fails' \in 0 .. MaxFails
  BY <1>1, TypesInto DEF RestTypes, IInv
<1> QED BY <1>1, <1>5, <1>6, RearmStep

\* The thread posts it: the drain is open, for it has a slice to come.
LEMMA TimerEnqueuePreserves ==
  ASSUME IInv, TimerEnqueue
  PROVE  IInv'
<1>1. /\ UNCHANGED <<producer, batcher, raw, display, slice, target, timer, pokes, cancelled, closed, ended, tail, stranded, fails>>
      /\ firing.at = "enqueue"
      /\ ~closed => firing' = [firing EXCEPT !.at = "poke"] /\ pending' = Append(pending, firing.fn)
  BY DEF TimerEnqueue
<1>2. UNCHANGED <<pc, more>>
  BY <1>1 DEF slice
<1>3. Taken /\ ~closed /\ pc = "vcl" /\ ~more
  BY <1>1 DEF CallbackInv, IInv, Posted, Poking, Armed, Fired, Gone, Idle
<1>4. pending' = <<"live">>
  <2>1. pending' = Append(<<>>, "live")
    BY <1>1, <1>3 DEF Taken
  <2> QED BY <2>1
<1>5. Poking'
  BY <1>1, <1>3, <1>4 DEF Taken, Poking
<1>6. CallbackInv'
  BY <1>1, <1>2, <1>3, <1>5 DEF CallbackInv
<1>7. stranded' \in BOOLEAN /\ fails' \in 0 .. MaxFails
  BY <1>1, TypesInto DEF RestTypes, IInv
<1> QED BY <1>1, <1>6, <1>7, RearmStep

\* The newest entry of a queue with one entry is that entry.
LEMMA TakenBackOne == TakenBack(<<"live">>, "live") = <<>>
<1> DEFINE q == <<"live">>
           found == {i \in DOMAIN q : q[i] = "live"}
<1>1. q \in Seq({"live"}) /\ Len(q) = 1 /\ q[1] = "live" /\ DOMAIN q = 1 .. 1
  OBVIOUS
<1>2. found = {1}
  BY <1>1
<1> DEFINE n == CHOOSE i \in found : \A j \in found : j <= i
<1>3. n = 1
  BY <1>2
<1>4. RemoveAt(q, 1) = <<>>
  <2>1. RemoveAt(q, 1) = SubSeq(q, 1, 0) \o SubSeq(q, 2, 1)
    BY <1>1 DEF RemoveAt
  <2>2. SubSeq(q, 1, 0) = <<>> /\ SubSeq(q, 2, 1) = <<>>
    BY SubSeqEmpty
  <2>3. <<>> \o <<>> = <<>>
    OBVIOUS
  <2> QED BY <2>1, <2>2, <2>3
<1>5. TakenBack(q, "live") = IF found = {} THEN q ELSE RemoveAt(q, n)
  BY DEF TakenBack
<1> HIDE DEF n
<1> QED BY <1>2, <1>3, <1>4, <1>5

\* The thread pokes: the slice has its event, or the drain is stranded.
LEMMA TimerPokePreserves ==
  ASSUME IInv, TimerPoke
  PROVE  IInv'
<1>1. UNCHANGED <<producer, batcher, raw, display, slice, target, timer, cancelled, closed, ended, tail>>
      /\ firing.at = "poke" /\ firing' = Idle
      /\ \/ pokes' = (IF closed THEN pokes ELSE pokes + 1) /\ UNCHANGED <<pending, stranded, fails>>
         \/ /\ MayFail /\ ~closed /\ fails' = fails + 1
            /\ pending' = TakenBack(pending, firing.fn)
            /\ stranded' = TRUE /\ UNCHANGED pokes
  BY DEF TimerPoke
<1>2. UNCHANGED <<pc, more>>
  BY <1>1 DEF slice
<1>3. Poking /\ ~closed /\ pc = "vcl" /\ ~more
  BY <1>1 DEF CallbackInv, IInv, Posted, Taken, Armed, Fired, Gone, Idle
<1>4. stranded \in BOOLEAN /\ fails \in 0 .. MaxFails /\ MaxFails \in Nat
  BY TypesInto, ConstantsAre DEF RestTypes, IInv, Limits
<1>5. CASE pokes' = (IF closed THEN pokes ELSE pokes + 1) /\ UNCHANGED <<pending, stranded, fails>>
  <2>1. Posted'
    BY <1>1, <1>3, <1>5 DEF Poking, Posted
  <2>2. CallbackInv'
    BY <1>1, <1>2, <1>3, <2>1 DEF CallbackInv
  <2> QED BY <1>1, <1>4, <1>5, <2>2, RearmStep
<1>6. CASE MayFail /\ ~closed /\ fails' = fails + 1 /\ pending' = TakenBack(pending, firing.fn) /\ stranded' = TRUE /\ UNCHANGED pokes
  <2>1. pending' = <<>>
    BY <1>3, <1>6, TakenBackOne DEF Poking
  <2>2. Gone'
    BY <1>1, <1>3, <1>6, <2>1 DEF Poking, Gone
  <2>3. CallbackInv'
    BY <1>1, <1>2, <1>3, <1>6, <2>2 DEF CallbackInv
  <2>4. fails' \in 0 .. MaxFails
    BY <1>4, <1>6 DEF MayFail
  <2> QED BY <1>1, <1>6, <2>3, <2>4, RearmStep
<1> QED BY <1>1, <1>5, <1>6

-----------------------------------------------------------------------------
(* The producer and the batcher.                                           *)

\* A step that leaves the re-arm alone and does not end or begin a slice.
LEMMA CallbackKept ==
  ASSUME CallbackInv, UNCHANGED <<rearm, closed, stranded, more>>,
         pc' = pc \/ (pc # "vcl" /\ pc' # "vcl")
  PROVE  CallbackInv'
<1>1. UNCHANGED <<target, timer, firing, pending, pokes>>
  BY DEF rearm
<1>2. /\ Posted' = Posted /\ Poking' = Poking /\ Armed' = Armed /\ Fired' = Fired /\ Taken' = Taken /\ Gone' = Gone
  BY <1>1 DEF Posted, Poking, Armed, Fired, Taken, Gone
<1> QED BY <1>2 DEF CallbackInv

\* A step outside the main thread that leaves the re-arm alone.
LEMMA OutsideKept ==
  ASSUME IInv, UNCHANGED <<slice, rearm, closed, ended, stranded>>
  PROVE  CallbackInv' /\ StageInv' /\ UNCHANGED <<pc, batch, more, streak>>
<1>1. UNCHANGED <<pc, batch, more, streak>>
  BY DEF slice
<1>2. CallbackInv'
  BY <1>1, CallbackKept DEF IInv
<1>3. StageInv'
  BY <1>1 DEF StageInv, IInv
<1> QED BY <1>1, <1>2, <1>3

\* The batcher's timer expires.
LEMMA BurstExpiresPreserves ==
  ASSUME IInv, BurstExpires
  PROVE  IInv'
<1>1. UNCHANGED <<producer, runs, dropped, raw, display, slice, rearm, cancelled, closed, ended, tail, stranded, fails>>
      /\ burst' = {"fires"}
  BY DEF BurstExpires
<1>2. UNCHANGED <<put, working, rounds, thinking, content, shown>>
  BY <1>1 DEF producer, display
<1>3. CallbackInv' /\ StageInv' /\ UNCHANGED <<pc, batch, more, streak>>
  BY <1>1, OutsideKept
<1>4. InOrder' /\ CountInv'
  BY <1>1, <1>2, <1>3, TextsKept
<1>5. DoneInv'
  BY <1>1, <1>2, <1>3 DEF DoneInv, IInv
<1>6. TailInv'
  BY <1>1, <1>2, <1>3 DEF TailInv, IInv
<1>7. TextTypes' /\ RestTypes'
  BY <1>1, <1>2, <1>3, TypesInto DEF TextTypes, RestTypes, IInv
<1>8. TypeOK'
  BY <1>3, <1>7, TypesFrom
<1> QED BY <1>3, <1>4, <1>5, <1>6, <1>8 DEF IInv

\* The text of a queue grows at its end.
LEMMA QueueGrows ==
  ASSUME NEW q \in Seq(Items), NEW r \in Seq(Items)
  PROVE  /\ q \o r \in Seq(Items) /\ Len(q) \in Nat /\ Len(r) \in Nat /\ Len(q \o r) = Len(q) + Len(r)
         /\ \A i \in 1 .. Len(q) + Len(r) : (q \o r)[i] = IF i <= Len(q) THEN q[i] ELSE r[i - Len(q)]
         /\ Text(q \o r) = Text(q) \o Text(r) /\ Text(q) \in Texts /\ Text(r) \in Texts
         /\ (r = <<>> => q \o r = q)
<1>1. /\ q \o r \in Seq(Items) /\ Len(q) \in Nat /\ Len(r) \in Nat /\ Len(q \o r) = Len(q) + Len(r)
      /\ \A i \in 1 .. Len(q) + Len(r) : (q \o r)[i] = IF i <= Len(q) THEN q[i] ELSE r[i - Len(q)]
  BY ConcatProperties, LenProperties
<1>2. Text(q \o r) = Text(q) \o Text(r) /\ Text(q) \in Texts /\ Text(r) \in Texts
  BY TextConcat, TextType
<1>3. r = <<>> => q \o r = q
  BY ConcatEmptySeq
<1> QED BY <1>1, <1>2, <1>3

\* More on the queue keeps what Stop counts.
LEMMA TailKept ==
  ASSUME IInv, UNCHANGED <<shown, thinking, content, pc, ended, tail>>, dropped' = dropped \/ dropped',
         NEW r \in Seq(Items), raw' = raw \o r
  PROVE  TailInv'
<1>1. raw \in Seq(Items) /\ Total(Screen) \in Texts /\ Total(Screen) = (shown \o thinking) \o content
      /\ tail \in Nat
  <2>1. put \in 0 .. MaxFragments /\ tail \in 0 .. put
    BY TypesInto DEF RestTypes, IInv
  <2>2. tail \in Nat
    BY <2>1, ConstantsAre DEF Limits
  <2> QED BY <2>2, Parts DEF IInv
<1> DEFINE T == Total(Screen)  x == Text(raw)  y == Text(r)
<1>2. Text(raw') = x \o y /\ x \in Texts /\ y \in Texts
  BY <1>1, QueueGrows
<1>3. T \in Texts /\ T = (shown \o thinking) \o content
  BY <1>1
<1> HIDE DEF T, x, y
<1>4. x \o y \in Texts
  BY <1>2, Joined
<1>5. Len(T \o x) = Len(T) + Len(x) /\ Len(T) \in Nat /\ Len(x) \in Nat
  BY <1>2, <1>3, JoinedAt
<1>6. Len(x \o y) = Len(x) + Len(y) /\ Len(y) \in Nat
  BY <1>2, JoinedAt
<1>7. Len(T \o (x \o y)) = Len(T) + Len(x \o y)
  BY <1>3, <1>4, JoinedAt
<1>8. Len(T \o x) >= tail => Len(T \o Text(raw')) >= tail
  BY <1>1, <1>2, <1>5, <1>6, <1>7
<1>9. ASSUME (pc = "stoprest")', ~dropped' PROVE Len(((shown \o thinking) \o content) \o Text(raw))' >= tail'
  <2>1. pc = "stoprest" /\ ~dropped
    BY <1>9
  <2>2. Len(T \o x) >= tail
    BY <2>1, <1>3 DEF TailInv, IInv, x
  <2>3. Len(T \o Text(raw')) >= tail'
    BY <2>2, <1>8
  <2>4. ((shown \o thinking) \o content)' = T
    BY <1>3
  <2> QED BY <2>3, <2>4
<1>10. ASSUME (ended = "stopped")', ~dropped' PROVE Len(shown') >= tail'
  BY <1>10 DEF TailInv, IInv
<1> QED BY <1>9, <1>10 DEF TailInv

Queues == Seq(Items)

\* Three queues, bracketed from either side.
LEMMA RegroupQueues ==
  ASSUME NEW a \in Queues, NEW b \in Queues, NEW c \in Queues
  PROVE  (a \o b) \o c = a \o (b \o c)
BY ConcatAssociative DEF Queues

\* The runs go behind the queue, with or without a terminal item.
LEMMA EmitLine ==
  ASSUME IInv, UNCHANGED <<put, dropped, display, batch>>,
         NEW r \in Seq(Items), Text(r) = <<>>, raw' = (raw \o runs) \o r, runs' = <<>>
  PROVE  /\ InOrder' /\ CountInv' /\ raw' \in Seq(Items)
         /\ raw \in Seq(Items) /\ runs \in Seq(Items) /\ runs \o r \in Seq(Items) /\ raw' = raw \o (runs \o r)
<1>0. UNCHANGED <<shown, thinking, content>>
  BY DEF display
<1>1. raw \in Seq(Items) /\ runs \in Seq(Items) /\ batch \in Seq(Items) /\ Total(Screen) \in Texts
      /\ Everywhere = Line(Total(Screen), Text(batch), Text(raw), Text(runs))
  BY Parts DEF IInv
<1>2. raw \o runs \in Seq(Items) /\ Text(raw \o runs) = Text(raw) \o Text(runs) /\ Text(raw) \in Texts /\ Text(runs) \in Texts
  BY <1>1, QueueGrows
<1>3. raw' \in Seq(Items) /\ Text(raw') = Text(raw \o runs) \o Text(r) /\ Text(raw \o runs) \in Texts
  <2> DEFINE q == raw \o runs
  <2>1. q \in Seq(Items) /\ raw' = q \o r
    BY <1>2
  <2> HIDE DEF q
  <2>2. q \o r \in Seq(Items) /\ Text(q \o r) = Text(q) \o Text(r) /\ Text(q) \in Texts
    BY <2>1, QueueGrows
  <2> QED BY <2>1, <2>2 DEF q
<1>4. Text(raw') = Text(raw) \o Text(runs)
  BY <1>2, <1>3, NoText
<1>5. Text(runs') = <<>>
  BY TextEmpty
<1>6. Everywhere' = Line(Total(Screen), Text(batch), Text(raw'), Text(runs'))
  BY <1>0 DEF Everywhere, Line, Total, Screen
<1>7. Text(batch) \in Texts
  BY <1>1, TextType
<1>8. Line(Total(Screen), Text(batch), Text(raw) \o Text(runs), <<>>) = Line(Total(Screen), Text(batch), Text(raw), Text(runs))
  <2>1. InLine(Total(Screen), Text(batch), Text(raw), Text(runs))
    BY <1>1, <1>2, <1>7 DEF InLine
  <2> QED BY <2>1, LineEmit
<1>9. Everywhere' = Everywhere
  BY <1>1, <1>4, <1>5, <1>6, <1>8
<1>10. InOrder' /\ CountInv'
  BY <1>9, LineKept DEF IInv
<1>11. (raw \o runs) \o r = raw \o (runs \o r)
  <2>1. raw \in Queues /\ runs \in Queues /\ r \in Queues
    BY <1>1 DEF Queues
  <2> QED BY <2>1, RegroupQueues
<1>12. runs \o r \in Seq(Items)
  BY <1>1, QueueGrows
<1> QED BY <1>1, <1>3, <1>10, <1>11, <1>12

\* The runs behind the queue: a terminal item is still last, and what one
\* closed is still empty.
LEMMA DoneEmit ==
  ASSUME DoneInv, raw \in Seq(Items), runs \in Seq(Items), raw' = raw \o runs
  PROVE  /\ \A i \in 1 .. Len(raw') : raw'[i].kind = "done" => i = Len(raw') /\ ~working
         /\ \A i \in 1 .. Len(batch) : batch[i].kind = "done" => i = Len(batch) /\ raw' = <<>> /\ ~working
         /\ ended = "done" => ~working /\ batch = <<>> /\ raw' = <<>> /\ thinking = <<>> /\ content = <<>>
<1>1. /\ Len(raw) \in Nat /\ Len(runs) \in Nat /\ Len(raw') = Len(raw) + Len(runs)
      /\ \A i \in 1 .. Len(raw) + Len(runs) : raw'[i] = IF i <= Len(raw) THEN raw[i] ELSE runs[i - Len(raw)]
      /\ (runs = <<>> => raw' = raw)
  BY QueueGrows
<1>2. ASSUME NEW i \in 1 .. Len(raw'), raw'[i].kind = "done" PROVE i = Len(raw') /\ ~working
  <2>1. CASE i <= Len(raw)
    <3>1. raw[i].kind = "done" /\ i \in 1 .. Len(raw)
      BY <1>1, <1>2, <2>1
    <3>2. i = Len(raw) /\ runs = <<>> /\ ~working
      BY <3>1 DEF DoneInv
    <3> QED BY <3>2, <1>1
  <2>2. CASE ~(i <= Len(raw))
    <3>1. i - Len(raw) \in 1 .. Len(runs) /\ runs[i - Len(raw)].kind = "done"
      BY <1>1, <1>2, <2>2
    <3> QED BY <3>1 DEF DoneInv
  <2> QED BY <2>1, <2>2
<1>3. ASSUME NEW i \in 1 .. Len(batch), batch[i].kind = "done" PROVE i = Len(batch) /\ raw' = <<>> /\ ~working
  BY <1>1, <1>3 DEF DoneInv
<1>4. ended = "done" => ~working /\ batch = <<>> /\ raw' = <<>> /\ thinking = <<>> /\ content = <<>>
  BY <1>1 DEF DoneInv
<1> QED BY <1>2, <1>3, <1>4

\* The batcher's timer flushes: what a terminal item closed is empty.
LEMMA BurstFlushPreserves ==
  ASSUME IInv, BurstFlush
  PROVE  IInv'
<1>1. UNCHANGED <<producer, dropped, display, slice, rearm, cancelled, closed, ended, tail, stranded, fails>>
      /\ raw' = raw \o runs /\ runs' = <<>> /\ burst' = {}
  BY DEF BurstFlush
<1>2. UNCHANGED <<put, working, rounds, thinking, content, shown>>
  BY <1>1 DEF producer, display
<1>3. CallbackInv' /\ StageInv' /\ UNCHANGED <<pc, batch, more, streak>>
  BY <1>1, OutsideKept
<1>4. raw \in Seq(Items) /\ runs \in Seq(Items) /\ raw \o runs \in Seq(Items)
  <2>1. raw \in Seq(Items) /\ runs \in Seq(Items)
    BY Parts DEF IInv
  <2> QED BY <2>1, QueueGrows
<1>5. /\ InOrder' /\ CountInv' /\ raw' \in Seq(Items)
  <2>1. <<>> \in Seq(Items) /\ Text(<<>>) = <<>>
    BY EmptySeq, TextEmpty
  <2>2. raw' = (raw \o runs) \o <<>>
    BY <1>1, <1>4, ConcatEmptySeq
  <2> QED BY <1>1, <1>2, <1>3, <2>1, <2>2, EmitLine
<1>6. DoneInv'
  <2>1. /\ \A i \in 1 .. Len(raw') : raw'[i].kind = "done" => i = Len(raw') /\ ~working
        /\ \A i \in 1 .. Len(batch) : batch[i].kind = "done" => i = Len(batch) /\ raw' = <<>> /\ ~working
        /\ ended = "done" => ~working /\ batch = <<>> /\ raw' = <<>> /\ thinking = <<>> /\ content = <<>>
    BY <1>1, <1>4, DoneEmit DEF IInv
  <2>5. \A i \in 1 .. Len(runs') : runs'[i].kind # "done"
    BY <1>1, EmptySeq
  <2> QED BY <1>1, <1>2, <1>3, <2>1, <2>5 DEF DoneInv
<1>7. TailInv'
  BY <1>1, <1>2, <1>3, <1>4, TailKept
<1>8. TextTypes' /\ RestTypes'
  <2>1. RestTypes'
    BY <1>1, <1>2, <1>3, TypesInto DEF RestTypes, IInv
  <2>2. TextTypes'
    BY <1>1, <1>2, <1>3, <1>5, TypesInto, EmptySeq DEF TextTypes, IInv
  <2> QED BY <2>1, <2>2
<1>9. TypeOK'
  BY <1>3, <1>8, TypesFrom
<1> QED BY <1>3, <1>5, <1>6, <1>7, <1>9 DEF IInv

\* While a worker produces, no terminal item is anywhere.
LEMMA NoDoneYet ==
  ASSUME DoneInv, working
  PROVE  /\ \A i \in 1 .. Len(batch) : batch[i].kind # "done"
         /\ \A i \in 1 .. Len(raw) : raw[i].kind # "done"
         /\ \A i \in 1 .. Len(runs) : runs[i].kind # "done"
         /\ ended # "done"
BY DEF DoneInv

\* The worker returns.
LEMMA PutDonePreserves ==
  ASSUME IInv, PutDone
  PROVE  IInv'
<1>1. /\ UNCHANGED <<put, rounds, dropped, display, slice, rearm, cancelled, closed, ended, tail, stranded, fails>>
      /\ working /\ working' = FALSE
      /\ IF dropped THEN UNCHANGED <<runs, burst, raw>> ELSE Emit(<<DoneItem>>)
  BY DEF PutDone
<1>2. UNCHANGED <<thinking, content, shown>>
  BY <1>1 DEF display
<1>3. CallbackInv' /\ StageInv' /\ UNCHANGED <<pc, batch, more, streak>>
  BY <1>1, OutsideKept
<1>4. RestTypes'
  <2>1. burst' \subseteq burst
    BY <1>1 DEF Emit
  <2> QED BY <2>1, <1>1, <1>2, <1>3, TypesInto DEF RestTypes, IInv
<1>5. CASE dropped
  <2>1. UNCHANGED <<runs, raw>>
    BY <1>1, <1>5
  <2>2. InOrder' /\ CountInv'
    BY <1>1, <1>2, <1>3, <2>1, TextsKept
  <2>3. DoneInv'
    BY <1>1, <1>2, <1>3, <2>1 DEF DoneInv, IInv
  <2>4. TailInv'
    BY <1>1, <1>2, <1>3, <2>1 DEF TailInv, IInv
  <2>5. TextTypes'
    BY <1>1, <1>2, <1>3, <2>1, TypesInto DEF TextTypes, IInv
  <2>6. TypeOK'
    BY <1>3, <1>4, <2>5, TypesFrom
  <2> QED BY <1>3, <2>2, <2>3, <2>4, <2>6 DEF IInv
<1>6. CASE ~dropped
  <2> DEFINE r == <<DoneItem>>
  <2>1. raw' = (raw \o runs) \o r /\ runs' = <<>>
    BY <1>1, <1>6 DEF Emit
  <2>2. r \in Seq(Items) /\ Len(r) = 1 /\ r[1] = DoneItem /\ DoneItem \in Items
    BY DEF Items
  <2>3. Text(r) = <<>>
    BY <2>2, TextOne DEF DoneItem
  <2> HIDE DEF r
  <2>4. /\ InOrder' /\ CountInv' /\ raw' \in Seq(Items) /\ raw \in Seq(Items) /\ runs \in Seq(Items)
        /\ runs \o r \in Seq(Items) /\ raw' = raw \o (runs \o r)
    BY <1>1, <1>2, <1>3, <2>1, <2>2, <2>3, EmitLine
  <2>5. TailInv'
    BY <1>1, <1>2, <1>3, <2>4, TailKept
  <2>6. /\ \A i \in 1 .. Len(batch) : batch[i].kind # "done"
        /\ \A i \in 1 .. Len(raw) : raw[i].kind # "done"
        /\ \A i \in 1 .. Len(runs) : runs[i].kind # "done"
        /\ ended # "done"
    BY <1>1, NoDoneYet DEF IInv
  <2>7. /\ Len(raw) \in Nat /\ Len(runs) \in Nat /\ Len(raw \o runs) = Len(raw) + Len(runs) /\ raw \o runs \in Seq(Items)
        /\ \A i \in 1 .. Len(raw) + Len(runs) : (raw \o runs)[i] = IF i <= Len(raw) THEN raw[i] ELSE runs[i - Len(raw)]
    BY <2>4, QueueGrows
  <2>8. ASSUME NEW i \in 1 .. Len(raw \o runs) PROVE (raw \o runs)[i].kind # "done"
    <3>1. CASE i <= Len(raw)
      BY <2>6, <2>7, <3>1
    <3>2. CASE ~(i <= Len(raw))
      <4>1. i - Len(raw) \in 1 .. Len(runs)
        BY <2>7, <3>2
      <4> QED BY <4>1, <2>6, <2>7, <3>2
    <3> QED BY <3>1, <3>2
  <2>9. ASSUME NEW i \in 1 .. Len(raw'), raw'[i].kind = "done" PROVE i = Len(raw')
    <3> DEFINE q == raw \o runs
    <3>1. q \in Seq(Items) /\ raw' = q \o r /\ \A k \in 1 .. Len(q) : q[k].kind # "done"
      BY <2>1, <2>7, <2>8
    <3> HIDE DEF q
    <3>2. /\ Len(q) \in Nat /\ Len(raw') = Len(q) + 1
          /\ \A k \in 1 .. Len(q) + 1 : raw'[k] = IF k <= Len(q) THEN q[k] ELSE r[k - Len(q)]
      BY <3>1, <2>2, QueueGrows
    <3>3. ~(i <= Len(q))
      BY <3>1, <3>2, <2>9
    <3> QED BY <3>2, <3>3
  <2>10. DoneInv'
    <3>1. \A i \in 1 .. Len(runs') : runs'[i].kind # "done"
      BY <2>1, EmptySeq
    <3>2. \A i \in 1 .. Len(batch') : batch'[i].kind # "done"
      BY <1>3, <2>6
    <3>3. ended' # "done"
      BY <1>1, <2>6
    <3>4. \A i \in 1 .. Len(raw') : raw'[i].kind = "done" => i = Len(raw') /\ runs' = <<>> /\ ~working'
      BY <1>1, <2>1, <2>9
    <3> QED BY <3>1, <3>2, <3>3, <3>4 DEF DoneInv
  <2>11. TextTypes'
    BY <1>1, <1>2, <1>3, <2>1, <2>4, TypesInto, EmptySeq DEF TextTypes, IInv
  <2>12. TypeOK'
    BY <1>3, <1>4, <2>11, TypesFrom
  <2> QED BY <1>3, <2>4, <2>5, <2>10, <2>12 DEF IInv
<1> QED BY <1>5, <1>6

\* A fragment is put: it is the next number, and it is last in the line.
LEMMA PutTextPreserves ==
  ASSUME IInv, NEW k \in Kinds, PutText(k)
  PROVE  IInv'
<1>1. /\ UNCHANGED <<working, rounds, dropped, raw, display, slice, rearm, cancelled, closed, ended, tail, stranded, fails>>
      /\ working /\ put < MaxFragments /\ put' = put + 1
      /\ dropped => UNCHANGED <<runs, burst>>
      /\ ~dropped => /\ IF runs # <<>> /\ Last(runs).kind = k
                          THEN runs' = [runs EXCEPT ![Len(runs)].text = Append(@, put + 1)]
                          ELSE runs' = Append(runs, [kind |-> k, text |-> <<put + 1>>])
                     /\ burst' = IF runs = <<>> THEN burst \cup {"armed"} ELSE burst
  BY DEF PutText, batcher
<1>2. UNCHANGED <<thinking, content, shown>>
  BY <1>1 DEF display
<1>3. CallbackInv' /\ StageInv' /\ UNCHANGED <<pc, batch, more, streak>>
  BY <1>1, OutsideKept
<1>4. put \in Nat /\ put + 1 \in Fragments /\ put' \in 0 .. MaxFragments
  BY <1>1, ConstantsAre DEF IInv, TypeOK, Limits, Fragments
<1>5. RestTypes'
  <2>1. burst' \subseteq {"armed", "fires"}
    BY <1>1, TypesInto DEF RestTypes, IInv
  <2>2. tail' \in 0 .. put'
    BY <1>1, <1>4, TypesInto DEF RestTypes, IInv
  <2> QED BY <2>1, <2>2, <1>1, <1>3, <1>4, TypesInto DEF RestTypes, IInv
<1>6. TailInv'
  BY <1>1, <1>2, <1>3 DEF TailInv, IInv
<1>7. /\ \A i \in 1 .. Len(batch) : batch[i].kind # "done"
      /\ \A i \in 1 .. Len(raw) : raw[i].kind # "done"
      /\ \A i \in 1 .. Len(runs) : runs[i].kind # "done"
      /\ ended # "done"
  BY <1>1, NoDoneYet DEF IInv
<1>8. CASE dropped
  <2>1. UNCHANGED <<runs, raw>>
    BY <1>1, <1>8
  <2>2. Everywhere' = Everywhere
    BY <1>1, <1>2, <1>3, <2>1 DEF Everywhere
  <2>3. Len(Everywhere) \in Nat
    BY <1>4, <2>2 DEF IInv, CountInv, InOrder, Everywhere, TypeOK
  <2>4. InOrder' /\ CountInv'
    BY <1>1, <1>4, <1>8, <2>1, <2>2, <2>3 DEF InOrder, CountInv, IInv
  <2>5. DoneInv'
    BY <1>1, <1>2, <1>3, <2>1, <1>7 DEF DoneInv
  <2>6. TextTypes'
    BY <1>1, <1>2, <1>3, <2>1, TypesInto DEF TextTypes, IInv
  <2>7. TypeOK'
    BY <1>3, <1>5, <2>6, TypesFrom
  <2> QED BY <1>3, <1>6, <2>4, <2>5, <2>7 DEF IInv
<1>9. CASE ~dropped
  <2> DEFINE x == <<put + 1>>
  <2>1. x \in Texts
    BY <1>4 DEF Texts
  <2>2. /\ raw \in Seq(Items) /\ runs \in Seq(Items) /\ batch \in Seq(Items) /\ Total(Screen) \in Texts
        /\ Text(batch) \in Texts /\ Text(raw) \in Texts /\ Text(runs) \in Texts
        /\ Everywhere = Line(Total(Screen), Text(batch), Text(raw), Text(runs))
    BY Parts DEF IInv
  <2>3. /\ runs' \in Seq(Items) /\ Text(runs') = Text(runs) \o x
        /\ \A i \in 1 .. Len(runs') : runs'[i].kind # "done"
    <3>1. CASE runs # <<>> /\ Last(runs).kind = k
      <4>1. runs' = [runs EXCEPT ![Len(runs)].text = Append(@, put + 1)]
        BY <1>1, <1>9, <3>1
      <4>2. runs[Len(runs)].kind \in Kinds
        BY <3>1 DEF Last
      <4>3. /\ runs' \in Seq(Items) /\ Len(runs') = Len(runs)
            /\ \A i \in 1 .. Len(runs) : runs'[i].kind = runs[i].kind
            /\ Text(runs') = Text(runs) \o <<put + 1>>
        <5> DEFINE e == put + 1
        <5>1. e \in Fragments /\ runs # <<>> /\ runs \in Seq(Items) /\ runs' = Extended(runs, e)
          BY <4>1, <3>1, <2>2, <1>4 DEF Extended
        <5> HIDE DEF e
        <5>2. /\ runs' \in Seq(Items) /\ Len(runs') = Len(runs)
              /\ \A i \in 1 .. Len(runs) : runs'[i].kind = runs[i].kind
              /\ Text(runs') = Text(runs) \o <<e>>
          BY <5>1, <4>2, TextExtend
        <5> QED BY <5>2 DEF e
      <4>4. \A i \in 1 .. Len(runs') : runs'[i].kind # "done"
        BY <4>3, <1>7
      <4> QED BY <4>3, <4>4
    <3>2. CASE ~(runs # <<>> /\ Last(runs).kind = k)
      <4> DEFINE y == [kind |-> k, text |-> <<put + 1>>]
      <4>1. runs' = Append(runs, y)
        BY <1>1, <1>9, <3>2
      <4>2. y \in Items /\ y.text = x /\ y.kind = k /\ k # "done"
        BY <1>4 DEF Items, Kinds
      <4> HIDE DEF y, x
      <4>3. /\ runs' \in Seq(Items) /\ Len(runs') = Len(runs) + 1 /\ Text(runs') = Text(runs) \o x
        BY <4>1, <4>2, <2>2, TextAppend
      <4>4. /\ Len(runs) \in Nat /\ \A i \in 1 .. Len(runs) : runs'[i] = runs[i]
            /\ runs'[Len(runs) + 1] = y
        BY <4>1, <4>2, <2>2, AppendProperties, LenProperties
      <4>5. \A i \in 1 .. Len(runs') : runs'[i].kind # "done"
        BY <4>2, <4>3, <4>4, <1>7
      <4> QED BY <4>3, <4>5
    <3> QED BY <3>1, <3>2
  <2> HIDE DEF x
  <2>4. Everywhere' = Line(Total(Screen), Text(batch), Text(raw), Text(runs'))
    BY <1>1, <1>2, <1>3 DEF Everywhere, Line, Total, Screen
  <2>5. Line(Total(Screen), Text(batch), Text(raw), Text(runs) \o x) = Line(Total(Screen), Text(batch), Text(raw), Text(runs)) \o x
    <3> DEFINE a == Total(Screen)  b == Text(batch)  r == Text(raw)  u == Text(runs)
    <3>1. a \in Texts /\ b \in Texts /\ r \in Texts /\ u \in Texts
      BY <2>2
    <3> HIDE DEF a, b, r, u
    <3>2. Line(a, b, r, u \o x) = Line(a, b, r, u) \o x
      <4>1. InLine(a, b, r, u)
        BY <3>1 DEF InLine
      <4> QED BY <4>1, <2>1, LinePut
    <3> QED BY <3>2 DEF a, b, r, u
  <2>6. Everywhere' = Everywhere \o x
    BY <2>2, <2>3, <2>4, <2>5
  <2>7. Everywhere \in Texts
    <3>1. InLine(Total(Screen), Text(batch), Text(raw), Text(runs))
      BY <2>2 DEF InLine
    <3> QED BY <3>1, <2>2, LineLength
  <2> DEFINE E == Everywhere  F == Everywhere'
  <2>8. Len(E) = put /\ E = [i \in 1 .. Len(E) |-> i]
    BY <1>9 DEF IInv, InOrder
  <2>9. F = E \o x /\ E \in Texts /\ F \in Texts
    BY <2>6, <2>7, <2>1, Joined
  <2> HIDE DEF E, F
  <2>10. Len(x) = 1 /\ x[1] = put + 1
    BY DEF x
  <2>11. /\ Len(F) = put + 1
         /\ \A i \in 1 .. put + 1 : F[i] = IF i <= put THEN E[i] ELSE x[i - put]
    <3>1. E \in Texts
      BY <2>9
    <3>2. /\ Len(E \o x) = Len(E) + Len(x)
          /\ \A i \in 1 .. Len(E) + Len(x) : (E \o x)[i] = IF i <= Len(E) THEN E[i] ELSE x[i - Len(E)]
      BY <3>1, <2>1, JoinedAt
    <3>3. F = E \o x /\ Len(E) = put /\ Len(x) = 1
      BY <2>8, <2>9, <2>10
    <3> QED BY <3>2, <3>3
  <2>12. ASSUME NEW i \in 1 .. put + 1 PROVE F[i] = i
    <3>1. CASE i <= put
      <4>1. i \in 1 .. put
        BY <1>4, <3>1
      <4>2. E[i] = i
        BY <4>1, <2>8
      <4> QED BY <4>2, <2>11, <3>1
    <3>2. CASE ~(i <= put)
      <4>1. i = put + 1 /\ i - put = 1
        BY <1>4, <3>2
      <4> QED BY <4>1, <2>10, <2>11, <3>2
    <3> QED BY <3>1, <3>2
  <2>13. F = [i \in 1 .. Len(F) |-> i]
    <3>1. F = [i \in 1 .. Len(F) |-> F[i]]
      BY <2>9, LenProperties DEF Texts
    <3> QED BY <3>1, <2>11, <2>12
  <2>14. InOrder'
    <3>1. Everywhere' = [i \in 1 .. Len(Everywhere') |-> i]
      BY <2>13 DEF F
    <3>2. Len(Everywhere') = put'
      BY <2>11, <1>1 DEF F
    <3> QED BY <3>1, <3>2 DEF InOrder
  <2>15. CountInv'
    <3>1. Len(Everywhere') <= put'
      BY <2>11, <1>1, <1>4 DEF F
    <3> QED BY <3>1, <1>1, <1>9 DEF CountInv
  <2>16. DoneInv'
    BY <1>1, <1>3, <1>7, <2>3 DEF DoneInv
  <2>17. TextTypes'
    BY <1>1, <1>2, <1>3, <2>3, TypesInto DEF TextTypes, IInv
  <2>18. TypeOK'
    BY <1>3, <1>5, <2>17, TypesFrom
  <2> QED BY <1>3, <1>6, <2>14, <2>15, <2>16, <2>18 DEF IInv
<1> QED BY <1>8, <1>9

\* Stop: a discard loses the end of the line.
LEMMA StopPreserves ==
  ASSUME IInv, Stop
  PROVE  IInv'
<1>1. /\ UNCHANGED <<producer, raw, display, slice, rearm, closed, ended, tail, stranded, fails>>
      /\ cancelled' = TRUE
      /\ \/ UNCHANGED <<runs, dropped, burst>>
         \/ dropped' = TRUE /\ runs' = <<>> /\ burst' = burst \ {"armed"}
  BY DEF Stop, batcher
<1>2. UNCHANGED <<put, working, rounds, thinking, content, shown>>
  BY <1>1 DEF producer, display
<1>3. CallbackInv' /\ StageInv' /\ UNCHANGED <<pc, batch, more, streak>>
  BY <1>1, OutsideKept
<1>4. RestTypes'
  <2>1. burst' \subseteq burst /\ dropped' \in {dropped, TRUE}
    BY <1>1
  <2> QED BY <2>1, <1>1, <1>2, <1>3, TypesInto DEF RestTypes, IInv
<1>5. CASE UNCHANGED <<runs, dropped, burst>>
  <2>1. InOrder' /\ CountInv'
    BY <1>1, <1>2, <1>3, <1>5, TextsKept
  <2>2. DoneInv'
    BY <1>1, <1>2, <1>3, <1>5 DEF DoneInv, IInv
  <2>3. TailInv'
    BY <1>1, <1>2, <1>3, <1>5 DEF TailInv, IInv
  <2>4. TextTypes'
    BY <1>1, <1>2, <1>3, <1>5, TypesInto DEF TextTypes, IInv
  <2>5. TypeOK'
    BY <1>3, <1>4, <2>4, TypesFrom
  <2> QED BY <1>3, <2>1, <2>2, <2>3, <2>5 DEF IInv
<1>6. CASE dropped' = TRUE /\ runs' = <<>> /\ burst' = burst \ {"armed"}
  <2>1. /\ Total(Screen) \in Texts /\ Text(batch) \in Texts /\ Text(raw) \in Texts /\ Text(runs) \in Texts
        /\ Everywhere = Line(Total(Screen), Text(batch), Text(raw), Text(runs))
    BY Parts DEF IInv
  <2> DEFINE a == Total(Screen)  b == Text(batch)  r == Text(raw)  u == Text(runs)
             E == Everywhere  F == Everywhere'
  <2>2. F = (a \o b) \o r
    <3>1. Text(runs') = <<>>
      BY <1>6, TextEmpty
    <3>2. F = Line(a, b, r, Text(runs'))
      BY <1>1, <1>2, <1>3 DEF Everywhere, Line, Total, Screen
    <3>3. a \in Texts /\ b \in Texts /\ r \in Texts
      BY <2>1
    <3> HIDE DEF a, b, r, F
    <3>4. (a \o b) \o r \in Texts
      <4>1. a \o b \in Texts
        BY <3>3, Joined
      <4> QED BY <4>1, <3>3, Joined
    <3>5. ((a \o b) \o r) \o <<>> = (a \o b) \o r
      BY <3>4, NoText
    <3> QED BY <3>1, <3>2, <3>5 DEF Line
  <2>3. a \in Texts /\ b \in Texts /\ r \in Texts /\ u \in Texts
    BY <2>1
  <2>4. E = Line(a, b, r, u)
    BY <2>1
  <2>5. E = [i \in 1 .. Len(E) |-> i] /\ Len(E) <= put
    BY DEF IInv, InOrder, CountInv
  <2> HIDE DEF a, b, r, u, E, F
  <2>6. /\ Len(a) \in Nat /\ Len(b) \in Nat /\ Len(r) \in Nat /\ Len(u) \in Nat
        /\ Len(Line(a, b, r, u)) = Len(a) + Len(b) + Len(r) + Len(u)
        /\ \A i \in 1 .. Len(a) + Len(b) + Len(r) : ((a \o b) \o r)[i] = Line(a, b, r, u)[i]
    <3>1. InLine(a, b, r, u)
      BY <2>3 DEF InLine
    <3> QED BY <3>1, LineLength
  <2>7. F \in Texts /\ Len(F) = Len(a) + Len(b) + Len(r)
    <3>1. a \o b \in Texts /\ Len(a \o b) = Len(a) + Len(b)
      BY <2>3, Joined, JoinedAt
    <3> DEFINE x == a \o b
    <3>2. x \in Texts /\ Len(x) = Len(a) + Len(b) /\ F = x \o r
      BY <3>1, <2>2
    <3> HIDE DEF x
    <3>3. x \o r \in Texts /\ Len(x \o r) = Len(x) + Len(r)
      BY <3>2, <2>3, Joined, JoinedAt
    <3> QED BY <3>2, <3>3
  <2>8. ASSUME NEW i \in 1 .. Len(F) PROVE F[i] = i
    <3>1. i \in 1 .. Len(a) + Len(b) + Len(r) /\ i \in 1 .. Len(E)
      BY <2>4, <2>6, <2>7
    <3>2. F[i] = E[i]
      BY <3>1, <2>2, <2>4, <2>6
    <3>3. E[i] = i
      BY <3>1, <2>5
    <3> QED BY <3>2, <3>3
  <2>9. F = [i \in 1 .. Len(F) |-> i]
    <3>1. F = [i \in 1 .. Len(F) |-> F[i]]
      BY <2>7, LenProperties DEF Texts
    <3> QED BY <3>1, <2>8
  <2>10. put \in Nat
    BY ConstantsAre DEF IInv, TypeOK, Limits
  <2>11. Len(F) <= put
    BY <2>4, <2>5, <2>6, <2>7, <2>10
  <2>12. InOrder'
    BY <1>6, <2>9 DEF InOrder, F
  <2>13. CountInv'
    BY <1>2, <1>6, <2>11 DEF CountInv, F
  <2>14. DoneInv'
    <3>1. \A i \in 1 .. Len(runs') : runs'[i].kind # "done"
      BY <1>6, EmptySeq
    <3> QED BY <1>1, <1>2, <1>3, <1>6, <3>1 DEF DoneInv, IInv
  <2>15. TailInv'
    BY <1>6 DEF TailInv
  <2>16. TextTypes'
    BY <1>1, <1>2, <1>3, <1>6, TypesInto, EmptySeq DEF TextTypes, IInv
  <2>17. TypeOK'
    BY <1>3, <1>4, <2>16, TypesFrom
  <2> QED BY <1>3, <2>12, <2>13, <2>14, <2>15, <2>17 DEF IInv
<1> QED BY <1>1, <1>5, <1>6

-----------------------------------------------------------------------------
(* The slice.                                                              *)

\* Inside a slice the drain is open, without a reason and without a closure.
LEMMA InSlice ==
  ASSUME CallbackInv, StageInv, pc # "vcl"
  PROVE  ~closed /\ Gone /\ ~more /\ (pc # "finish" => ended = "no")
BY DEF CallbackInv, StageInv

\* The parts of a screen.
LEMMA ScreenStep ==
  ASSUME NEW d \in Screens, Buffered(d)
  PROVE  /\ Total(Screen)' = Total(d) /\ Total(Screen') = Total(d)
         /\ shown' \in Seq(Fragments) /\ thinking' \in Seq(Fragments) /\ content' \in Seq(Fragments)
BY DEF Buffered, Total, Screen, Screens, Texts

\* Everything buffered is shown.
LEMMA FlushStep ==
  ASSUME NEW t \in Texts, FlushAll(t)
  PROVE  /\ Total(Screen)' = t /\ Total(Screen') = t
         /\ shown' \in Seq(Fragments) /\ thinking' \in Seq(Fragments) /\ content' \in Seq(Fragments)
<1>1. shown' = t /\ thinking' = <<>> /\ content' = <<>>
  BY DEF FlushAll
<1>2. (t \o <<>>) \o <<>> = t
  BY NoText
<1>3. <<>> \in Texts
  BY NoText
<1> QED BY <1>1, <1>2, <1>3 DEF Total, Screen, Texts

\* The line after a step of the main thread.
LEMMA LineAfter ==
  /\ Everywhere' = Line(Total(Screen'), Text(batch'), Text(raw'), Text(runs'))
  /\ Total(Screen') = (shown' \o thinking') \o content'
BY DEF Everywhere, Line, Total, Screen

\* The parts of the line, as the lemmas about lines want them.
LEMMA PartsInLine ==
  ASSUME TypeOK
  PROVE  /\ InLine(Total(Screen), Text(batch), Text(raw), Text(runs))
         /\ Everywhere = Line(Total(Screen), Text(batch), Text(raw), Text(runs))
         /\ Total(Screen) \in Texts /\ Total(Screen) = Flushed
BY Parts DEF InLine, Flushed

\* The terminal item found, before the end.
LEMMA StopSeenPreserves ==
  ASSUME IInv, StopSeen
  PROVE  IInv'
<1>1. /\ pc = "batch" /\ pc' = "stop"
      /\ UNCHANGED <<producer, batcher, raw, display, batch, more, streak, rearm, cancelled, closed, ended, tail, stranded, fails>>
  BY DEF StopSeen
<1>2. UNCHANGED <<put, working, rounds, runs, dropped, burst, thinking, content, shown>>
  BY <1>1 DEF producer, batcher, display
<1>3. ~closed /\ Gone /\ ~more /\ ended = "no"
  BY <1>1, InSlice DEF IInv
<1>4. CallbackInv'
  BY <1>1, CallbackKept DEF IInv
<1>5. InOrder' /\ CountInv'
  BY <1>1, <1>2, TextsKept
<1>6. StageInv' /\ TailInv'
  BY <1>1, <1>3 DEF StageInv, TailInv
<1>7. DoneInv'
  BY <1>1, <1>2 DEF DoneInv, IInv
<1>8. TextTypes' /\ RestTypes'
  BY <1>1, <1>2, TypesInto DEF TextTypes, RestTypes, IInv
<1>9. TypeOK'
  BY <1>4, <1>8, TypesFrom
<1> QED BY <1>4, <1>5, <1>6, <1>7, <1>9 DEF IInv

\* A batch is through: the buffers are flushed.
LEMMA BatchDonePreserves ==
  ASSUME IInv, BatchDone
  PROVE  IInv'
<1>1. /\ pc = "batch" /\ batch = <<>> /\ pc' = "rearm" /\ FlushAll(Flushed)
      /\ UNCHANGED <<producer, batcher, raw, batch, more, streak, rearm, cancelled, closed, ended, tail, stranded, fails>>
  BY DEF BatchDone
<1>2. UNCHANGED <<put, working, rounds, runs, dropped, burst>>
  BY <1>1 DEF producer, batcher
<1>3. ~closed /\ Gone /\ ~more /\ ended = "no"
  BY <1>1, InSlice DEF IInv
<1>4. CallbackInv'
  BY <1>1, CallbackKept DEF IInv
<1>5. Total(Screen) \in Texts /\ Total(Screen) = Flushed /\ Everywhere = Line(Total(Screen), Text(batch), Text(raw), Text(runs))
  BY PartsInLine DEF IInv
<1>6. Total(Screen') = Total(Screen) /\ shown' \in Seq(Fragments) /\ thinking' \in Seq(Fragments) /\ content' \in Seq(Fragments)
  BY <1>1, <1>5, FlushStep
<1>7. Everywhere' = Everywhere
  BY <1>1, <1>2, <1>5, <1>6, LineAfter
<1>8. InOrder' /\ CountInv'
  BY <1>2, <1>7, LineKept DEF IInv
<1>9. StageInv' /\ TailInv'
  BY <1>1, <1>3 DEF StageInv, TailInv
<1>10. DoneInv'
  BY <1>1, <1>2, <1>3 DEF DoneInv, IInv
<1>11. TextTypes' /\ RestTypes'
  BY <1>1, <1>2, <1>6, TypesInto DEF TextTypes, RestTypes, IInv
<1>12. TypeOK'
  BY <1>4, <1>11, TypesFrom
<1> QED BY <1>4, <1>8, <1>9, <1>10, <1>12 DEF IInv

\* A handler raises: the buffers are flushed, or that raises too, and the drain ends.
LEMMA BatchFailsPreserves ==
  ASSUME IInv, BatchFails
  PROVE  IInv'
<1>1. /\ pc = "batch" /\ pc' = "finish" /\ (FlushAll(Flushed) \/ UNCHANGED display) /\ MayFail /\ fails' = fails + 1 /\ ended' = "error"
      /\ UNCHANGED <<producer, batcher, raw, batch, more, streak, rearm, cancelled, closed, tail, stranded>>
  BY DEF BatchFails
<1>2. UNCHANGED <<put, working, rounds, runs, dropped, burst>>
  BY <1>1 DEF producer, batcher
<1>3. ~closed /\ Gone /\ ~more /\ ended = "no"
  BY <1>1, InSlice DEF IInv
<1>4. CallbackInv'
  BY <1>1, CallbackKept DEF IInv
<1>5. Total(Screen) \in Texts /\ Total(Screen) = Flushed /\ Everywhere = Line(Total(Screen), Text(batch), Text(raw), Text(runs))
  BY PartsInLine DEF IInv
<1>6. Total(Screen') = Total(Screen) /\ shown' \in Seq(Fragments) /\ thinking' \in Seq(Fragments) /\ content' \in Seq(Fragments)
  <2>1. CASE FlushAll(Flushed)
    BY <2>1, <1>5, FlushStep
  <2>2. CASE UNCHANGED display
    <3>1. UNCHANGED <<shown, thinking, content>>
      BY <2>2 DEF display
    <3> QED BY <3>1, TypesInto DEF Total, Screen, TextTypes, IInv
  <2> QED BY <1>1, <2>1, <2>2
<1>7. Everywhere' = Everywhere
  BY <1>1, <1>2, <1>5, <1>6, LineAfter
<1>8. InOrder' /\ CountInv'
  BY <1>2, <1>7, LineKept DEF IInv
<1>9. StageInv' /\ TailInv'
  BY <1>1, <1>3 DEF StageInv, TailInv
<1>10. DoneInv'
  BY <1>1, <1>2, <1>3 DEF DoneInv, IInv
<1>11. fails' \in 0 .. MaxFails
  BY <1>1, TypesInto, ConstantsAre DEF RestTypes, MayFail, Limits, IInv
<1>12. TextTypes' /\ RestTypes'
  BY <1>1, <1>2, <1>6, <1>11, TypesInto DEF TextTypes, RestTypes, IInv
<1>13. TypeOK'
  BY <1>4, <1>12, TypesFrom
<1> QED BY <1>4, <1>8, <1>9, <1>10, <1>13 DEF IInv

\* What Notify does with its only possible closure.
LEMMA NotifyIs ==
  ASSUME IInv, Notify
  PROVE  \E n \in 0 .. Len(raw) :
           /\ n = Least(Len(raw), BatchLimit)
           /\ pc = "vcl" /\ ~closed /\ Posted /\ ~more /\ ended = "no" /\ batch = <<>>
           /\ pokes' = 0 /\ pending' = <<>> /\ more' = FALSE /\ fails' = fails
           /\ UNCHANGED <<producer, batcher, display, streak, target, timer, firing, cancelled, closed, ended, tail, stranded>>
           /\ \/ pc' = "stop" /\ UNCHANGED <<batch, raw>>
              \/ pc' = "batch" /\ batch' = SubSeq(raw, 1, n) /\ raw' = SubSeq(raw, n + 1, Len(raw))
<1> DEFINE n == Least(Len(raw), BatchLimit)
           fn == IF pending = <<>> \/ closed THEN "none" ELSE Head(pending)
           rest == IF fn = "none" THEN pending ELSE Tail(pending)
<1>1. pc = "vcl" /\ pokes > 0
  BY DEF Notify
<1>2. ~closed /\ Posted /\ ~more
  BY <1>1 DEF IInv, CallbackInv, Poking, Armed, Fired, Taken, Gone
<1>3. ended = "no" /\ batch = <<>>
  BY <1>1, <1>2 DEF IInv, StageInv
<1>4. pending = <<"live">> /\ pokes = 1
  BY <1>2 DEF Posted
<1>5. fn = "live" /\ rest = <<>>
  <2>1. Head(<<"live">>) = "live" /\ Tail(<<"live">>) = <<>> /\ <<"live">> # <<>>
    OBVIOUS
  <2> QED BY <1>2, <1>4, <2>1
<1>6. n \in 0 .. Len(raw)
  <2>1. Len(raw) \in Nat /\ BatchLimit \in Nat
    BY ConstantsAre, LenProperties DEF IInv, TypeOK, Limits
  <2> QED BY <2>1 DEF Least
<1>7. /\ pending' = rest
      /\ fn = "live" => /\ pokes' = pokes - 1 /\ more' = (rest # <<>>) /\ UNCHANGED fails
                        /\ IF cancelled
                             THEN pc' = "stop" /\ UNCHANGED <<batch, raw>>
                             ELSE pc' = "batch" /\ batch' = SubSeq(raw, 1, n) /\ raw' = SubSeq(raw, n + 1, Len(raw))
      /\ UNCHANGED <<producer, batcher, display, streak, target, timer, firing, cancelled, closed, ended, tail, stranded>>
  BY DEF Notify
<1> HIDE DEF fn, rest
<1>8. pokes' = 0 /\ pending' = <<>> /\ more' = FALSE /\ fails' = fails
  <2>1. pokes' = pokes - 1 /\ more' = (rest # <<>>) /\ fails' = fails /\ pending' = rest
    BY <1>5, <1>7
  <2>2. pokes' = 0
    BY <2>1, <1>4
  <2>3. more' = FALSE
    BY <2>1, <1>5
  <2> QED BY <2>1, <2>2, <2>3, <1>5
<1>9. \/ pc' = "stop" /\ UNCHANGED <<batch, raw>>
      \/ pc' = "batch" /\ batch' = SubSeq(raw, 1, n) /\ raw' = SubSeq(raw, n + 1, Len(raw))
  BY <1>5, <1>7
<1> HIDE DEF n
<1>10. n = Least(Len(raw), BatchLimit)
  BY DEF n
<1> QED BY <1>1, <1>2, <1>3, <1>6, <1>7, <1>8, <1>9, <1>10

\* The toolkit calls the slice: it looks for a Stop, or takes a batch.
LEMMA NotifyPreserves ==
  ASSUME IInv, Notify
  PROVE  IInv'
<1>n. PICK n \in 0 .. Len(raw) :
           /\ pc = "vcl" /\ ~closed /\ Posted /\ ~more /\ ended = "no" /\ batch = <<>>
           /\ pokes' = 0 /\ pending' = <<>> /\ more' = FALSE /\ fails' = fails
           /\ UNCHANGED <<producer, batcher, display, streak, target, timer, firing, cancelled, closed, ended, tail, stranded>>
           /\ \/ pc' = "stop" /\ UNCHANGED <<batch, raw>>
              \/ pc' = "batch" /\ batch' = SubSeq(raw, 1, n) /\ raw' = SubSeq(raw, n + 1, Len(raw))
  BY NotifyIs
<1>1. UNCHANGED <<put, working, rounds, runs, dropped, burst, thinking, content, shown>>
  BY <1>n DEF producer, batcher, display
<1>2. Gone'
  BY <1>n DEF Posted, Gone
<1>3. CallbackInv'
  BY <1>n, <1>2 DEF CallbackInv
<1>4. StageInv' /\ TailInv'
  BY <1>n DEF StageInv, TailInv
<1>5. RestTypes'
  BY <1>n, <1>1, TypesInto DEF RestTypes, IInv
<1>6. CASE UNCHANGED <<batch, raw>>
  <2>1. InOrder' /\ CountInv'
    BY <1>n, <1>1, <1>6, TextsKept
  <2>2. DoneInv'
    BY <1>n, <1>1, <1>6 DEF DoneInv, IInv
  <2>3. TextTypes'
    BY <1>1, <1>6, TypesInto DEF TextTypes, IInv
  <2>4. TypeOK'
    BY <1>3, <1>5, <2>3, TypesFrom
  <2> QED BY <1>3, <1>4, <2>1, <2>2, <2>4 DEF IInv
<1>7. CASE batch' = SubSeq(raw, 1, n) /\ raw' = SubSeq(raw, n + 1, Len(raw))
  <2>1. raw \in Seq(Items)
    BY Parts DEF IInv
  <2>2. /\ batch' \in Seq(Items) /\ raw' \in Seq(Items) /\ Len(batch') = n /\ Len(raw') = Len(raw) - n
        /\ \A i \in 1 .. n : batch'[i] = raw[i]
        /\ \A i \in 1 .. Len(raw) - n : raw'[i] = raw[n + i]
        /\ Text(raw) = Text(batch') \o Text(raw')
    BY <1>7, <2>1, TextSplit
  <2>3. Everywhere' = Everywhere
    <3> DEFINE a == Total(Screen)  b == Text(batch')  r == Text(raw')  u == Text(runs)
    <3>1. a \in Texts /\ u \in Texts /\ Everywhere = Line(a, Text(batch), Text(raw), u)
      BY Parts DEF IInv
    <3>2. b \in Texts /\ r \in Texts
      BY <2>2, TextType
    <3>3. Text(batch) = <<>>
      BY <1>n, TextEmpty
    <3>4. Everywhere' = Line(a, b, r, u)
      BY <1>1, LineAfter DEF Screen
    <3> HIDE DEF a, b, r, u
    <3>5. InLine(a, b, r, u)
      BY <3>1, <3>2 DEF InLine
    <3>6. Line(a, <<>>, b \o r, u) = Line(a, b, r, u)
      BY <3>5, LineTake
    <3>7. Text(raw) = b \o r
      BY <2>2 DEF b, r
    <3> QED BY <3>1, <3>3, <3>4, <3>6, <3>7
  <2>4. InOrder' /\ CountInv'
    BY <1>1, <2>3, LineKept DEF IInv
  <2>5. DoneInv'
    <3>0. Len(raw) \in Nat
      BY <2>1, LenProperties
    <3>1. ASSUME NEW i \in 1 .. Len(batch'), batch'[i].kind = "done"
          PROVE  i = Len(batch') /\ raw' = <<>> /\ runs' = <<>> /\ ~working'
      <4>1. i \in 1 .. Len(raw) /\ raw[i].kind = "done"
        BY <3>0, <3>1, <2>2
      <4>2. i = Len(raw) /\ runs = <<>> /\ ~working
        BY <4>1 DEF DoneInv, IInv
      <4>3. n = Len(raw) /\ Len(raw') = 0
        BY <3>0, <3>1, <4>2, <2>2
      <4>4. raw' = <<>>
        BY <4>3, <2>2, EmptySeq
      <4> QED BY <4>2, <4>3, <4>4, <2>2, <1>1
    <3>2. ASSUME NEW i \in 1 .. Len(raw'), raw'[i].kind = "done"
          PROVE  i = Len(raw') /\ runs' = <<>> /\ ~working'
      <4>1. n + i \in 1 .. Len(raw) /\ raw[n + i].kind = "done"
        BY <3>0, <3>2, <2>2
      <4>2. n + i = Len(raw) /\ runs = <<>> /\ ~working
        BY <4>1 DEF DoneInv, IInv
      <4> QED BY <3>0, <4>2, <2>2, <1>1
    <3>3. \A i \in 1 .. Len(runs') : runs'[i].kind # "done"
      BY <1>1 DEF DoneInv, IInv
    <3>4. ended' # "done"
      BY <1>n
    <3> QED BY <3>1, <3>2, <3>3, <3>4 DEF DoneInv
  <2>6. TextTypes'
    BY <1>1, <2>2, TypesInto DEF TextTypes, IInv
  <2>7. TypeOK'
    BY <1>3, <1>5, <2>6, TypesFrom
  <2> QED BY <1>3, <1>4, <2>4, <2>5, <2>7 DEF IInv
<1> QED BY <1>n, <1>6, <1>7

\* The line when the first item of the batch has moved to the screen.
LEMMA HeadShown ==
  ASSUME IInv, batch # <<>>, batch' = Tail(batch), UNCHANGED <<put, dropped, raw, runs>>,
         Total(Screen') = Total(Screen) \o Head(batch).text
  PROVE  /\ InOrder' /\ CountInv' /\ batch' \in Seq(Items) /\ Len(batch) \in Nat \ {0} /\ Len(batch') = Len(batch) - 1
         /\ \A i \in 1 .. Len(batch') : batch'[i] = batch[i + 1]
         /\ Head(batch) = batch[1]
<1>1. batch \in Seq(Items)
  BY Parts DEF IInv
<1>2. /\ Head(batch) \in Items /\ batch' \in Seq(Items) /\ Len(batch') = Len(batch) - 1 /\ Len(batch) \in Nat \ {0}
      /\ Head(batch) = batch[1] /\ \A i \in 1 .. Len(batch') : batch'[i] = batch[i + 1]
      /\ Text(batch) = Head(batch).text \o Text(batch')
  BY <1>1, TextHead
<1> DEFINE a == Total(Screen)  x == Head(batch).text  b == Text(batch')  r == Text(raw)  u == Text(runs)
<1>3. a \in Texts /\ r \in Texts /\ u \in Texts /\ Everywhere = Line(a, Text(batch), r, u)
  BY Parts DEF IInv
<1>4. b \in Texts /\ x \in Texts
  BY <1>2, TextType, ItemFields
<1>5. Everywhere' = Line(a \o x, b, r, u)
  BY LineAfter
<1>6. Text(batch) = x \o b
  BY <1>2
<1> HIDE DEF a, x, b, r, u
<1>7. InLine(a, b, r, u)
  BY <1>3, <1>4 DEF InLine
<1>8. Line(a \o x, b, r, u) = Line(a, x \o b, r, u)
  BY <1>4, <1>7, LineShow
<1>9. Everywhere' = Everywhere
  BY <1>3, <1>5, <1>6, <1>8
<1>10. InOrder' /\ CountInv'
  BY <1>9, LineKept DEF IInv
<1> QED BY <1>2, <1>10

\* A text item goes to its buffer, after a flush when the kind changes.
LEMMA ApplyTextPreserves ==
  ASSUME IInv, ApplyText
  PROVE  IInv'
<1>1. /\ pc = "batch" /\ batch # <<>> /\ Buffered(Buffer(Screen, Head(batch))) /\ batch' = Tail(batch)
      /\ UNCHANGED <<producer, batcher, raw, pc, more, streak, rearm, cancelled, closed, ended, tail, stranded, fails>>
  BY DEF ApplyText
<1>2. UNCHANGED <<put, working, rounds, runs, dropped, burst>>
  BY <1>1 DEF producer, batcher
<1>3. ~closed /\ Gone /\ ~more /\ ended = "no"
  BY <1>1, InSlice DEF IInv
<1>4. CallbackInv'
  BY <1>1, CallbackKept DEF IInv
<1>5. StageInv' /\ TailInv'
  BY <1>1, <1>3 DEF StageInv, TailInv
<1>6. Screen \in Screens /\ Head(batch) \in Items
  BY <1>1, Parts, TextHead DEF IInv
<1> DEFINE d == Buffer(Screen, Head(batch))
<1>7. d \in Screens /\ Total(d) = Total(Screen) \o Head(batch).text
  BY <1>6, BufferText
<1>8. Total(Screen') = Total(d) /\ shown' \in Seq(Fragments) /\ thinking' \in Seq(Fragments) /\ content' \in Seq(Fragments)
  <2>1. Buffered(d)
    BY <1>1
  <2> HIDE DEF d
  <2> QED BY <1>7, <2>1, ScreenStep
<1> HIDE DEF d
<1>9. /\ InOrder' /\ CountInv' /\ batch' \in Seq(Items) /\ Len(batch) \in Nat \ {0} /\ Len(batch') = Len(batch) - 1
      /\ \A i \in 1 .. Len(batch') : batch'[i] = batch[i + 1]
      /\ Head(batch) = batch[1]
  BY <1>1, <1>2, <1>7, <1>8, HeadShown
<1>10. DoneInv'
  <2>1. ASSUME NEW i \in 1 .. Len(batch'), batch'[i].kind = "done"
        PROVE  i = Len(batch') /\ raw' = <<>> /\ runs' = <<>> /\ ~working'
    <3>1. i + 1 \in 1 .. Len(batch) /\ batch[i + 1].kind = "done"
      BY <1>9, <2>1
    <3>2. i + 1 = Len(batch) /\ raw = <<>> /\ runs = <<>> /\ ~working
      BY <3>1 DEF DoneInv, IInv
    <3> QED BY <3>2, <1>1, <1>2, <1>9
  <2> QED BY <2>1, <1>1, <1>2, <1>3 DEF DoneInv, IInv
<1>11. TextTypes' /\ RestTypes'
  BY <1>1, <1>2, <1>8, <1>9, TypesInto DEF TextTypes, RestTypes, IInv
<1>12. TypeOK'
  BY <1>4, <1>11, TypesFrom
<1> QED BY <1>4, <1>5, <1>9, <1>10, <1>12 DEF IInv

\* The terminal item: the buffers are flushed, and the drain ends or the
\* next worker starts.
LEMMA ApplyDonePreserves ==
  ASSUME IInv, ApplyDone
  PROVE  IInv'
<1>1. /\ pc = "batch" /\ batch # <<>> /\ Head(batch).kind = "done" /\ FlushAll(Flushed) /\ batch' = Tail(batch)
      /\ \/ pc' = "finish" /\ ended' = "done" /\ UNCHANGED <<working, rounds>>
         \/ /\ rounds < MaxRounds
            /\ rounds' = rounds + 1 /\ working' = TRUE /\ UNCHANGED <<pc, ended>>
      /\ UNCHANGED <<put, batcher, raw, more, streak, rearm, cancelled, closed, tail, stranded, fails>>
  BY DEF ApplyDone
<1>2. UNCHANGED <<runs, dropped, burst>>
  BY <1>1 DEF batcher
<1>3. ~closed /\ Gone /\ ~more /\ ended = "no"
  BY <1>1, InSlice DEF IInv
<1>4. CallbackInv'
  BY <1>1, CallbackKept DEF IInv
<1>5. StageInv' /\ TailInv'
  BY <1>1, <1>3 DEF StageInv, TailInv
<1>6. Total(Screen) \in Texts /\ Total(Screen) = Flushed
  BY PartsInLine DEF IInv
<1>7. Total(Screen') = Total(Screen) /\ shown' \in Seq(Fragments) /\ thinking' \in Seq(Fragments) /\ content' \in Seq(Fragments)
  BY <1>1, <1>6, FlushStep
<1>8. Total(Screen') = Total(Screen) \o Head(batch).text
  <2>1. Head(batch) \in Items
    BY <1>1, Parts, TextHead DEF IInv
  <2>2. Head(batch).text = <<>>
    BY <1>1, <2>1, ItemFields
  <2>3. Total(Screen) \o <<>> = Total(Screen)
    BY <1>6, NoText
  <2> QED BY <1>7, <2>2, <2>3
<1>9. /\ InOrder' /\ CountInv' /\ batch' \in Seq(Items) /\ Len(batch) \in Nat \ {0} /\ Len(batch') = Len(batch) - 1
      /\ Head(batch) = batch[1]
  BY <1>1, <1>2, <1>8, HeadShown
<1>10. batch' = <<>> /\ raw = <<>> /\ runs = <<>> /\ ~working
  <2>1. 1 \in 1 .. Len(batch) /\ batch[1].kind = "done"
    BY <1>1, <1>9
  <2>2. 1 = Len(batch) /\ raw = <<>> /\ runs = <<>> /\ ~working
    BY <2>1 DEF DoneInv, IInv
  <2>3. Len(batch') = 0
    <3>1. Len(batch') = Len(batch) - 1
      BY <1>9
    <3>2. Len(batch) = 1
      BY <2>2
    <3>3. Len(batch') = 1 - 1
      BY <3>1, <3>2, Zenon
    <3> QED BY <3>3
  <2> QED BY <2>2, <2>3, <1>9, EmptySeq
<1>11. DoneInv'
  <2>1. Len(<<>>) = 0
    BY EmptySeq
  <2>2. thinking' = <<>> /\ content' = <<>>
    BY <1>1 DEF FlushAll
  <2>3. ended' = "done" => ~working'
    BY <1>1, <1>3, <1>10
  <2>4. raw' = <<>> /\ runs' = <<>>
    BY <1>1, <1>2, <1>10
  <2> QED BY <1>10, <2>1, <2>2, <2>3, <2>4 DEF DoneInv
<1>12. RestTypes'
  <2>1. rounds' \in 0 .. MaxRounds /\ working' \in BOOLEAN
    <3>1. rounds \in 0 .. MaxRounds /\ working \in BOOLEAN /\ MaxRounds \in Nat
      BY TypesInto, ConstantsAre DEF RestTypes, Limits, IInv
    <3>2. CASE UNCHANGED <<working, rounds>>
      BY <3>1, <3>2
    <3>3. CASE rounds < MaxRounds /\ rounds' = rounds + 1 /\ working' = TRUE
      BY <3>1, <3>3
    <3> QED BY <1>1, <3>2, <3>3
  <2> QED BY <2>1, <1>1, <1>2, TypesInto DEF RestTypes, IInv
<1>13. TextTypes'
  BY <1>1, <1>2, <1>7, <1>9, TypesInto DEF TextTypes, IInv
<1>14. TypeOK'
  BY <1>4, <1>12, <1>13, TypesFrom
<1> QED BY <1>4, <1>5, <1>9, <1>11, <1>14 DEF IInv

\* Stop's slice shows the rest of its batch and has the batcher flushed.
LEMMA StopTailFlushes ==
  ASSUME IInv, StopTail, tail' = put /\ Emit(<<>>) /\ UNCHANGED fails
  PROVE  IInv'
<1>1. /\ pc = "stop" /\ pc' = "stoprest" /\ Buffered(Folded(batch)) /\ batch' = <<>> /\ tail' = put
      /\ raw' = (raw \o runs) \o <<>> /\ runs' = <<>> /\ burst' = burst \ {"armed"}
      /\ UNCHANGED <<producer, dropped, more, streak, rearm, cancelled, closed, ended, stranded, fails>>
  BY DEF StopTail, Emit
<1>2. UNCHANGED <<put, working, rounds>>
  BY <1>1 DEF producer
<1>3. ~closed /\ Gone /\ ~more /\ ended = "no"
  BY <1>1, InSlice DEF IInv
<1>4. CallbackInv'
  BY <1>1, CallbackKept DEF IInv
<1>5. StageInv'
  BY <1>1, <1>3 DEF StageInv
<1>6. batch \in Seq(Items) /\ raw \in Seq(Items) /\ runs \in Seq(Items) /\ Screen \in Screens
  BY Parts DEF IInv
<1>7. Folded(batch) \in Screens /\ Total(Folded(batch)) = Total(Screen) \o Text(batch)
  BY <1>6, FoldedText
<1>8. Total(Screen') = Total(Screen) \o Text(batch) /\ shown' \in Seq(Fragments) /\ thinking' \in Seq(Fragments) /\ content' \in Seq(Fragments)
  BY <1>1, <1>7, ScreenStep
<1>9. raw' = raw \o runs /\ raw' \in Seq(Items) /\ Text(raw') = Text(raw) \o Text(runs)
  <2>1. raw \o runs \in Seq(Items) /\ Text(raw \o runs) = Text(raw) \o Text(runs)
    BY <1>6, QueueGrows
  <2>2. (raw \o runs) \o <<>> = raw \o runs
    BY <2>1, ConcatEmptySeq
  <2> QED BY <1>1, <2>1, <2>2
<1> DEFINE a == Total(Screen)  b == Text(batch)  r == Text(raw)  u == Text(runs)  z == Total(Screen')
<1>10. a \in Texts /\ b \in Texts /\ r \in Texts /\ u \in Texts /\ Everywhere = Line(a, b, r, u)
  BY Parts DEF IInv
<1>11. z = a \o b /\ Everywhere' = Line(z, <<>>, r \o u, <<>>) /\ Text(raw') = r \o u
  <2>1. Text(batch') = <<>> /\ Text(runs') = <<>>
    BY <1>1, TextEmpty
  <2> QED BY <1>8, <1>9, <2>1, LineAfter
<1> HIDE DEF a, b, r, u, z
<1>12. z \in Texts /\ r \o u \in Texts
  BY <1>10, <1>11, Joined
<1>13. Everywhere' = Everywhere
  <2>1. InLine(z, <<>>, r, u) /\ InLine(a, b, r, u)
    BY <1>10, <1>12, NoText DEF InLine
  <2>2. Line(z, <<>>, r \o u, <<>>) = Line(z, <<>>, r, u)
    BY <2>1, LineEmit
  <2>3. Line(a \o b, <<>>, r, u) = Line(a, b, r, u)
    BY <2>1, LineShowAll
  <2> QED BY <1>10, <1>11, <2>2, <2>3
<1>14. InOrder' /\ CountInv'
  BY <1>1, <1>2, <1>13, LineKept DEF IInv
<1>15. Everywhere' = z \o Text(raw')
  <2> DEFINE y == r \o u
  <2>1. y \in Texts /\ Everywhere' = ((z \o <<>>) \o y) \o <<>> /\ Text(raw') = y
    BY <1>11, <1>12 DEF Line
  <2> HIDE DEF y
  <2>2. z \o <<>> = z
    BY <1>12, NoText
  <2>3. z \o y \in Texts
    BY <1>12, <2>1, Joined
  <2>4. (z \o y) \o <<>> = z \o y
    BY <2>3, NoText
  <2> QED BY <2>1, <2>2, <2>4
<1>16. TailInv'
  <2>1. ASSUME ~dropped' PROVE Len(((shown' \o thinking') \o content') \o Text(raw')) >= tail'
    <3>1. Len(Everywhere') = put'
      BY <2>1, <1>14 DEF InOrder
    <3>2. z = (shown' \o thinking') \o content'
      BY LineAfter DEF z
    <3>3. put \in Nat
      BY ConstantsAre DEF IInv, TypeOK, Limits
    <3> QED BY <3>1, <3>2, <3>3, <1>1, <1>2, <1>15
  <2> QED BY <2>1, <1>1, <1>3 DEF TailInv
<1>17. DoneInv'
  <2>1. \A i \in 1 .. Len(raw') : raw'[i].kind = "done" => i = Len(raw') /\ ~working
    BY <1>6, <1>9, DoneEmit DEF IInv
  <2>2. Len(<<>>) = 0
    BY EmptySeq
  <2> QED BY <2>1, <2>2, <1>1, <1>2, <1>3 DEF DoneInv
<1>18. TextTypes'
  BY <1>1, <1>8, <1>9, EmptySeq DEF TextTypes
<1>19. RestTypes'
  <2>1. tail' \in 0 .. put' /\ burst' \subseteq burst
    BY <1>1, <1>2, ConstantsAre DEF IInv, TypeOK, Limits
  <2> QED BY <2>1, <1>1, <1>2, TypesInto DEF RestTypes, IInv
<1>20. TypeOK'
  BY <1>4, <1>18, <1>19, TypesFrom
<1> QED BY <1>4, <1>5, <1>14, <1>16, <1>17, <1>20 DEF IInv

\* The flush raises: what had left the batcher is still on its way.
LEMMA StopTailStays ==
  ASSUME IInv, StopTail, MayFail, fails' = fails + 1, tail' = Len((Flushed \o Text(batch)) \o Text(raw)),
         UNCHANGED <<raw, runs, burst>>
  PROVE  IInv'
<1>1. /\ pc = "stop" /\ pc' = "stoprest" /\ Buffered(Folded(batch)) /\ batch' = <<>>
      /\ UNCHANGED <<producer, dropped, more, streak, rearm, cancelled, closed, ended, stranded, raw, runs, burst>>
  BY DEF StopTail
<1>2. UNCHANGED <<put, working, rounds>>
  BY <1>1 DEF producer
<1>3. ~closed /\ Gone /\ ~more /\ ended = "no"
  BY <1>1, InSlice DEF IInv
<1>4. CallbackInv'
  BY <1>1, CallbackKept DEF IInv
<1>5. StageInv'
  BY <1>1, <1>3 DEF StageInv
<1>6. batch \in Seq(Items) /\ Screen \in Screens
  BY Parts DEF IInv
<1>7. Folded(batch) \in Screens /\ Total(Folded(batch)) = Total(Screen) \o Text(batch)
  BY <1>6, FoldedText
<1>8. Total(Screen') = Total(Screen) \o Text(batch) /\ shown' \in Seq(Fragments) /\ thinking' \in Seq(Fragments) /\ content' \in Seq(Fragments)
  BY <1>1, <1>7, ScreenStep
<1> DEFINE a == Total(Screen)  b == Text(batch)  r == Text(raw)  u == Text(runs)  z == Total(Screen')
<1>9. a \in Texts /\ b \in Texts /\ r \in Texts /\ u \in Texts /\ Everywhere = Line(a, b, r, u) /\ a = Flushed
  BY Parts, PartsInLine DEF IInv
<1>10. z = a \o b /\ Everywhere' = Line(z, <<>>, r, u) /\ Text(raw') = r /\ tail' = Len((a \o b) \o r)
  <2>1. Text(batch') = <<>> /\ Text(runs') = u /\ Text(raw') = r
    BY <1>1, TextEmpty
  <2> QED BY <1>8, <1>9, <2>1, LineAfter
<1>11. z = (shown' \o thinking') \o content'
  BY LineAfter
<1> HIDE DEF a, b, r, u, z
<1>12. z \in Texts /\ z \o r \in Texts
  BY <1>9, <1>10, Joined
<1>13. Everywhere' = Everywhere
  <2>1. InLine(a, b, r, u)
    BY <1>9 DEF InLine
  <2>2. Line(a \o b, <<>>, r, u) = Line(a, b, r, u)
    BY <2>1, LineShowAll
  <2> QED BY <1>9, <1>10, <2>2
<1>14. InOrder' /\ CountInv'
  BY <1>1, <1>2, <1>13, LineKept DEF IInv
<1>15. TailInv'
  <2>1. Len(((shown' \o thinking') \o content') \o Text(raw')) >= tail'
    <3>1. Len(z \o r) \in Nat
      BY <1>12, LenProperties DEF Texts
    <3> QED BY <3>1, <1>10, <1>11
  <2> QED BY <2>1, <1>1, <1>3 DEF TailInv
<1>16. DoneInv'
  <2>1. Len(<<>>) = 0
    BY EmptySeq
  <2> QED BY <2>1, <1>1, <1>2, <1>3 DEF DoneInv, IInv
<1>17. TextTypes'
  BY <1>1, <1>8, TypesInto, EmptySeq DEF TextTypes, IInv
<1>18. RestTypes'
  <2>1. tail' \in 0 .. put'
    <3>1. InLine(a, b, r, u)
      BY <1>9 DEF InLine
    <3>2. Len((a \o b) \o r) \in Nat /\ Len(Everywhere) \in Nat /\ Len((a \o b) \o r) <= Len(Everywhere)
      <4>1. (a \o b) \o r \in Texts /\ Everywhere = ((a \o b) \o r) \o u
        BY <1>9, <1>10, <1>12 DEF Line
      <4> HIDE DEF a, b, r, u
      <4>2. Len(((a \o b) \o r) \o u) = Len((a \o b) \o r) + Len(u) /\ Len(u) \in Nat /\ Len((a \o b) \o r) \in Nat
        BY <1>9, <4>1, JoinedAt
      <4> QED BY <4>1, <4>2
    <3>3. Len(Everywhere) <= put /\ put \in Nat
      BY ConstantsAre DEF CountInv, IInv, TypeOK, Limits
    <3> QED BY <3>2, <3>3, <1>2, <1>10
  <2>2. fails' \in 0 .. MaxFails
    BY TypesInto, ConstantsAre DEF RestTypes, MayFail, Limits, IInv
  <2> QED BY <2>1, <2>2, <1>1, <1>2, TypesInto DEF RestTypes, IInv
<1>19. TypeOK'
  BY <1>4, <1>17, <1>18, TypesFrom
<1> QED BY <1>4, <1>5, <1>14, <1>15, <1>16, <1>19 DEF IInv

\* Either way.
LEMMA StopTailPreserves ==
  ASSUME IInv, StopTail
  PROVE  IInv'
<1>1. CASE Emit(<<>>) /\ tail' = put /\ UNCHANGED fails
  BY <1>1, StopTailFlushes
<1>2. CASE /\ MayFail /\ fails' = fails + 1
           /\ tail' = Len(Flushed \o Text(batch) \o Text(raw)) /\ UNCHANGED <<raw, runs, burst>>
  BY <1>2, StopTailStays
<1> QED BY <1>1, <1>2 DEF StopTail

\* Then it shows the queue, and ends the drain.
LEMMA StopRestPreserves ==
  ASSUME IInv, StopRest
  PROVE  IInv'
<1>1. /\ pc = "stoprest" /\ pc' = "finish" /\ ended' = "stopped" /\ raw' = <<>>
      /\ FlushAll((Folded(raw).shown \o Folded(raw).thinking) \o Folded(raw).content)
      /\ UNCHANGED <<producer, batcher, batch, more, streak, rearm, cancelled, closed, tail, stranded, fails>>
  BY DEF StopRest
<1>2. UNCHANGED <<put, working, rounds, runs, dropped, burst>>
  BY <1>1 DEF producer, batcher
<1>3. ~closed /\ Gone /\ ~more /\ ended = "no"
  BY <1>1, InSlice DEF IInv
<1>4. CallbackInv'
  BY <1>1, CallbackKept DEF IInv
<1>5. batch = <<>> /\ StageInv'
  BY <1>1, <1>3 DEF StageInv, IInv
<1>6. raw \in Seq(Items) /\ Screen \in Screens
  BY Parts DEF IInv
<1>7. Folded(raw) \in Screens /\ Total(Folded(raw)) = Total(Screen) \o Text(raw)
  BY <1>6, FoldedText
<1> DEFINE a == Total(Screen)  r == Text(raw)  u == Text(runs)  z == a \o r
<1>8. a \in Texts /\ r \in Texts /\ u \in Texts /\ Everywhere = Line(a, Text(batch), r, u) /\ z \in Texts
  <2>1. a \in Texts /\ r \in Texts /\ u \in Texts /\ Everywhere = Line(a, Text(batch), r, u)
    BY Parts DEF IInv
  <2> HIDE DEF a, r, u
  <2>2. z \in Texts
    BY <2>1, Joined
  <2> QED BY <2>1, <2>2
<1>9. FlushAll(z)
  BY <1>1, <1>7 DEF Total
<1>10. Text(batch) = <<>> /\ Text(batch') = <<>> /\ Text(raw') = <<>> /\ Text(runs') = u
  BY <1>1, <1>2, <1>5, TextEmpty
<1>11. a = (shown \o thinking) \o content
  BY Parts DEF IInv
<1> HIDE DEF a, r, u
<1>12. Total(Screen') = z /\ shown' \in Seq(Fragments) /\ thinking' \in Seq(Fragments) /\ content' \in Seq(Fragments)
  <2> HIDE DEF z
  <2> QED BY <1>8, <1>9, FlushStep
<1>13. Everywhere' = Everywhere
  <2>1. InLine(a, <<>>, r, u)
    BY <1>8, NoText DEF InLine
  <2>2. Line(a \o r, <<>>, <<>>, u) = Line(a, <<>>, r, u)
    BY <2>1, LineShowRest
  <2> QED BY <2>2, <1>8, <1>10, <1>12, LineAfter
<1>14. InOrder' /\ CountInv'
  BY <1>2, <1>13, LineKept DEF IInv
<1>15. TailInv'
  <2>1. ASSUME ~dropped' PROVE Len(shown') >= tail'
    <3>1. Len(a \o r) >= tail
      BY <2>1, <1>1, <1>2, <1>11 DEF TailInv, IInv, r
    <3>2. shown' = a \o r
      BY <1>9 DEF FlushAll
    <3> QED BY <3>1, <3>2, <1>1
  <2> QED BY <2>1, <1>1 DEF TailInv
<1>16. DoneInv'
  <2>1. Len(<<>>) = 0
    BY EmptySeq
  <2> QED BY <2>1, <1>1, <1>2, <1>5 DEF DoneInv, IInv
<1>17. TextTypes' /\ RestTypes'
  BY <1>1, <1>2, <1>12, TypesInto, EmptySeq DEF TextTypes, RestTypes, IInv
<1>18. TypeOK'
  BY <1>4, <1>17, TypesFrom
<1> QED BY <1>4, <1>5, <1>14, <1>15, <1>16, <1>18 DEF IInv

\* Nothing is aged, for nothing is posted.
LEMMA NothingAged ==
  ASSUME Gone
  PROVE  AgedAll(pending) = <<>> /\ [firing EXCEPT !.fn = Aged(@)] = Idle
<1>1. AgedAll(<<>>) = <<>>
  <2>1. DOMAIN <<>> = {}
    OBVIOUS
  <2> QED BY <2>1 DEF AgedAll
<1>2. [Idle EXCEPT !.fn = Aged(@)] = Idle
  <2>1. Aged("none") = "none"
    BY DEF Aged
  <2> QED BY <2>1 DEF Idle
<1> QED BY <1>1, <1>2 DEF Gone

\* The slice arms the next one: behind the timer, or at once; if the toolkit
\* refuses, the drain ends.
LEMMA RearmPreserves ==
  ASSUME IInv, Rearm
  PROVE  IInv'
<1>1. /\ pc = "rearm" /\ more' = FALSE
      /\ \/ streak' = 0 /\ ArmTimer
         \/ streak < MaxImmediate /\ streak' = streak + 1 /\ PostNow
      /\ UNCHANGED <<producer, batcher, raw, display, batch, cancelled, closed, tail, stranded>>
  BY DEF Rearm
<1>2. UNCHANGED <<put, working, rounds, runs, dropped, burst, thinking, content, shown>>
  BY <1>1 DEF producer, batcher, display
<1>3. ~closed /\ Gone /\ ~more /\ ended = "no" /\ batch = <<>>
  <2>1. ~closed /\ Gone /\ ~more /\ ended = "no"
    BY <1>1, InSlice DEF IInv
  <2> QED BY <2>1, <1>1 DEF StageInv, IInv
<1>4. fails \in 0 .. MaxFails /\ MaxFails \in Nat /\ streak \in 0 .. MaxImmediate /\ MaxImmediate \in Nat
  BY TypesInto, ConstantsAre DEF RestTypes, Limits, IInv
<1>5. AgedAll(pending) = <<>> /\ [firing EXCEPT !.fn = Aged(@)] = Idle
  BY <1>3, NothingAged
<1> DEFINE Out == /\ CallbackInv' /\ streak' \in 0 .. MaxImmediate /\ fails' \in 0 .. MaxFails
                  /\ (pc' = "vcl" /\ ended' = "no") \/ (pc' = "finish" /\ ended' = "error")
<1>6. ASSUME streak' = 0 /\ ArmTimer PROVE Out
  <2>1. pending' = <<>> /\ firing' = Idle
    BY <1>5, <1>6 DEF ArmTimer
  <2>2. CASE /\ target' = "live" /\ timer' = "armed" /\ PokeMore(more, pokes, fails)
             /\ pc' = "vcl" /\ UNCHANGED ended
    <3>1. pokes' = pokes /\ fails' = fails
      BY <1>3, <2>2 DEF PokeMore
    <3>2. Armed'
      BY <1>3, <2>1, <2>2, <3>1 DEF Gone, Armed
    <3>3. CallbackInv'
      BY <1>1, <1>3, <2>2, <3>2 DEF CallbackInv
    <3>4. streak' \in 0 .. MaxImmediate /\ fails' \in 0 .. MaxFails /\ pc' = "vcl" /\ ended' = "no"
      BY <1>3, <1>4, <1>6, <2>2, <3>1
    <3> QED BY <3>3, <3>4
  <2>3. CASE /\ MayFail /\ fails' = fails + 1 /\ UNCHANGED <<target, timer, pokes>>
             /\ pc' = "finish" /\ ended' = "error"
    <3>1. Gone'
      BY <1>3, <2>1, <2>3 DEF Gone
    <3>2. CallbackInv'
      BY <1>1, <1>3, <2>3, <3>1 DEF CallbackInv
    <3>3. streak' \in 0 .. MaxImmediate /\ fails' \in 0 .. MaxFails /\ pc' = "finish" /\ ended' = "error"
      BY <1>4, <1>6, <2>3 DEF MayFail
    <3> QED BY <3>2, <3>3
  <2> QED BY <1>6, <2>2, <2>3 DEF ArmTimer
<1>7. ASSUME streak < MaxImmediate /\ streak' = streak + 1 /\ PostNow PROVE Out
  <2>1. target' = "none" /\ timer' = "off" /\ firing' = Idle
    BY <1>5, <1>7 DEF PostNow
  <2>2. CASE pending' = Append(AgedAll(pending), "live") /\ PokeMore(more, pokes + 1, fails) /\ pc' = "vcl" /\ UNCHANGED ended
    <3>1. pending' = <<"live">>
      <4>1. pending' = Append(<<>>, "live")
        BY <1>5, <2>2
      <4> QED BY <4>1
    <3>2. pokes' = 1 /\ fails' = fails
      BY <1>3, <2>2 DEF PokeMore, Gone
    <3>3. Posted'
      BY <2>1, <3>1, <3>2 DEF Posted
    <3>4. CallbackInv'
      BY <1>1, <1>3, <2>2, <3>3 DEF CallbackInv
    <3>5. streak' \in 0 .. MaxImmediate /\ fails' \in 0 .. MaxFails /\ pc' = "vcl" /\ ended' = "no"
      BY <1>3, <1>4, <1>7, <2>2, <3>2
    <3> QED BY <3>4, <3>5
  <2>3. CASE MayFail /\ pending' = AgedAll(pending) /\ fails' = fails + 1 /\ pc' = "finish" /\ ended' = "error" /\ UNCHANGED pokes
    <3>1. Gone'
      BY <1>3, <1>5, <2>1, <2>3 DEF Gone
    <3>2. CallbackInv'
      BY <1>1, <1>3, <2>3, <3>1 DEF CallbackInv
    <3>3. streak' \in 0 .. MaxImmediate /\ fails' \in 0 .. MaxFails /\ pc' = "finish" /\ ended' = "error"
      BY <1>4, <1>7, <2>3 DEF MayFail
    <3> QED BY <3>2, <3>3
  <2> QED BY <1>7, <2>2, <2>3 DEF PostNow
<1>8. Out
  BY <1>1, <1>6, <1>7
<1>9. InOrder' /\ CountInv'
  BY <1>1, <1>2, TextsKept
<1>10. StageInv' /\ TailInv'
  BY <1>1, <1>3, <1>8 DEF StageInv, TailInv
<1>11. DoneInv'
  BY <1>1, <1>2, <1>8 DEF DoneInv, IInv
<1>12. TextTypes' /\ RestTypes'
  BY <1>1, <1>2, <1>8, TypesInto DEF TextTypes, RestTypes, IInv
<1>13. TypeOK'
  BY <1>8, <1>12, TypesFrom
<1> QED BY <1>8, <1>9, <1>10, <1>11, <1>13 DEF IInv

\* The drain and its re-arm are closed.
LEMMA FinishPreserves ==
  ASSUME IInv, Finish
  PROVE  IInv'
<1>1. /\ pc = "finish" /\ pc' = "vcl" /\ more' = FALSE /\ closed' = TRUE
      /\ firing' = [firing EXCEPT !.fn = Aged(@)]
      /\ timer' = "off" /\ pending' = <<>> /\ target' = "none"
      /\ UNCHANGED <<producer, batcher, raw, display, batch, streak, pokes, cancelled, ended, tail, stranded, fails>>
  BY DEF Finish
<1>2. UNCHANGED <<put, working, rounds, runs, dropped, burst, thinking, content, shown>>
  BY <1>1 DEF producer, batcher, display
<1>3. ~closed /\ Gone /\ ~more /\ ended # "no"
  <2>1. ~closed /\ Gone /\ ~more
    BY <1>1, InSlice DEF IInv
  <2> QED BY <2>1, <1>1 DEF StageInv, IInv
<1>4. Gone'
  BY <1>1, <1>3, NothingAged DEF Gone
<1>5. CallbackInv'
  BY <1>1, <1>4 DEF CallbackInv
<1>6. InOrder' /\ CountInv'
  BY <1>1, <1>2, TextsKept
<1>7. StageInv'
  BY <1>1, <1>3 DEF StageInv
<1>8. TailInv'
  BY <1>1, <1>2 DEF TailInv, IInv
<1>9. DoneInv'
  BY <1>1, <1>2 DEF DoneInv, IInv
<1>10. TextTypes' /\ RestTypes'
  BY <1>1, <1>2, TypesInto DEF TextTypes, RestTypes, IInv
<1>11. TypeOK'
  BY <1>5, <1>10, TypesFrom
<1> QED BY <1>5, <1>6, <1>7, <1>8, <1>9, <1>11 DEF IInv

-----------------------------------------------------------------------------
(* The invariant holds, and DrainInv with it.                              *)

\* A drain that has just been started.
LEMMA InitInv ==
  ASSUME Init
  PROVE  IInv
<1>1. /\ put = 0 /\ working = TRUE /\ rounds = 1 /\ dropped = FALSE /\ burst = {} /\ streak = 0
      /\ cancelled = FALSE /\ closed = FALSE /\ ended = "no" /\ tail = 0 /\ stranded = FALSE /\ fails = 0
      /\ runs = <<>> /\ raw = <<>> /\ batch = <<>> /\ thinking = <<>> /\ content = <<>> /\ shown = <<>>
      /\ pc = "vcl" /\ more = FALSE /\ target = "none" /\ timer = "off" /\ firing = Idle
      /\ pending = <<"live">> /\ pokes = 1
  BY DEF Init
<1>2. CallbackInv /\ StageInv
  BY <1>1 DEF CallbackInv, StageInv, Posted
<1>3. Len(<<>>) = 0
  BY EmptySeq
<1>4. DoneInv /\ TailInv
  BY <1>1, <1>3 DEF DoneInv, TailInv
<1>5. Everywhere = <<>>
  <2>1. Text(<<>>) = <<>> /\ <<>> \o <<>> = <<>>
    BY TextEmpty, NoText
  <2> QED BY <1>1, <2>1 DEF Everywhere
<1>6. InOrder /\ CountInv
  <2>1. [i \in 1 .. 0 |-> i] = <<>>
    BY EmptySeq
  <2> QED BY <1>1, <1>3, <1>5, <2>1 DEF InOrder, CountInv
<1>7. TypeOK
  <2>1. "live" \in Closures /\ <<"live">> \in Seq(Closures) /\ <<>> \in Seq(Items) /\ <<>> \in Seq(Fragments)
    BY EmptySeq DEF Closures
  <2>2. 0 \in 0 .. MaxFragments /\ 1 \in 0 .. MaxRounds /\ 0 \in 0 .. MaxImmediate /\ 0 \in 0 .. MaxFails /\ 0 \in 0 .. 0
    BY ConstantsAre DEF Limits
  <2>3. Idle \in [at : {"no", "fire", "enqueue", "poke"}, fn : Closures \cup {"none"}]
    BY DEF Idle
  <2>4. {runs, raw, batch} \subseteq Seq(Items) /\ {shown, thinking, content} \subseteq Seq(Fragments) /\ pending \in Seq(Closures)
    BY <1>1, <2>1
  <2>5. {working, dropped, more, cancelled, closed, stranded} \subseteq BOOLEAN /\ burst \subseteq {"armed", "fires"}
    BY <1>1
  <2>6. firing \in [at : {"no", "fire", "enqueue", "poke"}, fn : Closures \cup {"none"}]
    BY <1>1, <2>3
  <2>7. put \in 0 .. MaxFragments /\ rounds \in 0 .. MaxRounds /\ streak \in 0 .. MaxImmediate /\ pokes \in 0 .. 3
        /\ tail \in 0 .. put /\ fails \in 0 .. MaxFails
    BY <1>1, <2>2
  <2>8. /\ pc \in {"vcl", "batch", "stop", "stoprest", "rearm", "finish"} /\ target \in Closures \cup {"none"}
        /\ timer \in {"off", "armed"} /\ ended \in {"no", "done", "stopped", "error"}
    BY <1>1
  <2> QED BY <2>4, <2>5, <2>6, <2>7, <2>8 DEF TypeOK
<1> QED BY <1>2, <1>4, <1>6, <1>7 DEF IInv

\* A step that changes nothing.
LEMMA StutterPreserves ==
  ASSUME IInv, UNCHANGED vars
  PROVE  IInv'
<1>1. /\ UNCHANGED <<producer, batcher, raw, display, slice, cancelled, closed, ended, tail>>
      /\ UNCHANGED <<rearm, closed, stranded, more>> /\ UNCHANGED <<pc, stranded, fails>>
  BY DEF vars, slice
<1>2. CallbackInv'
  BY <1>1, CallbackKept DEF IInv
<1>3. stranded' \in BOOLEAN /\ fails' \in 0 .. MaxFails
  BY <1>1, TypesInto DEF RestTypes, IInv
<1> QED BY <1>1, <1>2, <1>3, RearmStep

\* Every step keeps the invariant.
LEMMA NextInv ==
  ASSUME IInv, [Next]_vars
  PROVE  IInv'
<1>1. CASE UNCHANGED vars
  BY <1>1, StutterPreserves
<1>2. CASE Worker
  <2>1. ASSUME NEW k \in Kinds, PutText(k) PROVE IInv'
    BY <2>1, PutTextPreserves
  <2> QED BY <1>2, <2>1, PutDonePreserves DEF Worker
<1>3. CASE BurstTimer
  BY <1>3, BurstExpiresPreserves, BurstFlushPreserves DEF BurstTimer
<1>4. CASE RearmTimer
  BY <1>4, ExpirePreserves, TakeTargetPreserves, TimerEnqueuePreserves, TimerPokePreserves DEF RearmTimer
<1>5. CASE Main
  BY <1>5, NotifyPreserves, ApplyTextPreserves, ApplyDonePreserves, StopSeenPreserves, BatchFailsPreserves,
     BatchDonePreserves, StopTailPreserves, StopRestPreserves, RearmPreserves, FinishPreserves DEF Main
<1>6. CASE Stop
  BY <1>6, StopPreserves
<1> QED BY <1>1, <1>2, <1>3, <1>4, <1>5, <1>6 DEF Next

\* The inductive invariant of the drain: where the next slice's closure is,
\* and that the text is one line from the screen back to the batcher.
THEOREM Invariance == Spec => []IInv
<1>1. Init => IInv
  BY InitInv
<1>2. IInv /\ [Next]_vars => IInv'
  BY NextInv
<1> QED BY <1>1, <1>2, PTL DEF Spec

\* The next slice is in one place.
LEMMA OneCallbackHolds ==
  ASSUME CallbackInv
  PROVE  OneCallback
<1> DEFINE A == {i \in DOMAIN pending : pending[i] = "live"}
           B == {x \in {"target"} : target = "live"}
           C == {x \in {"firing"} : firing.at = "enqueue" /\ firing.fn = "live"}
           D == {x \in {"slice"} : pc # "vcl"}
<1>1. Cardinality({}) = 0 /\ \A x : Cardinality({x}) = 1
  BY FS_EmptySet, FS_Singleton
<1>2. /\ pending = <<>> => A = {}
      /\ pending = <<"live">> => A = {1}
  OBVIOUS
<1>3. B = IF target = "live" THEN {"target"} ELSE {}
  OBVIOUS
<1>4. C = IF firing.at = "enqueue" /\ firing.fn = "live" THEN {"firing"} ELSE {}
  OBVIOUS
<1>5. D = IF pc # "vcl" THEN {"slice"} ELSE {}
  OBVIOUS
<1>6. OneCallback <=> closed \/ stranded \/ Cardinality(A) + Cardinality(B) + Cardinality(C) + Cardinality(D) = 1
  BY DEF OneCallback
<1> HIDE DEF A, B, C, D
<1>7. CASE ~closed /\ pc = "vcl" /\ (Posted \/ Poking \/ Armed \/ Fired \/ Taken)
  <2>1. Cardinality(D) = 0
    BY <1>1, <1>5, <1>7
  <2>2. CASE Posted \/ Poking
    <3>1. Cardinality(A) = 1 /\ Cardinality(B) = 0
      BY <1>1, <1>2, <1>3, <2>2 DEF Posted, Poking
    <3>2. firing.at # "enqueue"
      BY <2>2 DEF Posted, Poking, Idle
    <3> QED BY <1>1, <1>4, <1>6, <2>1, <3>1, <3>2
  <2>3. CASE Armed \/ Fired
    <3>1. Cardinality(A) = 0 /\ Cardinality(B) = 1
      BY <1>1, <1>2, <1>3, <2>3 DEF Armed, Fired
    <3>2. firing.at # "enqueue"
      BY <2>3 DEF Armed, Fired, Idle
    <3> QED BY <1>1, <1>4, <1>6, <2>1, <3>1, <3>2
  <2>4. CASE Taken
    <3>1. Cardinality(A) = 0 /\ Cardinality(B) = 0
      BY <1>1, <1>2, <1>3, <2>4 DEF Taken
    <3>2. firing.at = "enqueue" /\ firing.fn = "live"
      BY <2>4 DEF Taken
    <3>3. Cardinality(C) = 1
      BY <1>1, <1>4, <3>2
    <3> QED BY <1>6, <2>1, <3>1, <3>3
  <2> QED BY <1>7, <2>2, <2>3, <2>4
<1>8. CASE Gone /\ (pc = "vcl" => closed \/ stranded)
  <2>1. Cardinality(A) = 0 /\ Cardinality(B) = 0 /\ Cardinality(C) = 0
    BY <1>1, <1>2, <1>3, <1>4, <1>8 DEF Gone, Idle
  <2>2. pc # "vcl" => Cardinality(D) = 1
    BY <1>1, <1>5
  <2> QED BY <1>6, <1>8, <2>1, <2>2
<1> QED BY <1>7, <1>8 DEF CallbackInv

\* When an answer is done the line ends on the screen.
LEMMA NothingIsHeld ==
  ASSUME IInv
  PROVE  NothingHeldBack
<1>1. ASSUME ~dropped, ended = "done" PROVE Len(shown) = put
  <2>1. batch = <<>> /\ raw = <<>> /\ runs = <<>> /\ thinking = <<>> /\ content = <<>>
    BY <1>1 DEF DoneInv, IInv
  <2>2. shown \in Texts
    BY Parts DEF IInv
  <2>3. Everywhere = shown
    BY <2>1, <2>2, TextEmpty, NoText DEF Everywhere
  <2> QED BY <1>1, <2>3 DEF InOrder, IInv
<1> QED BY <1>1 DEF NothingHeldBack, TailInv, IInv

\* What the run checks of the drain at every moment, for every value of the
\* constants: the text in order wherever it is, one slice to come with an
\* event or a timer behind it, and nothing held back at the end.
THEOREM DrainHolds == Spec => []DrainInv
<1>1. IInv => DrainInv
  <2> SUFFICES ASSUME IInv PROVE DrainInv
    OBVIOUS
  <2>1. OneCallback
    BY OneCallbackHolds DEF IInv
  <2>2. EventsFollow
    BY DEF EventsFollow, IInv, CallbackInv, Posted, Poking, Armed, Fired, Taken, Gone
  <2> QED BY <2>1, <2>2, NothingIsHeld DEF DrainInv, IInv
<1> QED BY <1>1, Invariance, PTL

-----------------------------------------------------------------------------
(* The drain implements StreamPromise.                                     *)

Grown == Len(shown') \in Nat /\ Len(shown') >= Len(shown)

\* A screen shows no more than it holds.
LEMMA TotalShows ==
  ASSUME NEW d \in Screens
  PROVE  Len(d.shown) \in Nat /\ Len(Total(d)) \in Nat /\ Len(Total(d)) >= Len(d.shown)
<1> DEFINE s == d.shown  t == d.thinking  c == d.content  y == s \o t
<1>1. s \in Texts /\ t \in Texts /\ c \in Texts
  BY DEF Screens
<1> HIDE DEF s, t, c
<1>2. y \in Texts /\ Len(y) = Len(s) + Len(t) /\ Len(s) \in Nat /\ Len(t) \in Nat
  BY <1>1, Joined, JoinedAt
<1> HIDE DEF y
<1>3. Len(y \o c) = Len(y) + Len(c) /\ Len(c) \in Nat
  BY <1>1, <1>2, JoinedAt
<1>4. Len(y \o c) \in Nat /\ Len(y \o c) >= Len(s)
  BY <1>2, <1>3
<1> QED BY <1>2, <1>4 DEF Total, y, s, t, c

\* Showing what is buffered takes nothing back.
LEMMA FlushGrows ==
  ASSUME TypeOK, FlushAll(Flushed)
  PROVE  Grown
<1>1. Screen \in Screens /\ Total(Screen) = Flushed
  BY Parts, PartsInLine
<1>2. Screen.shown = shown
  BY DEF Screen
<1>3. shown' = Flushed
  BY DEF FlushAll
<1> QED BY <1>1, <1>2, <1>3, TotalShows DEF Grown

\* The screen only grows, and only while the drain is open.
LEMMA ShowsMore ==
  ASSUME IInv, Next
  PROVE  shown' = shown \/ (~closed /\ closed' = closed /\ put' = put /\ Grown)
<1>0. TypeOK
  BY DEF IInv
<1>1. CASE Worker
  BY <1>1 DEF Worker, PutDone, PutText, display
<1>2. CASE BurstTimer
  BY <1>2 DEF BurstTimer, BurstExpires, BurstFlush, display
<1>3. CASE RearmTimer
  BY <1>3 DEF RearmTimer, Expire, TakeTarget, TimerEnqueue, TimerPoke, display
<1>4. CASE Stop
  BY <1>4 DEF Stop, display
<1>5. CASE Notify
  BY <1>5 DEF Notify, display
<1>6. CASE StopSeen \/ Rearm \/ Finish
  BY <1>6 DEF StopSeen, Rearm, Finish, display
<1>7. CASE ApplyText
  <2>1. pc # "vcl" /\ batch # <<>> /\ shown' = Buffer(Screen, Head(batch)).shown /\ closed' = closed /\ put' = put
    BY <1>7 DEF ApplyText, Buffered, producer
  <2>2. Screen \in Screens /\ Head(batch) \in Items /\ Screen.shown = shown
    BY <1>0, <2>1, Parts, TextHead DEF Screen
  <2>3. Grown
    BY <2>1, <2>2, BufferShows DEF Grown
  <2> QED BY <2>1, <2>3, InSlice DEF IInv
<1>8. CASE ApplyDone
  <2>1. pc # "vcl" /\ FlushAll(Flushed) /\ closed' = closed /\ put' = put
    BY <1>8 DEF ApplyDone
  <2> QED BY <1>0, <2>1, FlushGrows, InSlice DEF IInv
<1>9. CASE BatchFails
  <2>1. pc # "vcl" /\ (FlushAll(Flushed) \/ shown' = shown) /\ closed' = closed /\ put' = put
    BY <1>9 DEF BatchFails, producer, display
  <2> QED BY <1>0, <2>1, FlushGrows, InSlice DEF IInv
<1>10. CASE BatchDone
  <2>1. pc # "vcl" /\ FlushAll(Flushed) /\ closed' = closed /\ put' = put
    BY <1>10 DEF BatchDone, producer
  <2> QED BY <1>0, <2>1, FlushGrows, InSlice DEF IInv
<1>11. CASE StopTail
  <2>1. pc # "vcl" /\ shown' = Folded(batch).shown /\ closed' = closed /\ put' = put
    BY <1>11 DEF StopTail, Buffered, producer
  <2>2. Screen \in Screens /\ batch \in Seq(Items)
    BY <1>0, Parts
  <2>3. Grown
    BY <2>1, <2>2, FoldedText DEF Grown
  <2> QED BY <2>1, <2>3, InSlice DEF IInv
<1>12. CASE StopRest
  <2> DEFINE d == Folded(raw)
  <2>1. pc # "vcl" /\ shown' = (d.shown \o d.thinking) \o d.content /\ closed' = closed /\ put' = put
    BY <1>12 DEF StopRest, FlushAll, producer
  <2>2. Screen \in Screens /\ raw \in Seq(Items)
    BY <1>0, Parts
  <2>3. d \in Screens /\ Len(d.shown) \in Nat /\ Len(d.shown) >= Len(shown)
    BY <2>2, FoldedText
  <2> HIDE DEF d
  <2>4. Len(Total(d)) \in Nat /\ Len(Total(d)) >= Len(d.shown)
    BY <2>3, TotalShows
  <2>5. Len(shown) \in Nat
    BY <1>0, Parts, LenProperties DEF Texts
  <2>6. shown' = Total(d)
    BY <2>1 DEF Total
  <2>7. Grown
    BY <2>3, <2>4, <2>5, <2>6 DEF Grown
  <2> QED BY <2>1, <2>7, InSlice DEF IInv
<1> QED BY <1>1, <1>2, <1>3, <1>4, <1>5, <1>6, <1>7, <1>8, <1>9, <1>10, <1>11, <1>12 DEF Next, Main

\* Fragments are put one at a time, and the drain ends once.
LEMMA PutAndEnd ==
  ASSUME IInv, Next
  PROVE  /\ UNCHANGED <<put, closed>>
            \/ (put < MaxFragments /\ put' = put + 1 /\ UNCHANGED <<shown, closed>>)
            \/ (~closed /\ closed' = TRUE /\ UNCHANGED <<put, shown>>)
<1>1. CASE Worker
  BY <1>1 DEF Worker, PutDone, PutText, display
<1>2. CASE BurstTimer
  BY <1>2 DEF BurstTimer, BurstExpires, BurstFlush, producer
<1>3. CASE RearmTimer
  BY <1>3 DEF RearmTimer, Expire, TakeTarget, TimerEnqueue, TimerPoke, producer
<1>4. CASE Stop
  BY <1>4 DEF Stop, producer
<1>5. CASE Notify
  BY <1>5 DEF Notify, producer
<1>6. CASE ApplyText \/ ApplyDone \/ StopSeen \/ BatchFails \/ BatchDone \/ StopTail \/ StopRest \/ Rearm
  BY <1>6 DEF ApplyText, ApplyDone, StopSeen, BatchFails, BatchDone, StopTail, StopRest, Rearm, producer
<1>7. CASE Finish
  <2>1. pc # "vcl"
    BY <1>7 DEF Finish
  <2>2. ~closed
    BY <2>1, InSlice DEF IInv
  <2> QED BY <1>7, <2>2 DEF Finish, producer, display
<1> QED BY <1>1, <1>2, <1>3, <1>4, <1>5, <1>6, <1>7 DEF Next, Main

\* What is shown is a beginning of what was put.
Beginning == shown = [i \in 1 .. Len(shown) |-> i] /\ Len(shown) \in Nat /\ Len(shown) <= put

\* A step of the drain is one the promise allows, or none.
LEMMA StepKeepsPromise ==
  ASSUME IInv, Beginning, Beginning', [Next]_vars
  PROVE  [Promise!Next]_<<put, shown, closed>>
<1>1. CASE UNCHANGED vars
  BY <1>1 DEF vars, producer, display
<1>2. CASE Next
  <2>1. shown' = shown \/ (~closed /\ closed' = closed /\ put' = put /\ Grown)
    BY <1>2, ShowsMore
  <2>2. \/ UNCHANGED <<put, closed>>
        \/ put < MaxFragments /\ put' = put + 1 /\ UNCHANGED <<shown, closed>>
        \/ ~closed /\ closed' = TRUE /\ UNCHANGED <<put, shown>>
    BY <1>2, PutAndEnd
  <2>3. CASE put < MaxFragments /\ put' = put + 1 /\ UNCHANGED <<shown, closed>>
    <3>1. Promise!Put
      BY <2>3 DEF Promise!Put
    <3> QED BY <3>1 DEF Promise!Next
  <2>4. CASE ~closed /\ closed' = TRUE /\ UNCHANGED <<put, shown>>
    <3>1. Promise!End
      BY <2>4 DEF Promise!End
    <3> QED BY <3>1 DEF Promise!Next
  <2>5. CASE UNCHANGED <<put, closed>> /\ shown' = shown
    BY <2>5
  <2>6. CASE UNCHANGED <<put, closed>> /\ shown' # shown
    <3>1. ~closed /\ Grown
      BY <2>1, <2>6
    <3>2. shown = [i \in 1 .. Len(shown) |-> i] /\ Len(shown) \in Nat
      BY DEF Beginning
    <3>3. shown' = [i \in 1 .. Len(shown') |-> i] /\ Len(shown') \in Nat /\ Len(shown') <= put'
      BY DEF Beginning
    <3>4. Len(shown') # Len(shown)
      BY <2>6, <3>2, <3>3
    <3>5. put \in Nat
      BY ConstantsAre DEF IInv, TypeOK, Limits
    <3>6. Len(shown') \in Len(shown) + 1 .. put
      <4>1. Len(shown') >= Len(shown) /\ Len(shown') <= put
        BY <2>6, <3>1, <3>3 DEF Grown
      <4>2. \A m \in Nat, n \in Nat : n >= m /\ n # m /\ n <= put => n \in m + 1 .. put
        BY <3>5
      <4> QED BY <4>1, <4>2, <3>2, <3>3, <3>4
    <3>7. shown' = Promise!UpTo(Len(shown'))
      BY <3>3 DEF Promise!UpTo
    <3>8. Promise!Show
      BY <2>6, <3>1, <3>6, <3>7 DEF Promise!Show
    <3> QED BY <3>8 DEF Promise!Next
  <2> QED BY <2>2, <2>3, <2>4, <2>5, <2>6
<1> QED BY <1>1, <1>2

\* The drain implements StreamPromise: fragments appear in the order they
\* were put, each once, and nothing appears once the answer is over.
THEOREM Implements == Spec => KeepsPromise
<1>1. Init => Promise!Init
  BY DEF Init, Promise!Init
<1>2. IInv /\ Beginning /\ Beginning' /\ [Next]_vars => [Promise!Next]_<<put, shown, closed>>
  BY StepKeepsPromise
<1>3. IInv => Beginning
  BY ShownIs DEF IInv, Beginning
<1> QED BY <1>1, <1>2, <1>3, Invariance, PTL DEF Spec, KeepsPromise, Promise!Spec
=============================================================================
