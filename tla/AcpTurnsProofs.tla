--------------------------- MODULE AcpTurnsProofs ---------------------------
(***************************************************************************)
(* Proofs about AcpTurns: for any number of sends, connections, permission *)
(* requests and failures, the invariant holds of every reachable state,    *)
(* and with it what the runs check on small instances.                     *)
(***************************************************************************)
EXTENDS AcpTurnsInvariant, SequencesExt, SequenceTheorems,
        FiniteSetTheorems, WellFoundedInduction, TLAPS

-----------------------------------------------------------------------------
(* Numbers.                                                                *)

\* Every non-empty set of natural numbers has a least element: < on Nat is
\* well-founded, which the library states without an operator parameter.
LEMMA LeastNat ==
  ASSUME NEW T \in SUBSET Nat, T # {}
  PROVE  \E n \in T : \A m \in T : n <= m
<1> DEFINE R == {ss \in Nat \X Nat : ss[1] < ss[2]}
<1>1. IsWellFoundedOn(R, Nat)
  BY NatLessThanWellFounded, Zenon DEF OpToRel
<1>2. PICK x \in T : \A y \in T : <<y, x>> \notin R
  <2> HIDE DEF R
  <2> QED BY <1>1, WFMin
<1>3. \A y \in T : ~(y < x)
  BY <1>2
<1> QED BY <1>2, <1>3

-----------------------------------------------------------------------------
(* What the actions write: the records of turns and connections, the       *)
(* writer's queue and the reader's lines.                                  *)

\* What the records of a turn and of a connection hold, field by field.
LEMMA Places ==
  /\ \A c \in Conns : c \in Nat /\ c # 0
  /\ \A t \in Turns : t \in Nat /\ t # 0 /\ t # Grace
  /\ NoToken \notin Tokens
  /\ \A l \in Limits : l.conns \in Nat /\ l.asks \in Nat
  /\ UI = 0
BY AcpAssumption DEF Conns, Turns, Grace, UI, NoToken, Tokens

LEMMA TurnFields ==
  ASSUME NEW r \in TurnRecs
  PROVE  /\ r.pc \in Pcs /\ r.conn \in {0} \cup Conns /\ r.what \in {"none", "init", "prompt"}
         /\ r.cancelled \in BOOLEAN /\ r.early \in BOOLEAN
         /\ r.wait \in {"none", "open", "ok", "failed", "timeout"}
         /\ r.out \in {"none", "ok", "failed", "timeout", "stopped", "error", "unstarted", "done"}
BY DEF TurnRecs

LEMMA ConnFields ==
  ASSUME NEW cn \in ConnRecs
  PROVE  /\ cn.held \in BOOLEAN /\ cn.running \in BOOLEAN /\ cn.alive \in BOOLEAN
         /\ cn.faulty \in BOOLEAN /\ cn.queue \in Seq(Written)
         /\ cn.reader \in {"new", "read", "gone"} /\ cn.callback \in {0} \cup Turns
         /\ cn.work \in Tokens \cup {NoToken} /\ cn.lines \in Seq(Said)
         /\ cn.asked \in Nat /\ cn.replies \in Nat
BY DEF ConnRecs

LEMMA StateFields ==
  ASSUME Types
  PROVE  /\ \A t \in Turns : turn[t] \in TurnRecs
         /\ \A c \in Conns : conn[c] \in ConnRecs /\ perms[c] \in Nat
         /\ \A c \in Conns : conn[c].queue \in Seq(Written) /\ conn[c].lines \in Seq(Said)
BY ConnFields DEF Types

\* Writing one turn's record.
LEMMA TurnStep ==
  ASSUME Types, NEW t \in Turns, NEW r \in TurnRecs, turn' = [turn EXCEPT ![t] = r]
  PROVE  /\ turn' \in [Turns -> TurnRecs] /\ turn'[t] = r
         /\ \A u \in Turns \ {t} : turn'[u] = turn[u]
BY DEF Types

LEMMA ConnStep ==
  ASSUME Types, NEW c \in Conns, NEW r \in ConnRecs, conn' = [conn EXCEPT ![c] = r]
  PROVE  /\ conn' \in [Conns -> ConnRecs] /\ conn'[c] = r
         /\ \A d \in Conns \ {c} : conn'[d] = conn[d]
BY DEF Types

\* What a dead process leaves, and what a reader leaves when it exits.
LEMMA KilledFields ==
  ASSUME NEW cn \in ConnRecs
  PROVE  /\ Killed(cn) \in ConnRecs
         /\ ~Killed(cn).alive /\ Killed(cn).work = NoToken /\ Killed(cn).queue = <<>>
         /\ Killed(cn).held = cn.held /\ Killed(cn).running = cn.running
         /\ Killed(cn).faulty = cn.faulty /\ Killed(cn).reader = cn.reader
         /\ Killed(cn).callback = cn.callback /\ Killed(cn).lines = cn.lines
         /\ Killed(cn).asked = cn.asked /\ Killed(cn).replies = cn.replies
<1>1. <<>> \in Seq(Written)
  OBVIOUS
<1> QED BY <1>1 DEF Killed, ConnRecs

LEMMA ExitedFields ==
  ASSUME NEW cn \in ConnRecs
  PROVE  /\ Exited(cn) \in ConnRecs
         /\ ~(Exited(cn).held /\ Exited(cn).alive)
         /\ \/ Exited(cn).queue = cn.queue /\ Exited(cn).work = cn.work
            \/ Exited(cn).queue = <<>> /\ Exited(cn).work = NoToken
         /\ Exited(cn).lines = <<>> /\ Exited(cn).callback = 0 /\ Exited(cn).reader = "gone"
         /\ Exited(cn).faulty = cn.faulty /\ ~Exited(cn).running
         /\ Exited(cn).asked = cn.asked /\ Exited(cn).replies = cn.replies
<1> DEFINE b == IF cn.held THEN Killed(cn) ELSE cn
<1>1. b \in ConnRecs
  BY KilledFields
<1>2. /\ ~(b.held /\ b.alive)
      /\ \/ b.queue = cn.queue /\ b.work = cn.work
         \/ b.queue = <<>> /\ b.work = NoToken
      /\ b.faulty = cn.faulty /\ b.asked = cn.asked /\ b.replies = cn.replies
  BY KilledFields
<1>3. Exited(cn) = [b EXCEPT !.reader = "gone", !.running = FALSE, !.lines = <<>>, !.callback = 0]
  BY DEF Exited
<1>4. <<>> \in Seq(Said)
  OBVIOUS
<1> HIDE DEF b
<1> DEFINE e == [b EXCEPT !.reader = "gone", !.running = FALSE, !.lines = <<>>, !.callback = 0]
<1>5. e \in ConnRecs
  BY <1>1, <1>4 DEF ConnRecs
<1>6. /\ e.held = b.held /\ e.alive = b.alive /\ e.queue = b.queue /\ e.work = b.work
      /\ e.faulty = b.faulty /\ e.asked = b.asked /\ e.replies = b.replies
      /\ e.lines = <<>> /\ e.callback = 0 /\ e.reader = "gone" /\ ~e.running
  BY <1>1 DEF ConnRecs
<1> HIDE DEF e
<1>7. Exited(cn) = e
  BY <1>3 DEF e
<1> QED BY <1>2, <1>5, <1>6, <1>7

\* The end of a sequence and its head.
LEMMA Appended ==
  ASSUME NEW X, NEW q \in Seq(X), NEW x \in X
  PROVE  /\ Append(q, x) \in Seq(X) /\ Len(q) \in Nat /\ Len(Append(q, x)) = Len(q) + 1
         /\ \A i \in 1 .. Len(q) : Append(q, x)[i] = q[i]
         /\ Append(q, x)[Len(q) + 1] = x
BY AppendProperties, LenProperties

LEMMA Tailed ==
  ASSUME NEW X, NEW q \in Seq(X), q # <<>>
  PROVE  /\ Head(q) = q[1] /\ Head(q) \in X /\ Tail(q) \in Seq(X)
         /\ Len(q) \in Nat /\ Len(q) >= 1 /\ Len(Tail(q)) = Len(q) - 1
         /\ \A i \in 1 .. Len(q) - 1 : Tail(q)[i] = q[i + 1]
<1>1. Len(q) \in Nat /\ Len(q) # 0
  BY LenProperties, EmptySeq
<1>2. Head(q) = q[1] /\ Tail(q) \in Seq(X) /\ Head(q) \in X
  BY HeadTailProperties
<1>3. Len(Tail(q)) = Len(q) - 1 /\ \A i \in 1 .. Len(q) - 1 : Tail(q)[i] = q[i + 1]
  BY <1>1, HeadTailProperties
<1> QED BY <1>1, <1>2, <1>3

LEMMA TakenFields ==
  ASSUME NEW c \in Conns, conn[c] \in ConnRecs, conn[c].lines # <<>>
  PROVE  /\ Taken(c) \in ConnRecs
         /\ Taken(c).held /\ Taken(c).alive => conn[c].held /\ conn[c].alive
         /\ \/ Taken(c).queue = conn[c].queue /\ Taken(c).work = conn[c].work
            \/ Taken(c).queue = <<>> /\ Taken(c).work = NoToken
         /\ Taken(c).lines \in {Tail(conn[c].lines), <<>>}
         /\ Taken(c).callback \in {conn[c].callback, 0}
         /\ conn[c].reader = "read" => Taken(c).reader # "new"
         /\ conn[c].running => Taken(c).held = conn[c].held /\ Taken(c).alive = conn[c].alive
                               /\ Taken(c).running
         /\ Taken(c).faulty = conn[c].faulty
         /\ Taken(c).asked = conn[c].asked /\ Taken(c).replies = conn[c].replies
<1>1. Tail(conn[c].lines) \in Seq(Said)
  BY ConnFields, Tailed
<1>2. CASE conn[c].running
  BY <1>1, <1>2 DEF Taken, ConnRecs
<1>3. CASE ~conn[c].running
  BY <1>3, ExitedFields DEF Taken
<1> QED BY <1>2, <1>3

LEMMA ResumedFields ==
  ASSUME NEW c \in Conns, conn[c] \in ConnRecs
  PROVE  /\ Resumed(c) \in ConnRecs
         /\ Resumed(c).held /\ Resumed(c).alive => conn[c].held /\ conn[c].alive
         /\ \/ Resumed(c).queue = conn[c].queue /\ Resumed(c).work = conn[c].work
            \/ Resumed(c).queue = <<>> /\ Resumed(c).work = NoToken
         /\ Resumed(c).lines \in {conn[c].lines, <<>>}
         /\ Resumed(c).callback \in {conn[c].callback, 0}
         /\ conn[c].reader # "new" => Resumed(c).reader # "new"
         /\ conn[c].running => Resumed(c).held = conn[c].held /\ Resumed(c).alive = conn[c].alive
                               /\ Resumed(c).running
         /\ Resumed(c).faulty = conn[c].faulty
         /\ Resumed(c).asked = conn[c].asked /\ Resumed(c).replies = conn[c].replies
BY ExitedFields DEF Resumed

LEMMA SettledType ==
  ASSUME Types
  PROVE  Settled \in [Conns -> ConnRecs]
<1>1. ASSUME NEW d \in Conns
      PROVE  [conn[d] EXCEPT !.replies = @ + IF Alive(d) THEN perms[d] ELSE 0] \in ConnRecs
  <2>1. conn[d] \in ConnRecs /\ perms[d] \in Nat
    BY DEF Types
  <2>2. conn[d].replies + (IF Alive(d) THEN perms[d] ELSE 0) \in Nat
    BY <2>1, ConnFields
  <2> QED BY <2>1, <2>2 DEF ConnRecs
<1> QED BY <1>1 DEF Settled

LEMMA SettledFields ==
  ASSUME Types, NEW c \in Conns
  PROVE  /\ Settled[c].replies = conn[c].replies + IF Alive(c) THEN perms[c] ELSE 0
         /\ Settled[c].held = conn[c].held /\ Settled[c].alive = conn[c].alive
         /\ Settled[c].running = conn[c].running /\ Settled[c].faulty = conn[c].faulty
         /\ Settled[c].queue = conn[c].queue /\ Settled[c].work = conn[c].work
         /\ Settled[c].reader = conn[c].reader /\ Settled[c].callback = conn[c].callback
         /\ Settled[c].lines = conn[c].lines /\ Settled[c].asked = conn[c].asked
<1>1. conn[c] \in ConnRecs
  BY DEF Types
<1>2. Settled[c] = [conn[c] EXCEPT !.replies = @ + IF Alive(c) THEN perms[c] ELSE 0]
  BY DEF Settled
<1> QED BY <1>1, <1>2 DEF ConnRecs

LEMMA QuietType ==
  ASSUME NEW cs \in [Conns -> ConnRecs], NEW d \in {0} \cup Conns
  PROVE  Quiet(cs, d) \in [Conns -> ConnRecs]
<1>1. ASSUME d # 0
      PROVE  [cs[d] EXCEPT !.callback = 0] \in ConnRecs
  BY <1>1 DEF ConnRecs
<1> QED BY <1>1 DEF Quiet

LEMMA QuietFields ==
  ASSUME NEW cs \in [Conns -> ConnRecs], NEW d \in {0} \cup Conns, NEW c \in Conns
  PROVE  /\ Quiet(cs, d) \in [Conns -> ConnRecs]
         /\ Quiet(cs, d)[c].callback = IF c = d THEN 0 ELSE cs[c].callback
         /\ Quiet(cs, d)[c].held = cs[c].held /\ Quiet(cs, d)[c].alive = cs[c].alive
         /\ Quiet(cs, d)[c].running = cs[c].running /\ Quiet(cs, d)[c].faulty = cs[c].faulty
         /\ Quiet(cs, d)[c].queue = cs[c].queue /\ Quiet(cs, d)[c].work = cs[c].work
         /\ Quiet(cs, d)[c].reader = cs[c].reader /\ Quiet(cs, d)[c].lines = cs[c].lines
         /\ Quiet(cs, d)[c].asked = cs[c].asked /\ Quiet(cs, d)[c].replies = cs[c].replies
<1>1. CASE d = 0
  BY <1>1, Places DEF Quiet
<1>2. CASE d # 0
  <2>1. Quiet(cs, d) = [cs EXCEPT ![d] = [cs[d] EXCEPT !.callback = 0]]
    BY <1>2 DEF Quiet
  <2>2. [cs[d] EXCEPT !.callback = 0] \in ConnRecs
    BY <1>2 DEF ConnRecs
  <2> DEFINE e == [cs[d] EXCEPT !.callback = 0]
  <2>3. /\ e.callback = 0 /\ e.held = cs[d].held /\ e.alive = cs[d].alive
        /\ e.running = cs[d].running /\ e.faulty = cs[d].faulty
        /\ e.queue = cs[d].queue /\ e.work = cs[d].work
        /\ e.reader = cs[d].reader /\ e.lines = cs[d].lines
        /\ e.asked = cs[d].asked /\ e.replies = cs[d].replies
    BY <1>2 DEF ConnRecs
  <2> HIDE DEF e
  <2>4. Quiet(cs, d) = [cs EXCEPT ![d] = e] /\ e \in ConnRecs
    BY <2>1, <2>2 DEF e
  <2>5. /\ Quiet(cs, d) \in [Conns -> ConnRecs] /\ Quiet(cs, d)[d] = e
        /\ c # d => Quiet(cs, d)[c] = cs[c]
    BY <1>2, <2>4
  <2>6. CASE c = d
    BY <2>3, <2>5, <2>6
  <2>7. CASE c # d
    BY <2>5, <2>7
  <2> QED BY <2>5, <2>6, <2>7
<1> QED BY <1>1, <1>2

-----------------------------------------------------------------------------
\* The queue of the writer: what it does to "the last request is tok".
LEMMA FedAppend ==
  ASSUME NEW q \in Seq(Written), NEW x \in Written, NEW work, NEW tok, NEW n \in 0 .. Len(q),
         Fed(q, work, n, tok)
  PROVE  Fed(Append(q, x), work, n, tok)
<1>1. \A i \in 1 .. n : Append(q, x)[i] = q[i]
  BY Appended
<1> QED BY <1>1 DEF Fed

LEMMA FedCancel ==
  ASSUME NEW q \in Seq(Written), NEW x \in Written, NEW work, NEW tok,
         Fed(q, work, Len(q), tok), x.k # "req"
  PROVE  Fed(Append(q, x), work, Len(q) + 1, tok)
<1>1. /\ Len(q) \in Nat
      /\ \A i \in 1 .. Len(q) : Append(q, x)[i] = q[i]
      /\ Append(q, x)[Len(q) + 1] = x
  BY Appended
<1> QED BY <1>1 DEF Fed

LEMMA FedRequest ==
  ASSUME NEW q \in Seq(Written), NEW work, NEW tok \in Tokens
  PROVE  Fed(Append(q, Line("req", tok)), work, Len(q) + 1, tok)
<1>1. Line("req", tok) \in Written
  BY DEF Line, Written
<1>2. /\ Len(q) \in Nat
      /\ Append(q, Line("req", tok))[Len(q) + 1] = Line("req", tok)
  BY <1>1, Appended
<1> QED BY <1>2 DEF Fed

LEMMA FedTail ==
  ASSUME NEW q \in Seq(Written), q # <<>>, NEW work, NEW tok, NEW n \in 1 .. Len(q),
         Fed(q, work, n, tok)
  PROVE  Fed(Tail(q), IF Head(q).k = "req" THEN Head(q).of ELSE work, n - 1, tok)
<1>1. /\ Head(q) = q[1] /\ Len(q) \in Nat
      /\ \A i \in 1 .. Len(q) - 1 : Tail(q)[i] = q[i + 1]
  BY Tailed
<1>2. \A j \in 1 .. n - 1 : Tail(q)[j] = q[j + 1] /\ j + 1 \in 1 .. n
  BY <1>1
<1>3. ASSUME NEW k \in 1 .. n, q[k] = Line("req", tok), \A j \in 1 .. n : j > k => q[j].k # "req"
      PROVE  Fed(Tail(q), IF Head(q).k = "req" THEN Head(q).of ELSE work, n - 1, tok)
  <2>1. CASE k = 1
    <3>1. Head(q).k = "req" /\ Head(q).of = tok
      BY <1>1, <1>3, <2>1 DEF Line
    <3>2. \A j \in 1 .. n - 1 : Tail(q)[j].k # "req"
      BY <1>2, <1>3, <2>1
    <3> QED BY <3>1, <3>2 DEF Fed
  <2>2. CASE k # 1
    <3>1. k - 1 \in 1 .. n - 1 /\ Tail(q)[k - 1] = Line("req", tok)
      BY <1>1, <1>3, <2>2
    <3>2. \A j \in 1 .. n - 1 : j > k - 1 => Tail(q)[j].k # "req"
      BY <1>2, <1>3
    <3> QED BY <3>1, <3>2 DEF Fed
  <2> QED BY <2>1, <2>2
<1>4. ASSUME work \in {NoToken, tok}, \A j \in 1 .. n : q[j].k # "req"
      PROVE  Fed(Tail(q), IF Head(q).k = "req" THEN Head(q).of ELSE work, n - 1, tok)
  <2>1. Head(q).k # "req"
    BY <1>1, <1>4
  <2>2. \A j \in 1 .. n - 1 : Tail(q)[j].k # "req"
    BY <1>2, <1>4
  <2> QED BY <1>4, <2>1, <2>2 DEF Fed
<1> QED BY <1>3, <1>4 DEF Fed

\* The agent is done with its work, or gone with all of it.
Eased(c) ==
  \/ conn'[c].queue = conn[c].queue /\ conn'[c].work \in {conn[c].work, NoToken}
  \/ conn'[c].queue = <<>> /\ conn'[c].work = NoToken

LEMMA FedEased ==
  ASSUME NEW c \in Conns, Eased(c), NEW tok, NEW n,
         Fed(conn[c].queue, conn[c].work, n, tok), conn'[c].queue = conn[c].queue
  PROVE  Fed(conn'[c].queue, conn'[c].work, n, tok)
BY DEF Eased, Fed

LEMMA FedNothing ==
  ASSUME NEW tok
  PROVE  Fed(<<>>, NoToken, Len(<<>>), tok)
BY DEF Fed

\* Steps that put nothing into a queue, start no process and send no cancel.
LEMMA FeedKept ==
  ASSUME Types, FeedInv, IssuedInv, SendInv, TurnInv,
         \A c \in Conns : Eased(c),
         \A w \in wires' : w.pc = "send" => w \in wires,
         token' # NoToken /\ Sender({"watch", "await", "result"})' =>
           /\ token' = token /\ sendlock' = sendlock /\ Sender({"watch", "await", "result"})
           /\ turn'[sendlock].conn = turn[sendlock].conn
           /\ \A c \in Conns : Alive(c)' => Alive(c)
  PROVE  FeedInv'
<1>1. ASSUME NEW c \in Conns, NEW i \in 1 .. Len(conn'[c].queue), conn'[c].queue[i].k = "cancel"
      PROVE  Fed(conn'[c].queue, conn'[c].work, i - 1, conn'[c].queue[i].of)
  <2>1. conn'[c].queue # <<>>
    BY <1>1
  <2>2. conn'[c].queue = conn[c].queue
    BY <2>1 DEF Eased
  <2>3. Fed(conn[c].queue, conn[c].work, i - 1, conn[c].queue[i].of)
    BY <1>1, <2>2 DEF FeedInv
  <2> QED BY <2>2, <2>3, FedEased
<1>2. ASSUME NEW c \in Conns, NEW tok, Fed(conn[c].queue, conn[c].work, Len(conn[c].queue), tok)
      PROVE  Fed(conn'[c].queue, conn'[c].work, Len(conn'[c].queue), tok)
  <2>1. CASE conn'[c].queue = conn[c].queue
    BY <1>2, <2>1, FedEased
  <2>2. CASE conn'[c].queue = <<>> /\ conn'[c].work = NoToken
    BY <2>2, FedNothing
  <2> QED BY <2>1, <2>2 DEF Eased
<1>3. ASSUME NEW w \in wires', w.pc = "send"
      PROVE  Fed(conn'[w.conn].queue, conn'[w.conn].work, Len(conn'[w.conn].queue), w.token)
  <2>1. w \in wires /\ w.conn \in Conns
    BY <1>3 DEF IssuedInv, Types, Wires
  <2> QED BY <1>2, <1>3, <2>1 DEF FeedInv
<1>4. ASSUME token' # NoToken, Sender({"watch", "await", "result"})',
             NEW c \in Conns, c = turn'[sendlock'].conn, Alive(c)'
      PROVE  Fed(conn'[c].queue, conn'[c].work, Len(conn'[c].queue), token')
  <2>1. /\ token' = token /\ sendlock' = sendlock /\ turn'[sendlock].conn = turn[sendlock].conn
        /\ Sender({"watch", "await", "result"})
    BY <1>4
  <2>2. Alive(c) /\ c = turn[sendlock].conn
    BY <1>4, <2>1
  <2> QED BY <1>2, <1>4, <2>1, <2>2 DEF FeedInv
<1>5. token' # NoToken /\ Sender({"watch", "await", "result"})' => turn'[sendlock'].conn \in Conns
  <2> SUFFICES ASSUME token' # NoToken, Sender({"watch", "await", "result"})'
               PROVE  turn'[sendlock'].conn \in Conns
    OBVIOUS
  <2>1. /\ sendlock' = sendlock /\ turn'[sendlock].conn = turn[sendlock].conn
        /\ Sender({"watch", "await", "result"})
    OBVIOUS
  <2>2. sendlock \in Turns /\ turn[sendlock].pc \in Using /\ turn[sendlock] \in TurnRecs
    BY <2>1 DEF Sender, Using, Types
  <2> QED BY <2>1, <2>2, TurnFields DEF TurnInv
<1>6. \A c \in Conns : \A i \in 1 .. Len(conn'[c].queue) : conn'[c].queue[i].k = "cancel" =>
        Fed(conn'[c].queue, conn'[c].work, i - 1, conn'[c].queue[i].of)
  BY <1>1
<1>7. \A w \in wires' : w.pc = "send" =>
        Fed(conn'[w.conn].queue, conn'[w.conn].work, Len(conn'[w.conn].queue), w.token)
  BY <1>3
<1>8. token' # NoToken /\ Sender({"watch", "await", "result"})' =>
        LET c == turn'[sendlock'].conn
        IN  Alive(turn[sendlock].conn)'
              => Fed(conn'[c].queue, conn'[c].work, Len(conn'[c].queue), token')
  BY <1>4, <1>5 DEF Alive
<1> QED BY <1>6, <1>7, <1>8 DEF FeedInv

LEMMA IssuedKept ==
  ASSUME Types, IssuedInv,
         \A c \in Conns : Eased(c),
         \A w \in wires' : w \in wires \/ (w.pc = "decide" /\ w.token = NoToken),
         graces' \subseteq graces,
         \A tok \in Tokens : Issued(tok) => Issued(tok)'
  PROVE  IssuedInv'
<1>1. ASSUME NEW c \in Conns, NEW i \in 1 .. Len(conn'[c].queue), NEW tok,
             tok = conn'[c].queue[i].of
      PROVE  Issued(tok)'
  <2>1. conn'[c].queue # <<>>
    BY <1>1
  <2>2. conn'[c].queue = conn[c].queue
    BY <2>1 DEF Eased
  <2>3. conn[c].queue[i] \in Written
    BY <1>1, <2>2, StateFields, ElementOfSeq
  <2>4. tok \in Tokens
    BY <1>1, <2>2, <2>3 DEF Written
  <2>5. Issued(tok)
    BY <1>1, <2>2 DEF IssuedInv
  <2> QED BY <2>4, <2>5
<1>2. ASSUME NEW w \in wires', w.token # NoToken PROVE w.pc # "decide" /\ Issued(w.token)'
  <2>1. w \in wires /\ w.token \in Tokens /\ Issued(w.token) /\ w.pc # "decide"
    BY <1>2 DEF IssuedInv, Types, Wires
  <2> QED BY <2>1
<1>3. ASSUME NEW w \in wires', w.pc = "send" PROVE w.token # NoToken /\ w.conn # 0
  BY <1>3 DEF IssuedInv
<1>4. ASSUME NEW g \in graces' PROVE Issued(g.token)'
  <2>1. g.token \in Tokens /\ Issued(g.token)
    BY <1>4 DEF IssuedInv, Types
  <2> QED BY <2>1
<1> USE DEF Issued
<1>5. \A c \in Conns : \A i \in 1 .. Len(conn'[c].queue) : Issued(conn[c].queue[i].of)'
  BY <1>1
<1> QED BY <1>2, <1>3, <1>4, <1>5 DEF IssuedInv

LEMMA OnceKept ==
  ASSUME OnceInv,
         \A c \in Conns : Eased(c),
         \A w \in wires' : w.pc = "send" => w \in wires,
         token' # NoToken /\ ~notified' => token' = token /\ ~notified
  PROVE  OnceInv'
<1>1. \A c \in Conns : conn'[c].queue \in {conn[c].queue, <<>>}
  BY DEF Eased
<1>2. ASSUME NEW c \in Conns, NEW tok, Cancels(c, tok)' PROVE Cancels(c, tok)
  BY <1>1, <1>2 DEF Cancels
<1>3. ASSUME NEW c \in Conns, NEW i \in 1 .. Len(conn'[c].queue),
             NEW j \in 1 .. Len(conn'[c].queue), i < j, conn'[c].queue[i].k = "cancel"
      PROVE  conn'[c].queue[i].of # conn'[c].queue[j].of
  <2>1. conn'[c].queue # <<>>
    BY <1>3
  <2> QED BY <1>1, <1>3, <2>1 DEF OnceInv
<1>4. token' # NoToken /\ ~notified' =>
        /\ \A c \in Conns : ~Cancels(c, token)'
        /\ \A w \in wires' : w.pc = "send" => w.token # token'
  <2> SUFFICES ASSUME token' # NoToken, ~notified'
               PROVE  /\ \A c \in Conns : ~Cancels(c, token)'
                      /\ \A w \in wires' : w.pc = "send" => w.token # token'
    OBVIOUS
  <2>1. PICK tok : tok = token
    OBVIOUS
  <2>2. token' = tok /\ \A c \in Conns : ~Cancels(c, tok)'
    BY <1>2, <2>1 DEF OnceInv
  <2> QED BY <2>1, <2>2 DEF OnceInv, Cancels
<1>5. \A w \in wires' : w.pc = "send" =>
        /\ \A c \in Conns : ~Cancels(c, w.token)'
        /\ \A v \in wires' : v.pc = "send" /\ v.token = w.token => v = w
  BY <1>2 DEF OnceInv
<1>6. \A c \in Conns : \A i, j \in 1 .. Len(conn'[c].queue) :
        i < j /\ conn'[c].queue[i].k = "cancel" => conn'[c].queue[i].of # conn'[c].queue[j].of
  BY <1>3
<1> QED BY <1>4, <1>5, <1>6 DEF OnceInv

-----------------------------------------------------------------------------
\* How many of the lines to be read ask for a permission.
LEMMA AskedNumber ==
  ASSUME NEW q \in Seq(Said)
  PROVE  IsFiniteSet(AskedAt(q)) /\ Cardinality(AskedAt(q)) \in Nat
<1>1. IsFiniteSet(1 .. Len(q))
  BY LenProperties, FS_Interval
<1>2. AskedAt(q) \in SUBSET (1 .. Len(q))
  BY DEF AskedAt
<1>3. IsFiniteSet(AskedAt(q))
  BY <1>1, <1>2, FS_Subset
<1> QED BY <1>3, FS_CardinalityType

LEMMA AskedNone ==
  Cardinality(AskedAt(<<>>)) = 0
<1>1. AskedAt(<<>>) = {}
  BY DEF AskedAt
<1> QED BY <1>1, FS_EmptySet

LEMMA AskedAppend ==
  ASSUME NEW q \in Seq(Said), NEW x \in Said
  PROVE  Cardinality(AskedAt(Append(q, x))) =
           Cardinality(AskedAt(q)) + IF x.k = "ask" THEN 1 ELSE 0
<1>1. /\ Len(q) \in Nat /\ Len(Append(q, x)) = Len(q) + 1
      /\ \A i \in 1 .. Len(q) : Append(q, x)[i] = q[i]
      /\ Append(q, x)[Len(q) + 1] = x
  BY Appended
<1>2. Len(q) + 1 \notin AskedAt(q)
  BY <1>1 DEF AskedAt
<1>3. CASE x.k = "ask"
  <2>1. AskedAt(Append(q, x)) = AskedAt(q) \cup {Len(q) + 1}
    BY <1>1, <1>3 DEF AskedAt
  <2> QED BY <1>2, <1>3, <2>1, AskedNumber, FS_AddElement
<1>4. CASE x.k # "ask"
  <2>1. AskedAt(Append(q, x)) = AskedAt(q)
    BY <1>1, <1>4 DEF AskedAt
  <2> QED BY <1>4, <2>1, AskedNumber
<1> QED BY <1>3, <1>4

LEMMA AskedTail ==
  ASSUME NEW q \in Seq(Said), q # <<>>
  PROVE  Cardinality(AskedAt(Tail(q))) + (IF Head(q).k = "ask" THEN 1 ELSE 0)
           <= Cardinality(AskedAt(q))
<1> DEFINE S == AskedAt(q) \ {1}
           T == AskedAt(Tail(q))
           f == [i \in T |-> i + 1]
<1>1. /\ Head(q) = q[1] /\ Tail(q) \in Seq(Said) /\ Len(q) \in Nat /\ Len(q) >= 1
      /\ Len(Tail(q)) = Len(q) - 1
      /\ \A i \in 1 .. Len(q) - 1 : Tail(q)[i] = q[i + 1]
  BY Tailed
<1>2. IsFiniteSet(S) /\ Cardinality(S) =
        IF 1 \in AskedAt(q) THEN Cardinality(AskedAt(q)) - 1 ELSE Cardinality(AskedAt(q))
  BY AskedNumber, FS_RemoveElement
<1>3. f \in Injection(T, S)
  <2>1. T \subseteq Nat
    BY <1>1 DEF AskedAt
  <2>2. \A i \in T : i + 1 \in S
    BY <1>1 DEF AskedAt
  <2> QED BY <2>1, <2>2 DEF Injection, IsInjective
<1>4. Cardinality(T) <= Cardinality(S)
  <2> HIDE DEF S, T, f
  <2> QED BY <1>2, <1>3, FS_Injection
<1>5. 1 \in AskedAt(q) <=> Head(q).k = "ask"
  BY <1>1 DEF AskedAt
<1>6. Cardinality(T) \in Nat /\ Cardinality(AskedAt(q)) \in Nat
  BY <1>1, AskedNumber
<1> QED BY <1>2, <1>4, <1>5, <1>6

\* The sender's turn.
LEMMA SenderIs ==
  ASSUME Types, SendInv, NEW t \in Turns, turn[t].pc \notin {"idle", "lock", "done"}
  PROVE  /\ sendlock = t /\ active = t /\ t # 0
         /\ \A pcs : Sender(pcs) <=> turn[t].pc \in pcs
BY Places DEF SendInv, Sender

LEMMA SenderIsNot ==
  ASSUME Types, SendInv, NEW t \in Turns, turn[t].pc \in {"idle", "lock", "done"}
  PROVE  sendlock # t
BY DEF SendInv

\* The connections that turns and stops name are some.
LEMMA Indices ==
  ASSUME Types, TurnInv
  PROVE  /\ \A t \in Turns :
              /\ turn[t].pc \in {"place"} \cup Coming \cup Using \/ turn[t].wait # "none"
                   \/ turn[t].out \in {"failed", "timeout", "error"} => turn[t].conn \in Conns
         /\ \A s \in stops : s.conn \in Conns /\ s.conn # 0
         /\ sendlock \in {0} \cup Turns /\ slot \in {0} \cup Conns
<1>1. \A t \in Turns : turn[t].conn \in {0} \cup Conns
  BY TurnFields DEF Types
<1> QED BY <1>1, Places DEF Types, TurnInv, Stops, Using


\* Waiters that are woken: with an error, or with an answer.
LEMMA FailedFields ==
  ASSUME Types, NEW c \in Conns
  PROVE  /\ Failed(c) \in [Turns -> TurnRecs]
         /\ \A t \in Turns :
              /\ Failed(c)[t].pc = turn[t].pc /\ Failed(c)[t].conn = turn[t].conn
              /\ Failed(c)[t].what = turn[t].what /\ Failed(c)[t].cancelled = turn[t].cancelled
              /\ Failed(c)[t].early = turn[t].early /\ Failed(c)[t].out = turn[t].out
              /\ Failed(c)[t].wait = IF turn[t].conn = c /\ turn[t].wait = "open"
                                     THEN "failed" ELSE turn[t].wait
<1>1. ASSUME NEW t \in Turns
      PROVE  /\ [turn[t] EXCEPT !.wait = "failed"] \in TurnRecs
             /\ Failed(c)[t] = IF turn[t].conn = c /\ turn[t].wait = "open"
                               THEN [turn[t] EXCEPT !.wait = "failed"] ELSE turn[t]
  <2>1. turn[t] \in TurnRecs
    BY DEF Types
  <2> QED BY <2>1 DEF TurnRecs, Failed
<1>2. ASSUME NEW t \in Turns
      PROVE  /\ Failed(c)[t].pc = turn[t].pc /\ Failed(c)[t].conn = turn[t].conn
             /\ Failed(c)[t].what = turn[t].what /\ Failed(c)[t].cancelled = turn[t].cancelled
             /\ Failed(c)[t].early = turn[t].early /\ Failed(c)[t].out = turn[t].out
             /\ Failed(c)[t].wait = IF turn[t].conn = c /\ turn[t].wait = "open"
                                    THEN "failed" ELSE turn[t].wait
  <2> DEFINE r == [turn[t] EXCEPT !.wait = "failed"]
  <2>1. /\ r.pc = turn[t].pc /\ r.conn = turn[t].conn /\ r.what = turn[t].what
        /\ r.cancelled = turn[t].cancelled /\ r.early = turn[t].early /\ r.out = turn[t].out
        /\ r.wait = "failed"
    <3>1. turn[t] \in TurnRecs
      BY DEF Types
    <3> QED BY <3>1 DEF TurnRecs
  <2>2. Failed(c)[t] = IF turn[t].conn = c /\ turn[t].wait = "open" THEN r ELSE turn[t]
    BY <1>1
  <2> HIDE DEF r
  <2> QED BY <2>1, <2>2
<1>3. Failed(c) \in [Turns -> TurnRecs]
  <2>1. \A t \in Turns : turn[t] \in TurnRecs
    BY DEF Types
  <2> QED BY <1>1, <2>1 DEF Failed
<1> QED BY <1>2, <1>3

\* The turn a connection's waiters are swept for has lost its slot, or its agent.
LEMMA SweptTurn ==
  ASSUME IInv, NEW t \in Turns, turn[t].wait = "open" \/ turn[t].pc \in Using \ {"released"},
         turn[t].conn \in Conns,
         \/ ~conn[turn[t].conn].running
         \/ ~Alive(turn[t].conn)
         \/ \E s \in stops : s.conn = turn[t].conn
  PROVE  conn[turn[t].conn].faulty \/ shut \/ turn[t].cancelled
<1> USE DEF IInv
<1>1. turn[t].pc \in Using /\ turn[t].pc # "released"
  BY DEF TurnInv, Using
<1>2. sendlock = t /\ \A pcs : Sender(pcs) <=> turn[t].pc \in pcs
  BY <1>1, SenderIs DEF Using
<1>3. CASE slot = 0
  BY <1>1, <1>2, <1>3 DEF LostInv
<1>4. CASE slot # 0
  <2>1. slot = turn[t].conn /\ turn[t].pc \notin {"start", "run", "released"}
    BY <1>1, <1>2, <1>4 DEF SlotInv, Using
  <2>2. shut \/ ~\E s \in stops : s.conn = slot
    BY <1>2, <2>1 DEF SlotInv
  <2> QED BY <1>2, <1>4, <2>1, <2>2 DEF SlotInv
<1> QED BY <1>3, <1>4

\* The turns that wires and graces speak of.
LEMMA Actors ==
  ASSUME Types, SendInv
  PROVE  /\ sendlock \in {0} \cup Turns /\ active = sendlock
         /\ \A w \in wires : w.by \in {UI} \cup Turns /\ (w.by # UI => w.by \in Turns)
         /\ \A g \in graces : token = g.token => sendlock \in Turns
         /\ token # NoToken => sendlock \in Turns
<1>1. \A g \in graces : g.token # NoToken
  BY Places DEF Types
<1> QED BY <1>1 DEF Types, SendInv, Sender, Wires


\* A reader that finds its connection stopped, on a connection in use.
LEMMA StoppedReader ==
  ASSUME IInv, NEW c \in Conns, conn[c].reader # "new", ~shut, ~conn[c].running \/ ~conn[c].alive,
         slot = c, ~Sender({"released"})
  PROVE  conn[c].faulty
<1> USE DEF IInv
<1>1. ~Sender(Coming)
  BY Places DEF FreshInv, Sender, SlotInv, Types
<1>2. ~Sender({"start", "released"}) /\ ~Sender({"run"}) /\ slot # 0
  BY <1>1, Places DEF Sender, Coming
<1> QED BY <1>2 DEF SlotInv, Alive


LEMMA OverFields ==
  /\ Over \in TurnRecs /\ Over.pc = "done" /\ Over.conn = 0 /\ Over.what = "none"
  /\ ~Over.cancelled /\ ~Over.early /\ Over.wait = "none" /\ Over.out = "none"
<1>1. /\ NewTurn \in TurnRecs /\ NewTurn.conn = 0 /\ NewTurn.what = "none"
      /\ ~NewTurn.cancelled /\ ~NewTurn.early /\ NewTurn.wait = "none" /\ NewTurn.out = "none"
  BY DEF NewTurn, TurnRecs, Pcs
<1>2. Over = [NewTurn EXCEPT !.pc = "done"]
  BY DEF Over
<1> QED BY <1>1, <1>2 DEF TurnRecs, Pcs

-----------------------------------------------------------------------------
(* The steps.                                                              *)

\* The steps of a send's thread that write nothing but its own turn, its
\* token, ready and a stop of a connection that lost the slot.
Moves(t, r) ==
  /\ turn' = [turn EXCEPT ![t] = r]
  /\ turn[t].pc \in {"ensure", "spawn", "owned", "request", "register", "opened", "result"}
  /\ r.cancelled = turn[t].cancelled /\ r.early = turn[t].early /\ r.wait = turn[t].wait
  /\ turn[t].pc = "register" => r.wait = "none"
  /\ lock' = 0 /\ token' = NoToken /\ ready' \in BOOLEAN /\ (ready' => slot # 0)
  /\ UNCHANGED <<limit, hand, late, sendlock, active, slot, notified, shut, perms, conn, wires, graces>>
  /\ stops' \subseteq Stops /\ stops \subseteq stops'
  /\ \A s \in stops' : s \in stops \/
       (turn[t].pc \in Using /\ (slot # turn[t].conn \/ shut) /\ s.conn = turn[t].conn)
  /\ \/ /\ r.pc = "spawn" /\ turn[t].pc = "ensure" /\ slot = 0
        /\ r.conn = turn[t].conn /\ r.what = turn[t].what /\ r.out = turn[t].out
     \/ /\ r.pc = "opened" /\ turn[t].what # "prompt"
        /\ (slot = 0 => shut \/ turn[t].cancelled)
        /\ r.conn = turn[t].conn /\ r.what = turn[t].what /\ r.out = turn[t].out
     \/ /\ r.pc = "request" /\ turn[t].pc \in {"ensure", "owned"} /\ slot # 0
        /\ r.conn = slot /\ r.what = "init" /\ r.out = "none"
     \/ /\ r.pc = "result" /\ turn[t].pc \in {"request", "register"}
        /\ (~Alive(turn[t].conn) \/ ~conn[turn[t].conn].running)
        /\ r.conn = turn[t].conn /\ r.what = turn[t].what /\ r.out = "failed"
     \/ /\ r.pc = "finish" /\ r.conn = turn[t].conn /\ r.what = turn[t].what
        /\ \/ r.out \in {"done", "unstarted"}
           \/ r.out = "stopped" /\ (shut \/ turn[t].cancelled)
           \/ r.out = "error" /\ conn[turn[t].conn].faulty /\ turn[t].conn # 0
  /\ turn[t].pc = "owned" /\ Alive(turn[t].conn) =>
       (slot = turn[t].conn /\ ~shut) \/ (\E s \in stops' : s.conn = turn[t].conn)

\* The steps that drop the connection.
Drops(t, r) ==
  /\ turn' = [turn EXCEPT ![t] = r] /\ turn[t].pc \in {"ensure", "result"}
  /\ slot # 0 /\ lock = 0 /\ lock' = 0 /\ token' = NoToken /\ Drop(t)
  /\ UNCHANGED <<limit, hand, late, sendlock, active, notified, shut, wires, graces>>
  /\ r.cancelled = turn[t].cancelled /\ r.early = turn[t].early /\ r.wait = turn[t].wait
  /\ r.conn = turn[t].conn /\ r.what = turn[t].what
  /\ \/ turn[t].pc = "ensure" /\ r.pc = "spawn" /\ r.out = turn[t].out
     \/ /\ turn[t].pc = "result" /\ r.pc = "finish" /\ r.out = "error"
        /\ conn[turn[t].conn].faulty /\ turn[t].conn # 0

\* What To, Out and ToRequest write.
LEMMA ToWrites ==
  ASSUME Types, NEW t \in Turns, NEW pc \in Pcs, To(t, pc)
  PROVE  \E r \in TurnRecs :
           /\ turn' = [turn EXCEPT ![t] = r] /\ r.pc = pc
           /\ r.conn = turn[t].conn /\ r.what = turn[t].what /\ r.cancelled = turn[t].cancelled
           /\ r.early = turn[t].early /\ r.wait = turn[t].wait /\ r.out = turn[t].out
<1> DEFINE r == [turn[t] EXCEPT !.pc = pc]
<1>1. turn' = [turn EXCEPT ![t] = r]
  BY DEF To
<1>2. /\ r \in TurnRecs /\ r.pc = pc
      /\ r.conn = turn[t].conn /\ r.what = turn[t].what /\ r.cancelled = turn[t].cancelled
      /\ r.early = turn[t].early /\ r.wait = turn[t].wait /\ r.out = turn[t].out
  BY StateFields DEF TurnRecs
<1> HIDE DEF r
<1> QED BY <1>1, <1>2

LEMMA OutWrites ==
  ASSUME Types, NEW t \in Turns, NEW out \in {"failed", "stopped", "error", "unstarted", "done"},
         NEW pc \in {"finish", "result"},
         turn' = [turn EXCEPT ![t].pc = pc, ![t].out = out]
  PROVE  \E r \in TurnRecs :
           /\ turn' = [turn EXCEPT ![t] = r] /\ r.pc = pc /\ r.out = out
           /\ r.conn = turn[t].conn /\ r.what = turn[t].what /\ r.cancelled = turn[t].cancelled
           /\ r.early = turn[t].early /\ r.wait = turn[t].wait
<1> DEFINE r == [turn[t] EXCEPT !.pc = pc, !.out = out]
<1>1. turn' = [turn EXCEPT ![t] = r]
  OBVIOUS
<1>2. /\ r \in TurnRecs /\ r.pc = pc /\ r.out = out
      /\ r.conn = turn[t].conn /\ r.what = turn[t].what /\ r.cancelled = turn[t].cancelled
      /\ r.early = turn[t].early /\ r.wait = turn[t].wait
  BY StateFields DEF TurnRecs, Pcs
<1> HIDE DEF r
<1> QED BY <1>1, <1>2

LEMMA RequestWrites ==
  ASSUME Types, NEW t \in Turns, NEW c \in Conns, ToRequest(t, c, "init")
  PROVE  \E r \in TurnRecs :
           /\ turn' = [turn EXCEPT ![t] = r] /\ r.pc = "request" /\ r.out = "none"
           /\ r.conn = c /\ r.what = "init" /\ r.cancelled = turn[t].cancelled
           /\ r.early = turn[t].early /\ r.wait = turn[t].wait
<1> DEFINE r == [turn[t] EXCEPT !.pc = "request", !.conn = c, !.what = "init", !.out = "none"]
<1>1. turn' = [turn EXCEPT ![t] = r]
  BY DEF ToRequest
<1>2. /\ r \in TurnRecs /\ r.pc = "request" /\ r.out = "none" /\ r.conn = c /\ r.what = "init"
      /\ r.cancelled = turn[t].cancelled
      /\ r.early = turn[t].early /\ r.wait = turn[t].wait
  BY StateFields DEF TurnRecs, Pcs
<1> HIDE DEF r
<1> QED BY <1>1, <1>2

\* A thread past the locks, outside a request of its own.
LEMMA WorkerIs ==
  ASSUME IInv, NEW t \in Turns,
         turn[t].pc \in {"ensure", "spawn", "owned", "request", "opened", "result"}
  PROVE  /\ sendlock = t /\ active = t /\ lock = 0 /\ turn[t].wait = "none"
         /\ turn[t].pc # "result" => token = NoToken
         /\ turn[t].pc = "result" => token \in {NoToken, Token(t)}
         /\ Stopped <=> shut \/ turn[t].cancelled
         /\ slot \in {0} \cup Conns /\ stops \subseteq Stops
         /\ turn[t].pc \in Using => turn[t].conn \in Conns /\ turn[t].conn # 0
         /\ turn[t].pc \in Using /\ slot = 0 => shut \/ turn[t].cancelled
         /\ turn[t].pc \in Using /\ slot # 0 => slot = turn[t].conn
         /\ ready \in BOOLEAN /\ (ready => slot # 0)
<1> USE DEF IInv
<1>1. sendlock = t /\ active = t /\ t # 0
  BY SenderIs
<1>2. lock = 0 /\ turn[t].wait = "none"
      /\ (turn[t].pc # "result" => token = NoToken)
      /\ (turn[t].pc = "result" => token \in {NoToken, Token(t)})
  BY <1>1 DEF SendInv, Sender, TurnInv
<1>3. turn[t].pc \in Using => turn[t].conn \in Conns /\ turn[t].conn # 0
  BY Indices, Places
<1>4. turn[t].pc \in Using => /\ slot = 0 => shut \/ turn[t].cancelled
                              /\ slot # 0 => slot = turn[t].conn
  BY <1>1 DEF LostInv, SlotInv, Sender
<1> QED BY <1>1, <1>2, <1>3, <1>4 DEF Stopped, Types, SlotInv

LEMMA StoppingWrites ==
  ASSUME NEW t \in Turns, NEW c \in Conns, stops \subseteq Stops, stops' = Stopping(t, c)
  PROVE  /\ stops' \subseteq Stops /\ stops \subseteq stops'
         /\ \A s \in stops' : s \in stops \/ s.conn = c
         /\ \E s \in stops' : s.conn = c
<1>1. c # 0 /\ [by |-> t, conn |-> c, pc |-> "sweep"] \in Stops
  BY Places DEF Stops
<1> QED BY <1>1 DEF Stopping
-----------------------------------------------------------------------------
\* The user sends: only the new turn changes, and the ones before it are over or
\* stopped.
LEMMA SendClickStep ==
  ASSUME IInv, NEW t \in Turns, SendClick(t)
  PROVE  IInv'
<1> USE DEF IInv
<1>g. /\ turn[t].pc = "idle" /\ \A u \in Turns : u < t => turn[u].pc \in {"finish", "done"} \/ turn[u].cancelled
      /\ sendlock # t /\ \A w \in wires : w.by # UI
      /\ UNCHANGED <<limit, hand, late, sendlock, lock, active, slot, ready, token, notified, shut,
                     perms, conn, wires, graces, stops>>
      /\ turn' = [turn EXCEPT ![t].pc = "lock"] /\ \A c \in Conns : Eased(c)
  <2>1. \A u \in Turns : u < t => u \in 1 .. t - 1
    BY DEF Turns
  <2> QED BY <2>1, SenderIsNot DEF SendClick, To, Busy, adapter, Eased
<1>r. [turn[t] EXCEPT !.pc = "lock"] \in TurnRecs
  <2>1. turn[t] \in TurnRecs
    BY StateFields
  <2> QED BY <2>1 DEF TurnRecs, Pcs
<1>t. /\ turn' \in [Turns -> TurnRecs] /\ \A u \in Turns \ {t} : turn'[u] = turn[u]
      /\ turn'[t].pc = "lock"
      /\ turn'[t].conn = turn[t].conn
      /\ turn'[t].what = turn[t].what
      /\ turn'[t].cancelled = turn[t].cancelled
      /\ turn'[t].early = turn[t].early
      /\ turn'[t].wait = turn[t].wait
      /\ turn'[t].out = turn[t].out
  <2> DEFINE r == [turn[t] EXCEPT !.pc = "lock"]
  <2>1. turn' = [turn EXCEPT ![t] = r]
    BY <1>g DEF To
  <2>2. r \in TurnRecs
    BY <1>r
  <2>3. /\ r.pc = "lock"
        /\ r.conn = turn[t].conn
        /\ r.what = turn[t].what
        /\ r.cancelled = turn[t].cancelled
        /\ r.early = turn[t].early
        /\ r.wait = turn[t].wait
        /\ r.out = turn[t].out
    BY StateFields DEF TurnRecs
  <2> HIDE DEF r
  <2> QED BY <2>1, <2>2, <2>3, TurnStep
<1>1. Types'
  BY <1>g, <1>t DEF Types, Wires, Stops
<1>2. SendInv'
  BY <1>g, <1>t DEF SendInv, Sender, Token
<1>3. TurnInv'
  BY <1>g, <1>t DEF TurnInv, Coming, Using
<1>4. ClickInv'
  BY <1>g, <1>t DEF ClickInv
<1>5. WireInv'
  BY <1>g, <1>t DEF WireInv, SendInv, Sender
<1>6. IssuedInv'
  <2>1. \A tok \in Tokens : Issued(tok) => Issued(tok)'
    BY <1>g, <1>t DEF Issued, Tokens, TurnInv
  <2> QED BY <2>1, <1>g, <1>t, IssuedKept
<1>7. OnceInv'
  BY <1>g, <1>t, OnceKept
<1>8. FeedInv'
  <2>1. \A d \in Conns : Alive(d)' => Alive(d)
    BY <1>g, <1>t DEF Alive
  <2>2. token' # NoToken /\ Sender({"watch", "await", "result"})' =>
          /\ token' = token /\ sendlock' = sendlock /\ Sender({"watch", "await", "result"})
          /\ turn'[sendlock].conn = turn[sendlock].conn
    BY <1>g, <1>t DEF Sender
  <2> QED BY <2>1, <2>2, <1>g, <1>t, FeedKept
<1>9. GraceInv'
  BY <1>g, <1>t DEF GraceInv, SendInv
<1>10. FreshInv'
  BY <1>g, <1>t, Indices DEF FreshInv, Sender, Coming, Using
<1>11. CallbackInv'
  BY <1>g, <1>t DEF CallbackInv, Sender
<1>12. CountInv'
  BY <1>g, <1>t DEF CountInv, Held
<1>13. SlotInv'
  BY <1>g, <1>t, Indices DEF SlotInv, Sender, Coming, Using, Alive
<1>14. LostInv'
  BY <1>g, <1>t, Indices DEF LostInv, Sender, Coming, Using
<1>15. FailInv'
  BY <1>g, <1>t, Indices DEF FailInv
<1>16. FaultInv'
  BY <1>g, <1>t DEF FaultInv
<1>17. KeptInv'
  BY <1>g, <1>t, Indices DEF KeptInv, Sender, Alive, Using, Coming
<1>18. NoStrayPermission'
  BY <1>g, <1>t DEF NoStrayPermission, Stopped, Alive
<1>19. NoCollateral'
  BY <1>g, <1>t, Indices DEF NoCollateral
<1> QED BY <1>1, <1>2, <1>3, <1>4, <1>5, <1>6, <1>7, <1>8, <1>9, <1>10,
           <1>11, <1>12, <1>13, <1>14, <1>15, <1>16, <1>17, <1>18, <1>19

\* The user stops a turn: its flag, and a wire if its scope is registered.
LEMMA StopClickStep ==
  ASSUME IInv, NEW t \in Turns, StopClick(t)
  PROVE  IInv'
<1> USE DEF IInv
<1> DEFINE W == [by |-> UI, token |-> NoToken, conn |-> 0, pc |-> "decide"]
<1>w. /\ W \in Wires /\ W.pc = "decide" /\ W.token = NoToken /\ W.by = UI
      /\ wires' = IF active = t THEN wires \cup {W} ELSE wires
  BY DEF StopClick, Wire, Wires
<1>g. /\ turn[t].pc \notin {"idle", "done"} /\ ~turn[t].cancelled
      /\ \A w \in wires : w.by # UI
      /\ \A u \in Turns : u > t => turn[u].pc = "idle"
      /\ UNCHANGED <<limit, hand, late, sendlock, lock, active, slot, ready, token, notified, shut,
                     perms, conn, graces, stops>>
      /\ turn' = [turn EXCEPT ![t].cancelled = TRUE] /\ \A c \in Conns : Eased(c)
  <2>1. \A u \in Turns : u > t => u \in t + 1 .. MaxTurns
    BY DEF Turns
  <2> QED BY <2>1 DEF StopClick, Busy, adapter, Eased
<1> HIDE DEF W
<1>r. [turn[t] EXCEPT !.cancelled = TRUE] \in TurnRecs
  <2>1. turn[t] \in TurnRecs
    BY StateFields
  <2> QED BY <2>1 DEF TurnRecs, Pcs
<1>t. /\ turn' \in [Turns -> TurnRecs] /\ \A u \in Turns \ {t} : turn'[u] = turn[u]
      /\ turn'[t].pc = turn[t].pc
      /\ turn'[t].conn = turn[t].conn
      /\ turn'[t].what = turn[t].what
      /\ turn'[t].cancelled = TRUE
      /\ turn'[t].early = turn[t].early
      /\ turn'[t].wait = turn[t].wait
      /\ turn'[t].out = turn[t].out
  <2> DEFINE r == [turn[t] EXCEPT !.cancelled = TRUE]
  <2>1. turn' = [turn EXCEPT ![t] = r]
    BY <1>g
  <2>2. r \in TurnRecs
    BY <1>r
  <2>3. /\ r.pc = turn[t].pc
        /\ r.conn = turn[t].conn
        /\ r.what = turn[t].what
        /\ r.cancelled = TRUE
        /\ r.early = turn[t].early
        /\ r.wait = turn[t].wait
        /\ r.out = turn[t].out
    BY StateFields DEF TurnRecs
  <2> HIDE DEF r
  <2> QED BY <2>1, <2>2, <2>3, TurnStep
<1>1. Types'
  BY <1>g, <1>t, <1>w DEF Types, Wires, Stops
<1>2. SendInv'
  BY <1>g, <1>t, <1>w DEF SendInv, Sender, Token
<1>3. TurnInv'
  BY <1>g, <1>t, <1>w DEF TurnInv, Coming, Using
<1>4. ClickInv'
  BY <1>g, <1>t, <1>w DEF ClickInv
<1>5. WireInv'
  <2>1. ASSUME active = t, NEW u \in Turns, u # t
        PROVE  turn[u].pc \in {"idle", "done"} \/ turn[u].cancelled
    <3>1. u < t \/ u > t
      BY <2>1 DEF Turns
    <3>2. turn[u].pc # "finish"
      BY <2>1, SenderIs, Places DEF SendInv
    <3> QED BY <1>g, <3>1, <3>2 DEF ClickInv
  <2> QED BY <1>g, <1>t, <1>w, <2>1 DEF WireInv
<1>6. IssuedInv'
  <2>1. \A tok \in Tokens : Issued(tok) => Issued(tok)'
    BY <1>g, <1>t, <1>w DEF Issued, Tokens, TurnInv
  <2> QED BY <2>1, <1>g, <1>t, <1>w, IssuedKept
<1>7. OnceInv'
  BY <1>g, <1>t, <1>w, OnceKept
<1>8. FeedInv'
  <2>1. \A d \in Conns : Alive(d)' => Alive(d)
    BY <1>g, <1>t, <1>w DEF Alive
  <2>2. token' # NoToken /\ Sender({"watch", "await", "result"})' =>
          /\ token' = token /\ sendlock' = sendlock /\ Sender({"watch", "await", "result"})
          /\ turn'[sendlock].conn = turn[sendlock].conn
    BY <1>g, <1>t, <1>w DEF Sender
  <2> QED BY <2>1, <2>2, <1>g, <1>t, <1>w, FeedKept
<1>9. GraceInv'
  BY <1>g, <1>t, <1>w DEF GraceInv, SendInv
<1>10. FreshInv'
  BY <1>g, <1>t, <1>w, Indices DEF FreshInv, Sender, Coming, Using
<1>11. CallbackInv'
  BY <1>g, <1>t, <1>w DEF CallbackInv, Sender
<1>12. CountInv'
  BY <1>g, <1>t, <1>w DEF CountInv, Held
<1>13. SlotInv'
  BY <1>g, <1>t, <1>w, Indices DEF SlotInv, Sender, Coming, Using, Alive
<1>14. LostInv'
  BY <1>g, <1>t, <1>w, Indices DEF LostInv, Sender, Coming, Using
<1>15. FailInv'
  BY <1>g, <1>t, <1>w, Indices DEF FailInv
<1>16. FaultInv'
  BY <1>g, <1>t, <1>w DEF FaultInv
<1>17. KeptInv'
  BY <1>g, <1>t, <1>w, Indices DEF KeptInv, Sender, Alive, Using, Coming
<1>18. NoStrayPermission'
  BY <1>g, <1>t, <1>w DEF NoStrayPermission, Stopped, Alive
<1>19. NoCollateral'
  BY <1>g, <1>t, <1>w, Indices DEF NoCollateral
<1> QED BY <1>1, <1>2, <1>3, <1>4, <1>5, <1>6, <1>7, <1>8, <1>9, <1>10,
           <1>11, <1>12, <1>13, <1>14, <1>15, <1>16, <1>17, <1>18, <1>19

\* An answer in hand goes to the agent that asked, if it lives.
LEMMA ApproveStep ==
  ASSUME IInv, NEW c \in Conns, Approve(c)
  PROVE  IInv'
<1> USE DEF IInv
<1>g. /\ perms[c] > 0 /\ perms' = [perms EXCEPT ![c] = @ - 1]
      /\ conn' = IF Alive(c) THEN [conn EXCEPT ![c].replies = @ + 1] ELSE conn
      /\ UNCHANGED <<limit, hand, late, turn, sendlock, lock, active, slot, ready, token, notified,
                     shut, wires, graces, stops>>
  BY DEF Approve
<1>p. /\ perms' \in [Conns -> Nat] /\ perms'[c] = perms[c] - 1 /\ perms[c] \in Nat
      /\ \A d \in Conns \ {c} : perms'[d] = perms[d]
  BY <1>g DEF Types
<1>c. /\ conn' \in [Conns -> ConnRecs]
      /\ \A d \in Conns :
           /\ Eased(d) /\ conn'[d].reader = conn[d].reader
           /\ conn'[d].held = conn[d].held /\ conn'[d].alive = conn[d].alive
           /\ conn'[d].running = conn[d].running /\ conn'[d].faulty = conn[d].faulty
           /\ conn'[d].lines = conn[d].lines /\ conn'[d].asked = conn[d].asked
           /\ conn'[d].callback = conn[d].callback
      /\ conn'[c].replies \in {conn[c].replies, conn[c].replies + 1}
      /\ \A d \in Conns \ {c} : conn'[d].replies = conn[d].replies
  <2>1. CASE Alive(c)
    <3> DEFINE r == [conn[c] EXCEPT !.replies = @ + 1]
    <3>1. /\ r \in ConnRecs
          /\ r.reader = conn[c].reader /\ r.held = conn[c].held /\ r.alive = conn[c].alive
          /\ r.running = conn[c].running /\ r.faulty = conn[c].faulty /\ r.lines = conn[c].lines
          /\ r.asked = conn[c].asked /\ r.callback = conn[c].callback
          /\ r.queue = conn[c].queue /\ r.work = conn[c].work
          /\ r.replies = conn[c].replies + 1
      BY StateFields DEF ConnRecs
    <3>2. conn' = [conn EXCEPT ![c] = r]
      BY <1>g, <2>1
    <3> HIDE DEF r
    <3> QED BY <3>1, <3>2, ConnStep DEF Eased
  <2>2. CASE ~Alive(c)
    BY <1>g, <2>2 DEF Eased, Types
  <2> QED BY <2>1, <2>2
<1>1. Types'
  BY <1>g, <1>p, <1>c DEF Types, Wires, Stops
<1>2. SendInv'
  BY <1>g, <1>p, <1>c DEF SendInv, Sender, Token
<1>3. TurnInv'
  BY <1>g, <1>p, <1>c DEF TurnInv, Coming, Using
<1>4. ClickInv'
  BY <1>g, <1>p, <1>c DEF ClickInv
<1>5. WireInv'
  BY <1>g, <1>p, <1>c DEF WireInv, SendInv, Sender
<1>6. IssuedInv'
  <2>1. \A tok \in Tokens : Issued(tok) => Issued(tok)'
    BY <1>g, <1>p, <1>c DEF Issued, Tokens, TurnInv
  <2> QED BY <2>1, <1>g, <1>p, <1>c, IssuedKept
<1>7. OnceInv'
  BY <1>g, <1>p, <1>c, OnceKept
<1>8. FeedInv'
  <2>1. \A d \in Conns : Alive(d)' => Alive(d)
    BY <1>g, <1>p, <1>c DEF Alive
  <2>2. token' # NoToken /\ Sender({"watch", "await", "result"})' =>
          /\ token' = token /\ sendlock' = sendlock /\ Sender({"watch", "await", "result"})
          /\ turn'[sendlock].conn = turn[sendlock].conn
    BY <1>g, <1>p, <1>c DEF Sender
  <2> QED BY <2>1, <2>2, <1>g, <1>p, <1>c, FeedKept
<1>9. GraceInv'
  BY <1>g, <1>p, <1>c DEF GraceInv, SendInv
<1>10. FreshInv'
  BY <1>g, <1>p, <1>c, Indices DEF FreshInv, Sender, Coming, Using
<1>11. CallbackInv'
  BY <1>g, <1>p, <1>c DEF CallbackInv, Sender
<1>12. CountInv'
  <2>1. ASSUME NEW d \in Conns
        PROVE  /\ Cardinality(AskedAt(conn[d].lines)) \in Nat /\ conn[d].replies \in Nat
               /\ conn[d].asked \in Nat /\ perms[d] \in Nat
    BY StateFields, ConnFields, AskedNumber
  <2> QED BY <1>g, <1>p, <1>c, <2>1 DEF CountInv, Held
<1>13. SlotInv'
  BY <1>g, <1>p, <1>c, Indices DEF SlotInv, Sender, Coming, Using, Alive
<1>14. LostInv'
  BY <1>g, <1>p, <1>c, Indices DEF LostInv, Sender, Coming, Using
<1>15. FailInv'
  BY <1>g, <1>p, <1>c, Indices DEF FailInv
<1>16. FaultInv'
  BY <1>g, <1>p, <1>c DEF FaultInv
<1>17. KeptInv'
  BY <1>g, <1>p, <1>c, Indices DEF KeptInv, Sender, Alive, Using, Coming
<1>18. NoStrayPermission'
  BY <1>g, <1>p, <1>c DEF NoStrayPermission, Stopped, Alive
<1>19. NoCollateral'
  BY <1>g, <1>p, <1>c, Indices DEF NoCollateral
<1> QED BY <1>1, <1>2, <1>3, <1>4, <1>5, <1>6, <1>7, <1>8, <1>9, <1>10,
           <1>11, <1>12, <1>13, <1>14, <1>15, <1>16, <1>17, <1>18, <1>19

\* The slot is emptied, what it held is stopped, and every permission answered.
LEMMA ShutdownStep ==
  ASSUME IInv, Shutdown
  PROVE  IInv'
<1> USE DEF IInv
<1>g. /\ shut' = TRUE /\ slot' = 0 /\ ready' = FALSE /\ perms' = NoPerms
      /\ conn' = Quiet(Settled, slot) /\ stops' = Stopping(UI, slot)
      /\ UNCHANGED <<limit, hand, late, turn, sendlock, lock, active, token, notified, wires, graces>>
  BY DEF Shutdown
<1>p. perms' \in [Conns -> Nat] /\ \A d \in Conns : perms'[d] = 0
  BY <1>g DEF NoPerms
<1>s. /\ stops' \subseteq Stops /\ stops \subseteq stops'
      /\ \A s \in stops' : s \in stops \/ (slot # 0 /\ s.conn = slot)
      /\ slot # 0 => \E s \in stops' : s.conn = slot
  <2>1. slot # 0 => [by |-> UI, conn |-> slot, pc |-> "sweep"] \in Stops
    BY DEF Types, Stops
  <2> QED BY <1>g, <2>1 DEF Stopping, Types
<1>c. /\ conn' \in [Conns -> ConnRecs]
      /\ \A d \in Conns :
           /\ Eased(d) /\ conn'[d].reader = conn[d].reader
           /\ conn'[d].held = conn[d].held /\ conn'[d].alive = conn[d].alive
           /\ conn'[d].running = conn[d].running /\ conn'[d].faulty = conn[d].faulty
           /\ conn'[d].lines = conn[d].lines /\ conn'[d].asked = conn[d].asked
           /\ conn'[d].replies = conn[d].replies + IF Alive(d) THEN perms[d] ELSE 0
           /\ conn'[d].callback = IF d = slot THEN 0 ELSE conn[d].callback
  <2>1. conn' = Quiet(Settled, slot)
    BY <1>g
  <2>2. slot \in {0} \cup Conns
    BY <1>g DEF Types
  <2> DEFINE cs == Settled
  <2>3. cs \in [Conns -> ConnRecs]
    BY SettledType
  <2>4. ASSUME NEW d \in Conns
        PROVE  /\ conn'[d].callback = IF d = slot THEN 0 ELSE cs[d].callback
               /\ conn'[d].held = cs[d].held /\ conn'[d].alive = cs[d].alive
               /\ conn'[d].running = cs[d].running /\ conn'[d].faulty = cs[d].faulty
               /\ conn'[d].queue = cs[d].queue /\ conn'[d].work = cs[d].work
               /\ conn'[d].reader = cs[d].reader /\ conn'[d].lines = cs[d].lines
               /\ conn'[d].asked = cs[d].asked /\ conn'[d].replies = cs[d].replies
    BY <2>1, <2>2, <2>3, QuietFields
  <2>5. conn' \in [Conns -> ConnRecs]
    BY <2>1, <2>2, <2>3, QuietType
  <2> QED BY <2>4, <2>5, SettledFields DEF Eased
<1>1. Types'
  BY <1>g, <1>p, <1>s, <1>c DEF Types, Wires, Stops
<1>2. SendInv'
  BY <1>g, <1>p, <1>s, <1>c DEF SendInv, Sender, Token
<1>3. TurnInv'
  BY <1>g, <1>p, <1>s, <1>c DEF TurnInv, Coming, Using
<1>4. ClickInv'
  BY <1>g, <1>p, <1>s, <1>c DEF ClickInv
<1>5. WireInv'
  BY <1>g, <1>p, <1>s, <1>c DEF WireInv, SendInv, Sender
<1>6. IssuedInv'
  <2>1. \A tok \in Tokens : Issued(tok) => Issued(tok)'
    BY <1>g, <1>p, <1>s, <1>c DEF Issued, Tokens, TurnInv
  <2> QED BY <2>1, <1>g, <1>p, <1>s, <1>c, IssuedKept
<1>7. OnceInv'
  BY <1>g, <1>p, <1>s, <1>c, OnceKept
<1>8. FeedInv'
  <2>1. \A d \in Conns : Alive(d)' => Alive(d)
    BY <1>g, <1>p, <1>s, <1>c DEF Alive
  <2>2. token' # NoToken /\ Sender({"watch", "await", "result"})' =>
          /\ token' = token /\ sendlock' = sendlock /\ Sender({"watch", "await", "result"})
          /\ turn'[sendlock].conn = turn[sendlock].conn
    BY <1>g, <1>p, <1>s, <1>c DEF Sender
  <2> QED BY <2>1, <2>2, <1>g, <1>p, <1>s, <1>c, FeedKept
<1>9. GraceInv'
  BY <1>g, <1>p, <1>s, <1>c DEF GraceInv, SendInv
<1>10. FreshInv'
  BY <1>g, <1>p, <1>s, <1>c, Indices DEF FreshInv, Sender, Coming, Using, SlotInv
<1>11. CallbackInv'
  BY <1>g, <1>p, <1>s, <1>c DEF CallbackInv, Sender
<1>12. CountInv'
  <2>1. ASSUME NEW d \in Conns
        PROVE  /\ Cardinality(AskedAt(conn[d].lines)) \in Nat /\ conn[d].replies \in Nat
               /\ conn[d].asked \in Nat /\ perms[d] \in Nat
    BY StateFields, ConnFields, AskedNumber
  <2> QED BY <1>g, <1>c, <2>1 DEF CountInv, Held, NoPerms
<1>13. SlotInv'
  BY <1>g, <1>p, <1>s, <1>c, Indices DEF SlotInv, Sender, Coming, Using, Alive
<1>14. LostInv'
  BY <1>g, <1>p, <1>s, <1>c, Indices DEF LostInv, Sender, Coming, Using
<1>15. FailInv'
  BY <1>g, <1>p, <1>s, <1>c, Indices DEF FailInv
<1>16. FaultInv'
  BY <1>g, <1>p, <1>s, <1>c DEF FaultInv
<1>17. KeptInv'
  <2>1. ASSUME NEW d \in Conns, Alive(d)'
        PROVE  \/ \E s \in stops' : s.conn = d
               \/ Sender({"run", "owned"})' /\ turn'[sendlock'].conn = d
    <3>1. Alive(d)
      BY <1>c, <2>1 DEF Alive
    <3>2. CASE slot = d
      BY <1>s, <3>2, Places
    <3>3. CASE slot # d
      BY <1>g, <1>s, <3>1, <3>3 DEF KeptInv, Sender
    <3> QED BY <3>2, <3>3
  <2>2. Sender({"released"})' /\ Alive(turn[sendlock].conn)' =>
          \E s \in stops' : s.conn = turn[sendlock].conn
    BY <1>g, <1>s, <1>c, Indices DEF KeptInv, Sender, Alive, Using
  <2> QED BY <1>g, <2>1, <2>2 DEF KeptInv, Sender
<1>18. NoStrayPermission'
  BY <1>g, <1>p, <1>s, <1>c DEF NoStrayPermission, Stopped, Alive
<1>19. NoCollateral'
  BY <1>g, <1>p, <1>s, <1>c, Indices DEF NoCollateral
<1> QED BY <1>1, <1>2, <1>3, <1>4, <1>5, <1>6, <1>7, <1>8, <1>9, <1>10,
           <1>11, <1>12, <1>13, <1>14, <1>15, <1>16, <1>17, <1>18, <1>19

\* A wire that decides to send is the first for this token, for the flag that
\* says so is raised in the same hold of the lock.
LEMMA WireDecidesStep ==
  ASSUME IInv, NEW w \in wires, WireDecides(w)
  PROVE  IInv'
<1> USE DEF IInv
<1> DEFINE send == token # NoToken /\ ~notified /\ ready /\ slot # 0 /\ Alive(slot)
           W == [w EXCEPT !.token = token, !.conn = slot, !.pc = IF send THEN "send" ELSE "settle"]
<1>w. /\ W \in Wires /\ W.by = w.by /\ W.token = token /\ W.conn = slot
      /\ W.pc = (IF send THEN "send" ELSE "settle") /\ w.by \in {UI} \cup Turns
  BY DEF Types, Wires
<1>g. /\ lock = 0 /\ w.pc = "decide"
      /\ notified' = (notified \/ send) /\ wires' = (wires \ {w}) \cup {W}
      /\ UNCHANGED <<limit, hand, late, turn, sendlock, lock, active, slot, ready, token, shut, perms,
                     conn, graces, stops>>
      /\ \A c \in Conns : Eased(c)
  BY DEF WireDecides, Unlocked, Eased
<1>n. notified' \in BOOLEAN
  BY <1>g
<1>k. token # NoToken =>
        /\ sendlock \in Turns /\ token = Token(sendlock) /\ token \in Tokens
        /\ turn[sendlock].pc \in {"watch", "await", "result"} /\ token.t = sendlock
        /\ token.what = turn[sendlock].what
  BY <1>g DEF SendInv, Sender, Token, Types
<1> HIDE DEF W
<1>1. Types'
  BY <1>g, <1>w, <1>n, <1>n DEF Types, Wires, Stops
<1>2. SendInv'
  BY <1>g, <1>w, <1>n DEF SendInv, Sender, Token
<1>3. TurnInv'
  BY <1>g, <1>w, <1>n DEF TurnInv, Coming, Using
<1>4. ClickInv'
  BY <1>g, <1>w, <1>n DEF ClickInv
<1>5. WireInv'
  BY <1>g, <1>w, <1>n DEF WireInv, SendInv, Sender
<1>6. IssuedInv'
  <2>1. Issued(token) \/ token = NoToken
    BY <1>k DEF Issued
  <2>2. ASSUME NEW v \in wires'
        PROVE  /\ v.token # NoToken => v.pc # "decide" /\ Issued(v.token)
               /\ v.pc = "send" => v.token # NoToken /\ v.conn # 0
    BY <1>g, <1>w, <2>1, <2>2 DEF IssuedInv
  <2> QED BY <1>g, <2>2 DEF IssuedInv, Issued
<1>7. OnceInv'
  <2>1. CASE send
    <3>1. notified' /\ token # NoToken /\ ~notified
      BY <1>g, <2>1
    <3>2. \A v \in wires' : v.pc = "send" => v = W \/ (v \in wires /\ v.token # token)
      BY <1>g, <3>1 DEF OnceInv
    <3>3. \A c \in Conns : ~Cancels(c, token)
      BY <3>1 DEF OnceInv
    <3> QED BY <1>g, <1>w, <3>1, <3>2, <3>3 DEF OnceInv, Cancels
  <2>2. CASE ~send
    <3>1. \A v \in wires' : v.pc = "send" => v \in wires
      BY <1>g, <1>w, <2>2
    <3>2. notified' = notified
      BY <1>g, <2>2 DEF Types
    <3> QED BY <1>g, <3>1, <3>2, OnceKept
  <2> QED BY <2>1, <2>2
<1>8. FeedInv'
  <2>1. CASE send
    <3>1. slot = turn[sendlock].conn
      BY <1>k, <2>1, Places DEF SlotInv, Sender, Using
    <3>2. Fed(conn[slot].queue, conn[slot].work, Len(conn[slot].queue), token)
      BY <1>k, <2>1, <3>1, Places DEF FeedInv, Sender
    <3>3. \A v \in wires' : v.pc = "send" => v = W \/ v \in wires
      BY <1>g
    <3>4. \A v \in wires' : v.pc = "send" =>
            Fed(conn[v.conn].queue, conn[v.conn].work, Len(conn[v.conn].queue), v.token)
      BY <1>w, <3>2, <3>3 DEF FeedInv
    <3> QED BY <1>g, <3>4 DEF FeedInv, Sender, Alive
  <2>2. CASE ~send
    <3>1. \A v \in wires' : v.pc = "send" => v \in wires
      BY <1>g, <1>w, <2>2
    <3> QED BY <1>g, <3>1 DEF FeedInv, Sender, Alive
  <2> QED BY <2>1, <2>2
<1>9. GraceInv'
  BY <1>g, <1>w, <1>n DEF GraceInv, SendInv
<1>10. FreshInv'
  BY <1>g, <1>w, <1>n, Indices DEF FreshInv, Sender, Coming, Using
<1>11. CallbackInv'
  BY <1>g, <1>w, <1>n DEF CallbackInv, Sender
<1>12. CountInv'
  BY <1>g, <1>w, <1>n DEF CountInv, Held
<1>13. SlotInv'
  BY <1>g, <1>w, <1>n, Indices DEF SlotInv, Sender, Coming, Using, Alive
<1>14. LostInv'
  BY <1>g, <1>w, <1>n, Indices DEF LostInv, Sender, Coming, Using
<1>15. FailInv'
  BY <1>g, <1>w, <1>n, Indices DEF FailInv
<1>16. FaultInv'
  BY <1>g, <1>w, <1>n DEF FaultInv
<1>17. KeptInv'
  BY <1>g, <1>w, <1>n, Indices DEF KeptInv, Sender, Alive, Using, Coming
<1>18. NoStrayPermission'
  BY <1>g, <1>w, <1>n DEF NoStrayPermission, Stopped, Alive
<1>19. NoCollateral'
  BY <1>g, <1>w, <1>n, Indices DEF NoCollateral
<1> QED BY <1>1, <1>2, <1>3, <1>4, <1>5, <1>6, <1>7, <1>8, <1>9, <1>10,
           <1>11, <1>12, <1>13, <1>14, <1>15, <1>16, <1>17, <1>18, <1>19

\* The cancel joins the queue behind its own request; no other is there for it.
LEMMA WireActsStep ==
  ASSUME IInv, NEW w \in wires, WireActs(w)
  PROVE  IInv'
<1> USE DEF IInv
<1> DEFINE goes == w.pc = "send" /\ Alive(w.conn)
           L == Line("cancel", w.token)
<1>w. /\ w.by \in {UI} \cup Turns /\ w.token \in Tokens \cup {NoToken} /\ w.conn \in {0} \cup Conns
      /\ w.pc = "send" => w.conn \in Conns /\ w.token \in Tokens /\ L \in Written
      /\ L.k = "cancel" /\ L.of = w.token
  BY DEF Types, Wires, IssuedInv, Line, Written
<1>g. /\ lock = 0 /\ w.pc # "decide" /\ perms' = NoPerms /\ wires' = wires \ {w}
      /\ conn' = IF goes THEN [Settled EXCEPT ![w.conn] = Sends(@, L)] ELSE Settled
      /\ graces' = IF Arms(w) THEN graces \cup {[token |-> w.token, conn |-> w.conn]} ELSE graces
      /\ UNCHANGED <<limit, hand, late, turn, sendlock, lock, active, slot, ready, token, notified,
                     shut, stops>>
  BY DEF WireActs, Unlocked
<1>p. perms' \in [Conns -> Nat] /\ \A d \in Conns : perms'[d] = 0
  BY <1>g DEF NoPerms
<1>a. /\ \A g \in graces' : g \in graces \/ (g.token = w.token /\ w.token # NoToken)
      /\ graces' \subseteq [token : Tokens, conn : {0} \cup Conns]
  BY <1>g, <1>w DEF Arms, Types
<1>c. /\ conn' \in [Conns -> ConnRecs]
      /\ \A d \in Conns :
           /\ conn'[d].reader = conn[d].reader
           /\ conn'[d].held = conn[d].held /\ conn'[d].alive = conn[d].alive
           /\ conn'[d].running = conn[d].running /\ conn'[d].faulty = conn[d].faulty
           /\ conn'[d].lines = conn[d].lines /\ conn'[d].asked = conn[d].asked
           /\ conn'[d].replies = conn[d].replies + IF Alive(d) THEN perms[d] ELSE 0
           /\ conn'[d].callback = conn[d].callback /\ conn'[d].work = conn[d].work
           /\ goes /\ d = w.conn => conn'[d].queue = Append(conn[d].queue, L)
           /\ ~goes \/ d # w.conn => conn'[d].queue = conn[d].queue
  <2> DEFINE cs == Settled
  <2>1. cs \in [Conns -> ConnRecs]
    BY SettledType
  <2>2. CASE goes
    <3> DEFINE r == [cs[w.conn] EXCEPT !.queue = Append(@, L)]
    <3>1. w.conn \in Conns /\ L \in Written
      BY <1>w, <2>2
    <3>2. cs[w.conn] \in ConnRecs /\ cs[w.conn].queue \in Seq(Written)
      BY <2>1, <3>1, ConnFields
    <3>3. Append(cs[w.conn].queue, L) \in Seq(Written)
      BY <3>1, <3>2, Appended
    <3>4. /\ r \in ConnRecs /\ r.reader = cs[w.conn].reader
          /\ r.held = cs[w.conn].held /\ r.alive = cs[w.conn].alive
          /\ r.running = cs[w.conn].running /\ r.faulty = cs[w.conn].faulty
          /\ r.lines = cs[w.conn].lines /\ r.asked = cs[w.conn].asked
          /\ r.callback = cs[w.conn].callback /\ r.work = cs[w.conn].work
          /\ r.replies = cs[w.conn].replies /\ r.queue = Append(cs[w.conn].queue, L)
      <4> HIDE DEF cs, L
      <4> QED BY <3>2, <3>3 DEF ConnRecs
    <3>5. conn' = [cs EXCEPT ![w.conn] = r]
      BY <1>g, <2>2 DEF Sends
    <3> HIDE DEF r, cs, L
    <3>6. /\ conn' \in [Conns -> ConnRecs] /\ conn'[w.conn] = r
          /\ \A d \in Conns : d # w.conn => conn'[d] = cs[d]
      BY <2>1, <3>1, <3>4, <3>5
    <3>7. \A d \in Conns :
           /\ conn'[d].reader = cs[d].reader
           /\ conn'[d].held = cs[d].held /\ conn'[d].alive = cs[d].alive
           /\ conn'[d].running = cs[d].running /\ conn'[d].faulty = cs[d].faulty
           /\ conn'[d].lines = cs[d].lines /\ conn'[d].asked = cs[d].asked
           /\ conn'[d].replies = cs[d].replies
           /\ conn'[d].callback = cs[d].callback /\ conn'[d].work = cs[d].work
           /\ d = w.conn => conn'[d].queue = Append(cs[d].queue, L)
           /\ d # w.conn => conn'[d].queue = cs[d].queue
      BY <3>4, <3>6
    <3>8. \A d \in Conns :
           /\ cs[d].reader = conn[d].reader
           /\ cs[d].held = conn[d].held /\ cs[d].alive = conn[d].alive
           /\ cs[d].running = conn[d].running /\ cs[d].faulty = conn[d].faulty
           /\ cs[d].lines = conn[d].lines /\ cs[d].asked = conn[d].asked
           /\ cs[d].replies = conn[d].replies + IF Alive(d) THEN perms[d] ELSE 0
           /\ cs[d].callback = conn[d].callback /\ cs[d].work = conn[d].work
           /\ cs[d].queue = conn[d].queue
      BY SettledFields DEF cs
    <3> SUFFICES ASSUME NEW d \in Conns
                 PROVE  /\ conn' \in [Conns -> ConnRecs]
                        /\ conn'[d].reader = conn[d].reader
                        /\ conn'[d].held = conn[d].held /\ conn'[d].alive = conn[d].alive
                        /\ conn'[d].running = conn[d].running /\ conn'[d].faulty = conn[d].faulty
                        /\ conn'[d].lines = conn[d].lines /\ conn'[d].asked = conn[d].asked
                        /\ conn'[d].replies = conn[d].replies + IF Alive(d) THEN perms[d] ELSE 0
                        /\ conn'[d].callback = conn[d].callback /\ conn'[d].work = conn[d].work
                        /\ goes /\ d = w.conn => conn'[d].queue = Append(conn[d].queue, L)
                        /\ ~goes \/ d # w.conn => conn'[d].queue = conn[d].queue
      BY <3>6
    <3> QED BY <2>2, <3>6, <3>7, <3>8, SMTT(60)
  <2>3. CASE ~goes
    BY <1>g, <2>1, <2>3, SettledFields
  <2> QED BY <2>2, <2>3
<1>q. \A d \in Conns :
        /\ Len(conn[d].queue) \in Nat /\ conn[d].queue \in Seq(Written)
        /\ goes /\ d = w.conn => Len(conn'[d].queue) = Len(conn[d].queue) + 1
        /\ ~goes \/ d # w.conn => Len(conn'[d].queue) = Len(conn[d].queue)
        /\ \A i \in 1 .. Len(conn[d].queue) : conn'[d].queue[i] = conn[d].queue[i]
        /\ goes /\ d = w.conn => conn'[d].queue[Len(conn[d].queue) + 1] = L
  BY <1>w, <1>c, StateFields, Appended, LenProperties
<1> HIDE DEF L
<1>1. Types'
  BY <1>g, <1>p, <1>a, <1>w, <1>c DEF Types, Wires, Stops
<1>2. SendInv'
  BY <1>g, <1>p, <1>a, <1>w, <1>c DEF SendInv, Sender, Token
<1>3. TurnInv'
  BY <1>g, <1>p, <1>a, <1>w, <1>c DEF TurnInv, Coming, Using
<1>4. ClickInv'
  BY <1>g, <1>p, <1>a, <1>w, <1>c DEF ClickInv
<1>5. WireInv'
  BY <1>g, <1>p, <1>a, <1>w, <1>c DEF WireInv, SendInv, Sender
<1>6. IssuedInv'
  <2>1. w.token # NoToken => Issued(w.token)
    BY DEF IssuedInv
  <2>2. ASSUME NEW d \in Conns, NEW i \in 1 .. Len(conn'[d].queue)
        PROVE  Issued(conn'[d].queue[i].of)
    <3>1. CASE i \in 1 .. Len(conn[d].queue)
      BY <1>q, <3>1 DEF IssuedInv
    <3>2. CASE i \notin 1 .. Len(conn[d].queue)
      <4>1. goes /\ conn'[d].queue[i] = L
        BY <1>q, <3>2
      <4> QED BY <1>w, <2>1, <4>1, Places
    <3> QED BY <3>1, <3>2
  <2>3. ASSUME NEW g \in graces' PROVE Issued(g.token)
    BY <1>a, <2>1 DEF IssuedInv
  <2>4. \A tok : Issued(tok) <=> Issued(tok)'
    BY <1>g DEF Issued
  <2>5. \A d \in Conns : \A i \in 1 .. Len(conn'[d].queue) : Issued(conn[d].queue[i].of)'
    BY <1>g, <2>2 DEF Issued
  <2>6. \A g \in graces' : Issued(g.token)'
    BY <2>3, <2>4
  <2> QED BY <1>g, <2>4, <2>5, <2>6 DEF IssuedInv
<1>7. OnceInv'
  <2>1. ASSUME NEW d \in Conns, NEW tok, \E i \in 1 .. Len(conn'[d].queue) :
                                              conn'[d].queue[i] = Line("cancel", tok)
        PROVE  Cancels(d, tok) \/ (goes /\ d = w.conn /\ tok = w.token)
    <3>1. PICK i \in 1 .. Len(conn'[d].queue) : conn'[d].queue[i] = Line("cancel", tok)
      BY <2>1
    <3>2. CASE i \in 1 .. Len(conn[d].queue)
      BY <1>q, <3>1, <3>2 DEF Cancels
    <3>3. CASE i \notin 1 .. Len(conn[d].queue)
      BY <1>q, <3>1, <3>3 DEF L, Line
    <3> QED BY <3>2, <3>3
  <2>2. token # NoToken /\ ~notified =>
          /\ \A d \in Conns : ~Cancels(d, token)'
          /\ \A v \in wires' : v.pc = "send" => v.token # token
    <3> SUFFICES ASSUME token # NoToken, ~notified
                 PROVE  /\ \A d \in Conns : ~Cancels(d, token)'
                        /\ \A v \in wires' : v.pc = "send" => v.token # token
      OBVIOUS
    <3>1. /\ \A d \in Conns : ~Cancels(d, token)
          /\ \A v \in wires : v.pc = "send" => v.token # token
      BY DEF OnceInv
    <3>2. \A d \in Conns : ~\E i \in 1 .. Len(conn'[d].queue) :
                                conn'[d].queue[i] = Line("cancel", token)
      BY <2>1, <3>1
    <3> QED BY <1>g, <3>1, <3>2 DEF Cancels
  <2>3. ASSUME NEW v \in wires', v.pc = "send"
        PROVE  /\ \A d \in Conns : ~Cancels(d, v.token)'
               /\ \A u \in wires' : u.pc = "send" /\ u.token = v.token => u = v
    <3>1. /\ v \in wires /\ v # w /\ \A d \in Conns : ~Cancels(d, v.token)
          /\ \A u \in wires : u.pc = "send" /\ u.token = v.token => u = v
      BY <1>g, <2>3 DEF OnceInv
    <3>2. \A d \in Conns : ~\E i \in 1 .. Len(conn'[d].queue) :
                                conn'[d].queue[i] = Line("cancel", v.token)
      BY <2>1, <3>1
    <3> QED BY <1>g, <3>1, <3>2 DEF Cancels
  <2>4. ASSUME NEW d \in Conns, NEW i \in 1 .. Len(conn'[d].queue),
               NEW j \in 1 .. Len(conn'[d].queue), i < j, conn'[d].queue[i].k = "cancel"
        PROVE  conn'[d].queue[i].of # conn'[d].queue[j].of
    <3>1. i \in 1 .. Len(conn[d].queue)
      BY <1>q, <2>4
    <3>2. CASE j \in 1 .. Len(conn[d].queue)
      <4>1. /\ conn'[d].queue[i] = conn[d].queue[i] /\ conn'[d].queue[j] = conn[d].queue[j]
            /\ conn[d].queue[i].k = "cancel"
        BY <1>q, <2>4, <3>1, <3>2
      <4>2. conn[d].queue[i].of # conn[d].queue[j].of
        BY <2>4, <3>1, <3>2, <4>1 DEF OnceInv
      <4> QED BY <4>1, <4>2
    <3>3. CASE j \notin 1 .. Len(conn[d].queue)
      <4>1. goes /\ d = w.conn /\ conn'[d].queue[j] = L
        BY <1>q, <3>3
      <4>2. conn[d].queue[i] \in Written /\ conn[d].queue[i].k = "cancel"
        BY <1>q, <2>4, <3>1, ElementOfSeq
      <4>3. conn[d].queue[i] = Line("cancel", conn[d].queue[i].of)
        BY <4>2 DEF Line, Written
      <4>4. ~Cancels(d, w.token)
        BY <4>1 DEF OnceInv
      <4>5. conn[d].queue[i].of # w.token
        BY <3>1, <4>3, <4>4 DEF Cancels
      <4> QED BY <1>q, <1>w, <3>1, <4>1, <4>5
    <3> QED BY <3>2, <3>3
  <2> QED BY <1>g, <2>2, <2>3, <2>4 DEF OnceInv
<1>8. FeedInv'
  <2>1. ASSUME NEW d \in Conns, NEW tok, NEW n \in 0 .. Len(conn[d].queue),
               Fed(conn[d].queue, conn[d].work, n, tok)
        PROVE  Fed(conn'[d].queue, conn'[d].work, n, tok)
    BY <1>q, <1>c, <1>w, <2>1, FedAppend
  <2>2. ASSUME NEW d \in Conns, NEW tok, Fed(conn[d].queue, conn[d].work, Len(conn[d].queue), tok)
        PROVE  Fed(conn'[d].queue, conn'[d].work, Len(conn'[d].queue), tok)
    BY <1>q, <1>c, <1>w, <2>2, FedCancel
  <2>3. ASSUME NEW d \in Conns, NEW i \in 1 .. Len(conn'[d].queue), conn'[d].queue[i].k = "cancel"
        PROVE  Fed(conn'[d].queue, conn'[d].work, i - 1, conn'[d].queue[i].of)
    <3>1. CASE i \in 1 .. Len(conn[d].queue)
      <4>1. Fed(conn[d].queue, conn[d].work, i - 1, conn[d].queue[i].of)
        BY <1>q, <2>3, <3>1 DEF FeedInv
      <4>2. i - 1 \in 0 .. Len(conn[d].queue)
        BY <1>q, <3>1
      <4> QED BY <1>q, <2>1, <3>1, <4>1, <4>2
    <3>2. CASE i \notin 1 .. Len(conn[d].queue)
      <4>1. goes /\ d = w.conn /\ conn'[d].queue[i] = L /\ i - 1 = Len(conn[d].queue)
        BY <1>q, <3>2
      <4>2. Fed(conn[d].queue, conn[d].work, i - 1, w.token)
        BY <4>1 DEF FeedInv
      <4>3. i - 1 \in 0 .. Len(conn[d].queue)
        BY <1>q, <4>1
      <4> QED BY <1>w, <2>1, <4>1, <4>2, <4>3
    <3> QED BY <3>1, <3>2
  <2>4. ASSUME NEW v \in wires', v.pc = "send"
        PROVE  Fed(conn'[v.conn].queue, conn'[v.conn].work, Len(conn'[v.conn].queue), v.token)
    <3>1. v \in wires /\ v.conn \in Conns
      BY <1>g, <2>4 DEF IssuedInv, Types, Wires
    <3> QED BY <2>2, <2>4, <3>1 DEF FeedInv
  <2>5. ASSUME token # NoToken, Sender({"watch", "await", "result"}), NEW d \in Conns,
               d = turn[sendlock].conn, Alive(d)
        PROVE  Fed(conn'[d].queue, conn'[d].work, Len(conn'[d].queue), token)
    BY <2>2, <2>5 DEF FeedInv
  <2>6. Sender({"watch", "await", "result"}) => turn[sendlock].conn \in Conns
    BY Indices DEF Sender, Using
  <2> QED BY <1>g, <1>c, <2>3, <2>4, <2>5, <2>6 DEF FeedInv, Sender, Alive
<1>9. GraceInv'
  <2>1. token # NoToken =>
          sendlock \in Turns /\ turn[sendlock].pc \notin {"idle", "done"}
    BY Places DEF SendInv, Sender, Types
  <2>2. token # NoToken => turn[sendlock].cancelled
    BY <1>w, <2>1 DEF WireInv
  <2> QED BY <1>g, <1>a, <2>2 DEF GraceInv, Types
<1>10. FreshInv'
  BY <1>g, <1>p, <1>a, <1>w, <1>c, Indices, SMTT(60) DEF FreshInv, Sender, Coming, Using
<1>11. CallbackInv'
  BY <1>g, <1>p, <1>a, <1>w, <1>c DEF CallbackInv, Sender
<1>12. CountInv'
  <2>1. ASSUME NEW d \in Conns
        PROVE  /\ Cardinality(AskedAt(conn[d].lines)) \in Nat /\ conn[d].replies \in Nat
               /\ conn[d].asked \in Nat /\ perms[d] \in Nat
    BY StateFields, ConnFields, AskedNumber
  <2> QED BY <1>g, <1>c, <2>1 DEF CountInv, Held, NoPerms
<1>13. SlotInv'
  BY <1>g, <1>p, <1>a, <1>w, <1>c, Indices DEF SlotInv, Sender, Coming, Using, Alive
<1>14. LostInv'
  BY <1>g, <1>p, <1>a, <1>w, <1>c, Indices DEF LostInv, Sender, Coming, Using
<1>15. FailInv'
  BY <1>g, <1>p, <1>a, <1>w, <1>c, Indices DEF FailInv
<1>16. FaultInv'
  BY <1>g, <1>p, <1>a, <1>w, <1>c DEF FaultInv
<1>17. KeptInv'
  BY <1>g, <1>p, <1>a, <1>w, <1>c, Indices DEF KeptInv, Sender, Alive, Using, Coming
<1>18. NoStrayPermission'
  BY <1>g, <1>p, <1>a, <1>w, <1>c DEF NoStrayPermission, Stopped, Alive
<1>19. NoCollateral'
  BY <1>g, <1>p, <1>a, <1>w, <1>c, Indices DEF NoCollateral
<1> QED BY <1>1, <1>2, <1>3, <1>4, <1>5, <1>6, <1>7, <1>8, <1>9, <1>10,
           <1>11, <1>12, <1>13, <1>14, <1>15, <1>16, <1>17, <1>18, <1>19

\* A grace whose turn is over does nothing.
LEMMA GraceLateStep ==
  ASSUME IInv, NEW g \in graces, graces' = graces \ {g},
         UNCHANGED <<limit, hand, late, turn, sendlock, lock, active, slot, ready, token, notified,
                     shut, perms, conn, wires, stops>>
  PROVE  IInv'
<1> USE DEF IInv
<1>g. /\ graces' \subseteq graces
      /\ UNCHANGED <<limit, hand, late, turn, sendlock, lock, active, slot, ready, token, notified,
                     shut, perms, conn, wires, stops>>
      /\ \A c \in Conns : Eased(c)
  BY DEF Eased
<1>1. Types'
  BY <1>g DEF Types, Wires, Stops
<1>2. SendInv'
  BY <1>g DEF SendInv, Sender, Token
<1>3. TurnInv'
  BY <1>g DEF TurnInv, Coming, Using
<1>4. ClickInv'
  BY <1>g DEF ClickInv
<1>5. WireInv'
  BY <1>g DEF WireInv, SendInv, Sender
<1>6. IssuedInv'
  <2>1. \A tok \in Tokens : Issued(tok) => Issued(tok)'
    BY <1>g DEF Issued, Tokens, TurnInv
  <2> QED BY <2>1, <1>g, IssuedKept
<1>7. OnceInv'
  BY <1>g, OnceKept
<1>8. FeedInv'
  <2>1. \A d \in Conns : Alive(d)' => Alive(d)
    BY <1>g DEF Alive
  <2>2. token' # NoToken /\ Sender({"watch", "await", "result"})' =>
          /\ token' = token /\ sendlock' = sendlock /\ Sender({"watch", "await", "result"})
          /\ turn'[sendlock].conn = turn[sendlock].conn
    BY <1>g DEF Sender
  <2> QED BY <2>1, <2>2, <1>g, FeedKept
<1>9. GraceInv'
  BY <1>g DEF GraceInv, SendInv
<1>10. FreshInv'
  BY <1>g, Indices DEF FreshInv, Sender, Coming, Using
<1>11. CallbackInv'
  BY <1>g DEF CallbackInv, Sender
<1>12. CountInv'
  BY <1>g DEF CountInv, Held
<1>13. SlotInv'
  BY <1>g, Indices DEF SlotInv, Sender, Coming, Using, Alive
<1>14. LostInv'
  BY <1>g, Indices DEF LostInv, Sender, Coming, Using
<1>15. FailInv'
  BY <1>g, Indices DEF FailInv
<1>16. FaultInv'
  BY <1>g DEF FaultInv
<1>17. KeptInv'
  BY <1>g, Indices DEF KeptInv, Sender, Alive, Using, Coming
<1>18. NoStrayPermission'
  BY <1>g DEF NoStrayPermission, Stopped, Alive
<1>19. NoCollateral'
  BY <1>g, Indices DEF NoCollateral
<1> QED BY <1>1, <1>2, <1>3, <1>4, <1>5, <1>6, <1>7, <1>8, <1>9, <1>10,
           <1>11, <1>12, <1>13, <1>14, <1>15, <1>16, <1>17, <1>18, <1>19

\* A grace takes the slot of a stopped turn only.
LEMMA GraceEndsStep ==
  ASSUME IInv, NEW g \in graces, GraceFires(g), GraceApplies(g)
  PROVE  IInv'
<1> USE DEF IInv
<1>g. /\ token = g.token /\ slot = g.conn /\ g.token \in Tokens /\ turn[sendlock].cancelled
      /\ token # NoToken
      /\ slot' = 0 /\ ready' = FALSE /\ perms' = NoPerms /\ graces' \subseteq graces
      /\ conn' = Quiet(Settled, slot) /\ stops' = Stopping(Grace, slot)
      /\ UNCHANGED <<limit, hand, late, turn, sendlock, lock, active, token, notified, shut, wires>>
  BY Places DEF GraceFires, GraceApplies, GraceInv, Types
<1>p. perms' \in [Conns -> Nat] /\ \A d \in Conns : perms'[d] = 0
  BY <1>g DEF NoPerms
<1>s. /\ stops' \subseteq Stops /\ stops \subseteq stops'
      /\ \A s \in stops' : s \in stops \/ (slot # 0 /\ s.conn = slot)
      /\ slot # 0 => \E s \in stops' : s.conn = slot
  <2>1. slot # 0 => [by |-> Grace, conn |-> slot, pc |-> "sweep"] \in Stops
    BY DEF Types, Stops
  <2> QED BY <1>g, <2>1 DEF Stopping, Types
<1>c. /\ conn' \in [Conns -> ConnRecs]
      /\ \A d \in Conns :
           /\ Eased(d) /\ conn'[d].reader = conn[d].reader
           /\ conn'[d].held = conn[d].held /\ conn'[d].alive = conn[d].alive
           /\ conn'[d].running = conn[d].running /\ conn'[d].faulty = conn[d].faulty
           /\ conn'[d].lines = conn[d].lines /\ conn'[d].asked = conn[d].asked
           /\ conn'[d].replies = conn[d].replies + IF Alive(d) THEN perms[d] ELSE 0
           /\ conn'[d].callback = IF d = slot THEN 0 ELSE conn[d].callback
  <2>1. conn' = Quiet(Settled, slot)
    BY <1>g
  <2>2. slot \in {0} \cup Conns
    BY <1>g DEF Types
  <2> DEFINE cs == Settled
  <2>3. cs \in [Conns -> ConnRecs]
    BY SettledType
  <2>4. ASSUME NEW d \in Conns
        PROVE  /\ conn'[d].callback = IF d = slot THEN 0 ELSE cs[d].callback
               /\ conn'[d].held = cs[d].held /\ conn'[d].alive = cs[d].alive
               /\ conn'[d].running = cs[d].running /\ conn'[d].faulty = cs[d].faulty
               /\ conn'[d].queue = cs[d].queue /\ conn'[d].work = cs[d].work
               /\ conn'[d].reader = cs[d].reader /\ conn'[d].lines = cs[d].lines
               /\ conn'[d].asked = cs[d].asked /\ conn'[d].replies = cs[d].replies
    BY <2>1, <2>2, <2>3, QuietFields
  <2>5. conn' \in [Conns -> ConnRecs]
    BY <2>1, <2>2, <2>3, QuietType
  <2> QED BY <2>4, <2>5, SettledFields DEF Eased
<1>1. Types'
  BY <1>g, <1>p, <1>s, <1>c DEF Types, Wires, Stops
<1>2. SendInv'
  BY <1>g, <1>p, <1>s, <1>c DEF SendInv, Sender, Token
<1>3. TurnInv'
  BY <1>g, <1>p, <1>s, <1>c DEF TurnInv, Coming, Using
<1>4. ClickInv'
  BY <1>g, <1>p, <1>s, <1>c DEF ClickInv
<1>5. WireInv'
  BY <1>g, <1>p, <1>s, <1>c DEF WireInv, SendInv, Sender
<1>6. IssuedInv'
  <2>1. \A tok \in Tokens : Issued(tok) => Issued(tok)'
    BY <1>g, <1>p, <1>s, <1>c DEF Issued, Tokens, TurnInv
  <2> QED BY <2>1, <1>g, <1>p, <1>s, <1>c, IssuedKept
<1>7. OnceInv'
  BY <1>g, <1>p, <1>s, <1>c, OnceKept
<1>8. FeedInv'
  <2>1. \A d \in Conns : Alive(d)' => Alive(d)
    BY <1>g, <1>p, <1>s, <1>c DEF Alive
  <2>2. token' # NoToken /\ Sender({"watch", "await", "result"})' =>
          /\ token' = token /\ sendlock' = sendlock /\ Sender({"watch", "await", "result"})
          /\ turn'[sendlock].conn = turn[sendlock].conn
    BY <1>g, <1>p, <1>s, <1>c DEF Sender
  <2> QED BY <2>1, <2>2, <1>g, <1>p, <1>s, <1>c, FeedKept
<1>9. GraceInv'
  BY <1>g, <1>p, <1>s, <1>c DEF GraceInv, SendInv
<1>10. FreshInv'
  BY <1>g, <1>p, <1>s, <1>c, Indices DEF FreshInv, Sender, Coming, Using, SlotInv
<1>11. CallbackInv'
  BY <1>g, <1>p, <1>s, <1>c DEF CallbackInv, Sender
<1>12. CountInv'
  <2>1. ASSUME NEW d \in Conns
        PROVE  /\ Cardinality(AskedAt(conn[d].lines)) \in Nat /\ conn[d].replies \in Nat
               /\ conn[d].asked \in Nat /\ perms[d] \in Nat
    BY StateFields, ConnFields, AskedNumber
  <2> QED BY <1>g, <1>c, <2>1 DEF CountInv, Held, NoPerms
<1>13. SlotInv'
  BY <1>g, <1>p, <1>s, <1>c, Indices DEF SlotInv, Sender, Coming, Using, Alive
<1>14. LostInv'
  BY <1>g, <1>p, <1>s, <1>c, Indices DEF LostInv, Sender, Coming, Using
<1>15. FailInv'
  BY <1>g, <1>p, <1>s, <1>c, Indices DEF FailInv
<1>16. FaultInv'
  BY <1>g, <1>p, <1>s, <1>c DEF FaultInv
<1>17. KeptInv'
  BY <1>g, <1>p, <1>s, <1>c, Indices DEF KeptInv, Sender, Alive, Using, Coming
<1>18. NoStrayPermission'
  BY <1>g, <1>p, <1>s, <1>c DEF NoStrayPermission, Stopped, Alive
<1>19. NoCollateral'
  BY <1>g, <1>p, <1>s, <1>c, Indices DEF NoCollateral
<1> QED BY <1>1, <1>2, <1>3, <1>4, <1>5, <1>6, <1>7, <1>8, <1>9, <1>10,
           <1>11, <1>12, <1>13, <1>14, <1>15, <1>16, <1>17, <1>18, <1>19

LEMMA GraceFiresStep ==
  ASSUME IInv, NEW g \in graces, GraceFires(g)
  PROVE  IInv'
<1>1. CASE GraceApplies(g)
  BY <1>1, GraceEndsStep
<1>2. CASE ~GraceApplies(g)
  BY <1>2, GraceLateStep DEF GraceFires
<1> QED BY <1>1, <1>2

\* The waiters a sweep wakes are those of a turn that lost its slot.
LEMMA StopSweepsStep ==
  ASSUME IInv, NEW s \in stops, StopSweeps(s)
  PROVE  IInv'
<1> USE DEF IInv
<1> DEFINE S == [s EXCEPT !.pc = "claim"]
<1>w. s.conn \in Conns /\ S \in Stops /\ S.conn = s.conn
  BY DEF Types, Stops
<1>g. /\ conn' = [conn EXCEPT ![s.conn].running = FALSE] /\ turn' = Failed(s.conn)
      /\ stops' = (stops \ {s}) \cup {S} /\ s.conn \in Conns
      /\ \E x \in stops : x.conn = s.conn
      /\ UNCHANGED <<limit, hand, late, sendlock, lock, active, slot, ready, token, notified, shut,
                     perms, wires, graces>>
  BY <1>w DEF StopSweeps, adapter
<1>s. /\ stops' \subseteq Stops /\ \A x \in stops' : x \in stops \/ x.conn = s.conn
      /\ \A x \in stops : \E y \in stops' : y.conn = x.conn
  BY <1>g, <1>w DEF Types
<1> HIDE DEF S
<1>t. /\ turn' \in [Turns -> TurnRecs]
      /\ \A t \in Turns :
           /\ turn'[t].pc = turn[t].pc /\ turn'[t].conn = turn[t].conn
           /\ turn'[t].what = turn[t].what /\ turn'[t].cancelled = turn[t].cancelled
           /\ turn'[t].early = turn[t].early /\ turn'[t].out = turn[t].out
           /\ turn'[t].wait = IF turn[t].conn = s.conn /\ turn[t].wait = "open"
                              THEN "failed" ELSE turn[t].wait
      /\ sendlock \in {0} \cup Turns /\ active = sendlock
      /\ \A w \in wires : w.by # UI => w.by \in Turns
      /\ \A g \in graces : token = g.token => sendlock \in Turns
  BY <1>g, FailedFields, Actors
<1>c. /\ conn' \in [Conns -> ConnRecs] /\ \A d \in Conns \ {s.conn} : conn'[d] = conn[d]
      /\ conn'[s.conn].held = conn[s.conn].held
      /\ conn'[s.conn].running = FALSE
      /\ conn'[s.conn].alive = conn[s.conn].alive
      /\ conn'[s.conn].faulty = conn[s.conn].faulty
      /\ conn'[s.conn].queue = conn[s.conn].queue
      /\ conn'[s.conn].reader = conn[s.conn].reader
      /\ conn'[s.conn].callback = conn[s.conn].callback
      /\ conn'[s.conn].work = conn[s.conn].work
      /\ conn'[s.conn].lines = conn[s.conn].lines
      /\ conn'[s.conn].asked = conn[s.conn].asked
      /\ conn'[s.conn].replies = conn[s.conn].replies
  <2>1. s.conn \in Conns /\ conn[s.conn] \in ConnRecs
    BY <1>g DEF Types
  <2> DEFINE r == [conn[s.conn] EXCEPT !.running = FALSE]
  <2>2. r \in ConnRecs
    BY <1>g, <2>1 DEF ConnRecs
  <2>3. /\ r.held = conn[s.conn].held
        /\ r.running = FALSE
        /\ r.alive = conn[s.conn].alive
        /\ r.faulty = conn[s.conn].faulty
        /\ r.queue = conn[s.conn].queue
        /\ r.reader = conn[s.conn].reader
        /\ r.callback = conn[s.conn].callback
        /\ r.work = conn[s.conn].work
        /\ r.lines = conn[s.conn].lines
        /\ r.asked = conn[s.conn].asked
        /\ r.replies = conn[s.conn].replies
    BY <2>1 DEF ConnRecs
  <2>4. conn' = [conn EXCEPT ![s.conn] = r]
    BY <1>g
  <2> HIDE DEF r
  <2> QED BY <2>1, <2>2, <2>3, <2>4, ConnStep
<1>e. \A d \in Conns : Eased(d)
  BY <1>g, <1>c DEF Eased
<1>1. Types'
  BY <1>g, <1>t, <1>c, <1>s, <1>e DEF Types, Wires, Stops
<1>2. SendInv'
  BY <1>g, <1>t, <1>c, <1>s, <1>e DEF SendInv, Sender, Token
<1>3. TurnInv'
  BY <1>g, <1>t, <1>c, <1>s, <1>e DEF TurnInv, Coming, Using
<1>4. ClickInv'
  BY <1>g, <1>t, <1>c, <1>s, <1>e DEF ClickInv
<1>5. WireInv'
  BY <1>g, <1>t, <1>c, <1>s, <1>e DEF WireInv, SendInv, Sender
<1>6. IssuedInv'
  <2>1. \A tok \in Tokens : Issued(tok) => Issued(tok)'
    BY <1>g, <1>t, <1>c, <1>s, <1>e DEF Issued, Tokens, TurnInv
  <2> QED BY <2>1, <1>g, <1>t, <1>c, <1>s, <1>e, IssuedKept
<1>7. OnceInv'
  BY <1>g, <1>t, <1>c, <1>s, <1>e, OnceKept
<1>8. FeedInv'
  <2>1. \A d \in Conns : Alive(d)' => Alive(d)
    BY <1>g, <1>t, <1>c, <1>s, <1>e DEF Alive
  <2>2. token' # NoToken /\ Sender({"watch", "await", "result"})' =>
          /\ token' = token /\ sendlock' = sendlock /\ Sender({"watch", "await", "result"})
          /\ turn'[sendlock].conn = turn[sendlock].conn
    BY <1>g, <1>t, <1>c, <1>s, <1>e DEF Sender
  <2> QED BY <2>1, <2>2, <1>g, <1>t, <1>c, <1>s, <1>e, FeedKept
<1>9. GraceInv'
  BY <1>g, <1>t, <1>c, <1>s, <1>e DEF GraceInv, SendInv
<1>10. FreshInv'
  BY <1>g, <1>t, <1>c, <1>s, <1>e, Indices DEF FreshInv, Sender, Coming, Using
<1>11. CallbackInv'
  BY <1>g, <1>t, <1>c, <1>s, <1>e DEF CallbackInv, Sender
<1>12. CountInv'
  BY <1>g, <1>t, <1>c, <1>s, <1>e DEF CountInv, Held
<1>13. SlotInv'
  BY <1>g, <1>t, <1>c, <1>s, <1>e, Indices DEF SlotInv, Sender, Coming, Using, Alive
<1>14. LostInv'
  BY <1>g, <1>t, <1>c, <1>s, <1>e, Indices DEF LostInv, Sender, Coming, Using
<1>15. FailInv'
  <2>1. \A t \in Turns : turn[t].wait = "open" /\ turn[t].conn = s.conn =>
          conn[turn[t].conn].faulty \/ shut \/ turn[t].cancelled
    BY <1>g, SweptTurn
  <2>2. \A t \in Turns : turn[t].wait # "none" => turn[t].conn \in Conns
    BY Indices
  <2>3. \A t \in Turns : turn[t].out \in {"failed", "timeout", "error"} => turn[t].conn \in Conns
    BY Indices
  <2> QED BY <1>g, <1>t, <1>c, <2>1, <2>2, <2>3 DEF FailInv
<1>16. FaultInv'
  BY <1>g, <1>t, <1>c, <1>s, <1>e DEF FaultInv
<1>17. KeptInv'
  BY <1>g, <1>t, <1>c, <1>s, <1>e, Indices DEF KeptInv, Sender, Alive, Using, Coming
<1>18. NoStrayPermission'
  BY <1>g, <1>t, <1>c, <1>s, <1>e DEF NoStrayPermission, Stopped, Alive
<1>19. NoCollateral'
  BY <1>g, <1>t, <1>c, <1>s, <1>e, Indices DEF NoCollateral
<1> QED BY <1>1, <1>2, <1>3, <1>4, <1>5, <1>6, <1>7, <1>8, <1>9, <1>10,
           <1>11, <1>12, <1>13, <1>14, <1>15, <1>16, <1>17, <1>18, <1>19

\* A process that is claimed is no longer one to look after.
LEMMA StopClaimsStep ==
  ASSUME IInv, NEW s \in stops, StopClaims(s)
  PROVE  IInv'
<1> USE DEF IInv
<1>w. s.conn \in Conns
  BY DEF Types, Stops
<1>g. /\ conn' = [conn EXCEPT ![s.conn].held = FALSE] /\ s.conn \in Conns
      /\ stops' = stops \ {s} /\ s \in stops
      /\ UNCHANGED <<limit, hand, late, turn, sendlock, lock, active, slot, ready, token, notified,
                     shut, perms, wires, graces>>
  BY <1>w DEF StopClaims, adapter
<1>c. /\ conn' \in [Conns -> ConnRecs] /\ \A d \in Conns \ {s.conn} : conn'[d] = conn[d]
      /\ conn'[s.conn].held = FALSE
      /\ conn'[s.conn].running = conn[s.conn].running
      /\ conn'[s.conn].alive = conn[s.conn].alive
      /\ conn'[s.conn].faulty = conn[s.conn].faulty
      /\ conn'[s.conn].queue = conn[s.conn].queue
      /\ conn'[s.conn].reader = conn[s.conn].reader
      /\ conn'[s.conn].callback = conn[s.conn].callback
      /\ conn'[s.conn].work = conn[s.conn].work
      /\ conn'[s.conn].lines = conn[s.conn].lines
      /\ conn'[s.conn].asked = conn[s.conn].asked
      /\ conn'[s.conn].replies = conn[s.conn].replies
  <2>1. s.conn \in Conns /\ conn[s.conn] \in ConnRecs
    BY <1>g DEF Types
  <2> DEFINE r == [conn[s.conn] EXCEPT !.held = FALSE]
  <2>2. r \in ConnRecs
    BY <1>g, <2>1 DEF ConnRecs
  <2>3. /\ r.held = FALSE
        /\ r.running = conn[s.conn].running
        /\ r.alive = conn[s.conn].alive
        /\ r.faulty = conn[s.conn].faulty
        /\ r.queue = conn[s.conn].queue
        /\ r.reader = conn[s.conn].reader
        /\ r.callback = conn[s.conn].callback
        /\ r.work = conn[s.conn].work
        /\ r.lines = conn[s.conn].lines
        /\ r.asked = conn[s.conn].asked
        /\ r.replies = conn[s.conn].replies
    BY <2>1 DEF ConnRecs
  <2>4. conn' = [conn EXCEPT ![s.conn] = r]
    BY <1>g
  <2> HIDE DEF r
  <2> QED BY <2>1, <2>2, <2>3, <2>4, ConnStep
<1>e. /\ \A d \in Conns : Eased(d)
      /\ \A d \in Conns : Alive(d)' => Alive(d)
  BY <1>g, <1>c DEF Eased, Alive
<1>1. Types'
  BY <1>g, <1>c, <1>e DEF Types, Wires, Stops
<1>2. SendInv'
  BY <1>g, <1>c, <1>e DEF SendInv, Sender, Token
<1>3. TurnInv'
  BY <1>g, <1>c, <1>e DEF TurnInv, Coming, Using
<1>4. ClickInv'
  BY <1>g, <1>c, <1>e DEF ClickInv
<1>5. WireInv'
  BY <1>g, <1>c, <1>e DEF WireInv, SendInv, Sender
<1>6. IssuedInv'
  <2>1. \A tok \in Tokens : Issued(tok) => Issued(tok)'
    BY <1>g, <1>c, <1>e DEF Issued, Tokens, TurnInv
  <2> QED BY <2>1, <1>g, <1>c, <1>e, IssuedKept
<1>7. OnceInv'
  BY <1>g, <1>c, <1>e, OnceKept
<1>8. FeedInv'
  <2>1. \A d \in Conns : Alive(d)' => Alive(d)
    BY <1>g, <1>c, <1>e DEF Alive
  <2>2. token' # NoToken /\ Sender({"watch", "await", "result"})' =>
          /\ token' = token /\ sendlock' = sendlock /\ Sender({"watch", "await", "result"})
          /\ turn'[sendlock].conn = turn[sendlock].conn
    BY <1>g, <1>c, <1>e DEF Sender
  <2> QED BY <2>1, <2>2, <1>g, <1>c, <1>e, FeedKept
<1>9. GraceInv'
  BY <1>g, <1>c, <1>e DEF GraceInv, SendInv
<1>10. FreshInv'
  BY <1>g, <1>c, <1>e, Indices DEF FreshInv, Sender, Coming, Using
<1>11. CallbackInv'
  BY <1>g, <1>c, <1>e DEF CallbackInv, Sender
<1>12. CountInv'
  BY <1>g, <1>c, <1>e DEF CountInv, Held
<1>13. SlotInv'
  BY <1>g, <1>c, <1>e, Indices DEF SlotInv, Sender, Coming, Using, Alive
<1>14. LostInv'
  BY <1>g, <1>c, <1>e, Indices DEF LostInv, Sender, Coming, Using
<1>15. FailInv'
  BY <1>g, <1>c, <1>e, Indices DEF FailInv
<1>16. FaultInv'
  BY <1>g, <1>c, <1>e DEF FaultInv
<1>17. KeptInv'
  BY <1>g, <1>c, <1>e, Indices DEF KeptInv, Sender, Alive, Using, Coming
<1>18. NoStrayPermission'
  BY <1>g, <1>c, <1>e DEF NoStrayPermission, Stopped, Alive
<1>19. NoCollateral'
  BY <1>g, <1>c, <1>e, Indices DEF NoCollateral
<1> QED BY <1>1, <1>2, <1>3, <1>4, <1>5, <1>6, <1>7, <1>8, <1>9, <1>10,
           <1>11, <1>12, <1>13, <1>14, <1>15, <1>16, <1>17, <1>18, <1>19

\* A claimed process is killed.
LEMMA ReapStep ==
  ASSUME IInv, NEW c \in Conns, Reap(c)
  PROVE  IInv'
<1> USE DEF IInv
<1>g. /\ conn[c].alive /\ ~conn[c].held /\ conn' = [conn EXCEPT ![c] = Killed(conn[c])]
      /\ UNCHANGED <<limit, hand, late, turn, sendlock, lock, active, slot, ready, token, notified,
                     shut, perms, wires, graces, stops>>
  BY DEF Reap, adapter
<1>c. /\ conn' \in [Conns -> ConnRecs] /\ conn'[c] = Killed(conn[c])
      /\ \A d \in Conns \ {c} : conn'[d] = conn[d]
      /\ conn'[c].held = conn[c].held /\ ~conn'[c].alive /\ conn'[c].running = conn[c].running
      /\ conn'[c].faulty = conn[c].faulty /\ conn'[c].reader = conn[c].reader
      /\ conn'[c].callback = conn[c].callback /\ conn'[c].lines = conn[c].lines
      /\ conn'[c].asked = conn[c].asked /\ conn'[c].replies = conn[c].replies
      /\ conn'[c].queue = <<>> /\ conn'[c].work = NoToken
  BY <1>g, StateFields, KilledFields, ConnStep
<1>e. /\ \A d \in Conns : Eased(d)
      /\ \A d \in Conns : Alive(d)' => Alive(d)
  BY <1>g, <1>c DEF Eased, Alive
<1>1. Types'
  BY <1>g, <1>c, <1>e DEF Types, Wires, Stops
<1>2. SendInv'
  BY <1>g, <1>c, <1>e DEF SendInv, Sender, Token
<1>3. TurnInv'
  BY <1>g, <1>c, <1>e DEF TurnInv, Coming, Using
<1>4. ClickInv'
  BY <1>g, <1>c, <1>e DEF ClickInv
<1>5. WireInv'
  BY <1>g, <1>c, <1>e DEF WireInv, SendInv, Sender
<1>6. IssuedInv'
  <2>1. \A tok \in Tokens : Issued(tok) => Issued(tok)'
    BY <1>g, <1>c, <1>e DEF Issued, Tokens, TurnInv
  <2> QED BY <2>1, <1>g, <1>c, <1>e, IssuedKept
<1>7. OnceInv'
  BY <1>g, <1>c, <1>e, OnceKept
<1>8. FeedInv'
  <2>1. \A d \in Conns : Alive(d)' => Alive(d)
    BY <1>g, <1>c, <1>e DEF Alive
  <2>2. token' # NoToken /\ Sender({"watch", "await", "result"})' =>
          /\ token' = token /\ sendlock' = sendlock /\ Sender({"watch", "await", "result"})
          /\ turn'[sendlock].conn = turn[sendlock].conn
    BY <1>g, <1>c, <1>e DEF Sender
  <2> QED BY <2>1, <2>2, <1>g, <1>c, <1>e, FeedKept
<1>9. GraceInv'
  BY <1>g, <1>c, <1>e DEF GraceInv, SendInv
<1>10. FreshInv'
  BY <1>g, <1>c, <1>e, Indices DEF FreshInv, Sender, Coming, Using
<1>11. CallbackInv'
  BY <1>g, <1>c, <1>e DEF CallbackInv, Sender
<1>12. CountInv'
  BY <1>g, <1>c, <1>e DEF CountInv, Held
<1>13. SlotInv'
  BY <1>g, <1>c, <1>e, Indices DEF SlotInv, Sender, Coming, Using, Alive
<1>14. LostInv'
  BY <1>g, <1>c, <1>e, Indices DEF LostInv, Sender, Coming, Using
<1>15. FailInv'
  BY <1>g, <1>c, <1>e, Indices DEF FailInv
<1>16. FaultInv'
  BY <1>g, <1>c, <1>e DEF FaultInv
<1>17. KeptInv'
  BY <1>g, <1>c, <1>e, Indices DEF KeptInv, Sender, Alive, Using, Coming
<1>18. NoStrayPermission'
  BY <1>g, <1>c, <1>e DEF NoStrayPermission, Stopped, Alive
<1>19. NoCollateral'
  BY <1>g, <1>c, <1>e, Indices DEF NoCollateral
<1> QED BY <1>1, <1>2, <1>3, <1>4, <1>5, <1>6, <1>7, <1>8, <1>9, <1>10,
           <1>11, <1>12, <1>13, <1>14, <1>15, <1>16, <1>17, <1>18, <1>19

\* An agent dies: what it was given is lost with it.
LEMMA DiesStep ==
  ASSUME IInv, NEW c \in Conns, Dies(c)
  PROVE  IInv'
<1> USE DEF IInv
<1>g. /\ conn[c].alive /\ conn' = [conn EXCEPT ![c] = [Killed(conn[c]) EXCEPT !.faulty = TRUE]]
      /\ UNCHANGED <<limit, hand, late, turn, sendlock, lock, active, slot, ready, token, notified,
                     shut, perms, wires, graces, stops>>
  BY DEF Dies, adapter
<1>c. /\ conn' \in [Conns -> ConnRecs]
      /\ \A d \in Conns \ {c} : conn'[d] = conn[d]
      /\ conn'[c].held = conn[c].held /\ ~conn'[c].alive /\ conn'[c].running = conn[c].running
      /\ conn'[c].faulty /\ conn'[c].reader = conn[c].reader
      /\ conn'[c].callback = conn[c].callback /\ conn'[c].lines = conn[c].lines
      /\ conn'[c].asked = conn[c].asked /\ conn'[c].replies = conn[c].replies
      /\ conn'[c].queue = <<>> /\ conn'[c].work = NoToken
  <2> DEFINE k == Killed(conn[c])
             r == [k EXCEPT !.faulty = TRUE]
  <2>1. /\ k \in ConnRecs /\ k.held = conn[c].held /\ ~k.alive /\ k.running = conn[c].running
        /\ k.reader = conn[c].reader
        /\ k.callback = conn[c].callback /\ k.lines = conn[c].lines
        /\ k.asked = conn[c].asked /\ k.replies = conn[c].replies
        /\ k.queue = <<>> /\ k.work = NoToken
    BY StateFields, KilledFields
  <2>2. conn' = [conn EXCEPT ![c] = r]
    BY <1>g
  <2> HIDE DEF k
  <2>3. /\ r \in ConnRecs /\ r.held = k.held /\ r.alive = k.alive /\ r.running = k.running
        /\ r.reader = k.reader /\ r.callback = k.callback /\ r.lines = k.lines
        /\ r.asked = k.asked /\ r.replies = k.replies
        /\ r.queue = k.queue /\ r.work = k.work /\ r.faulty = TRUE
    BY <2>1 DEF ConnRecs
  <2> HIDE DEF r
  <2> QED BY <2>1, <2>2, <2>3, ConnStep
<1>e. /\ \A d \in Conns : Eased(d)
      /\ \A d \in Conns : Alive(d)' => Alive(d)
  BY <1>g, <1>c DEF Eased, Alive
<1>1. Types'
  BY <1>g, <1>c, <1>e DEF Types, Wires, Stops
<1>2. SendInv'
  BY <1>g, <1>c, <1>e DEF SendInv, Sender, Token
<1>3. TurnInv'
  BY <1>g, <1>c, <1>e DEF TurnInv, Coming, Using
<1>4. ClickInv'
  BY <1>g, <1>c, <1>e DEF ClickInv
<1>5. WireInv'
  BY <1>g, <1>c, <1>e DEF WireInv, SendInv, Sender
<1>6. IssuedInv'
  <2>1. \A tok \in Tokens : Issued(tok) => Issued(tok)'
    BY <1>g, <1>c, <1>e DEF Issued, Tokens, TurnInv
  <2> QED BY <2>1, <1>g, <1>c, <1>e, IssuedKept
<1>7. OnceInv'
  BY <1>g, <1>c, <1>e, OnceKept
<1>8. FeedInv'
  <2>1. \A d \in Conns : Alive(d)' => Alive(d)
    BY <1>g, <1>c, <1>e DEF Alive
  <2>2. token' # NoToken /\ Sender({"watch", "await", "result"})' =>
          /\ token' = token /\ sendlock' = sendlock /\ Sender({"watch", "await", "result"})
          /\ turn'[sendlock].conn = turn[sendlock].conn
    BY <1>g, <1>c, <1>e DEF Sender
  <2> QED BY <2>1, <2>2, <1>g, <1>c, <1>e, FeedKept
<1>9. GraceInv'
  BY <1>g, <1>c, <1>e DEF GraceInv, SendInv
<1>10. FreshInv'
  BY <1>g, <1>c, <1>e, Indices DEF FreshInv, Sender, Coming, Using
<1>11. CallbackInv'
  BY <1>g, <1>c, <1>e DEF CallbackInv, Sender
<1>12. CountInv'
  BY <1>g, <1>c, <1>e DEF CountInv, Held
<1>13. SlotInv'
  BY <1>g, <1>c, <1>e, Indices DEF SlotInv, Sender, Coming, Using, Alive
<1>14. LostInv'
  BY <1>g, <1>c, <1>e, Indices DEF LostInv, Sender, Coming, Using
<1>15. FailInv'
  BY <1>g, <1>c, <1>e, Indices DEF FailInv
<1>16. FaultInv'
  BY <1>g, <1>c, <1>e DEF FaultInv
<1>17. KeptInv'
  BY <1>g, <1>c, <1>e, Indices DEF KeptInv, Sender, Alive, Using, Coming
<1>18. NoStrayPermission'
  BY <1>g, <1>c, <1>e DEF NoStrayPermission, Stopped, Alive
<1>19. NoCollateral'
  BY <1>g, <1>c, <1>e, Indices DEF NoCollateral
<1> QED BY <1>1, <1>2, <1>3, <1>4, <1>5, <1>6, <1>7, <1>8, <1>9, <1>10,
           <1>11, <1>12, <1>13, <1>14, <1>15, <1>16, <1>17, <1>18, <1>19

\* The line at the head of the queue becomes the agent's work, or cancels it.
LEMMA WriteLandsStep ==
  ASSUME IInv, NEW c \in Conns, WriteLands(c)
  PROVE  IInv'
<1> USE DEF IInv
<1> DEFINE q == conn[c].queue
           tl == Tail(q)
           x == IF Head(q).k = "req" THEN Head(q).of ELSE conn[c].work
<1>q. /\ q \in Seq(Written) /\ q # <<>> /\ Head(q) = q[1] /\ q[1] \in Written
      /\ tl \in Seq(Written) /\ Len(q) \in Nat /\ Len(q) >= 1
      /\ Len(tl) = Len(q) - 1 /\ \A i \in 1 .. Len(q) - 1 : tl[i] = q[i + 1]
  BY StateFields, Tailed DEF WriteLands
<1> HIDE DEF tl
<1>x. x \in Tokens \cup {NoToken}
  BY <1>q, StateFields, ConnFields DEF Written
<1>g. /\ conn' = [conn EXCEPT ![c] = [conn[c] EXCEPT !.queue = tl, !.work = x]]
      /\ UNCHANGED <<limit, hand, late, turn, sendlock, lock, active, slot, ready, token, notified,
                     shut, perms, wires, graces, stops>>
  BY <1>q DEF WriteLands, HeadIs, tl, adapter
<1>c. /\ conn' \in [Conns -> ConnRecs] /\ \A d \in Conns \ {c} : conn'[d] = conn[d]
      /\ conn'[c].held = conn[c].held /\ conn'[c].alive = conn[c].alive
      /\ conn'[c].running = conn[c].running
      /\ conn'[c].faulty = conn[c].faulty /\ conn'[c].reader = conn[c].reader
      /\ conn'[c].callback = conn[c].callback /\ conn'[c].lines = conn[c].lines
      /\ conn'[c].asked = conn[c].asked /\ conn'[c].replies = conn[c].replies
      /\ conn'[c].queue = tl /\ conn'[c].work = x
  <2> DEFINE r == [conn[c] EXCEPT !.queue = tl, !.work = x]
  <2> HIDE DEF q, x
  <2>1. /\ r \in ConnRecs
        /\ r.held = conn[c].held /\ r.alive = conn[c].alive /\ r.running = conn[c].running
        /\ r.faulty = conn[c].faulty /\ r.reader = conn[c].reader
        /\ r.callback = conn[c].callback /\ r.lines = conn[c].lines
        /\ r.asked = conn[c].asked /\ r.replies = conn[c].replies
        /\ r.queue = tl /\ r.work = x
    BY <1>q, <1>x, StateFields DEF ConnRecs
  <2>2. conn' = [conn EXCEPT ![c] = r]
    BY <1>g
  <2> HIDE DEF r
  <2> QED BY <2>1, <2>2, ConnStep
<1>m. ASSUME NEW d \in Conns, NEW i \in 1 .. Len(conn'[d].queue)
      PROVE  IF d = c THEN i + 1 \in 1 .. Len(q) /\ conn'[d].queue[i] = q[i + 1]
             ELSE i \in 1 .. Len(conn[d].queue) /\ conn'[d].queue = conn[d].queue
  <2>1. CASE d = c
    <3>1. i \in 1 .. Len(q) - 1 /\ conn'[d].queue = tl
      BY <1>q, <1>c, <2>1
    <3> HIDE DEF q
    <3>2. i + 1 \in 1 .. Len(q) /\ tl[i] = q[i + 1]
      BY <1>q, <3>1
    <3> QED BY <2>1, <3>1, <3>2
  <2>2. CASE d # c
    BY <1>c, <2>2
  <2> QED BY <2>1, <2>2
<1> HIDE DEF x
<1>1. Types'
  BY <1>g, <1>c DEF Types, Wires, Stops
<1>2. SendInv'
  BY <1>g, <1>c DEF SendInv, Sender, Token
<1>3. TurnInv'
  BY <1>g, <1>c DEF TurnInv, Coming, Using
<1>4. ClickInv'
  BY <1>g, <1>c DEF ClickInv
<1>5. WireInv'
  BY <1>g, <1>c DEF WireInv, SendInv, Sender
<1>6. IssuedInv'
  <2>1. \A d \in Conns : \A i \in 1 .. Len(conn'[d].queue) : Issued(conn'[d].queue[i].of)
    BY <1>m DEF IssuedInv
  <2>2. \A tok : Issued(tok) <=> Issued(tok)'
    BY <1>g DEF Issued
  <2>3. \A d \in Conns : \A i \in 1 .. Len(conn'[d].queue) : Issued(conn[d].queue[i].of)'
    BY <1>g, <2>1, ZenonT(60) DEF Issued
  <2> QED BY <1>g, <2>2, <2>3 DEF IssuedInv
<1>7. OnceInv'
  <2>1. ASSUME NEW d \in Conns, NEW tok, \E i \in 1 .. Len(conn'[d].queue) :
                                              conn'[d].queue[i] = Line("cancel", tok)
        PROVE  Cancels(d, tok)
    BY <1>m, <2>1 DEF Cancels
  <2>2. \A d \in Conns, tok \in Tokens \cup {NoToken} : Cancels(d, tok)' => Cancels(d, tok)
    BY <2>1 DEF Cancels
  <2>3. token # NoToken /\ ~notified => \A d \in Conns : ~Cancels(d, token)'
    BY <1>g, <2>1 DEF OnceInv, Cancels
  <2>4. \A w \in wires : w.pc = "send" => \A d \in Conns : ~Cancels(d, w.token)'
    BY <1>g, <2>1 DEF OnceInv, Cancels
  <2>5. ASSUME NEW d \in Conns, NEW i \in 1 .. Len(conn'[d].queue),
               NEW j \in 1 .. Len(conn'[d].queue), i < j, conn'[d].queue[i].k = "cancel"
        PROVE  conn'[d].queue[i].of # conn'[d].queue[j].of
    <3>1. CASE d = c
      <4>1. i + 1 \in 1 .. Len(q) /\ j + 1 \in 1 .. Len(q) /\ i + 1 < j + 1
        BY <1>m, <2>5, <3>1
      <4>2. conn'[d].queue[i] = q[i + 1] /\ conn'[d].queue[j] = q[j + 1]
        BY <1>m, <3>1
      <4> QED BY <2>5, <4>1, <4>2 DEF OnceInv
    <3>2. CASE d # c
      BY <1>m, <2>5, <3>2 DEF OnceInv
    <3> QED BY <3>1, <3>2
  <2> QED BY <1>g, <2>3, <2>4, <2>5 DEF OnceInv
<1>8. FeedInv'
  <2>1. ASSUME NEW tok, NEW n \in 1 .. Len(q), Fed(q, conn[c].work, n, tok)
        PROVE  Fed(tl, x, n - 1, tok)
    BY <1>q, <2>1, FedTail DEF x, tl
  <2>2. ASSUME NEW d \in Conns, NEW i \in 1 .. Len(conn'[d].queue), conn'[d].queue[i].k = "cancel"
        PROVE  Fed(conn'[d].queue, conn'[d].work, i - 1, conn'[d].queue[i].of)
    <3>1. CASE d = c
      <4>1. i + 1 \in 1 .. Len(q) /\ conn'[d].queue[i] = q[i + 1] /\ i \in 1 .. Len(q)
            /\ (i + 1) - 1 = i
        BY <1>m, <1>q, <3>1
      <4>2. Fed(q, conn[c].work, i, q[i + 1].of)
        BY <2>2, <3>1, <4>1 DEF FeedInv
      <4> QED BY <1>c, <2>1, <3>1, <4>1, <4>2
    <3>2. CASE d # c
      BY <1>c, <2>2, <3>2 DEF FeedInv
    <3> QED BY <3>1, <3>2
  <2>3. ASSUME NEW d \in Conns, NEW tok, Fed(conn[d].queue, conn[d].work, Len(conn[d].queue), tok)
        PROVE  Fed(conn'[d].queue, conn'[d].work, Len(conn'[d].queue), tok)
    <3>1. CASE d = c
      <4>1. Len(q) \in 1 .. Len(q) /\ Len(conn'[d].queue) = Len(q) - 1
        <5>1. Len(conn'[d].queue) = Len(tl)
          BY <1>c, <3>1
        <5> HIDE DEF q
        <5> QED BY <1>q, <5>1
      <4> QED BY <1>c, <2>1, <2>3, <3>1, <4>1
    <3>2. CASE d # c
      BY <1>c, <2>3, <3>2
    <3> QED BY <3>1, <3>2
  <2> HIDE DEF q
  <2>4. ASSUME NEW w \in wires, w.pc = "send"
        PROVE  Fed(conn'[w.conn].queue, conn'[w.conn].work, Len(conn'[w.conn].queue), w.token)
    <3>1. w.conn \in Conns
      BY <2>4 DEF IssuedInv, Types, Wires
    <3> QED BY <2>3, <2>4, <3>1 DEF FeedInv
  <2>5. ASSUME token # NoToken, Sender({"watch", "await", "result"}), NEW d \in Conns,
               d = turn[sendlock].conn, Alive(d)
        PROVE  Fed(conn'[d].queue, conn'[d].work, Len(conn'[d].queue), token)
    BY <2>3, <2>5 DEF FeedInv
  <2>6. Sender({"watch", "await", "result"}) => turn[sendlock].conn \in Conns
    BY Indices DEF Sender, Using
  <2> QED BY <1>g, <1>c, <2>2, <2>4, <2>5, <2>6 DEF FeedInv, Sender, Alive
<1>9. GraceInv'
  BY <1>g, <1>c DEF GraceInv, SendInv
<1>10. FreshInv'
  BY <1>g, <1>c, Indices DEF FreshInv, Sender, Coming, Using
<1>11. CallbackInv'
  BY <1>g, <1>c DEF CallbackInv, Sender
<1>12. CountInv'
  BY <1>g, <1>c DEF CountInv, Held
<1>13. SlotInv'
  BY <1>g, <1>c, Indices DEF SlotInv, Sender, Coming, Using, Alive
<1>14. LostInv'
  BY <1>g, <1>c, Indices DEF LostInv, Sender, Coming, Using
<1>15. FailInv'
  BY <1>g, <1>c, Indices DEF FailInv
<1>16. FaultInv'
  BY <1>g, <1>c DEF FaultInv
<1>17. KeptInv'
  BY <1>g, <1>c, Indices DEF KeptInv, Sender, Alive, Using, Coming
<1>18. NoStrayPermission'
  BY <1>g, <1>c DEF NoStrayPermission, Stopped, Alive
<1>19. NoCollateral'
  BY <1>g, <1>c, Indices DEF NoCollateral
<1> QED BY <1>1, <1>2, <1>3, <1>4, <1>5, <1>6, <1>7, <1>8, <1>9, <1>10,
           <1>11, <1>12, <1>13, <1>14, <1>15, <1>16, <1>17, <1>18, <1>19

\* Each permission asked is one more line to be read.
LEMMA AsksStep ==
  ASSUME IInv, NEW c \in Conns, Asks(c)
  PROVE  IInv'
<1> USE DEF IInv
<1> DEFINE L == Line("ask", NoToken)
<1>l. L \in Said /\ L.k = "ask"
  BY DEF Line, Said
<1>g. /\ conn[c].asked < limit.asks
      /\ conn' = [conn EXCEPT ![c] = [Says(c, L) EXCEPT !.asked = @ + 1]]
      /\ UNCHANGED <<limit, hand, late, turn, sendlock, lock, active, slot, ready, token, notified,
                     shut, perms, wires, graces, stops>>
  BY DEF Asks, adapter
<1>c. /\ conn' \in [Conns -> ConnRecs] /\ \A d \in Conns \ {c} : conn'[d] = conn[d]
      /\ conn'[c].held = conn[c].held /\ conn'[c].alive = conn[c].alive
      /\ conn'[c].running = conn[c].running /\ conn'[c].reader = conn[c].reader
      /\ conn'[c].callback = conn[c].callback /\ conn'[c].queue = conn[c].queue
      /\ conn'[c].replies = conn[c].replies
      /\ conn'[c].asked = conn[c].asked + 1
      /\ conn'[c].faulty = conn[c].faulty
      /\ conn'[c].work = conn[c].work
      /\ conn'[c].lines = Append(conn[c].lines, L)
  <2>1. conn[c] \in ConnRecs /\ conn[c].lines \in Seq(Said) /\ conn[c].asked + 1 \in Nat
    BY StateFields, ConnFields
  <2>2. Append(conn[c].lines, L) \in Seq(Said)
    BY <1>l, <2>1, Appended
  <2> DEFINE lines == Append(conn[c].lines, L)
             r == [[conn[c] EXCEPT !.lines = lines] EXCEPT !.asked = @ + 1]
  <2>3. conn' = [conn EXCEPT ![c] = r]
    BY <1>g DEF Says
  <2> HIDE DEF lines
  <2>4. lines \in Seq(Said)
    BY <2>2 DEF lines
  <2>5. /\ r \in ConnRecs
        /\ r.held = conn[c].held /\ r.alive = conn[c].alive /\ r.running = conn[c].running
        /\ r.reader = conn[c].reader /\ r.callback = conn[c].callback
        /\ r.queue = conn[c].queue /\ r.replies = conn[c].replies
        /\ r.asked = conn[c].asked + 1
        /\ r.faulty = conn[c].faulty
        /\ r.work = conn[c].work
        /\ r.lines = lines
    BY <2>1, <2>4 DEF ConnRecs
  <2> HIDE DEF r
  <2> QED BY <2>3, <2>5, ConnStep DEF lines
<1>n. /\ conn[c].lines \in Seq(Said) /\ Len(conn[c].lines) \in Nat
      /\ Len(conn'[c].lines) = Len(conn[c].lines) + 1
      /\ \A i \in 1 .. Len(conn[c].lines) : conn'[c].lines[i] = conn[c].lines[i]
      /\ conn'[c].lines[Len(conn[c].lines) + 1] = L
  BY <1>c, <1>l, StateFields, Appended
<1>e. \A d \in Conns : Eased(d)
  BY <1>c DEF Eased
<1>a. Cardinality(AskedAt(conn'[c].lines)) =
        Cardinality(AskedAt(conn[c].lines)) + IF L.k = "ask" THEN 1 ELSE 0
  BY <1>c, <1>l, StateFields, AskedAppend
<1> HIDE DEF L
<1>1. Types'
  BY <1>g, <1>c, <1>e DEF Types, Wires, Stops
<1>2. SendInv'
  BY <1>g, <1>c, <1>e DEF SendInv, Sender, Token
<1>3. TurnInv'
  BY <1>g, <1>c, <1>e DEF TurnInv, Coming, Using
<1>4. ClickInv'
  BY <1>g, <1>c, <1>e DEF ClickInv
<1>5. WireInv'
  BY <1>g, <1>c, <1>e DEF WireInv, SendInv, Sender
<1>6. IssuedInv'
  <2>1. \A tok \in Tokens : Issued(tok) => Issued(tok)'
    BY <1>g, <1>c, <1>e DEF Issued, Tokens, TurnInv
  <2> QED BY <2>1, <1>g, <1>c, <1>e, IssuedKept
<1>7. OnceInv'
  BY <1>g, <1>c, <1>e, OnceKept
<1>8. FeedInv'
  <2>1. \A d \in Conns : Alive(d)' => Alive(d)
    BY <1>g, <1>c, <1>e DEF Alive
  <2>2. token' # NoToken /\ Sender({"watch", "await", "result"})' =>
          /\ token' = token /\ sendlock' = sendlock /\ Sender({"watch", "await", "result"})
          /\ turn'[sendlock].conn = turn[sendlock].conn
    BY <1>g, <1>c, <1>e DEF Sender
  <2> QED BY <2>1, <2>2, <1>g, <1>c, <1>e, FeedKept
<1>9. GraceInv'
  BY <1>g, <1>c, <1>e DEF GraceInv, SendInv
<1>10. FreshInv'
  BY <1>g, <1>c, <1>e, Indices DEF FreshInv, Sender, Coming, Using
<1>11. CallbackInv'
  BY <1>g, <1>c, <1>e DEF CallbackInv, Sender
<1>12. CountInv'
  <2>1. ASSUME NEW d \in Conns
        PROVE  /\ Cardinality(AskedAt(conn[d].lines)) \in Nat /\ conn[d].replies \in Nat
               /\ conn[d].asked \in Nat /\ perms[d] \in Nat
    BY StateFields, ConnFields, AskedNumber
  <2>2. limit.asks \in Nat
    BY Places DEF Types
  <2> QED BY <1>g, <1>c, <1>l, <1>a, <2>1, <2>2, SMTT(60) DEF CountInv, Held
<1>13. SlotInv'
  BY <1>g, <1>c, <1>e, Indices DEF SlotInv, Sender, Coming, Using, Alive
<1>14. LostInv'
  BY <1>g, <1>c, <1>e, Indices DEF LostInv, Sender, Coming, Using
<1>15. FailInv'
  BY <1>g, <1>c, <1>e, Indices DEF FailInv
<1>16. FaultInv'
  <2> SUFFICES ASSUME NEW d \in Conns, NEW i \in 1 .. Len(conn'[d].lines),
                      conn'[d].lines[i].k = "failed"
               PROVE  conn'[d].faulty
    BY DEF FaultInv
  <2>1. CASE d # c
    BY <1>c, <2>1 DEF FaultInv
  <2>2. CASE d = c /\ i \in 1 .. Len(conn[c].lines)
    <3>1. conn[c].faulty
      BY <1>n, <2>2 DEF FaultInv
    <3> QED BY <1>g, <1>c, <2>2, <3>1
  <2>3. CASE d = c /\ i \notin 1 .. Len(conn[c].lines)
    <3>1. L.k = "failed"
      BY <1>n, <2>3, SMTT(60)
    <3> QED BY <1>g, <1>l, <1>c, <2>3, <3>1
  <2> QED BY <2>1, <2>2, <2>3
<1>17. KeptInv'
  BY <1>g, <1>c, <1>e, Indices DEF KeptInv, Sender, Alive, Using, Coming
<1>18. NoStrayPermission'
  BY <1>g, <1>c, <1>e DEF NoStrayPermission, Stopped, Alive
<1>19. NoCollateral'
  BY <1>g, <1>c, <1>e, Indices DEF NoCollateral
<1> QED BY <1>1, <1>2, <1>3, <1>4, <1>5, <1>6, <1>7, <1>8, <1>9, <1>10,
           <1>11, <1>12, <1>13, <1>14, <1>15, <1>16, <1>17, <1>18, <1>19

\* An agent answers its work, or fails it.
LEMMA AnswersStep ==
  ASSUME IInv, NEW c \in Conns, Answers(c)
  PROVE  IInv'
<1> USE DEF IInv
<1>k. PICK k \in {"ok", "failed"} :
        conn' = [conn EXCEPT ![c] = [Says(c, Line(k, conn[c].work)) EXCEPT
                                       !.work = NoToken, !.faulty = @ \/ k = "failed"]]
  BY DEF Answers
<1> DEFINE L == Line(k, conn[c].work)
<1>l. L \in Said /\ L.k = k /\ L.k # "ask"
  <2>1. conn[c].work \in Tokens
    BY StateFields, ConnFields DEF Answers
  <2> QED BY <2>1 DEF Line, Said
<1>b. PICK b \in BOOLEAN : b = (conn[c].faulty \/ k = "failed")
  OBVIOUS
<1>g. /\ conn' = [conn EXCEPT ![c] = [Says(c, L) EXCEPT !.work = NoToken, !.faulty = b]]
      /\ UNCHANGED <<limit, hand, late, turn, sendlock, lock, active, slot, ready, token, notified,
                     shut, perms, wires, graces, stops>>
      /\ conn[c].faulty => b = TRUE
      /\ L.k = "failed" => b = TRUE
  <2>1. Says(c, L).faulty = conn[c].faulty
    BY StateFields DEF Says, ConnRecs
  <2> QED BY <1>k, <1>b, <1>l, <2>1, Zenon DEF Answers, adapter
<1>c. /\ conn' \in [Conns -> ConnRecs] /\ \A d \in Conns \ {c} : conn'[d] = conn[d]
      /\ conn'[c].held = conn[c].held /\ conn'[c].alive = conn[c].alive
      /\ conn'[c].running = conn[c].running /\ conn'[c].reader = conn[c].reader
      /\ conn'[c].callback = conn[c].callback /\ conn'[c].queue = conn[c].queue
      /\ conn'[c].replies = conn[c].replies
      /\ conn'[c].asked = conn[c].asked
      /\ conn'[c].faulty = b
      /\ conn'[c].work = NoToken
      /\ conn'[c].lines = Append(conn[c].lines, L)
  <2>1. conn[c] \in ConnRecs /\ conn[c].lines \in Seq(Said) /\ conn[c].asked + 1 \in Nat
    BY StateFields, ConnFields
  <2>2. Append(conn[c].lines, L) \in Seq(Said)
    BY <1>l, <2>1, Appended
  <2> DEFINE lines == Append(conn[c].lines, L)
             r == [[conn[c] EXCEPT !.lines = lines] EXCEPT !.work = NoToken, !.faulty = b]
  <2>3. conn' = [conn EXCEPT ![c] = r]
    BY <1>g DEF Says
  <2> HIDE DEF lines
  <2>4. lines \in Seq(Said)
    BY <2>2 DEF lines
  <2>5. /\ r \in ConnRecs
        /\ r.held = conn[c].held /\ r.alive = conn[c].alive /\ r.running = conn[c].running
        /\ r.reader = conn[c].reader /\ r.callback = conn[c].callback
        /\ r.queue = conn[c].queue /\ r.replies = conn[c].replies
        /\ r.asked = conn[c].asked
        /\ r.faulty = b
        /\ r.work = NoToken
        /\ r.lines = lines
    BY <2>1, <2>4 DEF ConnRecs
  <2> HIDE DEF r
  <2> QED BY <2>3, <2>5, ConnStep DEF lines
<1>n. /\ conn[c].lines \in Seq(Said) /\ Len(conn[c].lines) \in Nat
      /\ Len(conn'[c].lines) = Len(conn[c].lines) + 1
      /\ \A i \in 1 .. Len(conn[c].lines) : conn'[c].lines[i] = conn[c].lines[i]
      /\ conn'[c].lines[Len(conn[c].lines) + 1] = L
  BY <1>c, <1>l, StateFields, Appended
<1>e. \A d \in Conns : Eased(d)
  BY <1>c DEF Eased
<1>a. Cardinality(AskedAt(conn'[c].lines)) =
        Cardinality(AskedAt(conn[c].lines)) + IF L.k = "ask" THEN 1 ELSE 0
  BY <1>c, <1>l, StateFields, AskedAppend
<1> HIDE DEF L
<1>1. Types'
  BY <1>g, <1>b, <1>c, <1>e DEF Types, Wires, Stops
<1>2. SendInv'
  BY <1>g, <1>b, <1>c, <1>e DEF SendInv, Sender, Token
<1>3. TurnInv'
  BY <1>g, <1>b, <1>c, <1>e DEF TurnInv, Coming, Using
<1>4. ClickInv'
  BY <1>g, <1>b, <1>c, <1>e DEF ClickInv
<1>5. WireInv'
  BY <1>g, <1>b, <1>c, <1>e DEF WireInv, SendInv, Sender
<1>6. IssuedInv'
  <2>1. \A tok \in Tokens : Issued(tok) => Issued(tok)'
    BY <1>g, <1>b, <1>c, <1>e DEF Issued, Tokens, TurnInv
  <2> QED BY <2>1, <1>g, <1>b, <1>c, <1>e, IssuedKept
<1>7. OnceInv'
  BY <1>g, <1>b, <1>c, <1>e, OnceKept
<1>8. FeedInv'
  <2>1. \A d \in Conns : Alive(d)' => Alive(d)
    BY <1>g, <1>b, <1>c, <1>e DEF Alive
  <2>2. token' # NoToken /\ Sender({"watch", "await", "result"})' =>
          /\ token' = token /\ sendlock' = sendlock /\ Sender({"watch", "await", "result"})
          /\ turn'[sendlock].conn = turn[sendlock].conn
    BY <1>g, <1>b, <1>c, <1>e DEF Sender
  <2> QED BY <2>1, <2>2, <1>g, <1>b, <1>c, <1>e, FeedKept
<1>9. GraceInv'
  BY <1>g, <1>b, <1>c, <1>e DEF GraceInv, SendInv
<1>10. FreshInv'
  BY <1>g, <1>b, <1>c, <1>e, Indices DEF FreshInv, Sender, Coming, Using
<1>11. CallbackInv'
  BY <1>g, <1>b, <1>c, <1>e DEF CallbackInv, Sender
<1>12. CountInv'
  <2>1. ASSUME NEW d \in Conns
        PROVE  /\ Cardinality(AskedAt(conn[d].lines)) \in Nat /\ conn[d].replies \in Nat
               /\ conn[d].asked \in Nat /\ perms[d] \in Nat
    BY StateFields, ConnFields, AskedNumber
  <2>2. limit.asks \in Nat
    BY Places DEF Types
  <2> QED BY <1>g, <1>c, <1>l, <1>a, <2>1, <2>2 DEF CountInv, Held
<1>13. SlotInv'
  BY <1>g, <1>b, <1>c, <1>e, Indices DEF SlotInv, Sender, Coming, Using, Alive
<1>14. LostInv'
  BY <1>g, <1>b, <1>c, <1>e, Indices DEF LostInv, Sender, Coming, Using
<1>15. FailInv'
  BY <1>g, <1>b, <1>c, <1>e, Indices DEF FailInv
<1>16. FaultInv'
  <2> SUFFICES ASSUME NEW d \in Conns, NEW i \in 1 .. Len(conn'[d].lines),
                      conn'[d].lines[i].k = "failed"
               PROVE  conn'[d].faulty
    BY DEF FaultInv
  <2>1. CASE d # c
    BY <1>c, <2>1 DEF FaultInv
  <2>2. CASE d = c /\ i \in 1 .. Len(conn[c].lines)
    <3>1. conn[c].faulty
      BY <1>n, <2>2 DEF FaultInv
    <3> QED BY <1>g, <1>c, <2>2, <3>1
  <2>3. CASE d = c /\ i \notin 1 .. Len(conn[c].lines)
    <3>1. L.k = "failed"
      BY <1>n, <2>3
    <3> QED BY <1>g, <1>l, <1>c, <2>3, <3>1
  <2> QED BY <2>1, <2>2, <2>3
<1>17. KeptInv'
  BY <1>g, <1>b, <1>c, <1>e, Indices DEF KeptInv, Sender, Alive, Using, Coming
<1>18. NoStrayPermission'
  BY <1>g, <1>b, <1>c, <1>e DEF NoStrayPermission, Stopped, Alive
<1>19. NoCollateral'
  BY <1>g, <1>b, <1>c, <1>e, Indices DEF NoCollateral
<1> QED BY <1>1, <1>2, <1>3, <1>4, <1>5, <1>6, <1>7, <1>8, <1>9, <1>10,
           <1>11, <1>12, <1>13, <1>14, <1>15, <1>16, <1>17, <1>18, <1>19

\* The waiter whose token the line has is woken, nobody else.
LEMMA ResponseStep ==
  ASSUME IInv, NEW c \in Conns, Response(c)
  PROVE  IInv'
<1> USE DEF IInv
<1>0. conn[c].reader = "read" /\ conn[c].lines # <<>>
  BY DEF Response, Reading
<1>l. /\ conn[c].lines # <<>> /\ conn[c].lines \in Seq(Said) /\ conn[c] \in ConnRecs
      /\ Head(conn[c].lines) = conn[c].lines[1] /\ Head(conn[c].lines) \in Said
      /\ conn[c].reader = "read" /\ 1 \in 1 .. Len(conn[c].lines)
  BY <1>0, StateFields, Tailed
<1> DEFINE L == Head(conn[c].lines)
           hit(t) == turn[t].wait # "none" /\ turn[t].conn = c /\ Token(t) = L.of
<1>g. /\ L.k # "ask" /\ L.k \in {"ok", "failed"} /\ (L.k = "failed" => conn[c].faulty)
      /\ turn' = [t \in Turns |-> IF hit(t) THEN [turn[t] EXCEPT !.wait = L.k] ELSE turn[t]]
      /\ conn' = [conn EXCEPT ![c] = Taken(c)]
      /\ UNCHANGED <<limit, hand, late, sendlock, lock, active, slot, ready, token, notified, shut,
                     perms, wires, graces, stops>>
  BY <1>l DEF Response, Said, adapter, FaultInv
<1> HIDE DEF L
<1>t. /\ turn' \in [Turns -> TurnRecs]
      /\ \A t \in Turns :
           /\ turn'[t].pc = turn[t].pc /\ turn'[t].conn = turn[t].conn
           /\ turn'[t].what = turn[t].what /\ turn'[t].cancelled = turn[t].cancelled
           /\ turn'[t].early = turn[t].early /\ turn'[t].out = turn[t].out
           /\ turn'[t].wait = turn[t].wait \/
                (turn[t].wait # "none" /\ turn[t].conn = c /\ turn'[t].wait = L.k)
      /\ sendlock \in {0} \cup Turns /\ active = sendlock
      /\ \A w \in wires : w.by # UI => w.by \in Turns
      /\ \A g \in graces : token = g.token => sendlock \in Turns
  <2>1. \A t \in Turns : turn[t] \in TurnRecs
    BY DEF Types
  <2>2. ASSUME NEW t \in Turns
        PROVE  LET r == [turn[t] EXCEPT !.wait = L.k]
               IN  /\ r \in TurnRecs /\ r.pc = turn[t].pc /\ r.conn = turn[t].conn
                   /\ r.what = turn[t].what /\ r.cancelled = turn[t].cancelled
                   /\ r.early = turn[t].early /\ r.out = turn[t].out /\ r.wait = L.k
    BY <1>g, <2>1 DEF TurnRecs
  <2>3. ASSUME NEW t \in Turns
        PROVE  /\ turn'[t] \in TurnRecs
               /\ turn'[t].pc = turn[t].pc /\ turn'[t].conn = turn[t].conn
               /\ turn'[t].what = turn[t].what /\ turn'[t].cancelled = turn[t].cancelled
               /\ turn'[t].early = turn[t].early /\ turn'[t].out = turn[t].out
               /\ turn'[t].wait = turn[t].wait \/
                    (turn[t].wait # "none" /\ turn[t].conn = c /\ turn'[t].wait = L.k)
    <3>1. CASE hit(t)
      <4>1. turn'[t] = [turn[t] EXCEPT !.wait = L.k]
        BY <1>g, <3>1
      <4> QED BY <2>2, <3>1, <4>1
    <3>2. CASE ~hit(t)
      <4>1. turn'[t] = turn[t]
        BY <1>g, <3>2
      <4> QED BY <2>1, <4>1
    <3> QED BY <3>1, <3>2
  <2>4. turn' \in [Turns -> TurnRecs]
    BY <1>g, <2>3
  <2> QED BY <1>g, <2>3, <2>4, Actors
<1>c. /\ conn' \in [Conns -> ConnRecs] /\ \A d \in Conns \ {c} : conn'[d] = conn[d]
      /\ conn'[c].held /\ conn'[c].alive => conn[c].held /\ conn[c].alive
      /\ \/ conn'[c].queue = conn[c].queue /\ conn'[c].work = conn[c].work
         \/ conn'[c].queue = <<>> /\ conn'[c].work = NoToken
      /\ conn'[c].lines \in {Tail(conn[c].lines), <<>>}
      /\ conn'[c].callback \in {conn[c].callback, 0}
      /\ conn'[c].reader # "new" /\ conn[c].reader # "new"
      /\ conn[c].running => conn'[c].held = conn[c].held /\ conn'[c].alive = conn[c].alive
                            /\ conn'[c].running
      /\ conn'[c].faulty = conn[c].faulty
      /\ conn'[c].asked = conn[c].asked
      /\ conn'[c].replies = conn[c].replies
  <2>1. conn' = [conn EXCEPT ![c] = Taken(c)]
    BY <1>g
  <2>2. Taken(c) \in ConnRecs
    BY <1>l, TakenFields
  <2> HIDE DEF Taken
  <2>3. conn' \in [Conns -> ConnRecs] /\ conn'[c] = Taken(c) /\ \A d \in Conns \ {c} : conn'[d] = conn[d]
    BY <2>1, <2>2, ConnStep
  <2> QED BY <1>l, <2>3, TakenFields
<1>e. /\ \A d \in Conns : Eased(d)
      /\ \A d \in Conns : Alive(d)' => Alive(d)
      /\ \A d \in Conns : conn'[d].reader = "new" <=> conn[d].reader = "new"
      /\ \A d \in Conns : conn'[d].callback # 0 => conn'[d].callback = conn[d].callback
      /\ \A d \in Conns : conn'[d].faulty = conn[d].faulty
      /\ slot = c /\ ~shut /\ ~Sender({"released"}) /\ ~conn[c].faulty => conn[c].running
  BY <1>g, <1>l, <1>c, StoppedReader DEF Eased, Alive
<1>n. /\ Cardinality(AskedAt(conn'[c].lines)) + (IF Head(conn[c].lines).k = "ask" THEN 1 ELSE 0)
           <= Cardinality(AskedAt(conn[c].lines))
      /\ Cardinality(AskedAt(conn'[c].lines)) \in Nat
      /\ Cardinality(AskedAt(conn[c].lines)) \in Nat
  <2>1. /\ Cardinality(AskedAt(conn[c].lines)) \in Nat /\ Tail(conn[c].lines) \in Seq(Said)
        /\ Cardinality(AskedAt(Tail(conn[c].lines))) \in Nat
        /\ Cardinality(AskedAt(Tail(conn[c].lines)))
             + (IF Head(conn[c].lines).k = "ask" THEN 1 ELSE 0)
             <= Cardinality(AskedAt(conn[c].lines))
    BY <1>l, Tailed, AskedTail, AskedNumber
  <2>2. CASE conn'[c].lines = Tail(conn[c].lines)
    BY <2>1, <2>2
  <2>3. CASE conn'[c].lines = <<>>
    BY <2>1, <2>3, AskedNone
  <2> QED BY <1>c, <2>2, <2>3
<1>f. \A d \in Conns : \A i \in 1 .. Len(conn'[d].lines) :
        conn'[d].lines[i].k = "failed" => conn[d].faulty
  <2> SUFFICES ASSUME NEW d \in Conns, NEW i \in 1 .. Len(conn'[d].lines),
                      conn'[d].lines[i].k = "failed"
               PROVE  conn[d].faulty
    OBVIOUS
  <2>1. CASE d # c
    BY <1>c, <2>1 DEF FaultInv
  <2>2. CASE d = c
    <3>1. conn'[d].lines # <<>>
      OBVIOUS
    <3>2. conn'[d].lines = Tail(conn[c].lines)
      BY <1>c, <2>2, <3>1
    <3>3. i + 1 \in 1 .. Len(conn[c].lines) /\ conn'[d].lines[i] = conn[c].lines[i + 1]
      BY <1>l, <3>2, Tailed
    <3> QED BY <2>2, <3>3 DEF FaultInv
  <2> QED BY <2>1, <2>2
<1>1. Types'
  BY <1>g, <1>t, <1>c, <1>e DEF Types, Wires, Stops
<1>2. SendInv'
  BY <1>g, <1>t, <1>c, <1>e DEF SendInv, Sender, Token
<1>3. TurnInv'
  BY <1>g, <1>t, <1>c, <1>e DEF TurnInv, Coming, Using
<1>4. ClickInv'
  BY <1>g, <1>t, <1>c, <1>e DEF ClickInv
<1>5. WireInv'
  BY <1>g, <1>t, <1>c, <1>e DEF WireInv, SendInv, Sender
<1>6. IssuedInv'
  <2>1. \A tok \in Tokens : Issued(tok) => Issued(tok)'
    BY <1>g, <1>t, <1>c, <1>e DEF Issued, Tokens, TurnInv
  <2> QED BY <2>1, <1>g, <1>t, <1>c, <1>e, IssuedKept
<1>7. OnceInv'
  BY <1>g, <1>t, <1>c, <1>e, OnceKept
<1>8. FeedInv'
  <2>1. \A d \in Conns : Alive(d)' => Alive(d)
    BY <1>g, <1>t, <1>c, <1>e DEF Alive
  <2>2. token' # NoToken /\ Sender({"watch", "await", "result"})' =>
          /\ token' = token /\ sendlock' = sendlock /\ Sender({"watch", "await", "result"})
          /\ turn'[sendlock].conn = turn[sendlock].conn
    BY <1>g, <1>t, <1>c, <1>e DEF Sender
  <2> QED BY <2>1, <2>2, <1>g, <1>t, <1>c, <1>e, FeedKept
<1>9. GraceInv'
  BY <1>g, <1>t, <1>c, <1>e DEF GraceInv, SendInv
<1>10. FreshInv'
  BY <1>g, <1>t, <1>c, <1>e, Indices DEF FreshInv, Sender, Coming, Using
<1>11. CallbackInv'
  BY <1>g, <1>t, <1>c, <1>e DEF CallbackInv, Sender
<1>12. CountInv'
  <2>1. ASSUME NEW d \in Conns
        PROVE  /\ Cardinality(AskedAt(conn[d].lines)) \in Nat /\ conn[d].replies \in Nat
               /\ conn[d].asked \in Nat /\ perms[d] \in Nat
    BY StateFields, ConnFields, AskedNumber
  <2> QED BY <1>g, <1>l, <1>c, <1>n, <2>1, SMTT(60) DEF CountInv, Held
<1>13. SlotInv'
  BY <1>g, <1>t, <1>c, <1>e, Indices DEF SlotInv, Sender, Coming, Using, Alive
<1>14. LostInv'
  BY <1>g, <1>t, <1>c, <1>e, Indices DEF LostInv, Sender, Coming, Using
<1>15. FailInv'
  BY <1>g, <1>t, <1>c, <1>e, Indices DEF FailInv
<1>16. FaultInv'
  BY <1>e, <1>f DEF FaultInv
<1>17. KeptInv'
  BY <1>g, <1>t, <1>c, <1>e, Indices, SMTT(60) DEF KeptInv, Sender, Alive, Using, Coming
<1>18. NoStrayPermission'
  BY <1>g, <1>t, <1>c, <1>e DEF NoStrayPermission, Stopped, Alive
<1>19. NoCollateral'
  BY <1>g, <1>t, <1>c, <1>e, Indices DEF NoCollateral
<1> QED BY <1>1, <1>2, <1>3, <1>4, <1>5, <1>6, <1>7, <1>8, <1>9, <1>10,
           <1>11, <1>12, <1>13, <1>14, <1>15, <1>16, <1>17, <1>18, <1>19

\* A permission nobody may decide is refused where it is read.
LEMMA AnsweredStep ==
  ASSUME IInv, NEW c \in Conns, TakesAsk(c), conn[c].callback = 0
  PROVE  IInv'
<1> USE DEF IInv
<1>0. conn[c].reader = "read" /\ conn[c].lines # <<>> /\ hand[c] = 0
  BY DEF TakesAsk, Reading
<1>l. /\ conn[c].lines # <<>> /\ conn[c].lines \in Seq(Said) /\ conn[c] \in ConnRecs
      /\ Head(conn[c].lines) = conn[c].lines[1] /\ Head(conn[c].lines) \in Said
      /\ conn[c].reader = "read" /\ 1 \in 1 .. Len(conn[c].lines)
  BY <1>0, StateFields, Tailed
<1>g. /\ Head(conn[c].lines).k = "ask"
      /\ conn' = [conn EXCEPT ![c] = [Taken(c) EXCEPT !.replies = @ + IF Alive(c) THEN 1 ELSE 0]]
      /\ UNCHANGED <<limit, hand, late, turn, sendlock, lock, active, slot, ready, token, notified,
                     shut, perms, wires, graces, stops>>
  BY DEF TakesAsk, adapter
<1>c. /\ conn' \in [Conns -> ConnRecs] /\ \A d \in Conns \ {c} : conn'[d] = conn[d]
      /\ conn'[c].held /\ conn'[c].alive => conn[c].held /\ conn[c].alive
      /\ \/ conn'[c].queue = conn[c].queue /\ conn'[c].work = conn[c].work
         \/ conn'[c].queue = <<>> /\ conn'[c].work = NoToken
      /\ conn'[c].lines \in {Tail(conn[c].lines), <<>>}
      /\ conn'[c].callback \in {conn[c].callback, 0}
      /\ conn'[c].reader # "new" /\ conn[c].reader # "new"
      /\ conn[c].running => conn'[c].held = conn[c].held /\ conn'[c].alive = conn[c].alive
                            /\ conn'[c].running
      /\ conn'[c].faulty = conn[c].faulty
      /\ conn'[c].asked = conn[c].asked
      /\ conn'[c].replies \in {conn[c].replies, conn[c].replies + 1}
  <2> DEFINE k == Taken(c)
             n == k.replies + IF Alive(c) THEN 1 ELSE 0
             r == [k EXCEPT !.replies = n]
  <2>1. k \in ConnRecs /\ k.replies = conn[c].replies /\ conn[c].replies \in Nat
    BY <1>l, TakenFields, ConnFields
  <2>2. conn' = [conn EXCEPT ![c] = r]
    BY <1>g
  <2>3. n \in Nat /\ n \in {conn[c].replies, conn[c].replies + 1}
    <3> HIDE DEF k
    <3> QED BY <2>1
  <2> HIDE DEF n
  <2>4. /\ r \in ConnRecs /\ r.held = k.held /\ r.alive = k.alive /\ r.running = k.running
        /\ r.reader = k.reader /\ r.callback = k.callback /\ r.lines = k.lines
        /\ r.asked = k.asked /\ r.queue = k.queue /\ r.work = k.work /\ r.faulty = k.faulty
        /\ r.replies = n
    <3> HIDE DEF k
    <3> QED BY <2>1, <2>3 DEF ConnRecs
  <2> HIDE DEF r
  <2>5. conn' \in [Conns -> ConnRecs] /\ conn'[c] = r /\ \A d \in Conns \ {c} : conn'[d] = conn[d]
    BY <2>2, <2>4, ConnStep
  <2> QED BY <1>l, <2>3, <2>4, <2>5, TakenFields
<1>e. /\ \A d \in Conns : Eased(d)
      /\ \A d \in Conns : Alive(d)' => Alive(d)
      /\ \A d \in Conns : conn'[d].reader = "new" <=> conn[d].reader = "new"
      /\ \A d \in Conns : conn'[d].callback # 0 => conn'[d].callback = conn[d].callback
      /\ \A d \in Conns : conn'[d].faulty = conn[d].faulty
      /\ slot = c /\ ~shut /\ ~Sender({"released"}) /\ ~conn[c].faulty => conn[c].running
  BY <1>g, <1>l, <1>c, StoppedReader DEF Eased, Alive
<1>n. /\ Cardinality(AskedAt(conn'[c].lines)) + (IF Head(conn[c].lines).k = "ask" THEN 1 ELSE 0)
           <= Cardinality(AskedAt(conn[c].lines))
      /\ Cardinality(AskedAt(conn'[c].lines)) \in Nat
      /\ Cardinality(AskedAt(conn[c].lines)) \in Nat
  <2>1. /\ Cardinality(AskedAt(conn[c].lines)) \in Nat /\ Tail(conn[c].lines) \in Seq(Said)
        /\ Cardinality(AskedAt(Tail(conn[c].lines))) \in Nat
        /\ Cardinality(AskedAt(Tail(conn[c].lines)))
             + (IF Head(conn[c].lines).k = "ask" THEN 1 ELSE 0)
             <= Cardinality(AskedAt(conn[c].lines))
    BY <1>l, Tailed, AskedTail, AskedNumber
  <2>2. CASE conn'[c].lines = Tail(conn[c].lines)
    BY <2>1, <2>2
  <2>3. CASE conn'[c].lines = <<>>
    BY <2>1, <2>3, AskedNone
  <2> QED BY <1>c, <2>2, <2>3
<1>f. \A d \in Conns : \A i \in 1 .. Len(conn'[d].lines) :
        conn'[d].lines[i].k = "failed" => conn[d].faulty
  <2> SUFFICES ASSUME NEW d \in Conns, NEW i \in 1 .. Len(conn'[d].lines),
                      conn'[d].lines[i].k = "failed"
               PROVE  conn[d].faulty
    OBVIOUS
  <2>1. CASE d # c
    BY <1>c, <2>1 DEF FaultInv
  <2>2. CASE d = c
    <3>1. conn'[d].lines # <<>>
      OBVIOUS
    <3>2. conn'[d].lines = Tail(conn[c].lines)
      BY <1>c, <2>2, <3>1
    <3>3. i + 1 \in 1 .. Len(conn[c].lines) /\ conn'[d].lines[i] = conn[c].lines[i + 1]
      BY <1>l, <3>2, Tailed
    <3> QED BY <2>2, <3>3 DEF FaultInv
  <2> QED BY <2>1, <2>2
<1>1. Types'
  BY <1>g, <1>c, <1>e DEF Types, Wires, Stops
<1>2. SendInv'
  BY <1>g, <1>c, <1>e DEF SendInv, Sender, Token
<1>3. TurnInv'
  BY <1>g, <1>c, <1>e DEF TurnInv, Coming, Using
<1>4. ClickInv'
  BY <1>g, <1>c, <1>e DEF ClickInv
<1>5. WireInv'
  BY <1>g, <1>c, <1>e DEF WireInv, SendInv, Sender
<1>6. IssuedInv'
  <2>1. \A tok \in Tokens : Issued(tok) => Issued(tok)'
    BY <1>g, <1>c, <1>e DEF Issued, Tokens, TurnInv
  <2> QED BY <2>1, <1>g, <1>c, <1>e, IssuedKept
<1>7. OnceInv'
  BY <1>g, <1>c, <1>e, OnceKept
<1>8. FeedInv'
  <2>1. \A d \in Conns : Alive(d)' => Alive(d)
    BY <1>g, <1>c, <1>e DEF Alive
  <2>2. token' # NoToken /\ Sender({"watch", "await", "result"})' =>
          /\ token' = token /\ sendlock' = sendlock /\ Sender({"watch", "await", "result"})
          /\ turn'[sendlock].conn = turn[sendlock].conn
    BY <1>g, <1>c, <1>e DEF Sender
  <2> QED BY <2>1, <2>2, <1>g, <1>c, <1>e, FeedKept
<1>9. GraceInv'
  BY <1>g, <1>c, <1>e DEF GraceInv, SendInv
<1>10. FreshInv'
  BY <1>g, <1>c, <1>e, Indices DEF FreshInv, Sender, Coming, Using
<1>11. CallbackInv'
  BY <1>g, <1>c, <1>e DEF CallbackInv, Sender
<1>12. CountInv'
  <2>1. ASSUME NEW d \in Conns
        PROVE  /\ Cardinality(AskedAt(conn[d].lines)) \in Nat /\ conn[d].replies \in Nat
               /\ conn[d].asked \in Nat /\ perms[d] \in Nat
    BY StateFields, ConnFields, AskedNumber
  <2>2. Cardinality(AskedAt(conn'[c].lines)) + 1 <= Cardinality(AskedAt(conn[c].lines))
    BY <1>g, <1>n
  <2>3. /\ conn'[c].replies + perms'[c] + Cardinality(AskedAt(conn'[c].lines)) <= conn'[c].asked
        /\ conn'[c].asked <= limit'.asks
    <3>1. /\ conn[c].replies + perms[c] + Cardinality(AskedAt(conn[c].lines)) <= conn[c].asked
          /\ conn[c].asked <= limit.asks
      BY <1>0, <2>1 DEF CountInv, Held
    <3>2. conn'[c].replies <= conn[c].replies + 1 /\ conn'[c].replies \in Nat
      BY <1>c, <2>1
    <3>3. /\ perms'[c] = perms[c] /\ limit' = limit /\ conn'[c].asked = conn[c].asked
          /\ Cardinality(AskedAt(conn'[c].lines)) \in Nat
      BY <1>g, <1>c, <1>n
    <3>4. /\ Cardinality(AskedAt(conn[c].lines)) \in Nat /\ conn[c].replies \in Nat
          /\ conn[c].asked \in Nat /\ perms[c] \in Nat
      BY <2>1
    <3> DEFINE x == Cardinality(AskedAt(conn[c].lines))
               y == Cardinality(AskedAt(conn'[c].lines))
    <3>5. conn[c].replies + perms[c] + x <= conn[c].asked /\ y + 1 <= x /\ x \in Nat /\ y \in Nat
      BY <2>2, <3>1, <3>3, <3>4
    <3> HIDE DEF x, y
    <3>6. conn'[c].replies + perms[c] + y <= conn[c].asked
      BY <3>2, <3>4, <3>5
    <3> QED BY <3>1, <3>3, <3>6 DEF y
  <2>4. /\ Held(c)' = 0
        /\ conn'[c].replies + perms'[c] + 0 = conn'[c].replies + perms'[c]
    <3>1. conn'[c].replies \in Nat /\ perms'[c] \in Nat
      BY <1>g, <1>c, <2>1
    <3> QED BY <1>0, <1>g, <3>1 DEF Held
  <2>5. ASSUME NEW d \in Conns, d # c
        PROVE  /\ conn'[d].replies + perms'[d] + Held(d)' + Cardinality(AskedAt(conn'[d].lines))
                    <= conn'[d].asked
               /\ conn'[d].asked <= limit'.asks
    BY <1>g, <1>c, <2>5 DEF CountInv, Held
  <2> QED BY <2>3, <2>4, <2>5 DEF CountInv
<1>13. SlotInv'
  BY <1>g, <1>c, <1>e, Indices DEF SlotInv, Sender, Coming, Using, Alive
<1>14. LostInv'
  BY <1>g, <1>c, <1>e, Indices DEF LostInv, Sender, Coming, Using
<1>15. FailInv'
  BY <1>g, <1>c, <1>e, Indices DEF FailInv
<1>16. FaultInv'
  BY <1>e, <1>f DEF FaultInv
<1>17. KeptInv'
  BY <1>g, <1>c, <1>e, Indices DEF KeptInv, Sender, Alive, Using, Coming
<1>18. NoStrayPermission'
  BY <1>g, <1>c, <1>e DEF NoStrayPermission, Stopped, Alive
<1>19. NoCollateral'
  BY <1>g, <1>c, <1>e, Indices DEF NoCollateral
<1> QED BY <1>1, <1>2, <1>3, <1>4, <1>5, <1>6, <1>7, <1>8, <1>9, <1>10,
           <1>11, <1>12, <1>13, <1>14, <1>15, <1>16, <1>17, <1>18, <1>19

\* The reader holds the question while it looks for the lock.
LEMMA HoldsStep ==
  ASSUME IInv, NEW c \in Conns, TakesAsk(c), conn[c].callback # 0
  PROVE  IInv'
<1> USE DEF IInv
<1>0. conn[c].reader = "read" /\ conn[c].lines # <<>>
  BY DEF TakesAsk, Reading
<1>l. /\ conn[c].lines # <<>> /\ conn[c].lines \in Seq(Said) /\ conn[c] \in ConnRecs
      /\ Head(conn[c].lines) = conn[c].lines[1] /\ Head(conn[c].lines) \in Said
      /\ conn[c].reader = "read" /\ 1 \in 1 .. Len(conn[c].lines)
  BY <1>0, StateFields, Tailed
<1>g. /\ Head(conn[c].lines).k = "ask" /\ conn[c].callback \in Turns
      /\ conn' = [conn EXCEPT ![c] = [conn[c] EXCEPT !.lines = Tail(conn[c].lines)]]
      /\ hand' = [hand EXCEPT ![c] = conn[c].callback] /\ hand[c] = 0
      /\ UNCHANGED <<limit, late, turn, sendlock, lock, active, slot, ready, token, notified,
                     shut, perms, wires, graces, stops>>
  BY <1>l, ConnFields DEF TakesAsk, Reading, adapter
<1>p. /\ hand' \in [Conns -> {0} \cup Turns] /\ hand'[c] # 0 /\ hand[c] = 0
      /\ \A d \in Conns \ {c} : hand'[d] = hand[d]
  BY <1>g, Places DEF Types
<1>c. /\ conn' \in [Conns -> ConnRecs] /\ \A d \in Conns \ {c} : conn'[d] = conn[d]
      /\ conn'[c].held = conn[c].held /\ conn'[c].alive = conn[c].alive
      /\ conn'[c].queue = conn[c].queue /\ conn'[c].work = conn[c].work
      /\ conn'[c].lines = Tail(conn[c].lines)
      /\ conn'[c].callback = conn[c].callback
      /\ conn'[c].reader = conn[c].reader /\ conn[c].reader # "new"
      /\ conn'[c].running = conn[c].running
      /\ conn'[c].faulty = conn[c].faulty
      /\ conn'[c].asked = conn[c].asked
      /\ conn'[c].replies = conn[c].replies
  <2> DEFINE q == Tail(conn[c].lines)
             r == [conn[c] EXCEPT !.lines = q]
  <2>1. q \in Seq(Said) /\ conn[c] \in ConnRecs
    BY <1>l, Tailed
  <2>2. conn' = [conn EXCEPT ![c] = r]
    BY <1>g
  <2> HIDE DEF q
  <2>3. /\ r \in ConnRecs /\ r.held = conn[c].held /\ r.alive = conn[c].alive
        /\ r.queue = conn[c].queue /\ r.work = conn[c].work /\ r.lines = q
        /\ r.callback = conn[c].callback /\ r.reader = conn[c].reader
        /\ r.running = conn[c].running /\ r.faulty = conn[c].faulty
        /\ r.asked = conn[c].asked /\ r.replies = conn[c].replies
    BY <2>1 DEF ConnRecs
  <2> HIDE DEF r
  <2>4. conn' \in [Conns -> ConnRecs] /\ conn'[c] = r /\ \A d \in Conns \ {c} : conn'[d] = conn[d]
    BY <2>2, <2>3, ConnStep
  <2> QED BY <1>l, <2>3, <2>4 DEF q
<1>e. /\ \A d \in Conns : Eased(d)
      /\ \A d \in Conns : Alive(d)' => Alive(d)
      /\ \A d \in Conns : conn'[d].reader = "new" <=> conn[d].reader = "new"
      /\ \A d \in Conns : conn'[d].callback # 0 => conn'[d].callback = conn[d].callback
      /\ \A d \in Conns : conn'[d].faulty = conn[d].faulty
  BY <1>g, <1>l, <1>c DEF Eased, Alive
<1>n. /\ Cardinality(AskedAt(conn'[c].lines)) + (IF Head(conn[c].lines).k = "ask" THEN 1 ELSE 0)
           <= Cardinality(AskedAt(conn[c].lines))
      /\ Cardinality(AskedAt(conn'[c].lines)) \in Nat
      /\ Cardinality(AskedAt(conn[c].lines)) \in Nat
  <2>1. /\ Cardinality(AskedAt(conn[c].lines)) \in Nat /\ Tail(conn[c].lines) \in Seq(Said)
        /\ Cardinality(AskedAt(Tail(conn[c].lines))) \in Nat
        /\ Cardinality(AskedAt(Tail(conn[c].lines)))
             + (IF Head(conn[c].lines).k = "ask" THEN 1 ELSE 0)
             <= Cardinality(AskedAt(conn[c].lines))
    BY <1>l, Tailed, AskedTail, AskedNumber
  <2> QED BY <1>c, <2>1
<1>f. \A d \in Conns : \A i \in 1 .. Len(conn'[d].lines) :
        conn'[d].lines[i].k = "failed" => conn[d].faulty
  <2> SUFFICES ASSUME NEW d \in Conns, NEW i \in 1 .. Len(conn'[d].lines),
                      conn'[d].lines[i].k = "failed"
               PROVE  conn[d].faulty
    OBVIOUS
  <2>1. CASE d # c
    BY <1>c, <2>1 DEF FaultInv
  <2>2. CASE d = c
    <3>2. conn'[d].lines = Tail(conn[c].lines)
      BY <1>c, <2>2
    <3>3. i + 1 \in 1 .. Len(conn[c].lines) /\ conn'[d].lines[i] = conn[c].lines[i + 1]
      BY <1>l, <3>2, Tailed
    <3> QED BY <2>2, <3>3 DEF FaultInv
  <2> QED BY <2>1, <2>2
<1>1. Types'
  BY <1>g, <1>p, <1>c, <1>e DEF Types, Wires, Stops
<1>2. SendInv'
  BY <1>g, <1>p, <1>c, <1>e DEF SendInv, Sender, Token
<1>3. TurnInv'
  BY <1>g, <1>p, <1>c, <1>e DEF TurnInv, Coming, Using
<1>4. ClickInv'
  BY <1>g, <1>p, <1>c, <1>e DEF ClickInv
<1>5. WireInv'
  BY <1>g, <1>p, <1>c, <1>e DEF WireInv, SendInv, Sender
<1>6. IssuedInv'
  <2>1. \A tok \in Tokens : Issued(tok) => Issued(tok)'
    BY <1>g, <1>p, <1>c, <1>e DEF Issued, Tokens, TurnInv
  <2> QED BY <2>1, <1>g, <1>p, <1>c, <1>e, IssuedKept
<1>7. OnceInv'
  BY <1>g, <1>p, <1>c, <1>e, OnceKept
<1>8. FeedInv'
  <2>1. \A d \in Conns : Alive(d)' => Alive(d)
    BY <1>g, <1>p, <1>c, <1>e DEF Alive
  <2>2. token' # NoToken /\ Sender({"watch", "await", "result"})' =>
          /\ token' = token /\ sendlock' = sendlock /\ Sender({"watch", "await", "result"})
          /\ turn'[sendlock].conn = turn[sendlock].conn
    BY <1>g, <1>p, <1>c, <1>e DEF Sender
  <2> QED BY <2>1, <2>2, <1>g, <1>p, <1>c, <1>e, FeedKept
<1>9. GraceInv'
  BY <1>g, <1>p, <1>c, <1>e DEF GraceInv, SendInv
<1>10. FreshInv'
  BY <1>g, <1>p, <1>c, <1>e, Indices DEF FreshInv, Sender, Coming, Using
<1>11. CallbackInv'
  BY <1>g, <1>p, <1>c, <1>e DEF CallbackInv, Sender
<1>12. CountInv'
  <2>1. ASSUME NEW d \in Conns
        PROVE  /\ Cardinality(AskedAt(conn[d].lines)) \in Nat /\ conn[d].replies \in Nat
               /\ conn[d].asked \in Nat /\ perms[d] \in Nat
    BY StateFields, ConnFields, AskedNumber
  <2> QED BY <1>g, <1>l, <1>c, <1>n, <2>1, <1>p, SMTT(60) DEF CountInv, Held
<1>13. SlotInv'
  BY <1>g, <1>p, <1>c, <1>e, Indices DEF SlotInv, Sender, Coming, Using, Alive
<1>14. LostInv'
  BY <1>g, <1>p, <1>c, <1>e, Indices DEF LostInv, Sender, Coming, Using
<1>15. FailInv'
  BY <1>g, <1>p, <1>c, <1>e, Indices DEF FailInv
<1>16. FaultInv'
  BY <1>e, <1>f DEF FaultInv
<1>17. KeptInv'
  BY <1>g, <1>p, <1>c, <1>e, Indices DEF KeptInv, Sender, Alive, Using, Coming
<1>18. NoStrayPermission'
  BY <1>g, <1>p, <1>c, <1>e DEF NoStrayPermission, Stopped, Alive, CallbackInv
<1>19. NoCollateral'
  BY <1>g, <1>p, <1>c, <1>e, Indices DEF NoCollateral
<1> QED BY <1>1, <1>2, <1>3, <1>4, <1>5, <1>6, <1>7, <1>8, <1>9, <1>10,
           <1>11, <1>12, <1>13, <1>14, <1>15, <1>16, <1>17, <1>18, <1>19

\* A question that comes to the lock after Stop is answered.
LEMMA RefusesStep ==
  ASSUME IInv, NEW c \in Conns, Permission(c), Refuse
  PROVE  IInv'
<1> USE DEF IInv
<1>l. conn[c] \in ConnRecs /\ conn[c].lines \in Seq(Said) /\ conn[c].reader # "new" /\ hand[c] # 0
  BY StateFields DEF Permission, FreshInv
<1>g. /\ conn' = [conn EXCEPT ![c] = [Resumed(c) EXCEPT !.replies = @ + IF Alive(c) THEN 1 ELSE 0]]
      /\ hand' = [hand EXCEPT ![c] = 0]
      /\ UNCHANGED <<limit, late, turn, sendlock, lock, active, slot, ready, token, notified,
                     shut, perms, wires, graces, stops>>
  BY DEF Permission, Refuse
<1>p. /\ hand' \in [Conns -> {0} \cup Turns] /\ hand'[c] = 0
      /\ \A d \in Conns \ {c} : hand'[d] = hand[d]
  BY <1>g DEF Types
<1>c. /\ conn' \in [Conns -> ConnRecs] /\ \A d \in Conns \ {c} : conn'[d] = conn[d]
      /\ conn'[c].held /\ conn'[c].alive => conn[c].held /\ conn[c].alive
      /\ \/ conn'[c].queue = conn[c].queue /\ conn'[c].work = conn[c].work
         \/ conn'[c].queue = <<>> /\ conn'[c].work = NoToken
      /\ conn'[c].lines \in {conn[c].lines, <<>>}
      /\ conn'[c].callback \in {conn[c].callback, 0}
      /\ conn'[c].reader # "new" /\ conn[c].reader # "new"
      /\ conn[c].running => conn'[c].held = conn[c].held /\ conn'[c].alive = conn[c].alive
                            /\ conn'[c].running
      /\ conn'[c].faulty = conn[c].faulty
      /\ conn'[c].asked = conn[c].asked
      /\ conn'[c].replies \in {conn[c].replies, conn[c].replies + 1}
  <2> DEFINE k == Resumed(c)
             n == k.replies + IF Alive(c) THEN 1 ELSE 0
             r == [k EXCEPT !.replies = n]
  <2>1. k \in ConnRecs /\ k.replies = conn[c].replies /\ conn[c].replies \in Nat
    BY <1>l, ResumedFields, ConnFields
  <2>2. conn' = [conn EXCEPT ![c] = r]
    BY <1>g
  <2>3. n \in Nat /\ n \in {conn[c].replies, conn[c].replies + 1}
    <3> HIDE DEF k
    <3> QED BY <2>1
  <2> HIDE DEF n
  <2>4. /\ r \in ConnRecs /\ r.held = k.held /\ r.alive = k.alive /\ r.running = k.running
        /\ r.reader = k.reader /\ r.callback = k.callback /\ r.lines = k.lines
        /\ r.asked = k.asked /\ r.queue = k.queue /\ r.work = k.work /\ r.faulty = k.faulty
        /\ r.replies = n
    <3> HIDE DEF k
    <3> QED BY <2>1, <2>3 DEF ConnRecs
  <2> HIDE DEF r
  <2>5. conn' \in [Conns -> ConnRecs] /\ conn'[c] = r /\ \A d \in Conns \ {c} : conn'[d] = conn[d]
    BY <2>2, <2>4, ConnStep
  <2> QED BY <1>l, <2>3, <2>4, <2>5, ResumedFields
<1>e. /\ \A d \in Conns : Eased(d)
      /\ \A d \in Conns : Alive(d)' => Alive(d)
      /\ \A d \in Conns : conn'[d].reader = "new" <=> conn[d].reader = "new"
      /\ \A d \in Conns : conn'[d].callback # 0 => conn'[d].callback = conn[d].callback
      /\ \A d \in Conns : conn'[d].faulty = conn[d].faulty
      /\ slot = c /\ ~shut /\ ~Sender({"released"}) /\ ~conn[c].faulty => conn[c].running
  BY <1>g, <1>l, <1>c, StoppedReader DEF Eased, Alive
<1>n. /\ Cardinality(AskedAt(conn'[c].lines)) <= Cardinality(AskedAt(conn[c].lines))
      /\ Cardinality(AskedAt(conn'[c].lines)) \in Nat
      /\ Cardinality(AskedAt(conn[c].lines)) \in Nat
  <2>1. Cardinality(AskedAt(conn[c].lines)) \in Nat
    BY <1>l, AskedNumber
  <2>2. CASE conn'[c].lines = conn[c].lines
    BY <2>1, <2>2
  <2>3. CASE conn'[c].lines = <<>>
    BY <2>1, <2>3, AskedNone
  <2> QED BY <1>c, <2>2, <2>3
<1>f. \A d \in Conns : \A i \in 1 .. Len(conn'[d].lines) :
        conn'[d].lines[i].k = "failed" => conn[d].faulty
  <2> SUFFICES ASSUME NEW d \in Conns, NEW i \in 1 .. Len(conn'[d].lines),
                      conn'[d].lines[i].k = "failed"
               PROVE  conn[d].faulty
    OBVIOUS
  <2>1. CASE d # c
    BY <1>c, <2>1 DEF FaultInv
  <2>2. CASE d = c
    <3>1. conn'[d].lines # <<>>
      OBVIOUS
    <3>2. conn'[d].lines = conn[c].lines
      BY <1>c, <2>2, <3>1
    <3> QED BY <2>2, <3>2 DEF FaultInv
  <2> QED BY <2>1, <2>2
<1>1. Types'
  BY <1>g, <1>p, <1>c, <1>e DEF Types, Wires, Stops
<1>2. SendInv'
  BY <1>g, <1>p, <1>c, <1>e DEF SendInv, Sender, Token
<1>3. TurnInv'
  BY <1>g, <1>p, <1>c, <1>e DEF TurnInv, Coming, Using
<1>4. ClickInv'
  BY <1>g, <1>p, <1>c, <1>e DEF ClickInv
<1>5. WireInv'
  BY <1>g, <1>p, <1>c, <1>e DEF WireInv, SendInv, Sender
<1>6. IssuedInv'
  <2>1. \A tok \in Tokens : Issued(tok) => Issued(tok)'
    BY <1>g, <1>p, <1>c, <1>e DEF Issued, Tokens, TurnInv
  <2> QED BY <2>1, <1>g, <1>p, <1>c, <1>e, IssuedKept
<1>7. OnceInv'
  BY <1>g, <1>p, <1>c, <1>e, OnceKept
<1>8. FeedInv'
  <2>1. \A d \in Conns : Alive(d)' => Alive(d)
    BY <1>g, <1>p, <1>c, <1>e DEF Alive
  <2>2. token' # NoToken /\ Sender({"watch", "await", "result"})' =>
          /\ token' = token /\ sendlock' = sendlock /\ Sender({"watch", "await", "result"})
          /\ turn'[sendlock].conn = turn[sendlock].conn
    BY <1>g, <1>p, <1>c, <1>e DEF Sender
  <2> QED BY <2>1, <2>2, <1>g, <1>p, <1>c, <1>e, FeedKept
<1>9. GraceInv'
  BY <1>g, <1>p, <1>c, <1>e DEF GraceInv, SendInv
<1>10. FreshInv'
  BY <1>g, <1>p, <1>c, <1>e, Indices DEF FreshInv, Sender, Coming, Using
<1>11. CallbackInv'
  BY <1>g, <1>p, <1>c, <1>e DEF CallbackInv, Sender
<1>12. CountInv'
  <2>1. ASSUME NEW d \in Conns
        PROVE  /\ Cardinality(AskedAt(conn[d].lines)) \in Nat /\ conn[d].replies \in Nat
               /\ conn[d].asked \in Nat /\ perms[d] \in Nat
    BY StateFields, ConnFields, AskedNumber
  <2> QED BY <1>g, <1>l, <1>c, <1>n, <2>1, <1>p, SMTT(60) DEF CountInv, Held
<1>13. SlotInv'
  BY <1>g, <1>p, <1>c, <1>e, Indices DEF SlotInv, Sender, Coming, Using, Alive
<1>14. LostInv'
  BY <1>g, <1>p, <1>c, <1>e, Indices DEF LostInv, Sender, Coming, Using
<1>15. FailInv'
  BY <1>g, <1>p, <1>c, <1>e, Indices DEF FailInv
<1>16. FaultInv'
  BY <1>e, <1>f DEF FaultInv
<1>17. KeptInv'
  BY <1>g, <1>p, <1>c, <1>e, Indices DEF KeptInv, Sender, Alive, Using, Coming
<1>18. NoStrayPermission'
  BY <1>g, <1>p, <1>c, <1>e DEF NoStrayPermission, Stopped, Alive, CallbackInv
<1>19. NoCollateral'
  BY <1>g, <1>p, <1>c, <1>e, Indices DEF NoCollateral
<1> QED BY <1>1, <1>2, <1>3, <1>4, <1>5, <1>6, <1>7, <1>8, <1>9, <1>10,
           <1>11, <1>12, <1>13, <1>14, <1>15, <1>16, <1>17, <1>18, <1>19

\* A question is handed to the user while no turn is stopped.  Should the turn
\* it was asked in have left, it is late.
LEMMA ForwardsStep ==
  ASSUME IInv, NEW c \in Conns, Permission(c), ~Refuse
  PROVE  IInv'
<1> USE DEF IInv
<1>l. conn[c] \in ConnRecs /\ conn[c].lines \in Seq(Said) /\ conn[c].reader # "new" /\ hand[c] # 0
  BY StateFields DEF Permission, FreshInv
<1>g. /\ ~Stopped /\ (active # 0 \/ c \in late') /\ late' \subseteq late \cup {c} /\ late \subseteq late'
      /\ conn' = [conn EXCEPT ![c] = Resumed(c)] /\ perms' = [perms EXCEPT ![c] = @ + 1]
      /\ hand' = [hand EXCEPT ![c] = 0]
      /\ UNCHANGED <<limit, turn, sendlock, lock, active, slot, ready, token, notified,
                     shut, wires, graces, stops>>
  BY <1>l DEF Permission, Refuse
<1>p. /\ perms' \in [Conns -> Nat] /\ perms'[c] = perms[c] + 1
      /\ \A d \in Conns \ {c} : perms'[d] = perms[d]
      /\ hand' \in [Conns -> {0} \cup Turns] /\ hand'[c] = 0
      /\ \A d \in Conns \ {c} : hand'[d] = hand[d]
      /\ late' \subseteq Conns
  BY <1>g DEF Types
<1>c. /\ conn' \in [Conns -> ConnRecs] /\ \A d \in Conns \ {c} : conn'[d] = conn[d]
      /\ conn'[c].held /\ conn'[c].alive => conn[c].held /\ conn[c].alive
      /\ \/ conn'[c].queue = conn[c].queue /\ conn'[c].work = conn[c].work
         \/ conn'[c].queue = <<>> /\ conn'[c].work = NoToken
      /\ conn'[c].lines \in {conn[c].lines, <<>>}
      /\ conn'[c].callback \in {conn[c].callback, 0}
      /\ conn'[c].reader # "new" /\ conn[c].reader # "new"
      /\ conn[c].running => conn'[c].held = conn[c].held /\ conn'[c].alive = conn[c].alive
                            /\ conn'[c].running
      /\ conn'[c].faulty = conn[c].faulty
      /\ conn'[c].asked = conn[c].asked
      /\ conn'[c].replies = conn[c].replies
  <2>1. conn' = [conn EXCEPT ![c] = Resumed(c)]
    BY <1>g
  <2>2. Resumed(c) \in ConnRecs
    BY <1>l, ResumedFields
  <2> HIDE DEF Resumed
  <2>3. conn' \in [Conns -> ConnRecs] /\ conn'[c] = Resumed(c) /\ \A d \in Conns \ {c} : conn'[d] = conn[d]
    BY <2>1, <2>2, ConnStep
  <2> QED BY <1>l, <2>3, ResumedFields
<1>e. /\ \A d \in Conns : Eased(d)
      /\ \A d \in Conns : Alive(d)' => Alive(d)
      /\ \A d \in Conns : conn'[d].reader = "new" <=> conn[d].reader = "new"
      /\ \A d \in Conns : conn'[d].callback # 0 => conn'[d].callback = conn[d].callback
      /\ \A d \in Conns : conn'[d].faulty = conn[d].faulty
      /\ slot = c /\ ~shut /\ ~Sender({"released"}) /\ ~conn[c].faulty => conn[c].running
  BY <1>g, <1>l, <1>c, StoppedReader DEF Eased, Alive
<1>n. /\ Cardinality(AskedAt(conn'[c].lines)) <= Cardinality(AskedAt(conn[c].lines))
      /\ Cardinality(AskedAt(conn'[c].lines)) \in Nat
      /\ Cardinality(AskedAt(conn[c].lines)) \in Nat
  <2>1. Cardinality(AskedAt(conn[c].lines)) \in Nat
    BY <1>l, AskedNumber
  <2>2. CASE conn'[c].lines = conn[c].lines
    BY <2>1, <2>2
  <2>3. CASE conn'[c].lines = <<>>
    BY <2>1, <2>3, AskedNone
  <2> QED BY <1>c, <2>2, <2>3
<1>f. \A d \in Conns : \A i \in 1 .. Len(conn'[d].lines) :
        conn'[d].lines[i].k = "failed" => conn[d].faulty
  <2> SUFFICES ASSUME NEW d \in Conns, NEW i \in 1 .. Len(conn'[d].lines),
                      conn'[d].lines[i].k = "failed"
               PROVE  conn[d].faulty
    OBVIOUS
  <2>1. CASE d # c
    BY <1>c, <2>1 DEF FaultInv
  <2>2. CASE d = c
    <3>1. conn'[d].lines # <<>>
      OBVIOUS
    <3>2. conn'[d].lines = conn[c].lines
      BY <1>c, <2>2, <3>1
    <3> QED BY <2>2, <3>2 DEF FaultInv
  <2> QED BY <2>1, <2>2
<1>1. Types'
  BY <1>g, <1>p, <1>c, <1>e DEF Types, Wires, Stops
<1>2. SendInv'
  BY <1>g, <1>p, <1>c, <1>e DEF SendInv, Sender, Token
<1>3. TurnInv'
  BY <1>g, <1>p, <1>c, <1>e DEF TurnInv, Coming, Using
<1>4. ClickInv'
  BY <1>g, <1>p, <1>c, <1>e DEF ClickInv
<1>5. WireInv'
  BY <1>g, <1>p, <1>c, <1>e DEF WireInv, SendInv, Sender
<1>6. IssuedInv'
  <2>1. \A tok \in Tokens : Issued(tok) => Issued(tok)'
    BY <1>g, <1>p, <1>c, <1>e DEF Issued, Tokens, TurnInv
  <2> QED BY <2>1, <1>g, <1>p, <1>c, <1>e, IssuedKept
<1>7. OnceInv'
  BY <1>g, <1>p, <1>c, <1>e, OnceKept
<1>8. FeedInv'
  <2>1. \A d \in Conns : Alive(d)' => Alive(d)
    BY <1>g, <1>p, <1>c, <1>e DEF Alive
  <2>2. token' # NoToken /\ Sender({"watch", "await", "result"})' =>
          /\ token' = token /\ sendlock' = sendlock /\ Sender({"watch", "await", "result"})
          /\ turn'[sendlock].conn = turn[sendlock].conn
    BY <1>g, <1>p, <1>c, <1>e DEF Sender
  <2> QED BY <2>1, <2>2, <1>g, <1>p, <1>c, <1>e, FeedKept
<1>9. GraceInv'
  BY <1>g, <1>p, <1>c, <1>e DEF GraceInv, SendInv
<1>10. FreshInv'
  BY <1>g, <1>p, <1>c, <1>e, Indices DEF FreshInv, Sender, Coming, Using
<1>11. CallbackInv'
  BY <1>g, <1>p, <1>c, <1>e DEF CallbackInv, Sender
<1>12. CountInv'
  <2>1. ASSUME NEW d \in Conns
        PROVE  /\ Cardinality(AskedAt(conn[d].lines)) \in Nat /\ conn[d].replies \in Nat
               /\ conn[d].asked \in Nat /\ perms[d] \in Nat
    BY StateFields, ConnFields, AskedNumber
  <2> QED BY <1>g, <1>l, <1>c, <1>n, <2>1, <1>p, SMTT(60) DEF CountInv, Held
<1>13. SlotInv'
  BY <1>g, <1>p, <1>c, <1>e, Indices DEF SlotInv, Sender, Coming, Using, Alive
<1>14. LostInv'
  BY <1>g, <1>p, <1>c, <1>e, Indices DEF LostInv, Sender, Coming, Using
<1>15. FailInv'
  BY <1>g, <1>p, <1>c, <1>e, Indices DEF FailInv
<1>16. FaultInv'
  BY <1>e, <1>f DEF FaultInv
<1>17. KeptInv'
  BY <1>g, <1>p, <1>c, <1>e, Indices DEF KeptInv, Sender, Alive, Using, Coming
<1>18. NoStrayPermission'
  BY <1>g, <1>p, <1>c, <1>e DEF NoStrayPermission, Stopped, Alive, CallbackInv
<1>19. NoCollateral'
  BY <1>g, <1>p, <1>c, <1>e, Indices DEF NoCollateral
<1> QED BY <1>1, <1>2, <1>3, <1>4, <1>5, <1>6, <1>7, <1>8, <1>9, <1>10,
           <1>11, <1>12, <1>13, <1>14, <1>15, <1>16, <1>17, <1>18, <1>19

LEMMA TakesAskStep ==
  ASSUME IInv, NEW c \in Conns, TakesAsk(c)
  PROVE  IInv'
BY AnsweredStep, HoldsStep

LEMMA PermissionStep ==
  ASSUME IInv, NEW c \in Conns, Permission(c)
  PROVE  IInv'
BY RefusesStep, ForwardsStep

\* The waiters a dead process leaves are failed; its turn lost the slot, or the
\* agent did die.
LEMMA ReaderExitsStep ==
  ASSUME IInv, NEW c \in Conns, ReaderExits(c)
  PROVE  IInv'
<1> USE DEF IInv
<1>g. /\ conn[c].reader = "read" /\ ~conn[c].alive
      /\ conn' = [conn EXCEPT ![c] = Exited(conn[c])] /\ turn' = Failed(c)
      /\ UNCHANGED <<limit, hand, late, sendlock, lock, active, slot, ready, token, notified, shut,
                     perms, wires, graces, stops>>
  BY DEF ReaderExits, adapter
<1>c. /\ conn' \in [Conns -> ConnRecs] /\ conn'[c] = Exited(conn[c])
      /\ \A d \in Conns \ {c} : conn'[d] = conn[d]
      /\ ~(conn'[c].held /\ conn'[c].alive)
      /\ \/ conn'[c].queue = conn[c].queue /\ conn'[c].work = conn[c].work
         \/ conn'[c].queue = <<>> /\ conn'[c].work = NoToken
      /\ conn'[c].lines = <<>> /\ conn'[c].callback = 0
      /\ conn'[c].reader = "gone" /\ conn'[c].faulty = conn[c].faulty
      /\ conn'[c].asked = conn[c].asked /\ conn'[c].replies = conn[c].replies
      /\ Cardinality(AskedAt(conn'[c].lines)) = 0
  BY <1>g, StateFields, ExitedFields, ConnStep, AskedNone
<1>e. /\ \A d \in Conns : Eased(d)
      /\ \A d \in Conns : Alive(d)' => Alive(d)
      /\ \A d \in Conns : conn'[d].faulty = conn[d].faulty
      /\ slot = c /\ ~shut /\ ~Sender({"released"}) => conn[c].faulty
  BY <1>g, <1>c, StoppedReader DEF Eased, Alive
<1>t. /\ turn' \in [Turns -> TurnRecs]
      /\ \A t \in Turns :
           /\ turn'[t].pc = turn[t].pc /\ turn'[t].conn = turn[t].conn
           /\ turn'[t].what = turn[t].what /\ turn'[t].cancelled = turn[t].cancelled
           /\ turn'[t].early = turn[t].early /\ turn'[t].out = turn[t].out
           /\ turn'[t].wait = IF turn[t].conn = c /\ turn[t].wait = "open"
                              THEN "failed" ELSE turn[t].wait
      /\ sendlock \in {0} \cup Turns /\ active = sendlock
      /\ \A w \in wires : w.by # UI => w.by \in Turns
      /\ \A g \in graces : token = g.token => sendlock \in Turns
  BY <1>g, FailedFields, Actors
<1>1. Types'
  BY <1>g, <1>t, <1>c, <1>e DEF Types, Wires, Stops
<1>2. SendInv'
  BY <1>g, <1>t, <1>c, <1>e DEF SendInv, Sender, Token
<1>3. TurnInv'
  BY <1>g, <1>t, <1>c, <1>e DEF TurnInv, Coming, Using
<1>4. ClickInv'
  BY <1>g, <1>t, <1>c, <1>e DEF ClickInv
<1>5. WireInv'
  BY <1>g, <1>t, <1>c, <1>e DEF WireInv, SendInv, Sender
<1>6. IssuedInv'
  <2>1. \A tok \in Tokens : Issued(tok) => Issued(tok)'
    BY <1>g, <1>t, <1>c, <1>e DEF Issued, Tokens, TurnInv
  <2> QED BY <2>1, <1>g, <1>t, <1>c, <1>e, IssuedKept
<1>7. OnceInv'
  BY <1>g, <1>t, <1>c, <1>e, OnceKept
<1>8. FeedInv'
  <2>1. \A d \in Conns : Alive(d)' => Alive(d)
    BY <1>g, <1>t, <1>c, <1>e DEF Alive
  <2>2. token' # NoToken /\ Sender({"watch", "await", "result"})' =>
          /\ token' = token /\ sendlock' = sendlock /\ Sender({"watch", "await", "result"})
          /\ turn'[sendlock].conn = turn[sendlock].conn
    BY <1>g, <1>t, <1>c, <1>e DEF Sender
  <2> QED BY <2>1, <2>2, <1>g, <1>t, <1>c, <1>e, FeedKept
<1>9. GraceInv'
  BY <1>g, <1>t, <1>c, <1>e DEF GraceInv, SendInv
<1>10. FreshInv'
  BY <1>g, <1>t, <1>c, <1>e, Indices DEF FreshInv, Sender, Coming, Using
<1>11. CallbackInv'
  BY <1>g, <1>t, <1>c, <1>e DEF CallbackInv, Sender
<1>12. CountInv'
  <2>1. ASSUME NEW d \in Conns
        PROVE  /\ Cardinality(AskedAt(conn[d].lines)) \in Nat /\ conn[d].replies \in Nat
               /\ conn[d].asked \in Nat /\ perms[d] \in Nat
    BY StateFields, ConnFields, AskedNumber
  <2> QED BY <1>g, <1>c, <2>1 DEF CountInv, Held
<1>13. SlotInv'
  BY <1>g, <1>t, <1>c, <1>e, Indices DEF SlotInv, Sender, Coming, Using, Alive
<1>14. LostInv'
  BY <1>g, <1>t, <1>c, <1>e, Indices DEF LostInv, Sender, Coming, Using
<1>15. FailInv'
  <2>1. \A t \in Turns : turn[t].wait = "open" /\ turn[t].conn = c =>
          conn[turn[t].conn].faulty \/ shut \/ turn[t].cancelled
    BY <1>g, SweptTurn DEF Alive
  <2>2. \A t \in Turns : turn[t].wait # "none" => turn[t].conn \in Conns
    BY Indices
  <2>3. \A t \in Turns : turn[t].out \in {"failed", "timeout", "error"} => turn[t].conn \in Conns
    BY Indices
  <2> QED BY <1>g, <1>t, <1>c, <2>1, <2>2, <2>3 DEF FailInv
<1>16. FaultInv'
  BY <1>g, <1>t, <1>c, <1>e DEF FaultInv
<1>17. KeptInv'
  BY <1>g, <1>t, <1>c, <1>e, Indices DEF KeptInv, Sender, Alive, Using, Coming
<1>18. NoStrayPermission'
  BY <1>g, <1>t, <1>c, <1>e DEF NoStrayPermission, Stopped, Alive
<1>19. NoCollateral'
  BY <1>g, <1>t, <1>c, <1>e, Indices DEF NoCollateral
<1> QED BY <1>1, <1>2, <1>3, <1>4, <1>5, <1>6, <1>7, <1>8, <1>9, <1>10,
           <1>11, <1>12, <1>13, <1>14, <1>15, <1>16, <1>17, <1>18, <1>19

\* Why those steps keep the invariant, whatever their reason.
LEMMA MovesStep ==
  ASSUME IInv, NEW t \in Turns, NEW r \in TurnRecs, Moves(t, r)
  PROVE  IInv'
<1> USE DEF IInv
<1>g. /\ turn' = [turn EXCEPT ![t] = r]
      /\ turn[t].pc \in {"ensure", "spawn", "owned", "request", "register", "opened", "result"}
      /\ turn[t].wait = "none"
      /\ r.cancelled = turn[t].cancelled /\ r.early = turn[t].early /\ r.wait = "none"
      /\ lock' = 0 /\ token' = NoToken /\ ready' \in BOOLEAN /\ (ready' => slot # 0)
      /\ UNCHANGED <<limit, hand, late, sendlock, active, slot, notified, shut, perms, conn, wires, graces>>
      /\ \A g \in graces : g.token # NoToken
      /\ \A d \in Conns : Eased(d)
  BY Places DEF Moves, TurnInv, Types, Eased
<1>t. /\ turn' \in [Turns -> TurnRecs] /\ turn'[t] = r
      /\ \A u \in Turns \ {t} : turn'[u] = turn[u]
  BY <1>g, TurnStep
<1>k. /\ sendlock = t /\ active = t /\ t # 0
      /\ turn[t].pc \in Using \cup Coming => turn[t].conn \in Conns
      /\ turn[t].pc = "ensure" /\ slot # 0 => conn[slot].reader # "new"
  BY <1>g, SenderIs, Indices DEF FreshInv, Sender, Coming
<1>s. /\ stops' \subseteq Stops /\ stops \subseteq stops'
      /\ \A s \in stops' : s \in stops \/
           (turn[t].pc \in Using /\ (slot # turn[t].conn \/ shut) /\ s.conn = turn[t].conn)
  BY DEF Moves, Types
<1>w. /\ turn[t].pc \in {"request", "register"} /\ (~Alive(turn[t].conn) \/ ~conn[turn[t].conn].running)
           => conn[turn[t].conn].faulty \/ shut \/ turn[t].cancelled
      /\ turn[t].pc \in {"owned", "request", "register", "result"} /\ slot = 0
           => shut \/ turn[t].cancelled
  BY <1>g, <1>k, SweptTurn DEF LostInv, Sender, Using
<1>m. \/ /\ r.pc = "spawn" /\ turn[t].pc = "ensure" /\ slot = 0
         /\ r.conn = turn[t].conn /\ r.what = turn[t].what /\ r.out = turn[t].out
      \/ /\ r.pc = "opened" /\ turn[t].what # "prompt" /\ (slot = 0 => shut \/ turn[t].cancelled)
         /\ r.conn = turn[t].conn /\ r.what = turn[t].what /\ r.out = turn[t].out
      \/ /\ r.pc = "request" /\ turn[t].pc \in {"ensure", "owned"} /\ slot # 0
         /\ r.conn = slot /\ r.what = "init" /\ r.out = "none"
      \/ /\ r.pc = "result" /\ turn[t].pc \in {"request", "register"}
         /\ (~Alive(turn[t].conn) \/ ~conn[turn[t].conn].running)
         /\ r.conn = turn[t].conn /\ r.what = turn[t].what /\ r.out = "failed"
      \/ /\ r.pc = "finish" /\ r.conn = turn[t].conn /\ r.what = turn[t].what
         /\ \/ r.out \in {"done", "unstarted"}
            \/ r.out = "stopped" /\ (shut \/ turn[t].cancelled)
            \/ r.out = "error" /\ conn[turn[t].conn].faulty /\ turn[t].conn # 0
  BY <1>w DEF Moves
<1>o. turn[t].pc = "owned" /\ Alive(turn[t].conn) =>
        (slot = turn[t].conn /\ ~shut) \/ (\E s \in stops' : s.conn = turn[t].conn)
  BY DEF Moves
<1>1. Types'
  BY <1>g, <1>t, <1>k, <1>m, <1>s DEF Types, Wires, Stops
<1>2. SendInv'
  BY <1>g, <1>t, <1>k, <1>m DEF SendInv, Sender, Token
<1>3. TurnInv'
  BY <1>g, <1>t, <1>k, <1>m DEF TurnInv, Coming, Using
<1>4. ClickInv'
  BY <1>g, <1>t, <1>k, <1>m DEF ClickInv
<1>5. WireInv'
  BY <1>g, <1>t, <1>k, <1>m DEF WireInv, SendInv, Sender
<1>6. IssuedInv'
  <2>1. \A tok \in Tokens : Issued(tok) => Issued(tok)'
    BY <1>g, <1>t, <1>k, <1>m DEF Issued, Tokens, TurnInv
  <2> QED BY <2>1, <1>g, <1>t, <1>k, <1>m, IssuedKept
<1>7. OnceInv'
  BY <1>g, <1>t, <1>k, <1>m, OnceKept
<1>8. FeedInv'
  BY <1>g, <1>t, <1>k, FeedKept
<1>9. GraceInv'
  BY <1>g, <1>t, <1>k, <1>m DEF GraceInv, SendInv
<1>10. FreshInv'
  BY <1>g, <1>t, <1>k, <1>m, Indices, <1>s DEF FreshInv, Sender, Coming, Using
<1>11. CallbackInv'
  BY <1>g, <1>t, <1>k, <1>m DEF CallbackInv, Sender
<1>12. CountInv'
  BY <1>g, <1>t, <1>k, <1>m DEF CountInv, Held
<1>13. SlotInv'
  BY <1>g, <1>t, <1>k, <1>m, Indices, <1>s DEF SlotInv, Sender, Coming, Using, Alive
<1>14. LostInv'
  BY <1>g, <1>t, <1>k, <1>m, Indices, <1>w DEF LostInv, Sender, Coming, Using
<1>15. FailInv'
  BY <1>g, <1>t, <1>k, <1>m, Indices, <1>w DEF FailInv
<1>16. FaultInv'
  BY <1>g, <1>t, <1>k, <1>m DEF FaultInv
<1>17. KeptInv'
  BY <1>g, <1>t, <1>k, <1>m, Indices, <1>s, <1>o DEF KeptInv, Sender, Alive, Using, Coming
<1>18. NoStrayPermission'
  BY <1>g, <1>t, <1>k, <1>m DEF NoStrayPermission, Stopped, Alive
<1>19. NoCollateral'
  BY <1>g, <1>t, <1>k, <1>m, Indices DEF NoCollateral
<1> QED BY <1>1, <1>2, <1>3, <1>4, <1>5, <1>6, <1>7, <1>8, <1>9, <1>10,
           <1>11, <1>12, <1>13, <1>14, <1>15, <1>16, <1>17, <1>18, <1>19

\* A connection that is dropped is stopped, and its permissions answered.
LEMMA DropsStep ==
  ASSUME IInv, NEW t \in Turns, NEW r \in TurnRecs, Drops(t, r)
  PROVE  IInv'
<1> USE DEF IInv
<1>g. /\ turn' = [turn EXCEPT ![t] = r] /\ turn[t].pc \in {"ensure", "result"} /\ turn[t].wait = "none"
      /\ slot # 0 /\ slot' = 0 /\ ready' = FALSE /\ perms' = NoPerms
      /\ conn' = Quiet(Settled, slot) /\ stops' = Stopping(t, slot)
      /\ r.cancelled = turn[t].cancelled /\ r.early = turn[t].early /\ r.wait = "none"
      /\ r.conn = turn[t].conn /\ r.what = turn[t].what
      /\ lock = 0 /\ lock' = 0 /\ token' = NoToken
      /\ UNCHANGED <<limit, hand, late, sendlock, active, notified, shut, wires, graces>>
      /\ \A g \in graces : g.token # NoToken
      /\ \/ turn[t].pc = "ensure" /\ r.pc = "spawn" /\ r.out = turn[t].out
         \/ /\ turn[t].pc = "result" /\ r.pc = "finish" /\ r.out = "error"
            /\ conn[turn[t].conn].faulty /\ turn[t].conn # 0
  BY Places DEF Drops, Drop, TurnInv, Types
<1>t. /\ turn' \in [Turns -> TurnRecs] /\ turn'[t] = r
      /\ \A u \in Turns \ {t} : turn'[u] = turn[u]
  BY <1>g, TurnStep
<1>k. /\ sendlock = t /\ active = t /\ t # 0
      /\ turn[t].pc = "result" => turn[t].conn \in Conns
  BY <1>g, SenderIs, Indices DEF Using
<1>p. perms' \in [Conns -> Nat] /\ \A d \in Conns : perms'[d] = 0
  BY <1>g DEF NoPerms
<1>s. /\ stops' \subseteq Stops /\ stops \subseteq stops'
      /\ \A s \in stops' : s \in stops \/ (slot # 0 /\ s.conn = slot)
      /\ slot # 0 => \E s \in stops' : s.conn = slot
  <2>1. slot # 0 => [by |-> t, conn |-> slot, pc |-> "sweep"] \in Stops
    BY <1>g DEF Types, Stops
  <2> QED BY <1>g, <2>1 DEF Stopping, Types
<1>c. /\ conn' \in [Conns -> ConnRecs]
      /\ \A d \in Conns :
           /\ Eased(d) /\ conn'[d].reader = conn[d].reader
           /\ conn'[d].held = conn[d].held /\ conn'[d].alive = conn[d].alive
           /\ conn'[d].running = conn[d].running /\ conn'[d].faulty = conn[d].faulty
           /\ conn'[d].lines = conn[d].lines /\ conn'[d].asked = conn[d].asked
           /\ conn'[d].replies = conn[d].replies + IF Alive(d) THEN perms[d] ELSE 0
           /\ conn'[d].callback = IF d = slot THEN 0 ELSE conn[d].callback
  <2>1. conn' = Quiet(Settled, slot)
    BY <1>g
  <2>2. slot \in {0} \cup Conns
    BY <1>g DEF Types
  <2> DEFINE cs == Settled
  <2>3. cs \in [Conns -> ConnRecs]
    BY SettledType
  <2>4. ASSUME NEW d \in Conns
        PROVE  /\ conn'[d].callback = IF d = slot THEN 0 ELSE cs[d].callback
               /\ conn'[d].held = cs[d].held /\ conn'[d].alive = cs[d].alive
               /\ conn'[d].running = cs[d].running /\ conn'[d].faulty = cs[d].faulty
               /\ conn'[d].queue = cs[d].queue /\ conn'[d].work = cs[d].work
               /\ conn'[d].reader = cs[d].reader /\ conn'[d].lines = cs[d].lines
               /\ conn'[d].asked = cs[d].asked /\ conn'[d].replies = cs[d].replies
    BY <2>1, <2>2, <2>3, QuietFields
  <2>5. conn' \in [Conns -> ConnRecs]
    BY <2>1, <2>2, <2>3, QuietType
  <2> QED BY <2>4, <2>5, SettledFields DEF Eased
<1>1. Types'
  BY <1>g, <1>t, <1>k, <1>p, <1>s, <1>c DEF Types, Wires, Stops
<1>2. SendInv'
  BY <1>g, <1>t, <1>k, <1>p, <1>s, <1>c DEF SendInv, Sender, Token
<1>3. TurnInv'
  BY <1>g, <1>t, <1>k, <1>p, <1>s, <1>c DEF TurnInv, Coming, Using
<1>4. ClickInv'
  BY <1>g, <1>t, <1>k, <1>p, <1>s, <1>c DEF ClickInv
<1>5. WireInv'
  BY <1>g, <1>t, <1>k, <1>p, <1>s, <1>c DEF WireInv, SendInv, Sender
<1>6. IssuedInv'
  <2>1. \A tok \in Tokens : Issued(tok) => Issued(tok)'
    BY <1>g, <1>t, <1>k, <1>p, <1>s, <1>c DEF Issued, Tokens, TurnInv
  <2> QED BY <2>1, <1>g, <1>t, <1>k, <1>p, <1>s, <1>c, IssuedKept
<1>7. OnceInv'
  BY <1>g, <1>t, <1>k, <1>p, <1>s, <1>c, OnceKept
<1>8. FeedInv'
  BY <1>g, <1>t, <1>k, <1>c, FeedKept
<1>9. GraceInv'
  BY <1>g, <1>t, <1>k, <1>p, <1>s, <1>c DEF GraceInv, SendInv
<1>10. FreshInv'
  BY <1>g, <1>t, <1>k, <1>p, <1>s, <1>c, Indices DEF FreshInv, Sender, Coming, Using
<1>11. CallbackInv'
  BY <1>g, <1>t, <1>k, <1>p, <1>s, <1>c DEF CallbackInv, Sender
<1>12. CountInv'
  <2>1. ASSUME NEW d \in Conns
        PROVE  /\ Cardinality(AskedAt(conn[d].lines)) \in Nat /\ conn[d].replies \in Nat
               /\ conn[d].asked \in Nat /\ perms[d] \in Nat
    BY StateFields, ConnFields, AskedNumber
  <2> QED BY <1>g, <1>c, <2>1 DEF CountInv, Held, NoPerms
<1>13. SlotInv'
  BY <1>g, <1>t, <1>k, <1>p, <1>s, <1>c, Indices DEF SlotInv, Sender, Coming, Using, Alive
<1>14. LostInv'
  BY <1>g, <1>t, <1>k, <1>p, <1>s, <1>c, Indices DEF LostInv, Sender, Coming, Using
<1>15. FailInv'
  BY <1>g, <1>t, <1>k, <1>p, <1>s, <1>c, Indices DEF FailInv
<1>16. FaultInv'
  BY <1>g, <1>t, <1>k, <1>p, <1>s, <1>c DEF FaultInv
<1>17. KeptInv'
  BY <1>g, <1>t, <1>k, <1>p, <1>s, <1>c, Indices DEF KeptInv, Sender, Alive, Using, Coming
<1>18. NoStrayPermission'
  BY <1>g, <1>t, <1>k, <1>p, <1>s, <1>c DEF NoStrayPermission, Stopped, Alive
<1>19. NoCollateral'
  BY <1>g, <1>t, <1>k, <1>p, <1>s, <1>c, Indices DEF NoCollateral
<1> QED BY <1>1, <1>2, <1>3, <1>4, <1>5, <1>6, <1>7, <1>8, <1>9, <1>10,
           <1>11, <1>12, <1>13, <1>14, <1>15, <1>16, <1>17, <1>18, <1>19

\* A connection that nobody has used is made.
LEMMA SpawnTakesStep ==
  ASSUME IInv, NEW t \in Turns, Spawn(t), ~Stopped, Unused # {}
  PROVE  IInv'
<1> USE DEF IInv
<1>u. Unused \subseteq Conns /\ Unused \subseteq Nat
  BY DEF Unused, Conns, Types
<1>p. PICK c : c = CHOOSE x \in Unused : \A d \in Unused : x <= d
  OBVIOUS
<1>m. c \in Unused
  <2>1. \E x \in Unused : \A d \in Unused : x <= d
    BY <1>u, LeastNat
  <2> QED BY <1>p, <2>1
<1>g. /\ turn[t].pc = "spawn" /\ lock = 0 /\ slot = 0 /\ c \in Conns /\ conn[c].reader = "new"
      /\ sendlock = t /\ active = t /\ t # 0 /\ token = NoToken /\ c # 0
      /\ turn' = [turn EXCEPT ![t].pc = "place", ![t].conn = c]
      /\ UNCHANGED <<limit, hand, late, sendlock, lock, active, slot, ready, token, notified,
                     shut, perms, conn, wires, graces, stops>>
      /\ \A d \in Conns : Eased(d)
  <2>1. turn[t].pc = "spawn" /\ lock = 0
    BY DEF Spawn, At, Unlocked
  <2>2. sendlock = t /\ active = t /\ t # 0
    BY <2>1, SenderIs
  <2>3. slot = 0 /\ token = NoToken
    BY <2>1, <2>2 DEF SlotInv, SendInv, Sender
  <2>4. c \in Conns /\ conn[c].reader = "new" /\ c # 0
    BY <1>u, <1>m, Places DEF Unused
  <2> QED BY <1>p, <2>1, <2>2, <2>3, <2>4 DEF Spawn, Eased, adapter
<1>o. turn[t].out = "none" /\ turn[t].wait = "none"
  BY <1>g DEF TurnInv
<1>r. [turn[t] EXCEPT !.pc = "place", !.conn = c] \in TurnRecs
  <2>1. turn[t] \in TurnRecs
    BY StateFields
  <2> QED BY <2>1, <1>g DEF TurnRecs, Pcs
<1>t. /\ turn' \in [Turns -> TurnRecs] /\ \A u \in Turns \ {t} : turn'[u] = turn[u]
      /\ turn'[t].pc = "place"
      /\ turn'[t].conn = c
      /\ turn'[t].what = turn[t].what
      /\ turn'[t].cancelled = turn[t].cancelled
      /\ turn'[t].early = turn[t].early
      /\ turn'[t].wait = turn[t].wait
      /\ turn'[t].out = turn[t].out
  <2> DEFINE r == [turn[t] EXCEPT !.pc = "place", !.conn = c]
  <2>1. turn' = [turn EXCEPT ![t] = r]
    BY <1>g
  <2>2. r \in TurnRecs
    BY <1>r
  <2>3. /\ r.pc = "place"
        /\ r.conn = c
        /\ r.what = turn[t].what
        /\ r.cancelled = turn[t].cancelled
        /\ r.early = turn[t].early
        /\ r.wait = turn[t].wait
        /\ r.out = turn[t].out
    BY StateFields DEF TurnRecs
  <2> HIDE DEF r
  <2> QED BY <2>1, <2>2, <2>3, TurnStep
<1>1. Types'
  BY <1>g, <1>t, <1>o DEF Types, Wires, Stops
<1>2. SendInv'
  BY <1>g, <1>t, <1>o DEF SendInv, Sender, Token
<1>3. TurnInv'
  BY <1>g, <1>t, <1>o DEF TurnInv, Coming, Using
<1>4. ClickInv'
  BY <1>g, <1>t, <1>o DEF ClickInv
<1>5. WireInv'
  BY <1>g, <1>t, <1>o DEF WireInv, SendInv, Sender
<1>6. IssuedInv'
  <2>1. \A tok \in Tokens : Issued(tok) => Issued(tok)'
    BY <1>g, <1>t, <1>o DEF Issued, Tokens, TurnInv
  <2> QED BY <2>1, <1>g, <1>t, <1>o, IssuedKept
<1>7. OnceInv'
  BY <1>g, <1>t, <1>o, OnceKept
<1>8. FeedInv'
  BY <1>g, <1>t, FeedKept
<1>9. GraceInv'
  BY <1>g, <1>t, <1>o DEF GraceInv, SendInv
<1>10. FreshInv'
  BY <1>g, <1>t, <1>o, Indices DEF FreshInv, Sender, Coming, Using
<1>11. CallbackInv'
  BY <1>g, <1>t, <1>o, Places DEF CallbackInv, Sender
<1>12. CountInv'
  BY <1>g, <1>t, <1>o DEF CountInv, Held
<1>13. SlotInv'
  BY <1>g, <1>t, <1>o, Indices DEF SlotInv, Sender, Coming, Using, Alive
<1>14. LostInv'
  BY <1>g, <1>t, <1>o, Indices DEF LostInv, Sender, Coming, Using
<1>15. FailInv'
  BY <1>g, <1>t, <1>o, Indices DEF FailInv
<1>16. FaultInv'
  BY <1>g, <1>t, <1>o DEF FaultInv
<1>17. KeptInv'
  BY <1>g, <1>t, <1>o, Indices, Places DEF KeptInv, Sender, Alive, Using, Coming
<1>18. NoStrayPermission'
  BY <1>g, <1>t, <1>o DEF NoStrayPermission, Stopped, Alive
<1>19. NoCollateral'
  BY <1>g, <1>t, <1>o, Indices DEF NoCollateral
<1> QED BY <1>1, <1>2, <1>3, <1>4, <1>5, <1>6, <1>7, <1>8, <1>9, <1>10,
           <1>11, <1>12, <1>13, <1>14, <1>15, <1>16, <1>17, <1>18, <1>19

\* The slot goes to a connection that nobody has used, so that nothing is
\* stopping it.
LEMMA PlaceStep ==
  ASSUME IInv, NEW t \in Turns, Place(t)
  PROVE  IInv'
<1> USE DEF IInv
<1>0. PICK c : c = turn[t].conn
  OBVIOUS
<1>g. /\ turn[t].pc = "place" /\ lock = 0 /\ slot = 0 /\ c \in Conns /\ conn[c].reader = "new"
      /\ sendlock = t /\ active = t /\ t # 0 /\ token = NoToken /\ c # 0 /\ turn[t].conn = c
      /\ turn' = [turn EXCEPT ![t].pc = "start"]
      /\ slot' = c /\ ready' = FALSE
      /\ UNCHANGED <<limit, hand, late, sendlock, lock, active, token, notified, shut, perms, conn,
                     wires, graces, stops>>
      /\ \A d \in Conns : Eased(d)
  <2>1. turn[t].pc = "place" /\ lock = 0
    BY DEF Place, At, Unlocked
  <2>2. sendlock = t /\ active = t /\ t # 0
    BY <2>1, SenderIs
  <2>3. slot = 0 /\ token = NoToken
    BY <2>1, <2>2 DEF SlotInv, SendInv, Sender
  <2>4. c \in Conns /\ conn[c].reader = "new" /\ c # 0
    BY <1>0, <2>1, StateFields, TurnFields DEF FreshInv, TurnInv
  <2> QED BY <1>0, <2>1, <2>2, <2>3, <2>4 DEF Place, To, Eased
<1>o. turn[t].out = "none" /\ turn[t].wait = "none"
  BY <1>g DEF TurnInv
<1>r. [turn[t] EXCEPT !.pc = "start"] \in TurnRecs
  <2>1. turn[t] \in TurnRecs
    BY StateFields
  <2> QED BY <2>1, <1>g DEF TurnRecs, Pcs
<1>t. /\ turn' \in [Turns -> TurnRecs] /\ \A u \in Turns \ {t} : turn'[u] = turn[u]
      /\ turn'[t].pc = "start"
      /\ turn'[t].conn = c
      /\ turn'[t].what = turn[t].what
      /\ turn'[t].cancelled = turn[t].cancelled
      /\ turn'[t].early = turn[t].early
      /\ turn'[t].wait = turn[t].wait
      /\ turn'[t].out = turn[t].out
  <2> DEFINE r == [turn[t] EXCEPT !.pc = "start"]
  <2>1. turn' = [turn EXCEPT ![t] = r]
    BY <1>g
  <2>2. r \in TurnRecs
    BY <1>r
  <2>3. /\ r.pc = "start"
        /\ r.conn = c
        /\ r.what = turn[t].what
        /\ r.cancelled = turn[t].cancelled
        /\ r.early = turn[t].early
        /\ r.wait = turn[t].wait
        /\ r.out = turn[t].out
    BY <1>g, StateFields DEF TurnRecs
  <2> HIDE DEF r
  <2> QED BY <2>1, <2>2, <2>3, TurnStep
<1>1. Types'
  BY <1>g, <1>t, <1>o DEF Types, Wires, Stops
<1>2. SendInv'
  BY <1>g, <1>t, <1>o DEF SendInv, Sender, Token
<1>3. TurnInv'
  BY <1>g, <1>t, <1>o DEF TurnInv, Coming, Using
<1>4. ClickInv'
  BY <1>g, <1>t, <1>o DEF ClickInv
<1>5. WireInv'
  BY <1>g, <1>t, <1>o DEF WireInv, SendInv, Sender
<1>6. IssuedInv'
  <2>1. \A tok \in Tokens : Issued(tok) => Issued(tok)'
    BY <1>g, <1>t, <1>o DEF Issued, Tokens, TurnInv
  <2> QED BY <2>1, <1>g, <1>t, <1>o, IssuedKept
<1>7. OnceInv'
  BY <1>g, <1>t, <1>o, OnceKept
<1>8. FeedInv'
  BY <1>g, <1>t, FeedKept
<1>9. GraceInv'
  BY <1>g, <1>t, <1>o DEF GraceInv, SendInv
<1>10. FreshInv'
  BY <1>g, <1>t, <1>o, Indices DEF FreshInv, Sender, Coming, Using
<1>11. CallbackInv'
  BY <1>g, <1>t, <1>o, Places DEF CallbackInv, Sender
<1>12. CountInv'
  BY <1>g, <1>t, <1>o DEF CountInv, Held
<1>13. SlotInv'
  <2>1. \A s \in stops : s.conn # c
    BY <1>g DEF FreshInv, Sender, Coming
  <2>2. turn'[t].pc = "start" /\ turn'[t].conn = c /\ sendlock' = t /\ slot' = c /\ t # 0
    BY <1>g, <1>t
  <2> QED BY <1>g, <2>1, <2>2 DEF SlotInv, Sender
<1>14. LostInv'
  BY <1>g, <1>t, <1>o, Indices DEF LostInv, Sender, Coming, Using
<1>15. FailInv'
  BY <1>g, <1>t, <1>o, Indices DEF FailInv
<1>16. FaultInv'
  BY <1>g, <1>t, <1>o DEF FaultInv
<1>17. KeptInv'
  BY <1>g, <1>t, <1>o, Indices, Places DEF KeptInv, Sender, Alive, Using, Coming
<1>18. NoStrayPermission'
  BY <1>g, <1>t, <1>o DEF NoStrayPermission, Stopped, Alive
<1>19. NoCollateral'
  BY <1>g, <1>t, <1>o, Indices DEF NoCollateral
<1> QED BY <1>1, <1>2, <1>3, <1>4, <1>5, <1>6, <1>7, <1>8, <1>9, <1>10,
           <1>11, <1>12, <1>13, <1>14, <1>15, <1>16, <1>17, <1>18, <1>19

\* A process comes up, in the hands of its turn.
LEMMA StartsStep ==
  ASSUME IInv, NEW t \in Turns, Starts(t)
  PROVE  IInv'
<1> USE DEF IInv
<1>0. PICK c : c = turn[t].conn
  OBVIOUS
<1>g. /\ turn[t].pc = "start" /\ sendlock = t /\ active = t /\ t # 0 /\ token = NoToken
      /\ c \in Conns /\ conn[c].reader = "new" /\ perms[c] = 0 /\ turn[t].conn = c /\ lock = 0
      /\ turn[t].out = "none" /\ turn[t].wait = "none" /\ (slot # 0 => slot = c)
      /\ (~shut => \A s \in stops : s.conn # slot)
      /\ turn' = [turn EXCEPT ![t].pc = "run"]
      /\ conn' = [conn EXCEPT ![c] = [conn[c] EXCEPT !.held = TRUE, !.alive = TRUE]]
      /\ UNCHANGED <<limit, hand, late, sendlock, lock, active, slot, ready, token, notified, shut,
                     perms, wires, graces, stops>>
  <2>1. turn[t].pc = "start"
    BY DEF Starts, At
  <2>2. sendlock = t /\ active = t /\ t # 0
    BY <2>1, SenderIs
  <2>3. token = NoToken /\ lock = 0 /\ turn[t].out = "none" /\ turn[t].wait = "none"
    BY <2>1, <2>2 DEF SendInv, Sender, TurnInv
  <2>4. turn[t].conn \in Conns
    BY <2>1, Indices DEF Coming
  <2>5. conn[c].reader = "new" /\ perms[c] = 0 /\ (slot # 0 => slot = c)
        /\ (~shut => \A s \in stops : s.conn # slot)
    BY <1>0, <2>1, <2>2, <2>4 DEF FreshInv, SlotInv, Sender, Coming
  <2> QED BY <1>0, <2>1, <2>2, <2>3, <2>4, <2>5 DEF Starts, To, adapter
<1>r. [turn[t] EXCEPT !.pc = "run"] \in TurnRecs
  <2>1. turn[t] \in TurnRecs
    BY StateFields
  <2> QED BY <2>1 DEF TurnRecs, Pcs
<1>t. /\ turn' \in [Turns -> TurnRecs] /\ \A u \in Turns \ {t} : turn'[u] = turn[u]
      /\ turn'[t].pc = "run"
      /\ turn'[t].conn = turn[t].conn
      /\ turn'[t].what = turn[t].what
      /\ turn'[t].cancelled = turn[t].cancelled
      /\ turn'[t].early = turn[t].early
      /\ turn'[t].wait = turn[t].wait
      /\ turn'[t].out = turn[t].out
  <2> DEFINE r == [turn[t] EXCEPT !.pc = "run"]
  <2>1. turn' = [turn EXCEPT ![t] = r]
    BY <1>g
  <2>2. r \in TurnRecs
    BY <1>r
  <2>3. /\ r.pc = "run"
        /\ r.conn = turn[t].conn
        /\ r.what = turn[t].what
        /\ r.cancelled = turn[t].cancelled
        /\ r.early = turn[t].early
        /\ r.wait = turn[t].wait
        /\ r.out = turn[t].out
    BY StateFields DEF TurnRecs
  <2> HIDE DEF r
  <2> QED BY <2>1, <2>2, <2>3, TurnStep
<1>c. /\ conn' \in [Conns -> ConnRecs] /\ \A d \in Conns \ {c} : conn'[d] = conn[d]
      /\ conn'[c].held = TRUE
      /\ conn'[c].running = conn[c].running
      /\ conn'[c].alive = TRUE
      /\ conn'[c].faulty = conn[c].faulty
      /\ conn'[c].queue = conn[c].queue
      /\ conn'[c].reader = conn[c].reader
      /\ conn'[c].callback = conn[c].callback
      /\ conn'[c].work = conn[c].work
      /\ conn'[c].lines = conn[c].lines
      /\ conn'[c].asked = conn[c].asked
      /\ conn'[c].replies = conn[c].replies
  <2>1. c \in Conns /\ conn[c] \in ConnRecs
    BY <1>g DEF Types
  <2> DEFINE r == [conn[c] EXCEPT !.held = TRUE, !.alive = TRUE]
  <2>2. r \in ConnRecs
    BY <1>g, <2>1 DEF ConnRecs
  <2>3. /\ r.held = TRUE
        /\ r.running = conn[c].running
        /\ r.alive = TRUE
        /\ r.faulty = conn[c].faulty
        /\ r.queue = conn[c].queue
        /\ r.reader = conn[c].reader
        /\ r.callback = conn[c].callback
        /\ r.work = conn[c].work
        /\ r.lines = conn[c].lines
        /\ r.asked = conn[c].asked
        /\ r.replies = conn[c].replies
    BY <2>1 DEF ConnRecs
  <2>4. conn' = [conn EXCEPT ![c] = r]
    BY <1>g
  <2> HIDE DEF r
  <2> QED BY <2>1, <2>2, <2>3, <2>4, ConnStep
<1>e. \A d \in Conns : Eased(d)
  BY <1>g, <1>c DEF Eased
<1>1. Types'
  BY <1>g, <1>t, <1>c, <1>e DEF Types, Wires, Stops
<1>2. SendInv'
  BY <1>g, <1>t, <1>c, <1>e DEF SendInv, Sender, Token
<1>3. TurnInv'
  BY <1>g, <1>t, <1>c, <1>e DEF TurnInv, Coming, Using
<1>4. ClickInv'
  BY <1>g, <1>t, <1>c, <1>e DEF ClickInv
<1>5. WireInv'
  BY <1>g, <1>t, <1>c, <1>e DEF WireInv, SendInv, Sender
<1>6. IssuedInv'
  <2>1. \A tok \in Tokens : Issued(tok) => Issued(tok)'
    BY <1>g, <1>t, <1>c, <1>e DEF Issued, Tokens, TurnInv
  <2> QED BY <2>1, <1>g, <1>t, <1>c, <1>e, IssuedKept
<1>7. OnceInv'
  BY <1>g, <1>t, <1>c, <1>e, OnceKept
<1>8. FeedInv'
  BY <1>g, <1>t, <1>e, FeedKept
<1>9. GraceInv'
  BY <1>g, <1>t, <1>c, <1>e DEF GraceInv, SendInv
<1>10. FreshInv'
  BY <1>g, <1>t, <1>c, <1>e, Indices DEF FreshInv, Sender, Coming, Using
<1>11. CallbackInv'
  BY <1>g, <1>t, <1>c, <1>e DEF CallbackInv, Sender
<1>12. CountInv'
  BY <1>g, <1>t, <1>c, <1>e DEF CountInv, Held
<1>13. SlotInv'
  BY <1>g, <1>t, <1>c, <1>e, Indices DEF SlotInv, Sender, Coming, Using, Alive
<1>14. LostInv'
  BY <1>g, <1>t, <1>c, <1>e, Indices DEF LostInv, Sender, Coming, Using
<1>15. FailInv'
  BY <1>g, <1>t, <1>c, <1>e, Indices DEF FailInv
<1>16. FaultInv'
  BY <1>g, <1>t, <1>c, <1>e DEF FaultInv
<1>17. KeptInv'
  BY <1>g, <1>t, <1>c, <1>e, Indices DEF KeptInv, Sender, Alive, Using, Coming
<1>18. NoStrayPermission'
  BY <1>g, <1>t, <1>c, <1>e DEF NoStrayPermission, Stopped, Alive
<1>19. NoCollateral'
  BY <1>g, <1>t, <1>c, <1>e, Indices DEF NoCollateral
<1> QED BY <1>1, <1>2, <1>3, <1>4, <1>5, <1>6, <1>7, <1>8, <1>9, <1>10,
           <1>11, <1>12, <1>13, <1>14, <1>15, <1>16, <1>17, <1>18, <1>19

\* The threads of a new process start.
LEMMA RunsStep ==
  ASSUME IInv, NEW t \in Turns, Runs(t)
  PROVE  IInv'
<1> USE DEF IInv
<1>0. PICK c : c = turn[t].conn
  OBVIOUS
<1>g. /\ turn[t].pc = "run" /\ sendlock = t /\ active = t /\ t # 0 /\ token = NoToken
      /\ c \in Conns /\ conn[c].reader = "new" /\ perms[c] = 0 /\ turn[t].conn = c /\ lock = 0
      /\ turn[t].out = "none" /\ turn[t].wait = "none" /\ (slot # 0 => slot = c)
      /\ (~shut => \A s \in stops : s.conn # slot)
      /\ turn' = [turn EXCEPT ![t].pc = "owned"]
      /\ conn' = [conn EXCEPT ![c] = [conn[c] EXCEPT !.running = TRUE, !.reader = "read"]]
      /\ UNCHANGED <<limit, hand, late, sendlock, lock, active, slot, ready, token, notified, shut,
                     perms, wires, graces, stops>>
  <2>1. turn[t].pc = "run"
    BY DEF Runs, At
  <2>2. sendlock = t /\ active = t /\ t # 0
    BY <2>1, SenderIs
  <2>3. token = NoToken /\ lock = 0 /\ turn[t].out = "none" /\ turn[t].wait = "none"
    BY <2>1, <2>2 DEF SendInv, Sender, TurnInv
  <2>4. turn[t].conn \in Conns
    BY <2>1, Indices DEF Coming
  <2>5. conn[c].reader = "new" /\ perms[c] = 0 /\ (slot # 0 => slot = c)
        /\ (~shut => \A s \in stops : s.conn # slot)
    BY <1>0, <2>1, <2>2, <2>4 DEF FreshInv, SlotInv, Sender, Coming
  <2> QED BY <1>0, <2>1, <2>2, <2>3, <2>4, <2>5 DEF Runs, To, adapter
<1>r. [turn[t] EXCEPT !.pc = "owned"] \in TurnRecs
  <2>1. turn[t] \in TurnRecs
    BY StateFields
  <2> QED BY <2>1 DEF TurnRecs, Pcs
<1>t. /\ turn' \in [Turns -> TurnRecs] /\ \A u \in Turns \ {t} : turn'[u] = turn[u]
      /\ turn'[t].pc = "owned"
      /\ turn'[t].conn = turn[t].conn
      /\ turn'[t].what = turn[t].what
      /\ turn'[t].cancelled = turn[t].cancelled
      /\ turn'[t].early = turn[t].early
      /\ turn'[t].wait = turn[t].wait
      /\ turn'[t].out = turn[t].out
  <2> DEFINE r == [turn[t] EXCEPT !.pc = "owned"]
  <2>1. turn' = [turn EXCEPT ![t] = r]
    BY <1>g
  <2>2. r \in TurnRecs
    BY <1>r
  <2>3. /\ r.pc = "owned"
        /\ r.conn = turn[t].conn
        /\ r.what = turn[t].what
        /\ r.cancelled = turn[t].cancelled
        /\ r.early = turn[t].early
        /\ r.wait = turn[t].wait
        /\ r.out = turn[t].out
    BY StateFields DEF TurnRecs
  <2> HIDE DEF r
  <2> QED BY <2>1, <2>2, <2>3, TurnStep
<1>c. /\ conn' \in [Conns -> ConnRecs] /\ \A d \in Conns \ {c} : conn'[d] = conn[d]
      /\ conn'[c].held = conn[c].held
      /\ conn'[c].running = TRUE
      /\ conn'[c].alive = conn[c].alive
      /\ conn'[c].faulty = conn[c].faulty
      /\ conn'[c].queue = conn[c].queue
      /\ conn'[c].reader = "read"
      /\ conn'[c].callback = conn[c].callback
      /\ conn'[c].work = conn[c].work
      /\ conn'[c].lines = conn[c].lines
      /\ conn'[c].asked = conn[c].asked
      /\ conn'[c].replies = conn[c].replies
  <2>1. c \in Conns /\ conn[c] \in ConnRecs
    BY <1>g DEF Types
  <2> DEFINE r == [conn[c] EXCEPT !.running = TRUE, !.reader = "read"]
  <2>2. r \in ConnRecs
    BY <1>g, <2>1 DEF ConnRecs
  <2>3. /\ r.held = conn[c].held
        /\ r.running = TRUE
        /\ r.alive = conn[c].alive
        /\ r.faulty = conn[c].faulty
        /\ r.queue = conn[c].queue
        /\ r.reader = "read"
        /\ r.callback = conn[c].callback
        /\ r.work = conn[c].work
        /\ r.lines = conn[c].lines
        /\ r.asked = conn[c].asked
        /\ r.replies = conn[c].replies
    BY <2>1 DEF ConnRecs
  <2>4. conn' = [conn EXCEPT ![c] = r]
    BY <1>g
  <2> HIDE DEF r
  <2> QED BY <2>1, <2>2, <2>3, <2>4, ConnStep
<1>e. /\ \A d \in Conns : Eased(d)
      /\ \A d \in Conns : Alive(d)' => Alive(d)
  BY <1>g, <1>c DEF Eased, Alive
<1>1. Types'
  BY <1>g, <1>t, <1>c, <1>e DEF Types, Wires, Stops
<1>2. SendInv'
  BY <1>g, <1>t, <1>c, <1>e DEF SendInv, Sender, Token
<1>3. TurnInv'
  BY <1>g, <1>t, <1>c, <1>e DEF TurnInv, Coming, Using
<1>4. ClickInv'
  BY <1>g, <1>t, <1>c, <1>e DEF ClickInv
<1>5. WireInv'
  BY <1>g, <1>t, <1>c, <1>e DEF WireInv, SendInv, Sender
<1>6. IssuedInv'
  <2>1. \A tok \in Tokens : Issued(tok) => Issued(tok)'
    BY <1>g, <1>t, <1>c, <1>e DEF Issued, Tokens, TurnInv
  <2> QED BY <2>1, <1>g, <1>t, <1>c, <1>e, IssuedKept
<1>7. OnceInv'
  BY <1>g, <1>t, <1>c, <1>e, OnceKept
<1>8. FeedInv'
  BY <1>g, <1>t, <1>e, FeedKept
<1>9. GraceInv'
  BY <1>g, <1>t, <1>c, <1>e DEF GraceInv, SendInv
<1>10. FreshInv'
  <2>1. \A s \in stops : s.conn \in Conns /\ (s.conn # c => conn[s.conn].reader # "new")
    BY <1>g, Indices DEF FreshInv
  <2>2. \A s \in stops : conn'[s.conn].reader # "new"
    BY <1>c, <2>1
  <2>3. slot # 0 => conn'[slot].reader # "new"
    BY <1>g, <1>c
  <2>4. \A u \in Turns : turn'[u].pc \in {"place"} \cup Coming => conn'[turn'[u].conn].reader = "new"
    BY <1>g, <1>t, SenderIs DEF Coming
  <2>5. \A u \in Turns \ {t} : turn'[u].pc \notin Using
    BY <1>g, <1>t, SenderIs DEF Using
  <2>6. \A d \in Conns : conn'[d].reader = "new" => perms'[d] = 0 /\ hand'[d] = 0
    BY <1>g, <1>c DEF FreshInv
  <2> QED BY <1>g, <1>t, <1>c, <2>2, <2>3, <2>4, <2>5, <2>6 DEF FreshInv, Coming, Using
<1>11. CallbackInv'
  BY <1>g, <1>t, <1>c, <1>e DEF CallbackInv, Sender
<1>12. CountInv'
  BY <1>g, <1>t, <1>c, <1>e DEF CountInv, Held
<1>13. SlotInv'
  BY <1>g, <1>t, <1>c, <1>e, Indices DEF SlotInv, Sender, Coming, Using, Alive
<1>14. LostInv'
  BY <1>g, <1>t, <1>c, <1>e, Indices DEF LostInv, Sender, Coming, Using
<1>15. FailInv'
  BY <1>g, <1>t, <1>c, <1>e, Indices DEF FailInv
<1>16. FaultInv'
  BY <1>g, <1>t, <1>c, <1>e DEF FaultInv
<1>17. KeptInv'
  BY <1>g, <1>t, <1>c, <1>e, Indices DEF KeptInv, Sender, Alive, Using, Coming
<1>18. NoStrayPermission'
  BY <1>g, <1>t, <1>c, <1>e DEF NoStrayPermission, Stopped, Alive
<1>19. NoCollateral'
  BY <1>g, <1>t, <1>c, <1>e, Indices DEF NoCollateral
<1> QED BY <1>1, <1>2, <1>3, <1>4, <1>5, <1>6, <1>7, <1>8, <1>9, <1>10,
           <1>11, <1>12, <1>13, <1>14, <1>15, <1>16, <1>17, <1>18, <1>19

\* A spawn that fails costs its own turn.
LEMMA StartFailsStep ==
  ASSUME IInv, NEW t \in Turns, StartFails(t)
  PROVE  IInv'
<1> USE DEF IInv
<1>0. PICK c : c = turn[t].conn
  OBVIOUS
<1>g. /\ turn[t].pc = "start" /\ sendlock = t /\ active = t /\ t # 0 /\ token = NoToken
      /\ c \in Conns /\ conn[c].reader = "new" /\ perms[c] = 0 /\ turn[t].conn = c /\ lock = 0
      /\ turn[t].out = "none" /\ turn[t].wait = "none" /\ (slot # 0 => slot = c)
      /\ (~shut => \A s \in stops : s.conn # slot)
      /\ turn' = [turn EXCEPT ![t].pc = "finish", ![t].out = IF Stopped THEN "stopped" ELSE "error"]
      /\ conn' = [conn EXCEPT ![c] = [conn[c] EXCEPT !.reader = "gone", !.faulty = TRUE]]
      /\ UNCHANGED <<limit, hand, late, sendlock, lock, active, slot, ready, token, notified, shut,
                     perms, wires, graces, stops>>
  <2>1. turn[t].pc = "start"
    BY DEF StartFails, At
  <2>2. sendlock = t /\ active = t /\ t # 0
    BY <2>1, SenderIs
  <2>3. token = NoToken /\ lock = 0 /\ turn[t].out = "none" /\ turn[t].wait = "none"
    BY <2>1, <2>2 DEF SendInv, Sender, TurnInv
  <2>4. turn[t].conn \in Conns
    BY <2>1, Indices DEF Coming
  <2>5. conn[c].reader = "new" /\ perms[c] = 0 /\ (slot # 0 => slot = c)
        /\ (~shut => \A s \in stops : s.conn # slot)
    BY <1>0, <2>1, <2>2, <2>4 DEF FreshInv, SlotInv, Sender, Coming
  <2> QED BY <1>0, <2>1, <2>2, <2>3, <2>4, <2>5 DEF StartFails, Report, Out, adapter
<1>x. PICK x : x = IF Stopped THEN "stopped" ELSE "error"
  OBVIOUS
<1>y. x \in {"stopped", "error"} /\ (x = "stopped" => shut \/ turn[t].cancelled) /\ c # 0
      /\ turn' = [turn EXCEPT ![t].pc = "finish", ![t].out = x]
  BY <1>g, <1>x, Places DEF Stopped
<1>r. [turn[t] EXCEPT !.pc = "finish", !.out = x] \in TurnRecs
  <2>1. turn[t] \in TurnRecs
    BY StateFields
  <2> QED BY <2>1, <1>y DEF TurnRecs, Pcs
<1>t. /\ turn' \in [Turns -> TurnRecs] /\ \A u \in Turns \ {t} : turn'[u] = turn[u]
      /\ turn'[t].pc = "finish"
      /\ turn'[t].conn = turn[t].conn
      /\ turn'[t].what = turn[t].what
      /\ turn'[t].cancelled = turn[t].cancelled
      /\ turn'[t].early = turn[t].early
      /\ turn'[t].wait = turn[t].wait
      /\ turn'[t].out = x
  <2> DEFINE r == [turn[t] EXCEPT !.pc = "finish", !.out = x]
  <2>1. turn' = [turn EXCEPT ![t] = r]
    BY <1>g, <1>y
  <2>2. r \in TurnRecs
    BY <1>r
  <2>3. /\ r.pc = "finish"
        /\ r.conn = turn[t].conn
        /\ r.what = turn[t].what
        /\ r.cancelled = turn[t].cancelled
        /\ r.early = turn[t].early
        /\ r.wait = turn[t].wait
        /\ r.out = x
    BY StateFields DEF TurnRecs
  <2> HIDE DEF r
  <2> QED BY <2>1, <2>2, <2>3, TurnStep
<1>c. /\ conn' \in [Conns -> ConnRecs] /\ \A d \in Conns \ {c} : conn'[d] = conn[d]
      /\ conn'[c].held = conn[c].held
      /\ conn'[c].running = conn[c].running
      /\ conn'[c].alive = conn[c].alive
      /\ conn'[c].faulty = TRUE
      /\ conn'[c].queue = conn[c].queue
      /\ conn'[c].reader = "gone"
      /\ conn'[c].callback = conn[c].callback
      /\ conn'[c].work = conn[c].work
      /\ conn'[c].lines = conn[c].lines
      /\ conn'[c].asked = conn[c].asked
      /\ conn'[c].replies = conn[c].replies
  <2>1. c \in Conns /\ conn[c] \in ConnRecs
    BY <1>g DEF Types
  <2> DEFINE r == [conn[c] EXCEPT !.reader = "gone", !.faulty = TRUE]
  <2>2. r \in ConnRecs
    BY <1>g, <2>1 DEF ConnRecs
  <2>3. /\ r.held = conn[c].held
        /\ r.running = conn[c].running
        /\ r.alive = conn[c].alive
        /\ r.faulty = TRUE
        /\ r.queue = conn[c].queue
        /\ r.reader = "gone"
        /\ r.callback = conn[c].callback
        /\ r.work = conn[c].work
        /\ r.lines = conn[c].lines
        /\ r.asked = conn[c].asked
        /\ r.replies = conn[c].replies
    BY <2>1 DEF ConnRecs
  <2>4. conn' = [conn EXCEPT ![c] = r]
    BY <1>g
  <2> HIDE DEF r
  <2> QED BY <2>1, <2>2, <2>3, <2>4, ConnStep
<1>e. /\ \A d \in Conns : Eased(d)
      /\ \A d \in Conns : Alive(d)' => Alive(d)
  BY <1>g, <1>c DEF Eased, Alive
<1>1. Types'
  BY <1>g, <1>y, <1>t, <1>c, <1>e DEF Types, Wires, Stops
<1>2. SendInv'
  BY <1>g, <1>y, <1>t, <1>c, <1>e DEF SendInv, Sender, Token
<1>3. TurnInv'
  BY <1>g, <1>y, <1>t, <1>c, <1>e DEF TurnInv, Coming, Using
<1>4. ClickInv'
  BY <1>g, <1>y, <1>t, <1>c, <1>e DEF ClickInv
<1>5. WireInv'
  BY <1>g, <1>y, <1>t, <1>c, <1>e DEF WireInv, SendInv, Sender
<1>6. IssuedInv'
  <2>1. \A tok \in Tokens : Issued(tok) => Issued(tok)'
    BY <1>g, <1>y, <1>t, <1>c, <1>e DEF Issued, Tokens, TurnInv
  <2> QED BY <2>1, <1>g, <1>y, <1>t, <1>c, <1>e, IssuedKept
<1>7. OnceInv'
  BY <1>g, <1>y, <1>t, <1>c, <1>e, OnceKept
<1>8. FeedInv'
  BY <1>g, <1>t, <1>e, FeedKept
<1>9. GraceInv'
  BY <1>g, <1>y, <1>t, <1>c, <1>e DEF GraceInv, SendInv
<1>10. FreshInv'
  <2>1. \A s \in stops : s.conn \in Conns /\ (s.conn # c => conn[s.conn].reader # "new")
    BY <1>g, Indices DEF FreshInv
  <2>2. \A s \in stops : conn'[s.conn].reader # "new"
    BY <1>c, <2>1
  <2>3. slot # 0 => conn'[slot].reader # "new"
    BY <1>g, <1>c
  <2>4. \A u \in Turns : turn'[u].pc \in {"place"} \cup Coming => conn'[turn'[u].conn].reader = "new"
    BY <1>g, <1>t, SenderIs DEF Coming
  <2>5. \A u \in Turns \ {t} : turn'[u].pc \notin Using
    BY <1>g, <1>t, SenderIs DEF Using
  <2>6. \A d \in Conns : conn'[d].reader = "new" => perms'[d] = 0 /\ hand'[d] = 0
    BY <1>g, <1>c DEF FreshInv
  <2> QED BY <1>g, <1>t, <1>c, <2>2, <2>3, <2>4, <2>5, <2>6 DEF FreshInv, Coming, Using
<1>11. CallbackInv'
  BY <1>g, <1>y, <1>t, <1>c, <1>e DEF CallbackInv, Sender
<1>12. CountInv'
  BY <1>g, <1>y, <1>t, <1>c, <1>e DEF CountInv, Held
<1>13. SlotInv'
  BY <1>g, <1>y, <1>t, <1>c, <1>e, Indices DEF SlotInv, Sender, Coming, Using, Alive
<1>14. LostInv'
  BY <1>g, <1>y, <1>t, <1>c, <1>e, Indices DEF LostInv, Sender, Coming, Using
<1>15. FailInv'
  BY <1>g, <1>y, <1>t, <1>c, <1>e, Indices DEF FailInv
<1>16. FaultInv'
  BY <1>g, <1>y, <1>t, <1>c, <1>e DEF FaultInv
<1>17. KeptInv'
  BY <1>g, <1>y, <1>t, <1>c, <1>e, Indices DEF KeptInv, Sender, Alive, Using, Coming
<1>18. NoStrayPermission'
  BY <1>g, <1>y, <1>t, <1>c, <1>e DEF NoStrayPermission, Stopped, Alive
<1>19. NoCollateral'
  BY <1>g, <1>y, <1>t, <1>c, <1>e, Indices DEF NoCollateral
<1> QED BY <1>1, <1>2, <1>3, <1>4, <1>5, <1>6, <1>7, <1>8, <1>9, <1>10,
           <1>11, <1>12, <1>13, <1>14, <1>15, <1>16, <1>17, <1>18, <1>19

\* A token comes into use: no line, wire or grace speaks of it yet, and no stop
\* is under way.
LEMMA BeginsStep ==
  ASSUME IInv, NEW t \in Turns, Request(t), ~Stopped, Alive(turn[t].conn)
  PROVE  IInv'
<1> USE DEF IInv
<1>0. PICK mine : mine = Token(t)
  OBVIOUS
<1>g. /\ turn[t].pc = "request" /\ sendlock = t /\ active = t /\ t # 0 /\ lock = 0
      /\ ~turn[t].cancelled /\ wires = {} /\ turn[t].wait = "none" /\ turn[t].out = "none"
      /\ mine \in Tokens /\ mine.t = t /\ mine.what = turn[t].what /\ ~Issued(mine)
      /\ turn' = [turn EXCEPT ![t].pc = "register"] /\ token' = mine /\ lock' = t
      /\ UNCHANGED <<limit, hand, late, sendlock, active, slot, ready, notified, shut, perms, conn,
                     wires, graces, stops>>
      /\ \A d \in Conns : Eased(d)
  <2>1. turn[t].pc = "request" /\ lock = 0
    BY DEF Request, At, Unlocked
  <2>2. sendlock = t /\ active = t /\ t # 0
    BY <2>1, SenderIs
  <2>3. ~turn[t].cancelled
    BY <2>2 DEF Stopped
  <2>4. wires = {}
    BY <2>1, <2>2, <2>3 DEF WireInv
  <2>5. mine \in Tokens /\ mine.t = t /\ mine.what = turn[t].what
    BY <1>0, <2>1 DEF Token, Tokens, TurnInv
  <2>6. ~Issued(mine)
    BY <2>1, <2>5 DEF Issued
  <2> QED BY <1>0, <2>1, <2>2, <2>3, <2>4, <2>5, <2>6 DEF Request, Begin, To, TurnInv, Eased
<1>r. [turn[t] EXCEPT !.pc = "register"] \in TurnRecs
  <2>1. turn[t] \in TurnRecs
    BY StateFields
  <2> QED BY <2>1 DEF TurnRecs, Pcs
<1>t. /\ turn' \in [Turns -> TurnRecs] /\ \A u \in Turns \ {t} : turn'[u] = turn[u]
      /\ turn'[t].pc = "register"
      /\ turn'[t].conn = turn[t].conn
      /\ turn'[t].what = turn[t].what
      /\ turn'[t].cancelled = turn[t].cancelled
      /\ turn'[t].early = turn[t].early
      /\ turn'[t].wait = turn[t].wait
      /\ turn'[t].out = turn[t].out
  <2> DEFINE r == [turn[t] EXCEPT !.pc = "register"]
  <2>1. turn' = [turn EXCEPT ![t] = r]
    BY <1>g
  <2>2. r \in TurnRecs
    BY <1>r
  <2>3. /\ r.pc = "register"
        /\ r.conn = turn[t].conn
        /\ r.what = turn[t].what
        /\ r.cancelled = turn[t].cancelled
        /\ r.early = turn[t].early
        /\ r.wait = turn[t].wait
        /\ r.out = turn[t].out
    BY StateFields DEF TurnRecs
  <2> HIDE DEF r
  <2> QED BY <2>1, <2>2, <2>3, TurnStep
<1>1. Types'
  BY <1>g, <1>t DEF Types, Wires, Stops
<1>2. SendInv'
  <2>1. mine = Token(t)'
    BY <1>g, <1>t, <1>0 DEF Token
  <2> QED BY <1>g, <1>t, <2>1 DEF SendInv, Sender, Token
<1>3. TurnInv'
  BY <1>g, <1>t DEF TurnInv, Coming, Using
<1>4. ClickInv'
  BY <1>g, <1>t DEF ClickInv
<1>5. WireInv'
  BY <1>g, <1>t DEF WireInv, SendInv, Sender
<1>6. IssuedInv'
  <2>1. \A tok \in Tokens : Issued(tok) => Issued(tok)'
    BY <1>g, <1>t DEF Issued, Tokens, TurnInv
  <2> QED BY <2>1, <1>g, <1>t, IssuedKept
<1>7. OnceInv'
  <2>1. ASSUME NEW d \in Conns, NEW i \in 1 .. Len(conn[d].queue),
               conn[d].queue[i] = Line("cancel", mine)
        PROVE  FALSE
    BY <1>g, <2>1 DEF IssuedInv, Line
  <2>2. \A d \in Conns : ~Cancels(d, mine)
    BY <2>1 DEF Cancels
  <2> QED BY <1>g, <2>2 DEF OnceInv, Cancels
<1>8. FeedInv'
  BY <1>g, <1>t, FeedKept DEF Sender
<1>9. GraceInv'
  BY <1>g DEF GraceInv, IssuedInv
<1>10. FreshInv'
  BY <1>g, <1>t, Indices DEF FreshInv, Sender, Coming, Using
<1>11. CallbackInv'
  BY <1>g, <1>t DEF CallbackInv, Sender
<1>12. CountInv'
  BY <1>g, <1>t DEF CountInv, Held
<1>13. SlotInv'
  BY <1>g, <1>t, Indices DEF SlotInv, Sender, Coming, Using, Alive
<1>14. LostInv'
  BY <1>g, <1>t, Indices DEF LostInv, Sender, Coming, Using
<1>15. FailInv'
  BY <1>g, <1>t, Indices DEF FailInv
<1>16. FaultInv'
  BY <1>g, <1>t DEF FaultInv
<1>17. KeptInv'
  BY <1>g, <1>t, Indices DEF KeptInv, Sender, Alive, Using, Coming
<1>18. NoStrayPermission'
  BY <1>g, <1>t DEF NoStrayPermission, Stopped, Alive
<1>19. NoCollateral'
  BY <1>g, <1>t, Indices DEF NoCollateral
<1> QED BY <1>1, <1>2, <1>3, <1>4, <1>5, <1>6, <1>7, <1>8, <1>9, <1>10,
           <1>11, <1>12, <1>13, <1>14, <1>15, <1>16, <1>17, <1>18, <1>19

\* A waiter is registered on a connection no sweep has passed.
LEMMA RegistersStep ==
  ASSUME IInv, NEW t \in Turns, Register(t), ~Swept(t)
  PROVE  IInv'
<1> USE DEF IInv
<1>g. /\ turn[t].pc = "register" /\ sendlock = t /\ active = t /\ t # 0
      /\ turn[t].out = "none"
      /\ turn' = [turn EXCEPT ![t].pc = "enqueue", ![t].wait = "open"]
      /\ UNCHANGED <<limit, hand, late, sendlock, lock, active, slot, ready, token, notified, shut,
                     perms, conn, wires, graces, stops>>
      /\ \A d \in Conns : Eased(d)
  <2>1. turn[t].pc = "register"
    BY DEF Register, At
  <2> QED BY <2>1, SenderIs DEF Register, TurnInv, Eased
<1>r. [turn[t] EXCEPT !.pc = "enqueue", !.wait = "open"] \in TurnRecs
  <2>1. turn[t] \in TurnRecs
    BY StateFields
  <2> QED BY <2>1 DEF TurnRecs, Pcs
<1>t. /\ turn' \in [Turns -> TurnRecs] /\ \A u \in Turns \ {t} : turn'[u] = turn[u]
      /\ turn'[t].pc = "enqueue"
      /\ turn'[t].conn = turn[t].conn
      /\ turn'[t].what = turn[t].what
      /\ turn'[t].cancelled = turn[t].cancelled
      /\ turn'[t].early = turn[t].early
      /\ turn'[t].wait = "open"
      /\ turn'[t].out = turn[t].out
  <2> DEFINE r == [turn[t] EXCEPT !.pc = "enqueue", !.wait = "open"]
  <2>1. turn' = [turn EXCEPT ![t] = r]
    BY <1>g
  <2>2. r \in TurnRecs
    BY <1>r
  <2>3. /\ r.pc = "enqueue"
        /\ r.conn = turn[t].conn
        /\ r.what = turn[t].what
        /\ r.cancelled = turn[t].cancelled
        /\ r.early = turn[t].early
        /\ r.wait = "open"
        /\ r.out = turn[t].out
    BY StateFields DEF TurnRecs
  <2> HIDE DEF r
  <2> QED BY <2>1, <2>2, <2>3, TurnStep
<1>1. Types'
  BY <1>g, <1>t DEF Types, Wires, Stops
<1>2. SendInv'
  BY <1>g, <1>t DEF SendInv, Sender, Token
<1>3. TurnInv'
  BY <1>g, <1>t DEF TurnInv, Coming, Using
<1>4. ClickInv'
  BY <1>g, <1>t DEF ClickInv
<1>5. WireInv'
  BY <1>g, <1>t DEF WireInv, SendInv, Sender
<1>6. IssuedInv'
  <2>1. \A tok \in Tokens : Issued(tok) => Issued(tok)'
    BY <1>g, <1>t DEF Issued, Tokens, TurnInv
  <2> QED BY <2>1, <1>g, <1>t, IssuedKept
<1>7. OnceInv'
  BY <1>g, <1>t, OnceKept
<1>8. FeedInv'
  BY <1>g, <1>t, FeedKept DEF Sender
<1>9. GraceInv'
  BY <1>g, <1>t DEF GraceInv, SendInv
<1>10. FreshInv'
  BY <1>g, <1>t, Indices DEF FreshInv, Sender, Coming, Using
<1>11. CallbackInv'
  BY <1>g, <1>t DEF CallbackInv, Sender
<1>12. CountInv'
  BY <1>g, <1>t DEF CountInv, Held
<1>13. SlotInv'
  BY <1>g, <1>t, Indices DEF SlotInv, Sender, Coming, Using, Alive
<1>14. LostInv'
  BY <1>g, <1>t, Indices DEF LostInv, Sender, Coming, Using
<1>15. FailInv'
  BY <1>g, <1>t, Indices DEF FailInv
<1>16. FaultInv'
  BY <1>g, <1>t DEF FaultInv
<1>17. KeptInv'
  BY <1>g, <1>t, Indices DEF KeptInv, Sender, Alive, Using, Coming
<1>18. NoStrayPermission'
  BY <1>g, <1>t DEF NoStrayPermission, Stopped, Alive
<1>19. NoCollateral'
  BY <1>g, <1>t, Indices DEF NoCollateral
<1> QED BY <1>1, <1>2, <1>3, <1>4, <1>5, <1>6, <1>7, <1>8, <1>9, <1>10,
           <1>11, <1>12, <1>13, <1>14, <1>15, <1>16, <1>17, <1>18, <1>19

\* A silent agent is at fault.
LEMMA SilenceStep ==
  ASSUME IInv, NEW t \in Turns, Silence(t)
  PROVE  IInv'
<1> USE DEF IInv
<1>0. PICK c : c = turn[t].conn
  OBVIOUS
<1>g. /\ turn[t].pc = "await" /\ sendlock = t /\ active = t /\ t # 0 /\ turn[t].wait = "open"
      /\ turn' = [turn EXCEPT ![t].wait = "timeout"] /\ c \in Conns /\ turn[t].conn = c
      /\ conn' = [conn EXCEPT ![c] = [conn[c] EXCEPT !.faulty = TRUE]]
      /\ UNCHANGED <<limit, hand, late, sendlock, lock, active, slot, ready, token, notified, shut,
                     perms, wires, graces, stops>>
  <2>1. turn[t].pc = "await"
    BY DEF Silence, At
  <2>2. turn[t].conn \in Conns
    BY <2>1, Indices DEF Using
  <2> QED BY <1>0, <2>1, <2>2, SenderIs DEF Silence, adapter
<1>r. [turn[t] EXCEPT !.wait = "timeout"] \in TurnRecs
  <2>1. turn[t] \in TurnRecs
    BY StateFields
  <2> QED BY <2>1 DEF TurnRecs, Pcs
<1>t. /\ turn' \in [Turns -> TurnRecs] /\ \A u \in Turns \ {t} : turn'[u] = turn[u]
      /\ turn'[t].pc = turn[t].pc
      /\ turn'[t].conn = turn[t].conn
      /\ turn'[t].what = turn[t].what
      /\ turn'[t].cancelled = turn[t].cancelled
      /\ turn'[t].early = turn[t].early
      /\ turn'[t].wait = "timeout"
      /\ turn'[t].out = turn[t].out
  <2> DEFINE r == [turn[t] EXCEPT !.wait = "timeout"]
  <2>1. turn' = [turn EXCEPT ![t] = r]
    BY <1>g
  <2>2. r \in TurnRecs
    BY <1>r
  <2>3. /\ r.pc = turn[t].pc
        /\ r.conn = turn[t].conn
        /\ r.what = turn[t].what
        /\ r.cancelled = turn[t].cancelled
        /\ r.early = turn[t].early
        /\ r.wait = "timeout"
        /\ r.out = turn[t].out
    BY StateFields DEF TurnRecs
  <2> HIDE DEF r
  <2> QED BY <2>1, <2>2, <2>3, TurnStep
<1>c. /\ conn' \in [Conns -> ConnRecs] /\ \A d \in Conns \ {c} : conn'[d] = conn[d]
      /\ conn'[c].held = conn[c].held
      /\ conn'[c].running = conn[c].running
      /\ conn'[c].alive = conn[c].alive
      /\ conn'[c].faulty = TRUE
      /\ conn'[c].queue = conn[c].queue
      /\ conn'[c].reader = conn[c].reader
      /\ conn'[c].callback = conn[c].callback
      /\ conn'[c].work = conn[c].work
      /\ conn'[c].lines = conn[c].lines
      /\ conn'[c].asked = conn[c].asked
      /\ conn'[c].replies = conn[c].replies
  <2>1. c \in Conns /\ conn[c] \in ConnRecs
    BY <1>g DEF Types
  <2> DEFINE r == [conn[c] EXCEPT !.faulty = TRUE]
  <2>2. r \in ConnRecs
    BY <1>g, <2>1 DEF ConnRecs
  <2>3. /\ r.held = conn[c].held
        /\ r.running = conn[c].running
        /\ r.alive = conn[c].alive
        /\ r.faulty = TRUE
        /\ r.queue = conn[c].queue
        /\ r.reader = conn[c].reader
        /\ r.callback = conn[c].callback
        /\ r.work = conn[c].work
        /\ r.lines = conn[c].lines
        /\ r.asked = conn[c].asked
        /\ r.replies = conn[c].replies
    BY <2>1 DEF ConnRecs
  <2>4. conn' = [conn EXCEPT ![c] = r]
    BY <1>g
  <2> HIDE DEF r
  <2> QED BY <2>1, <2>2, <2>3, <2>4, ConnStep
<1>e. /\ \A d \in Conns : Eased(d)
      /\ \A d \in Conns : Alive(d)' => Alive(d)
  BY <1>g, <1>c DEF Eased, Alive
<1>1. Types'
  BY <1>g, <1>t, <1>c, <1>e DEF Types, Wires, Stops
<1>2. SendInv'
  BY <1>g, <1>t, <1>c, <1>e DEF SendInv, Sender, Token
<1>3. TurnInv'
  BY <1>g, <1>t, <1>c, <1>e DEF TurnInv, Coming, Using
<1>4. ClickInv'
  BY <1>g, <1>t, <1>c, <1>e DEF ClickInv
<1>5. WireInv'
  BY <1>g, <1>t, <1>c, <1>e DEF WireInv, SendInv, Sender
<1>6. IssuedInv'
  <2>1. \A tok \in Tokens : Issued(tok) => Issued(tok)'
    BY <1>g, <1>t, <1>c, <1>e DEF Issued, Tokens, TurnInv
  <2> QED BY <2>1, <1>g, <1>t, <1>c, <1>e, IssuedKept
<1>7. OnceInv'
  BY <1>g, <1>t, <1>c, <1>e, OnceKept
<1>8. FeedInv'
  <2>1. \A d \in Conns : Alive(d)' => Alive(d)
    BY <1>g, <1>t, <1>c, <1>e DEF Alive
  <2>2. token' # NoToken /\ Sender({"watch", "await", "result"})' =>
          /\ token' = token /\ sendlock' = sendlock /\ Sender({"watch", "await", "result"})
          /\ turn'[sendlock].conn = turn[sendlock].conn
    BY <1>g, <1>t, <1>c, <1>e DEF Sender
  <2> QED BY <2>1, <2>2, <1>g, <1>t, <1>c, <1>e, FeedKept
<1>9. GraceInv'
  BY <1>g, <1>t, <1>c, <1>e DEF GraceInv, SendInv
<1>10. FreshInv'
  BY <1>g, <1>t, <1>c, <1>e, Indices DEF FreshInv, Sender, Coming, Using
<1>11. CallbackInv'
  BY <1>g, <1>t, <1>c, <1>e DEF CallbackInv, Sender
<1>12. CountInv'
  BY <1>g, <1>t, <1>c, <1>e DEF CountInv, Held
<1>13. SlotInv'
  BY <1>g, <1>t, <1>c, <1>e, Indices DEF SlotInv, Sender, Coming, Using, Alive
<1>14. LostInv'
  BY <1>g, <1>t, <1>c, <1>e, Indices DEF LostInv, Sender, Coming, Using
<1>15. FailInv'
  BY <1>g, <1>t, <1>c, <1>e, Indices DEF FailInv
<1>16. FaultInv'
  BY <1>g, <1>t, <1>c, <1>e DEF FaultInv
<1>17. KeptInv'
  BY <1>g, <1>t, <1>c, <1>e, Indices DEF KeptInv, Sender, Alive, Using, Coming
<1>18. NoStrayPermission'
  BY <1>g, <1>t, <1>c, <1>e DEF NoStrayPermission, Stopped, Alive
<1>19. NoCollateral'
  BY <1>g, <1>t, <1>c, <1>e, Indices DEF NoCollateral
<1> QED BY <1>1, <1>2, <1>3, <1>4, <1>5, <1>6, <1>7, <1>8, <1>9, <1>10,
           <1>11, <1>12, <1>13, <1>14, <1>15, <1>16, <1>17, <1>18, <1>19

\* The wait is over; the wire this thread may run is that of a stopped turn.
LEMMA AwaitStep ==
  ASSUME IInv, NEW t \in Turns, Await(t)
  PROVE  IInv'
<1> USE DEF IInv
<1> DEFINE W == [by |-> t, token |-> NoToken, conn |-> 0, pc |-> "decide"]
<1>0. PICK x : x = turn[t].wait
  OBVIOUS
<1>g. /\ turn[t].pc = "await" /\ sendlock = t /\ active = t /\ t # 0
      /\ x \in {"ok", "failed", "timeout"} /\ turn[t].wait = x /\ lock = 0
      /\ turn[t].conn # 0 /\ turn[t].conn \in Conns /\ (turn[t].early => turn[t].cancelled)
      /\ turn' = [turn EXCEPT ![t].pc = "result", ![t].early = FALSE, ![t].out = x, ![t].wait = "none"]
      /\ UNCHANGED <<limit, hand, late, sendlock, lock, active, slot, ready, token, notified, shut,
                     perms, conn, graces, stops>>
      /\ \A d \in Conns : Eased(d)
  <2>1. turn[t].pc = "await" /\ lock = 0 /\ x # "open"
    BY <1>0 DEF Await, At, Unlocked
  <2>2. x \in {"ok", "failed", "timeout"}
    BY <1>0, <2>1, StateFields, TurnFields DEF TurnInv
  <2>3. turn[t].conn \in Conns
    BY <2>1, Indices DEF Using
  <2> QED BY <1>0, <2>1, <2>2, <2>3, SenderIs, Places DEF Await, adapter, TurnInv, Eased
<1>w. /\ W \in Wires /\ W.pc = "decide" /\ W.token = NoToken /\ W.by = t
      /\ wires' \in {wires, wires \cup {W}} /\ (wires' # wires => turn[t].cancelled)
  BY <1>g DEF Await, Wire, Wires
<1> HIDE DEF W
<1>r. [turn[t] EXCEPT !.pc = "result", !.early = FALSE, !.out = x, !.wait = "none"] \in TurnRecs
  <2>1. turn[t] \in TurnRecs
    BY StateFields
  <2> QED BY <2>1, <1>g DEF TurnRecs, Pcs
<1>t. /\ turn' \in [Turns -> TurnRecs] /\ \A u \in Turns \ {t} : turn'[u] = turn[u]
      /\ turn'[t].pc = "result"
      /\ turn'[t].conn = turn[t].conn
      /\ turn'[t].what = turn[t].what
      /\ turn'[t].cancelled = turn[t].cancelled
      /\ turn'[t].early = FALSE
      /\ turn'[t].wait = "none"
      /\ turn'[t].out = x
  <2> DEFINE r == [turn[t] EXCEPT !.pc = "result", !.early = FALSE, !.out = x, !.wait = "none"]
  <2>1. turn' = [turn EXCEPT ![t] = r]
    BY <1>g
  <2>2. r \in TurnRecs
    BY <1>r
  <2>3. /\ r.pc = "result"
        /\ r.conn = turn[t].conn
        /\ r.what = turn[t].what
        /\ r.cancelled = turn[t].cancelled
        /\ r.early = FALSE
        /\ r.wait = "none"
        /\ r.out = x
    BY StateFields DEF TurnRecs
  <2> HIDE DEF r
  <2> QED BY <2>1, <2>2, <2>3, TurnStep
<1>1. Types'
  BY <1>g, <1>t, <1>w DEF Types, Wires, Stops
<1>2. SendInv'
  BY <1>g, <1>t, <1>w DEF SendInv, Sender, Token
<1>3. TurnInv'
  BY <1>g, <1>t, <1>w DEF TurnInv, Coming, Using
<1>4. ClickInv'
  BY <1>g, <1>t, <1>w DEF ClickInv
<1>5. WireInv'
  <2>1. \A v \in wires : v.by # UI => v.by = t /\ turn[t].cancelled
    BY <1>g DEF WireInv
  <2>2. \A v \in wires : v.by = UI =>
          \A u \in Turns : turn'[u].pc \in {"idle", "done"} \/ turn'[u].cancelled
    BY <1>g, <1>t DEF WireInv
  <2>3. \A v \in wires' : v \in wires \/ (v.by # UI /\ v.by = t /\ turn[t].cancelled)
    BY <1>g, <1>w, Places
  <2> QED BY <1>g, <1>t, <2>1, <2>2, <2>3 DEF WireInv
<1>6. IssuedInv'
  <2>1. \A tok \in Tokens : Issued(tok) => Issued(tok)'
    BY <1>g, <1>t, <1>w DEF Issued, Tokens, TurnInv
  <2> QED BY <2>1, <1>g, <1>t, <1>w, IssuedKept
<1>7. OnceInv'
  BY <1>g, <1>t, <1>w, OnceKept
<1>8. FeedInv'
  <2>1. \A d \in Conns : Alive(d)' => Alive(d)
    BY <1>g, <1>t, <1>w DEF Alive
  <2>2. token' # NoToken /\ Sender({"watch", "await", "result"})' =>
          /\ token' = token /\ sendlock' = sendlock /\ Sender({"watch", "await", "result"})
          /\ turn'[sendlock].conn = turn[sendlock].conn
    BY <1>g, <1>t, <1>w DEF Sender
  <2> QED BY <2>1, <2>2, <1>g, <1>t, <1>w, FeedKept
<1>9. GraceInv'
  BY <1>g, <1>t, <1>w DEF GraceInv, SendInv
<1>10. FreshInv'
  BY <1>g, <1>t, <1>w, Indices DEF FreshInv, Sender, Coming, Using
<1>11. CallbackInv'
  BY <1>g, <1>t, <1>w DEF CallbackInv, Sender
<1>12. CountInv'
  BY <1>g, <1>t, <1>w DEF CountInv, Held
<1>13. SlotInv'
  BY <1>g, <1>t, <1>w, Indices DEF SlotInv, Sender, Coming, Using, Alive
<1>14. LostInv'
  BY <1>g, <1>t, <1>w, Indices DEF LostInv, Sender, Coming, Using
<1>15. FailInv'
  BY <1>g, <1>t, <1>w, Indices DEF FailInv
<1>16. FaultInv'
  BY <1>g, <1>t, <1>w DEF FaultInv
<1>17. KeptInv'
  BY <1>g, <1>t, <1>w, Indices DEF KeptInv, Sender, Alive, Using, Coming
<1>18. NoStrayPermission'
  BY <1>g, <1>t, <1>w DEF NoStrayPermission, Stopped, Alive
<1>19. NoCollateral'
  BY <1>g, <1>t, <1>w, Indices DEF NoCollateral
<1> QED BY <1>1, <1>2, <1>3, <1>4, <1>5, <1>6, <1>7, <1>8, <1>9, <1>10,
           <1>11, <1>12, <1>13, <1>14, <1>15, <1>16, <1>17, <1>18, <1>19

\* An initialize that failed gives its process to a stop before it gives up
\* the slot.
LEMMA InitReleasesStep ==
  ASSUME IInv, NEW t \in Turns, InitFails(t), ~Lost(turn[t].conn)
  PROVE  IInv'
<1> USE DEF IInv
<1>0. PICK c : c = turn[t].conn
  OBVIOUS
<1>g. /\ turn[t].pc = "result" /\ sendlock = t /\ active = t /\ t # 0 /\ c # 0 /\ lock = 0
      /\ turn[t].out \in {"failed", "timeout"} /\ turn[t].conn = c /\ c \in Conns /\ slot = c
      /\ turn' = [turn EXCEPT ![t].pc = "released"] /\ token' = NoToken
      /\ conn' = Quiet(conn, c) /\ stops' = Stopping(t, c) /\ conn[c].reader # "new"
      /\ UNCHANGED <<limit, hand, late, sendlock, lock, active, slot, ready, notified, shut, perms,
                     wires, graces>>
      /\ \A g \in graces : g.token # NoToken
  <2>1. turn[t].pc = "result" /\ lock = 0
    BY DEF InitFails, Result, At, Unlocked
  <2>2. sendlock = t /\ active = t /\ t # 0
    BY <2>1, SenderIs
  <2>3. token' = NoToken
    BY <2>2 DEF InitFails, Result, SendInv
  <2>4. turn[t].conn \in Conns /\ conn[turn[t].conn].reader # "new"
    BY <2>1, Indices DEF Using, FreshInv
  <2>5. turn[t].out \in {"failed", "timeout"}
    BY <2>1 DEF InitFails, TurnInv
  <2> QED BY <1>0, <2>1, <2>2, <2>3, <2>4, <2>5, Places DEF InitFails, Lost, To, Others, Types
<1>r. [turn[t] EXCEPT !.pc = "released"] \in TurnRecs
  <2>1. turn[t] \in TurnRecs
    BY StateFields
  <2> QED BY <2>1 DEF TurnRecs, Pcs
<1>t. /\ turn' \in [Turns -> TurnRecs] /\ \A u \in Turns \ {t} : turn'[u] = turn[u]
      /\ turn'[t].pc = "released"
      /\ turn'[t].conn = turn[t].conn
      /\ turn'[t].what = turn[t].what
      /\ turn'[t].cancelled = turn[t].cancelled
      /\ turn'[t].early = turn[t].early
      /\ turn'[t].wait = turn[t].wait
      /\ turn'[t].out = turn[t].out
  <2> DEFINE r == [turn[t] EXCEPT !.pc = "released"]
  <2>1. turn' = [turn EXCEPT ![t] = r]
    BY <1>g
  <2>2. r \in TurnRecs
    BY <1>r
  <2>3. /\ r.pc = "released"
        /\ r.conn = turn[t].conn
        /\ r.what = turn[t].what
        /\ r.cancelled = turn[t].cancelled
        /\ r.early = turn[t].early
        /\ r.wait = turn[t].wait
        /\ r.out = turn[t].out
    BY StateFields DEF TurnRecs
  <2> HIDE DEF r
  <2> QED BY <2>1, <2>2, <2>3, TurnStep
<1>s. /\ stops' \subseteq Stops /\ stops \subseteq stops'
      /\ \A s \in stops' : s \in stops \/ (c # 0 /\ s.conn = c)
      /\ c # 0 => \E s \in stops' : s.conn = c
  <2>1. c # 0 => [by |-> t, conn |-> c, pc |-> "sweep"] \in Stops
    BY <1>g DEF Types, Stops
  <2> QED BY <1>g, <2>1 DEF Stopping, Types
<1>c. /\ conn' \in [Conns -> ConnRecs]
      /\ \A d \in Conns :
           /\ Eased(d) /\ conn'[d].reader = conn[d].reader
           /\ conn'[d].held = conn[d].held /\ conn'[d].alive = conn[d].alive
           /\ conn'[d].running = conn[d].running /\ conn'[d].faulty = conn[d].faulty
           /\ conn'[d].lines = conn[d].lines /\ conn'[d].asked = conn[d].asked
           /\ conn'[d].replies = conn[d].replies
           /\ conn'[d].callback = IF d = c THEN 0 ELSE conn[d].callback
  <2>1. conn \in [Conns -> ConnRecs]
    BY DEF Types
  <2> QED BY <1>g, <2>1, QuietFields, QuietType DEF Eased
<1>1. Types'
  BY <1>g, <1>t, <1>s, <1>c DEF Types, Wires, Stops
<1>2. SendInv'
  BY <1>g, <1>t, <1>s, <1>c DEF SendInv, Sender, Token
<1>3. TurnInv'
  BY <1>g, <1>t, <1>s, <1>c DEF TurnInv, Coming, Using
<1>4. ClickInv'
  BY <1>g, <1>t, <1>s, <1>c DEF ClickInv
<1>5. WireInv'
  BY <1>g, <1>t, <1>s, <1>c DEF WireInv, SendInv, Sender
<1>6. IssuedInv'
  <2>1. \A tok \in Tokens : Issued(tok) => Issued(tok)'
    BY <1>g, <1>t, <1>s, <1>c DEF Issued, Tokens, TurnInv
  <2> QED BY <2>1, <1>g, <1>t, <1>s, <1>c, IssuedKept
<1>7. OnceInv'
  BY <1>g, <1>t, <1>s, <1>c, OnceKept
<1>8. FeedInv'
  BY <1>g, <1>t, <1>c, FeedKept
<1>9. GraceInv'
  BY <1>g, <1>t, <1>s, <1>c DEF GraceInv, SendInv
<1>10. FreshInv'
  BY <1>g, <1>t, <1>s, <1>c, Indices DEF FreshInv, Sender, Coming, Using
<1>11. CallbackInv'
  BY <1>g, <1>t, <1>s, <1>c DEF CallbackInv, Sender
<1>12. CountInv'
  BY <1>g, <1>t, <1>s, <1>c DEF CountInv, Held
<1>13. SlotInv'
  BY <1>g, <1>t, <1>s, <1>c, Indices DEF SlotInv, Sender, Coming, Using, Alive
<1>14. LostInv'
  BY <1>g, <1>t, <1>s, <1>c, Indices DEF LostInv, Sender, Coming, Using
<1>15. FailInv'
  BY <1>g, <1>t, <1>s, <1>c, Indices DEF FailInv
<1>16. FaultInv'
  BY <1>g, <1>t, <1>s, <1>c DEF FaultInv
<1>17. KeptInv'
  BY <1>g, <1>t, <1>s, <1>c, Indices DEF KeptInv, Sender, Alive, Using, Coming
<1>18. NoStrayPermission'
  BY <1>g, <1>t, <1>s, <1>c DEF NoStrayPermission, Stopped, Alive
<1>19. NoCollateral'
  BY <1>g, <1>t, <1>s, <1>c, Indices DEF NoCollateral
<1> QED BY <1>1, <1>2, <1>3, <1>4, <1>5, <1>6, <1>7, <1>8, <1>9, <1>10,
           <1>11, <1>12, <1>13, <1>14, <1>15, <1>16, <1>17, <1>18, <1>19

\* A send that finds the adapter closed is over.
LEMMA EnterShutStep ==
  ASSUME IInv, NEW t \in Turns, Enter(t), shut
  PROVE  IInv'
<1> USE DEF IInv
<1>g. /\ turn[t].pc = "lock" /\ sendlock = 0 /\ turn' = [turn EXCEPT ![t] = Over]
      /\ UNCHANGED <<limit, hand, late, sendlock, lock, active, slot, ready, token, notified, shut,
                     perms, conn, wires, graces, stops>>
      /\ \A d \in Conns : Eased(d)
  BY DEF Enter, At, Eased
<1>r. /\ Over \in TurnRecs /\ Over.pc = "done" /\ Over.conn = 0 /\ Over.what = "none"
      /\ ~Over.cancelled /\ ~Over.early /\ Over.wait = "none" /\ Over.out = "none"
  BY OverFields
<1>t. /\ turn' \in [Turns -> TurnRecs] /\ turn'[t] = Over
      /\ \A u \in Turns \ {t} : turn'[u] = turn[u]
  BY <1>g, <1>r, TurnStep
<1>1. Types'
  BY <1>g, <1>r, <1>t DEF Types, Wires, Stops
<1>2. SendInv'
  BY <1>g, <1>r, <1>t DEF SendInv, Sender, Token
<1>3. TurnInv'
  BY <1>g, <1>r, <1>t DEF TurnInv, Coming, Using
<1>4. ClickInv'
  BY <1>g, <1>r, <1>t DEF ClickInv
<1>5. WireInv'
  BY <1>g, <1>r, <1>t DEF WireInv, SendInv, Sender
<1>6. IssuedInv'
  <2>1. \A tok \in Tokens : Issued(tok) => Issued(tok)'
    BY <1>g, <1>r, <1>t DEF Issued, Tokens, TurnInv
  <2> QED BY <2>1, <1>g, <1>r, <1>t, IssuedKept
<1>7. OnceInv'
  BY <1>g, <1>r, <1>t, OnceKept
<1>8. FeedInv'
  <2>1. \A d \in Conns : Alive(d)' => Alive(d)
    BY <1>g, <1>r, <1>t DEF Alive
  <2>2. token' # NoToken /\ Sender({"watch", "await", "result"})' =>
          /\ token' = token /\ sendlock' = sendlock /\ Sender({"watch", "await", "result"})
          /\ turn'[sendlock].conn = turn[sendlock].conn
    BY <1>g, <1>r, <1>t DEF Sender
  <2> QED BY <2>1, <2>2, <1>g, <1>r, <1>t, FeedKept
<1>9. GraceInv'
  BY <1>g, <1>r, <1>t DEF GraceInv, SendInv
<1>10. FreshInv'
  BY <1>g, <1>r, <1>t, Indices DEF FreshInv, Sender, Coming, Using
<1>11. CallbackInv'
  BY <1>g, <1>r, <1>t DEF CallbackInv, Sender
<1>12. CountInv'
  BY <1>g, <1>r, <1>t DEF CountInv, Held
<1>13. SlotInv'
  BY <1>g, <1>r, <1>t, Indices DEF SlotInv, Sender, Coming, Using, Alive
<1>14. LostInv'
  BY <1>g, <1>r, <1>t, Indices DEF LostInv, Sender, Coming, Using
<1>15. FailInv'
  BY <1>g, <1>r, <1>t, Indices DEF FailInv
<1>16. FaultInv'
  BY <1>g, <1>r, <1>t DEF FaultInv
<1>17. KeptInv'
  BY <1>g, <1>r, <1>t, Indices DEF KeptInv, Sender, Alive, Using, Coming
<1>18. NoStrayPermission'
  BY <1>g, <1>r, <1>t DEF NoStrayPermission, Stopped, Alive
<1>19. NoCollateral'
  BY <1>g, <1>r, <1>t, Indices DEF NoCollateral
<1> QED BY <1>1, <1>2, <1>3, <1>4, <1>5, <1>6, <1>7, <1>8, <1>9, <1>10,
           <1>11, <1>12, <1>13, <1>14, <1>15, <1>16, <1>17, <1>18, <1>19

\* A send takes the locks: no wire but the user's is running, for a turn that is
\* stopped.
LEMMA EnterOpensStep ==
  ASSUME IInv, NEW t \in Turns, Enter(t), ~shut
  PROVE  IInv'
<1> USE DEF IInv
<1> DEFINE W == [by |-> t, token |-> NoToken, conn |-> 0, pc |-> "decide"]
<1>g. /\ turn[t].pc = "lock" /\ sendlock = 0 /\ lock = 0 /\ active = 0 /\ token = NoToken /\ t # 0
      /\ turn' = [turn EXCEPT ![t].pc = "ensure"]
      /\ sendlock' = t /\ active' = t /\ notified' = FALSE /\ late' = {}
      /\ UNCHANGED <<limit, hand, lock, slot, ready, token, shut, perms, conn, graces, stops>>
      /\ \A d \in Conns : Eased(d)
      /\ \A w \in wires : w.by = UI
  BY Places DEF Enter, At, Unlocked, To, SendInv, Sender, WireInv, Eased
<1>w. /\ W \in Wires /\ W.pc = "decide" /\ W.token = NoToken /\ W.by = t
      /\ wires' = IF turn[t].cancelled THEN wires \cup {W} ELSE wires
  BY <1>g DEF Enter, Wire, Wires
<1> HIDE DEF W
<1>r. [turn[t] EXCEPT !.pc = "ensure"] \in TurnRecs
  <2>1. turn[t] \in TurnRecs
    BY StateFields
  <2> QED BY <2>1 DEF TurnRecs, Pcs
<1>t. /\ turn' \in [Turns -> TurnRecs] /\ \A u \in Turns \ {t} : turn'[u] = turn[u]
      /\ turn'[t].pc = "ensure"
      /\ turn'[t].conn = turn[t].conn
      /\ turn'[t].what = turn[t].what
      /\ turn'[t].cancelled = turn[t].cancelled
      /\ turn'[t].early = turn[t].early
      /\ turn'[t].wait = turn[t].wait
      /\ turn'[t].out = turn[t].out
  <2> DEFINE r == [turn[t] EXCEPT !.pc = "ensure"]
  <2>1. turn' = [turn EXCEPT ![t] = r]
    BY <1>g
  <2>2. r \in TurnRecs
    BY <1>r
  <2>3. /\ r.pc = "ensure"
        /\ r.conn = turn[t].conn
        /\ r.what = turn[t].what
        /\ r.cancelled = turn[t].cancelled
        /\ r.early = turn[t].early
        /\ r.wait = turn[t].wait
        /\ r.out = turn[t].out
    BY StateFields DEF TurnRecs
  <2> HIDE DEF r
  <2> QED BY <2>1, <2>2, <2>3, TurnStep
<1>1. Types'
  BY <1>g, <1>t, <1>w DEF Types, Wires, Stops
<1>2. SendInv'
  BY <1>g, <1>t, <1>w, Places DEF SendInv, Sender, Token
<1>3. TurnInv'
  BY <1>g, <1>t, <1>w DEF TurnInv, Coming, Using
<1>4. ClickInv'
  BY <1>g, <1>t, <1>w DEF ClickInv
<1>5. WireInv'
  <2>1. \A v \in wires' : v \in wires \/ (v.by # UI /\ v.by = t /\ turn[t].cancelled)
    BY <1>g, <1>w, Places
  <2>2. \A v \in wires : \A u \in Turns : turn'[u].pc \in {"idle", "done"} \/ turn'[u].cancelled
    BY <1>g, <1>t DEF WireInv
  <2> QED BY <1>g, <1>t, <1>w, <2>1, <2>2 DEF WireInv
<1>6. IssuedInv'
  <2>1. \A tok \in Tokens : Issued(tok) => Issued(tok)'
    BY <1>g, <1>t, <1>w DEF Issued, Tokens, TurnInv
  <2> QED BY <2>1, <1>g, <1>t, <1>w, IssuedKept
<1>7. OnceInv'
  BY <1>g, <1>t, <1>w, OnceKept
<1>8. FeedInv'
  BY <1>g, <1>w, FeedKept
<1>9. GraceInv'
  BY <1>g, <1>t, <1>w, Places DEF GraceInv, SendInv, Types
<1>10. FreshInv'
  BY <1>g, <1>t, <1>w, Indices DEF FreshInv, Sender, Coming, Using
<1>11. CallbackInv'
  BY <1>g, <1>t, <1>w DEF CallbackInv, Sender
<1>12. CountInv'
  BY <1>g, <1>t, <1>w DEF CountInv, Held
<1>13. SlotInv'
  BY <1>g, <1>t, <1>w, Indices DEF SlotInv, Sender, Coming, Using, Alive
<1>14. LostInv'
  BY <1>g, <1>t, <1>w, Indices DEF LostInv, Sender, Coming, Using
<1>15. FailInv'
  BY <1>g, <1>t, <1>w, Indices DEF FailInv
<1>16. FaultInv'
  BY <1>g, <1>t, <1>w DEF FaultInv
<1>17. KeptInv'
  BY <1>g, <1>t, <1>w, Indices DEF KeptInv, Sender, Alive, Using, Coming
<1>18. NoStrayPermission'
  BY <1>g, <1>t, <1>w DEF NoStrayPermission, Stopped, Alive
<1>19. NoCollateral'
  BY <1>g, <1>t, <1>w, Indices DEF NoCollateral
<1> QED BY <1>1, <1>2, <1>3, <1>4, <1>5, <1>6, <1>7, <1>8, <1>9, <1>10,
           <1>11, <1>12, <1>13, <1>14, <1>15, <1>16, <1>17, <1>18, <1>19

\* A turn leaves nothing in hand, and no wire of its own.
LEMMA LeaveStep ==
  ASSUME IInv, NEW t \in Turns, Leave(t)
  PROVE  IInv'
<1> USE DEF IInv
<1>g. /\ turn[t].pc = "finish" /\ sendlock = t /\ t # 0 /\ lock = 0 /\ token = NoToken
      /\ turn' = [turn EXCEPT ![t] = Over] /\ active' = 0 /\ sendlock' = 0
      /\ perms' = NoPerms /\ conn' = Quiet(Settled, slot)
      /\ UNCHANGED <<limit, hand, late, lock, slot, ready, token, notified, shut, wires, graces, stops>>
      /\ \A w \in wires : w.by = UI
  <2>1. turn[t].pc = "finish" /\ lock = 0 /\ \A w \in wires : w.by # t
    BY DEF Leave, At, Unlocked, Busy
  <2>2. sendlock = t /\ t # 0
    BY <2>1, SenderIs
  <2> QED BY <2>1, <2>2 DEF Leave, SendInv, Sender, WireInv
<1>p. perms' \in [Conns -> Nat] /\ \A d \in Conns : perms'[d] = 0
  BY <1>g DEF NoPerms
<1>r. /\ Over \in TurnRecs /\ Over.pc = "done" /\ Over.conn = 0 /\ Over.what = "none"
      /\ ~Over.cancelled /\ ~Over.early /\ Over.wait = "none" /\ Over.out = "none"
  BY OverFields
<1>t. /\ turn' \in [Turns -> TurnRecs] /\ turn'[t] = Over
      /\ \A u \in Turns \ {t} : turn'[u] = turn[u]
  BY <1>g, <1>r, TurnStep
<1>c. /\ conn' \in [Conns -> ConnRecs]
      /\ \A d \in Conns :
           /\ Eased(d) /\ conn'[d].reader = conn[d].reader
           /\ conn'[d].held = conn[d].held /\ conn'[d].alive = conn[d].alive
           /\ conn'[d].running = conn[d].running /\ conn'[d].faulty = conn[d].faulty
           /\ conn'[d].lines = conn[d].lines /\ conn'[d].asked = conn[d].asked
           /\ conn'[d].replies = conn[d].replies + IF Alive(d) THEN perms[d] ELSE 0
           /\ conn'[d].callback = IF d = slot THEN 0 ELSE conn[d].callback
  <2>1. conn' = Quiet(Settled, slot)
    BY <1>g
  <2>2. slot \in {0} \cup Conns
    BY <1>g DEF Types
  <2> DEFINE cs == Settled
  <2>3. cs \in [Conns -> ConnRecs]
    BY SettledType
  <2>4. ASSUME NEW d \in Conns
        PROVE  /\ conn'[d].callback = IF d = slot THEN 0 ELSE cs[d].callback
               /\ conn'[d].held = cs[d].held /\ conn'[d].alive = cs[d].alive
               /\ conn'[d].running = cs[d].running /\ conn'[d].faulty = cs[d].faulty
               /\ conn'[d].queue = cs[d].queue /\ conn'[d].work = cs[d].work
               /\ conn'[d].reader = cs[d].reader /\ conn'[d].lines = cs[d].lines
               /\ conn'[d].asked = cs[d].asked /\ conn'[d].replies = cs[d].replies
    BY <2>1, <2>2, <2>3, QuietFields
  <2>5. conn' \in [Conns -> ConnRecs]
    BY <2>1, <2>2, <2>3, QuietType
  <2> QED BY <2>4, <2>5, SettledFields DEF Eased
<1>1. Types'
  BY <1>g, <1>r, <1>t, <1>p, <1>c DEF Types, Wires, Stops
<1>2. SendInv'
  BY <1>g, <1>r, <1>t, <1>p, <1>c, Places DEF SendInv, Sender, Token
<1>3. TurnInv'
  BY <1>g, <1>r, <1>t, <1>p, <1>c DEF TurnInv, Coming, Using
<1>4. ClickInv'
  BY <1>g, <1>r, <1>t, <1>p, <1>c DEF ClickInv
<1>5. WireInv'
  BY <1>g, <1>r, <1>t, <1>p, <1>c DEF WireInv, SendInv, Sender
<1>6. IssuedInv'
  <2>1. \A tok \in Tokens : Issued(tok) => Issued(tok)'
    BY <1>g, <1>r, <1>t, <1>p, <1>c DEF Issued, Tokens, TurnInv
  <2> QED BY <2>1, <1>g, <1>r, <1>t, <1>p, <1>c, IssuedKept
<1>7. OnceInv'
  BY <1>g, <1>r, <1>t, <1>p, <1>c, OnceKept
<1>8. FeedInv'
  BY <1>g, <1>c, FeedKept
<1>9. GraceInv'
  BY <1>g, <1>r, <1>t, <1>p, <1>c, Places DEF GraceInv, SendInv, Types
<1>10. FreshInv'
  BY <1>g, <1>r, <1>t, <1>p, <1>c, Indices DEF FreshInv, Sender, Coming, Using
<1>11. CallbackInv'
  BY <1>g, <1>r, <1>t, <1>p, <1>c DEF CallbackInv, Sender
<1>12. CountInv'
  <2>1. ASSUME NEW d \in Conns
        PROVE  /\ Cardinality(AskedAt(conn[d].lines)) \in Nat /\ conn[d].replies \in Nat
               /\ conn[d].asked \in Nat /\ perms[d] \in Nat
    BY StateFields, ConnFields, AskedNumber
  <2> QED BY <1>g, <1>c, <2>1 DEF CountInv, Held, NoPerms
<1>13. SlotInv'
  BY <1>g, <1>r, <1>t, <1>p, <1>c, Indices DEF SlotInv, Sender, Coming, Using, Alive
<1>14. LostInv'
  BY <1>g, <1>r, <1>t, <1>p, <1>c, Indices DEF LostInv, Sender, Coming, Using
<1>15. FailInv'
  BY <1>g, <1>r, <1>t, <1>p, <1>c, Indices DEF FailInv
<1>16. FaultInv'
  BY <1>g, <1>r, <1>t, <1>p, <1>c DEF FaultInv
<1>17. KeptInv'
  BY <1>g, <1>r, <1>t, <1>p, <1>c, Indices DEF KeptInv, Sender, Alive, Using, Coming
<1>18. NoStrayPermission'
  BY <1>g, <1>r, <1>t, <1>p, <1>c DEF NoStrayPermission, Stopped, Alive
<1>19. NoCollateral'
  BY <1>g, <1>r, <1>t, <1>p, <1>c, Indices DEF NoCollateral
<1> QED BY <1>1, <1>2, <1>3, <1>4, <1>5, <1>6, <1>7, <1>8, <1>9, <1>10,
           <1>11, <1>12, <1>13, <1>14, <1>15, <1>16, <1>17, <1>18, <1>19

\* The slot is emptied of a process that a stop already has.
LEMMA ReleasedStep ==
  ASSUME IInv, NEW t \in Turns, Released(t)
  PROVE  IInv'
<1> USE DEF IInv
<1>0. PICK x : x = IF Stopped THEN "stopped" ELSE "error"
  OBVIOUS
<1>g. /\ turn[t].pc = "released" /\ sendlock = t /\ active = t /\ t # 0 /\ lock = 0 /\ token = NoToken
      /\ turn' = [turn EXCEPT ![t].pc = "finish", ![t].out = x]
      /\ x \in {"stopped", "error"} /\ (x = "stopped" => shut \/ turn[t].cancelled)
      /\ turn[t].conn \in Conns /\ turn[t].conn # 0 /\ turn[t].wait = "none"
      /\ (x = "error" => conn[turn[t].conn].faulty)
      /\ slot \in {0, turn[t].conn} /\ slot' = 0 /\ ready' = FALSE
      /\ UNCHANGED <<limit, hand, late, sendlock, lock, active, token, notified, shut, perms, conn,
                     wires, graces, stops>>
      /\ \A d \in Conns : Eased(d)
  <2>1. turn[t].pc = "released" /\ lock = 0
    BY DEF Released, At, Unlocked
  <2>2. sendlock = t /\ active = t /\ t # 0
    BY <2>1, SenderIs
  <2>3. turn[t].conn \in Conns /\ turn[t].conn # 0 /\ turn[t].wait = "none"
    BY <2>1, Indices, Places DEF Using, TurnInv
  <2>4. x \in {"stopped", "error"} /\ (x = "stopped" => shut \/ turn[t].cancelled)
        /\ (x = "error" => ~Stopped)
    BY <1>0, <2>2 DEF Stopped
  <2>5. x = "error" => conn[turn[t].conn].faulty
    BY <2>1, <2>2, <2>4 DEF FailInv, TurnInv, Stopped
  <2>6. slot \in {0, turn[t].conn} /\ (ready => slot # 0) /\ token = NoToken /\ ready \in BOOLEAN
    BY <2>1, <2>2 DEF SlotInv, Sender, Using, SendInv, Types
  <2>7. slot' = 0 /\ ready' = FALSE
    BY <2>6 DEF Released, ClearSlot
  <2> QED BY <1>0, <2>1, <2>2, <2>3, <2>4, <2>5, <2>6, <2>7 DEF Released, Report, Out, Eased
<1>r. [turn[t] EXCEPT !.pc = "finish", !.out = x] \in TurnRecs
  <2>1. turn[t] \in TurnRecs
    BY StateFields
  <2> QED BY <2>1, <1>g DEF TurnRecs, Pcs
<1>t. /\ turn' \in [Turns -> TurnRecs] /\ \A u \in Turns \ {t} : turn'[u] = turn[u]
      /\ turn'[t].pc = "finish"
      /\ turn'[t].conn = turn[t].conn
      /\ turn'[t].what = turn[t].what
      /\ turn'[t].cancelled = turn[t].cancelled
      /\ turn'[t].early = turn[t].early
      /\ turn'[t].wait = turn[t].wait
      /\ turn'[t].out = x
  <2> DEFINE r == [turn[t] EXCEPT !.pc = "finish", !.out = x]
  <2>1. turn' = [turn EXCEPT ![t] = r]
    BY <1>g
  <2>2. r \in TurnRecs
    BY <1>r
  <2>3. /\ r.pc = "finish"
        /\ r.conn = turn[t].conn
        /\ r.what = turn[t].what
        /\ r.cancelled = turn[t].cancelled
        /\ r.early = turn[t].early
        /\ r.wait = turn[t].wait
        /\ r.out = x
    BY StateFields DEF TurnRecs
  <2> HIDE DEF r
  <2> QED BY <2>1, <2>2, <2>3, TurnStep
<1>1. Types'
  BY <1>g, <1>t DEF Types, Wires, Stops
<1>2. SendInv'
  BY <1>g, <1>t DEF SendInv, Sender, Token
<1>3. TurnInv'
  BY <1>g, <1>t DEF TurnInv, Coming, Using
<1>4. ClickInv'
  BY <1>g, <1>t DEF ClickInv
<1>5. WireInv'
  BY <1>g, <1>t DEF WireInv, SendInv, Sender
<1>6. IssuedInv'
  <2>1. \A tok \in Tokens : Issued(tok) => Issued(tok)'
    BY <1>g, <1>t DEF Issued, Tokens, TurnInv
  <2> QED BY <2>1, <1>g, <1>t, IssuedKept
<1>7. OnceInv'
  BY <1>g, <1>t, OnceKept
<1>8. FeedInv'
  <2>1. \A d \in Conns : Alive(d)' => Alive(d)
    BY <1>g, <1>t DEF Alive
  <2>2. token' # NoToken /\ Sender({"watch", "await", "result"})' =>
          /\ token' = token /\ sendlock' = sendlock /\ Sender({"watch", "await", "result"})
          /\ turn'[sendlock].conn = turn[sendlock].conn
    BY <1>g, <1>t DEF Sender
  <2> QED BY <2>1, <2>2, <1>g, <1>t, FeedKept
<1>9. GraceInv'
  BY <1>g, <1>t DEF GraceInv, SendInv
<1>10. FreshInv'
  BY <1>g, <1>t, Indices DEF FreshInv, Sender, Coming, Using
<1>11. CallbackInv'
  BY <1>g, <1>t, Places DEF CallbackInv, Sender
<1>12. CountInv'
  BY <1>g, <1>t DEF CountInv, Held
<1>13. SlotInv'
  BY <1>g, <1>t, Indices DEF SlotInv, Sender, Coming, Using, Alive
<1>14. LostInv'
  BY <1>g, <1>t, Indices DEF LostInv, Sender, Coming, Using
<1>15. FailInv'
  BY <1>g, <1>t, Indices DEF FailInv
<1>16. FaultInv'
  BY <1>g, <1>t DEF FaultInv
<1>17. KeptInv'
  BY <1>g, <1>t, Indices DEF KeptInv, Sender, Alive, Using, Coming
<1>18. NoStrayPermission'
  BY <1>g, <1>t DEF NoStrayPermission, Stopped, Alive
<1>19. NoCollateral'
  BY <1>g, <1>t, Indices DEF NoCollateral
<1> QED BY <1>1, <1>2, <1>3, <1>4, <1>5, <1>6, <1>7, <1>8, <1>9, <1>10,
           <1>11, <1>12, <1>13, <1>14, <1>15, <1>16, <1>17, <1>18, <1>19

\* A prompt takes over the callback of the connection.
LEMMA OpensStep ==
  ASSUME IInv, NEW t \in Turns, Open(t), ~Stopped, slot # 0
  PROVE  IInv'
<1> USE DEF IInv
<1>0. PICK c : c = slot
  OBVIOUS
<1>g. /\ turn[t].pc = "opened" /\ sendlock = t /\ active = t /\ t # 0 /\ lock = 0 /\ token = NoToken
      /\ turn' = [turn EXCEPT ![t].pc = "request", ![t].conn = c, ![t].what = "prompt", ![t].out = "none"]
      /\ c = slot /\ c # 0 /\ c \in Conns /\ conn[c].reader # "new" /\ turn[t].what # "prompt"
      /\ turn[t].wait = "none"
      /\ conn' = [conn EXCEPT ![c] = [conn[c] EXCEPT !.callback = t]]
      /\ UNCHANGED <<limit, hand, late, sendlock, lock, active, slot, ready, token, notified, shut,
                     perms, wires, graces, stops>>
  <2>1. turn[t].pc = "opened" /\ lock = 0
    BY DEF Open, At, Unlocked
  <2>2. sendlock = t /\ active = t /\ t # 0
    BY <2>1, SenderIs
  <2>3. conn[slot].reader # "new" /\ token = NoToken /\ turn[t].what # "prompt" /\ turn[t].wait = "none"
    BY <2>1, <2>2 DEF FreshInv, SendInv, Sender, Coming, TurnInv
  <2> QED BY <1>0, <2>1, <2>2, <2>3 DEF Open, ToRequest, Types, adapter
<1>r. [turn[t] EXCEPT !.pc = "request", !.conn = c, !.what = "prompt", !.out = "none"] \in TurnRecs
  <2>1. turn[t] \in TurnRecs
    BY StateFields
  <2> QED BY <2>1, <1>g DEF TurnRecs, Pcs
<1>t. /\ turn' \in [Turns -> TurnRecs] /\ \A u \in Turns \ {t} : turn'[u] = turn[u]
      /\ turn'[t].pc = "request"
      /\ turn'[t].conn = c
      /\ turn'[t].what = "prompt"
      /\ turn'[t].cancelled = turn[t].cancelled
      /\ turn'[t].early = turn[t].early
      /\ turn'[t].wait = turn[t].wait
      /\ turn'[t].out = "none"
  <2> DEFINE r == [turn[t] EXCEPT !.pc = "request", !.conn = c, !.what = "prompt", !.out = "none"]
  <2>1. turn' = [turn EXCEPT ![t] = r]
    BY <1>g
  <2>2. r \in TurnRecs
    BY <1>r
  <2>3. /\ r.pc = "request"
        /\ r.conn = c
        /\ r.what = "prompt"
        /\ r.cancelled = turn[t].cancelled
        /\ r.early = turn[t].early
        /\ r.wait = turn[t].wait
        /\ r.out = "none"
    BY StateFields DEF TurnRecs
  <2> HIDE DEF r
  <2> QED BY <2>1, <2>2, <2>3, TurnStep
<1>c. /\ conn' \in [Conns -> ConnRecs] /\ \A d \in Conns \ {c} : conn'[d] = conn[d]
      /\ conn'[c].held = conn[c].held
      /\ conn'[c].running = conn[c].running
      /\ conn'[c].alive = conn[c].alive
      /\ conn'[c].faulty = conn[c].faulty
      /\ conn'[c].queue = conn[c].queue
      /\ conn'[c].reader = conn[c].reader
      /\ conn'[c].callback = t
      /\ conn'[c].work = conn[c].work
      /\ conn'[c].lines = conn[c].lines
      /\ conn'[c].asked = conn[c].asked
      /\ conn'[c].replies = conn[c].replies
  <2>1. c \in Conns /\ conn[c] \in ConnRecs
    BY <1>g DEF Types
  <2> DEFINE r == [conn[c] EXCEPT !.callback = t]
  <2>2. r \in ConnRecs
    BY <1>g, <2>1 DEF ConnRecs
  <2>3. /\ r.held = conn[c].held
        /\ r.running = conn[c].running
        /\ r.alive = conn[c].alive
        /\ r.faulty = conn[c].faulty
        /\ r.queue = conn[c].queue
        /\ r.reader = conn[c].reader
        /\ r.callback = t
        /\ r.work = conn[c].work
        /\ r.lines = conn[c].lines
        /\ r.asked = conn[c].asked
        /\ r.replies = conn[c].replies
    BY <2>1 DEF ConnRecs
  <2>4. conn' = [conn EXCEPT ![c] = r]
    BY <1>g
  <2> HIDE DEF r
  <2> QED BY <2>1, <2>2, <2>3, <2>4, ConnStep
<1>e. /\ \A d \in Conns : Eased(d)
      /\ \A d \in Conns : Alive(d)' => Alive(d)
  BY <1>g, <1>c DEF Eased, Alive
<1>1. Types'
  BY <1>g, <1>t, <1>c, <1>e DEF Types, Wires, Stops
<1>2. SendInv'
  BY <1>g, <1>t, <1>c, <1>e DEF SendInv, Sender, Token
<1>3. TurnInv'
  BY <1>g, <1>t, <1>c, <1>e DEF TurnInv, Coming, Using
<1>4. ClickInv'
  BY <1>g, <1>t, <1>c, <1>e DEF ClickInv
<1>5. WireInv'
  BY <1>g, <1>t, <1>c, <1>e DEF WireInv, SendInv, Sender
<1>6. IssuedInv'
  <2>1. \A tok \in Tokens : Issued(tok) => Issued(tok)'
    BY <1>g, <1>t, <1>c, <1>e DEF Issued, Tokens, TurnInv
  <2> QED BY <2>1, <1>g, <1>t, <1>c, <1>e, IssuedKept
<1>7. OnceInv'
  BY <1>g, <1>t, <1>c, <1>e, OnceKept
<1>8. FeedInv'
  <2>1. \A d \in Conns : Alive(d)' => Alive(d)
    BY <1>g, <1>t, <1>c, <1>e DEF Alive
  <2>2. token' # NoToken /\ Sender({"watch", "await", "result"})' =>
          /\ token' = token /\ sendlock' = sendlock /\ Sender({"watch", "await", "result"})
          /\ turn'[sendlock].conn = turn[sendlock].conn
    BY <1>g, <1>t, <1>c, <1>e DEF Sender
  <2> QED BY <2>1, <2>2, <1>g, <1>t, <1>c, <1>e, FeedKept
<1>9. GraceInv'
  BY <1>g, <1>t, <1>c, <1>e DEF GraceInv, SendInv
<1>10. FreshInv'
  BY <1>g, <1>t, <1>c, <1>e, Indices DEF FreshInv, Sender, Coming, Using
<1>11. CallbackInv'
  BY <1>g, <1>t, <1>c, <1>e DEF CallbackInv, Sender
<1>12. CountInv'
  BY <1>g, <1>t, <1>c, <1>e DEF CountInv, Held
<1>13. SlotInv'
  BY <1>g, <1>t, <1>c, <1>e, Indices DEF SlotInv, Sender, Coming, Using, Alive
<1>14. LostInv'
  BY <1>g, <1>t, <1>c, <1>e, Indices DEF LostInv, Sender, Coming, Using
<1>15. FailInv'
  BY <1>g, <1>t, <1>c, <1>e, Indices DEF FailInv
<1>16. FaultInv'
  BY <1>g, <1>t, <1>c, <1>e DEF FaultInv
<1>17. KeptInv'
  BY <1>g, <1>t, <1>c, <1>e, Indices DEF KeptInv, Sender, Alive, Using, Coming
<1>18. NoStrayPermission'
  BY <1>g, <1>t, <1>c, <1>e DEF NoStrayPermission, Stopped, Alive
<1>19. NoCollateral'
  BY <1>g, <1>t, <1>c, <1>e, Indices DEF NoCollateral
<1> QED BY <1>1, <1>2, <1>3, <1>4, <1>5, <1>6, <1>7, <1>8, <1>9, <1>10,
           <1>11, <1>12, <1>13, <1>14, <1>15, <1>16, <1>17, <1>18, <1>19

\* The request joins the queue of a live process; if it died, this turn fails,
\* and no other was waiting.
LEMMA EnqueueStep ==
  ASSUME IInv, NEW t \in Turns, Enqueue(t)
  PROVE  IInv'
<1> USE DEF IInv
<1>0. PICK c, mine : c = turn[t].conn /\ mine = Token(t)
  OBVIOUS
<1> DEFINE L == Line("req", mine)
<1>g. /\ turn[t].pc = "enqueue" /\ sendlock = t /\ active = t /\ t # 0 /\ lock = t /\ lock' = 0
      /\ c \in Conns /\ turn[t].conn = c /\ turn[t].out \notin {"stopped", "error", "unstarted", "done"}
      /\ turn[t].wait # "none"
      /\ \A w \in wires : w.pc # "send"
      /\ \A u \in Turns \ {t} : turn[u].wait = "none"
      /\ mine \in Tokens /\ mine.t = t /\ mine.what = turn[t].what /\ ~Issued(mine)
      /\ L \in Written /\ L.k = "req" /\ L.of = mine /\ (token # NoToken => token = mine)
      /\ UNCHANGED <<limit, hand, late, sendlock, active, slot, ready, token, notified, shut, perms,
                     wires, graces, stops>>
  <2>1. turn[t].pc = "enqueue"
    BY DEF Enqueue, At
  <2>2. sendlock = t /\ active = t /\ t # 0 /\ Sender({"register", "enqueue"})
    BY <2>1, SenderIs
  <2>3. lock = t /\ (token # NoToken => token = mine) /\ \A w \in wires : w.pc # "send"
    BY <1>0, <2>2 DEF SendInv, WireInv
  <2>4. /\ turn[t].conn \in Conns /\ turn[t].wait # "none"
        /\ turn[t].out \notin {"stopped", "error", "unstarted", "done"}
        /\ turn[t].what \in {"init", "prompt"}
    BY <2>1, Indices, StateFields, TurnFields DEF Using, TurnInv
  <2>5. mine \in Tokens /\ mine.t = t /\ mine.what = turn[t].what
    BY <1>0, <2>4 DEF Token, Tokens
  <2>6. ~Issued(mine)
    BY <2>1, <2>4, <2>5 DEF Issued
  <2>7. L \in Written /\ L.k = "req" /\ L.of = mine
    BY <2>5 DEF Line, Written
  <2>8. \A u \in Turns \ {t} : turn[u].wait = "none"
    BY <2>2, SenderIs DEF TurnInv
  <2> QED BY <1>0, <2>1, <2>2, <2>3, <2>4, <2>5, <2>6, <2>7, <2>8 DEF Enqueue
<1>m. /\ conn' = IF Alive(c) THEN [conn EXCEPT ![c] = Sends(conn[c], L)] ELSE conn
      /\ turn' = [(IF Alive(c) THEN turn ELSE Failed(c)) EXCEPT ![t].pc = "watch"]
  BY <1>0 DEF Enqueue
<1> HIDE DEF L
<1>t. /\ turn' \in [Turns -> TurnRecs] /\ \A u \in Turns \ {t} : turn'[u] = turn[u]
      /\ turn'[t].pc = "watch" /\ turn'[t].early = turn[t].early
      /\ turn'[t].conn = turn[t].conn /\ turn'[t].what = turn[t].what
      /\ turn'[t].cancelled = turn[t].cancelled /\ turn'[t].out = turn[t].out
      /\ \/ turn'[t].wait = turn[t].wait
         \/ turn'[t].wait = "failed" /\ ~Alive(c)
  <2>1. PICK f : f = IF Alive(c) THEN turn ELSE Failed(c)
    OBVIOUS
  <2>2. /\ f \in [Turns -> TurnRecs]
        /\ \A u \in Turns :
             /\ f[u].pc = turn[u].pc /\ f[u].conn = turn[u].conn /\ f[u].what = turn[u].what
             /\ f[u].cancelled = turn[u].cancelled /\ f[u].early = turn[u].early
             /\ f[u].out = turn[u].out
             /\ f[u].wait = turn[u].wait \/ (f[u].wait = "failed" /\ ~Alive(c))
        /\ \A u \in Turns \ {t} : f[u] = turn[u]
    <3>1. CASE Alive(c)
      BY <2>1, <3>1 DEF Types
    <3>2. CASE ~Alive(c)
      <4>1. \A u \in Turns \ {t} : Failed(c)[u] = turn[u]
        BY <1>g DEF Failed
      <4> QED BY <1>g, <2>1, <3>2, <4>1, FailedFields
    <3> QED BY <3>1, <3>2
  <2> DEFINE r == [f[t] EXCEPT !.pc = "watch"]
  <2>3. turn' = [f EXCEPT ![t] = r]
    BY <1>m, <2>1
  <2>4. f[t] \in TurnRecs
    BY <2>2
  <2>5. r \in TurnRecs
    <3>1. \A b \in TurnRecs : [b EXCEPT !.pc = "watch"] \in TurnRecs
      BY DEF TurnRecs, Pcs
    <3> QED BY <2>4, <3>1, Zenon
  <2>6. /\ r.pc = "watch" /\ r.conn = f[t].conn /\ r.what = f[t].what
        /\ r.cancelled = f[t].cancelled /\ r.wait = f[t].wait /\ r.out = f[t].out
    BY <2>4 DEF TurnRecs
  <2>7. r.early = f[t].early
    BY <2>4 DEF TurnRecs
  <2> HIDE DEF r
  <2>8. turn' \in [Turns -> TurnRecs] /\ turn'[t] = r /\ \A u \in Turns \ {t} : turn'[u] = f[u]
    BY <2>2, <2>3, <2>5
  <2> QED BY <2>2, <2>6, <2>7, <2>8
<1>c. /\ conn' \in [Conns -> ConnRecs]
      /\ \A d \in Conns :
           /\ conn'[d].reader = conn[d].reader
           /\ conn'[d].held = conn[d].held /\ conn'[d].alive = conn[d].alive
           /\ conn'[d].running = conn[d].running /\ conn'[d].faulty = conn[d].faulty
           /\ conn'[d].lines = conn[d].lines /\ conn'[d].asked = conn[d].asked
           /\ conn'[d].replies = conn[d].replies
           /\ conn'[d].callback = conn[d].callback /\ conn'[d].work = conn[d].work
           /\ ~Alive(c) \/ d # c => conn'[d].queue = conn[d].queue
      /\ Alive(c) => conn'[c].queue = Append(conn[c].queue, L)
  <2>1. CASE Alive(c)
    <3>1. conn[c] \in ConnRecs /\ conn[c].queue \in Seq(Written)
      BY <1>g, StateFields
    <3>2. Append(conn[c].queue, L) \in Seq(Written)
      BY <1>g, <3>1, Appended
    <3> DEFINE q == Append(conn[c].queue, L)
               r == [conn[c] EXCEPT !.queue = q]
    <3> HIDE DEF q
    <3>3. /\ r \in ConnRecs /\ r.reader = conn[c].reader
          /\ r.held = conn[c].held /\ r.alive = conn[c].alive
          /\ r.running = conn[c].running /\ r.faulty = conn[c].faulty
          /\ r.lines = conn[c].lines /\ r.asked = conn[c].asked
          /\ r.callback = conn[c].callback /\ r.work = conn[c].work
          /\ r.replies = conn[c].replies /\ r.queue = q
      BY <3>1, <3>2 DEF ConnRecs, q
    <3>4. conn' = [conn EXCEPT ![c] = r]
      BY <1>m, <2>1 DEF Sends, q
    <3> HIDE DEF r
    <3>5. /\ conn' \in [Conns -> ConnRecs] /\ conn'[c] = r
          /\ \A d \in Conns \ {c} : conn'[d] = conn[d]
      <4>1. c \in Conns /\ r \in ConnRecs
        BY <1>g, <3>3
      <4> QED BY <3>4, <4>1, ConnStep
    <3>6. r.queue = Append(conn[c].queue, L)
      BY <3>3 DEF q
    <3> QED BY <2>1, <3>3, <3>5, <3>6
  <2>2. CASE ~Alive(c)
    BY <1>m, <2>2 DEF Types
  <2> QED BY <1>g, <2>1, <2>2
<1>q. \A d \in Conns :
        /\ Len(conn[d].queue) \in Nat /\ conn[d].queue \in Seq(Written)
        /\ Alive(c) /\ d = c => Len(conn'[d].queue) = Len(conn[d].queue) + 1
        /\ ~Alive(c) \/ d # c => Len(conn'[d].queue) = Len(conn[d].queue)
        /\ \A i \in 1 .. Len(conn[d].queue) : conn'[d].queue[i] = conn[d].queue[i]
        /\ Alive(c) /\ d = c => conn'[d].queue[Len(conn[d].queue) + 1] = L
  <2>1. \A d \in Conns : Len(conn[d].queue) \in Nat /\ conn[d].queue \in Seq(Written)
    BY StateFields, LenProperties
  <2>2. Alive(c) => /\ Len(conn'[c].queue) = Len(conn[c].queue) + 1
                    /\ \A i \in 1 .. Len(conn[c].queue) : conn'[c].queue[i] = conn[c].queue[i]
                    /\ conn'[c].queue[Len(conn[c].queue) + 1] = L
    BY <1>g, <1>c, <2>1, Appended
  <2> QED BY <1>c, <2>1, <2>2
<1>1. Types'
  BY <1>g, <1>t, <1>c DEF Types, Wires, Stops
<1>2. SendInv'
  BY <1>g, <1>t, <1>c DEF SendInv, Sender, Token
<1>3. TurnInv'
  BY <1>g, <1>t, <1>c DEF TurnInv, Coming, Using
<1>4. ClickInv'
  BY <1>g, <1>t, <1>c DEF ClickInv
<1>5. WireInv'
  BY <1>g, <1>t, <1>c DEF WireInv, SendInv, Sender
<1>6. IssuedInv'
  <2>1. \A tok \in Tokens : Issued(tok) => Issued(tok)'
    BY <1>g, <1>t DEF Issued, Tokens
  <2>2. Issued(mine)'
    BY <1>g, <1>t DEF Issued
  <2>3. ASSUME NEW d \in Conns, NEW i \in 1 .. Len(conn'[d].queue), NEW tok, tok = conn'[d].queue[i].of
        PROVE  Issued(tok)'
    <3>1. CASE i \in 1 .. Len(conn[d].queue)
      <4>1. tok = conn[d].queue[i].of /\ conn[d].queue[i] \in Written
        BY <1>q, <2>3, <3>1, ElementOfSeq
      <4>2. Issued(tok) /\ tok \in Tokens
        BY <3>1, <4>1 DEF IssuedInv, Written
      <4> QED BY <2>1, <4>2
    <3>2. CASE i \notin 1 .. Len(conn[d].queue)
      <4>1. tok = mine
        BY <1>g, <1>q, <2>3, <3>2
      <4> QED BY <2>2, <4>1 DEF Issued
    <3> QED BY <3>1, <3>2
  <2>4. \A d \in Conns : \A i \in 1 .. Len(conn'[d].queue) : Issued(conn[d].queue[i].of)'
    BY <2>3 DEF Issued
  <2>5. \A w \in wires : w.token # NoToken => Issued(w.token)'
    <3>1. \A w \in wires : w.token # NoToken => Issued(w.token) /\ w.token \in Tokens
      BY DEF IssuedInv, Types, Wires
    <3> QED BY <2>1, <3>1
  <2>6. \A g \in graces : Issued(g.token)'
    <3>1. \A g \in graces : Issued(g.token) /\ g.token \in Tokens
      BY DEF IssuedInv, Types
    <3> QED BY <2>1, <3>1
  <2> QED BY <1>g, <2>4, <2>5, <2>6 DEF IssuedInv
<1>7. OnceInv'
  <2>1. ASSUME NEW d \in Conns, NEW tok, \E i \in 1 .. Len(conn'[d].queue) :
                                              conn'[d].queue[i] = Line("cancel", tok)
        PROVE  Cancels(d, tok)
    <3>1. PICK i \in 1 .. Len(conn'[d].queue) : conn'[d].queue[i] = Line("cancel", tok)
      BY <2>1
    <3>2. CASE i \in 1 .. Len(conn[d].queue)
      BY <1>q, <3>1, <3>2 DEF Cancels
    <3>3. CASE i \notin 1 .. Len(conn[d].queue)
      <4>1. conn'[d].queue[i].k = "req" /\ conn'[d].queue[i].k = "cancel"
        BY <1>g, <1>q, <3>1, <3>3 DEF Line
      <4> QED BY <4>1
    <3> QED BY <3>2, <3>3
  <2>2. token # NoToken /\ ~notified => \A d \in Conns : ~Cancels(d, token)'
    BY <1>g, <2>1 DEF OnceInv, Cancels
  <2>3. ASSUME NEW d \in Conns, NEW i \in 1 .. Len(conn'[d].queue),
               NEW j \in 1 .. Len(conn'[d].queue), i < j, conn'[d].queue[i].k = "cancel"
        PROVE  conn'[d].queue[i].of # conn'[d].queue[j].of
    <3>1. i \in 1 .. Len(conn[d].queue)
      BY <1>q, <2>3
    <3>2. CASE j \in 1 .. Len(conn[d].queue)
      <4>1. /\ conn'[d].queue[i] = conn[d].queue[i] /\ conn'[d].queue[j] = conn[d].queue[j]
            /\ conn[d].queue[i].k = "cancel"
        BY <1>q, <2>3, <3>1, <3>2
      <4>2. conn[d].queue[i].of # conn[d].queue[j].of
        BY <2>3, <3>1, <3>2, <4>1 DEF OnceInv
      <4> QED BY <4>1, <4>2
    <3>3. CASE j \notin 1 .. Len(conn[d].queue)
      <4>1. Alive(c) /\ d = c
        BY <1>q, <3>3
      <4>2. j = Len(conn[d].queue) + 1 /\ conn'[d].queue[j] = L
        BY <1>q, <3>3, <4>1
      <4>3. conn'[d].queue[j].of = mine
        BY <1>g, <4>2
      <4>4. Issued(conn[d].queue[i].of)
        BY <3>1 DEF IssuedInv
      <4> QED BY <1>g, <1>q, <3>1, <4>3, <4>4
    <3> QED BY <3>2, <3>3
  <2> QED BY <1>g, <2>2, <2>3 DEF OnceInv
<1>8. FeedInv'
  <2>1. ASSUME NEW d \in Conns, NEW i \in 1 .. Len(conn'[d].queue), conn'[d].queue[i].k = "cancel"
        PROVE  Fed(conn'[d].queue, conn'[d].work, i - 1, conn'[d].queue[i].of)
    <3>1. i \in 1 .. Len(conn[d].queue) /\ conn'[d].queue[i] = conn[d].queue[i]
      <4>1. CASE i \in 1 .. Len(conn[d].queue)
        BY <1>q, <4>1
      <4>2. CASE i \notin 1 .. Len(conn[d].queue)
        <5>1. conn'[d].queue[i].k = "req"
          BY <1>g, <1>q, <2>1, <4>2 DEF Line
        <5> QED BY <2>1, <5>1
      <4> QED BY <4>1, <4>2
    <3>2. i - 1 \in 0 .. Len(conn[d].queue)
      BY <1>q, <3>1
    <3>3. Fed(conn[d].queue, conn[d].work, i - 1, conn[d].queue[i].of)
      BY <2>1, <3>1 DEF FeedInv
    <3>4. CASE Alive(c) /\ d = c
      <4>1. conn'[d].queue = Append(conn[d].queue, L) /\ conn'[d].work = conn[d].work
        BY <1>c, <3>4
      <4>2. conn[d].queue \in Seq(Written) /\ L \in Written
        BY <1>g, <1>q
      <4> QED BY <3>1, <3>2, <3>3, <4>1, <4>2, FedAppend
    <3>5. CASE ~(Alive(c) /\ d = c)
      BY <1>c, <3>1, <3>3, <3>5
    <3> QED BY <3>4, <3>5
  <2>2. Alive(c) => Fed(conn'[c].queue, conn'[c].work, Len(conn'[c].queue), mine)
    <3> SUFFICES ASSUME Alive(c)
                 PROVE  Fed(conn'[c].queue, conn'[c].work, Len(conn'[c].queue), mine)
      OBVIOUS
    <3>1. /\ conn'[c].queue = Append(conn[c].queue, Line("req", mine))
          /\ Len(conn'[c].queue) = Len(conn[c].queue) + 1 /\ conn[c].queue \in Seq(Written)
      BY <1>g, <1>q, <1>c DEF L
    <3> QED BY <1>g, <3>1, FedRequest
  <2>3. Alive(turn[t].conn)' => Alive(c)
    BY <1>g, <1>t, <1>c DEF Alive
  <2> QED BY <1>g, <1>t, <2>1, <2>2, <2>3 DEF FeedInv
<1>9. GraceInv'
  BY <1>g, <1>t, <1>c DEF GraceInv, SendInv
<1>10. FreshInv'
  BY <1>g, <1>t, <1>c, Indices DEF FreshInv, Sender, Coming, Using
<1>11. CallbackInv'
  BY <1>g, <1>t, <1>c DEF CallbackInv, Sender
<1>12. CountInv'
  BY <1>g, <1>t, <1>c DEF CountInv, Held
<1>13. SlotInv'
  BY <1>g, <1>t, <1>c, Indices DEF SlotInv, Sender, Coming, Using, Alive
<1>14. LostInv'
  BY <1>g, <1>t, <1>c, Indices DEF LostInv, Sender, Coming, Using
<1>15. FailInv'
  <2>1. ~Alive(c) => conn[c].faulty \/ shut \/ turn[t].cancelled
    BY <1>g, SweptTurn DEF Using
  <2>2. \A u \in Turns :
          /\ turn[u].wait # "none" \/ turn[u].out \in {"failed", "timeout"} => turn[u].conn \in Conns
    BY Indices
  <2> QED BY <1>g, <1>t, <1>c, <2>1, <2>2 DEF FailInv
<1>16. FaultInv'
  BY <1>g, <1>t, <1>c DEF FaultInv
<1>17. KeptInv'
  BY <1>g, <1>t, <1>c, Indices DEF KeptInv, Sender, Alive, Using, Coming
<1>18. NoStrayPermission'
  BY <1>g, <1>t, <1>c DEF NoStrayPermission, Stopped, Alive
<1>19. NoCollateral'
  BY <1>g, <1>t, <1>c, Indices DEF NoCollateral
<1> QED BY <1>1, <1>2, <1>3, <1>4, <1>5, <1>6, <1>7, <1>8, <1>9, <1>10,
           <1>11, <1>12, <1>13, <1>14, <1>15, <1>16, <1>17, <1>18, <1>19

\* The flag is looked at before the wait.
LEMMA WatchStep ==
  ASSUME IInv, NEW t \in Turns, Watch(t)
  PROVE  IInv'
<1> USE DEF IInv
<1>0. PICK e : e = turn[t].cancelled
  OBVIOUS
<1>g. /\ turn[t].pc = "watch" /\ sendlock = t /\ active = t /\ t # 0
      /\ e \in BOOLEAN /\ e = turn[t].cancelled /\ turn[t].wait # "none"
      /\ turn' = [turn EXCEPT ![t].pc = "await", ![t].early = e]
      /\ UNCHANGED <<limit, hand, late, sendlock, lock, active, slot, ready, token, notified,
                     shut, perms, conn, wires, graces, stops>>
      /\ \A d \in Conns : Eased(d)
  <2>1. turn[t].pc = "watch"
    BY DEF Watch, At
  <2>2. turn[t].cancelled \in BOOLEAN
    BY StateFields, TurnFields
  <2> QED BY <1>0, <2>1, <2>2, SenderIs DEF Watch, adapter, TurnInv, Eased
<1>t. /\ turn' \in [Turns -> TurnRecs] /\ \A u \in Turns \ {t} : turn'[u] = turn[u]
      /\ turn'[t].pc = "await" /\ turn'[t].early = turn[t].cancelled
      /\ turn'[t].conn = turn[t].conn /\ turn'[t].what = turn[t].what
      /\ turn'[t].cancelled = turn[t].cancelled
      /\ turn'[t].wait = turn[t].wait /\ turn'[t].out = turn[t].out
  <2> DEFINE r == [turn[t] EXCEPT !.pc = "await", !.early = e]
  <2>1. turn' = [turn EXCEPT ![t] = r]
    BY <1>g
  <2>2. turn[t] \in TurnRecs
    BY StateFields
  <2>3. r \in TurnRecs
    <3>1. \A b \in TurnRecs, x \in BOOLEAN : [b EXCEPT !.pc = "await", !.early = x] \in TurnRecs
      BY DEF TurnRecs, Pcs
    <3> QED BY <1>g, <2>2, <3>1, Zenon
  <2>4. /\ r.pc = "await" /\ r.early = e /\ r.conn = turn[t].conn /\ r.what = turn[t].what
        /\ r.cancelled = turn[t].cancelled /\ r.wait = turn[t].wait /\ r.out = turn[t].out
    BY <2>2 DEF TurnRecs
  <2> HIDE DEF r
  <2> QED BY <1>g, <2>1, <2>3, <2>4, TurnStep
<1>1. Types'
  BY <1>g, <1>t DEF Types, Wires, Stops
<1>2. SendInv'
  BY <1>g, <1>t DEF SendInv, Sender, Token
<1>3. TurnInv'
  BY <1>g, <1>t DEF TurnInv, Coming, Using
<1>4. ClickInv'
  BY <1>g, <1>t DEF ClickInv
<1>5. WireInv'
  BY <1>g, <1>t DEF WireInv, SendInv, Sender
<1>6. IssuedInv'
  <2>1. \A tok \in Tokens : Issued(tok) => Issued(tok)'
    BY <1>g, <1>t DEF Issued, Tokens, TurnInv
  <2> QED BY <2>1, <1>g, <1>t, IssuedKept
<1>7. OnceInv'
  BY <1>g, <1>t, OnceKept
<1>8. FeedInv'
  <2>1. \A d \in Conns : Alive(d)' => Alive(d)
    BY <1>g, <1>t DEF Alive
  <2>2. token' # NoToken /\ Sender({"watch", "await", "result"})' =>
          /\ token' = token /\ sendlock' = sendlock /\ Sender({"watch", "await", "result"})
          /\ turn'[sendlock].conn = turn[sendlock].conn
    BY <1>g, <1>t DEF Sender
  <2> QED BY <2>1, <2>2, <1>g, <1>t, FeedKept
<1>9. GraceInv'
  BY <1>g, <1>t DEF GraceInv, SendInv
<1>10. FreshInv'
  BY <1>g, <1>t, Indices DEF FreshInv, Sender, Coming, Using
<1>11. CallbackInv'
  BY <1>g, <1>t DEF CallbackInv, Sender
<1>12. CountInv'
  BY <1>g, <1>t DEF CountInv, Held
<1>13. SlotInv'
  BY <1>g, <1>t, Indices DEF SlotInv, Sender, Coming, Using, Alive
<1>14. LostInv'
  BY <1>g, <1>t, Indices DEF LostInv, Sender, Coming, Using
<1>15. FailInv'
  BY <1>g, <1>t, Indices DEF FailInv
<1>16. FaultInv'
  BY <1>g, <1>t DEF FaultInv
<1>17. KeptInv'
  BY <1>g, <1>t, Indices DEF KeptInv, Sender, Alive, Using, Coming
<1>18. NoStrayPermission'
  BY <1>g, <1>t DEF NoStrayPermission, Stopped, Alive
<1>19. NoCollateral'
  BY <1>g, <1>t, Indices DEF NoCollateral
<1> QED BY <1>1, <1>2, <1>3, <1>4, <1>5, <1>6, <1>7, <1>8, <1>9, <1>10,
           <1>11, <1>12, <1>13, <1>14, <1>15, <1>16, <1>17, <1>18, <1>19

-----------------------------------------------------------------------------
\* The other steps of a send's thread are of one of these kinds.
LEMMA EnterStep ==
  ASSUME IInv, NEW t \in Turns, Enter(t)
  PROVE  IInv'
BY EnterShutStep, EnterOpensStep

\* A connection that is dead is dropped before another is spawned.
LEMMA EnsureStep ==
  ASSUME IInv, NEW t \in Turns, Ensure(t)
  PROVE  IInv'
<1> USE DEF IInv
<1>1. /\ turn[t].pc = "ensure"
      /\ UNCHANGED <<limit, hand, late, sendlock, lock, active, token, notified, shut, wires, graces>>
  BY DEF Ensure, At
<1>2. turn[t].what = "none" /\ turn[t].out = "none"
  BY <1>1 DEF TurnInv
<1>3. CASE Stopped
  <2>1. Out(t, "stopped") /\ Keep
    BY <1>3 DEF Ensure
  <2>2. PICK r \in TurnRecs :
           /\ turn' = [turn EXCEPT ![t] = r] /\ r.pc = "finish" /\ r.out = "stopped"
           /\ r.conn = turn[t].conn /\ r.what = turn[t].what /\ r.cancelled = turn[t].cancelled
           /\ r.early = turn[t].early /\ r.wait = turn[t].wait
    BY <2>1, OutWrites DEF Out
  <2>3. Moves(t, r)
    BY <1>1, <1>3, <2>1, <2>2, WorkerIs DEF Moves, Keep
  <2> QED BY <2>3, MovesStep
<1>4. CASE ~Stopped /\ slot = 0
  <2>1. To(t, "spawn") /\ Keep
    BY <1>4 DEF Ensure
  <2>2. PICK r \in TurnRecs :
           /\ turn' = [turn EXCEPT ![t] = r] /\ r.pc = "spawn" /\ r.out = turn[t].out
           /\ r.conn = turn[t].conn /\ r.what = turn[t].what /\ r.cancelled = turn[t].cancelled
           /\ r.early = turn[t].early /\ r.wait = turn[t].wait
    BY <2>1, ToWrites DEF Pcs
  <2>3. Moves(t, r)
    BY <1>1, <1>4, <2>1, <2>2, WorkerIs DEF Moves, Keep
  <2> QED BY <2>3, MovesStep
<1>5. CASE ~Stopped /\ slot # 0 /\ ~Healthy(slot)
  <2>1. To(t, "spawn") /\ Drop(t)
    BY <1>5 DEF Ensure
  <2>2. PICK r \in TurnRecs :
           /\ turn' = [turn EXCEPT ![t] = r] /\ r.pc = "spawn" /\ r.out = turn[t].out
           /\ r.conn = turn[t].conn /\ r.what = turn[t].what /\ r.cancelled = turn[t].cancelled
           /\ r.early = turn[t].early /\ r.wait = turn[t].wait
    BY <2>1, ToWrites DEF Pcs
  <2>3. Drops(t, r)
    BY <1>1, <1>5, <2>1, <2>2, WorkerIs DEF Drops
  <2> QED BY <2>3, DropsStep
<1>6. CASE ~Stopped /\ slot # 0 /\ Healthy(slot) /\ ready
  <2>1. To(t, "opened") /\ Keep
    BY <1>6 DEF Ensure
  <2>2. PICK r \in TurnRecs :
           /\ turn' = [turn EXCEPT ![t] = r] /\ r.pc = "opened" /\ r.out = turn[t].out
           /\ r.conn = turn[t].conn /\ r.what = turn[t].what /\ r.cancelled = turn[t].cancelled
           /\ r.early = turn[t].early /\ r.wait = turn[t].wait
    BY <2>1, ToWrites DEF Pcs
  <2>3. Moves(t, r)
    BY <1>1, <1>2, <1>6, <2>1, <2>2, WorkerIs DEF Moves, Keep
  <2> QED BY <2>3, MovesStep
<1>7. CASE ~Stopped /\ slot # 0 /\ Healthy(slot) /\ ~ready
  <2>1. ToRequest(t, slot, "init") /\ Keep
    BY <1>7 DEF Ensure
  <2>2. slot \in Conns
    BY <1>7 DEF Types
  <2>3. PICK r \in TurnRecs :
           /\ turn' = [turn EXCEPT ![t] = r] /\ r.pc = "request" /\ r.out = "none"
           /\ r.conn = slot /\ r.what = "init" /\ r.cancelled = turn[t].cancelled
           /\ r.early = turn[t].early /\ r.wait = turn[t].wait
    BY <2>1, <2>2, RequestWrites
  <2>4. Moves(t, r)
    BY <1>1, <1>7, <2>1, <2>3, WorkerIs DEF Moves, Keep
  <2> QED BY <2>4, MovesStep
<1> QED BY <1>3, <1>4, <1>5, <1>6, <1>7

LEMMA SpawnStep ==
  ASSUME IInv, NEW t \in Turns, Spawn(t)
  PROVE  IInv'
<1> USE DEF IInv
<1>1. /\ turn[t].pc = "spawn"
      /\ UNCHANGED <<limit, hand, late, sendlock, lock, active, token, notified, shut, perms, conn,
                     wires, graces, stops, slot, ready>>
  BY DEF Spawn, At, adapter
<1>2. turn[t].what = "none"
  BY <1>1 DEF TurnInv
<1>3. CASE Stopped
  <2>1. To(t, "opened") 
    BY <1>3 DEF Spawn
  <2>2. PICK r \in TurnRecs :
           /\ turn' = [turn EXCEPT ![t] = r] /\ r.pc = "opened" /\ r.out = turn[t].out
           /\ r.conn = turn[t].conn /\ r.what = turn[t].what /\ r.cancelled = turn[t].cancelled
           /\ r.early = turn[t].early /\ r.wait = turn[t].wait
    BY <2>1, ToWrites DEF Pcs
  <2>3. Moves(t, r)
    BY <1>1, <1>2, <1>3, <2>1, <2>2, WorkerIs DEF Moves
  <2> QED BY <2>3, MovesStep
<1>4. CASE ~Stopped /\ Unused = {}
  <2>1. Out(t, "unstarted") 
    BY <1>4 DEF Spawn
  <2>2. PICK r \in TurnRecs :
           /\ turn' = [turn EXCEPT ![t] = r] /\ r.pc = "finish" /\ r.out = "unstarted"
           /\ r.conn = turn[t].conn /\ r.what = turn[t].what /\ r.cancelled = turn[t].cancelled
           /\ r.early = turn[t].early /\ r.wait = turn[t].wait
    BY <2>1, OutWrites DEF Out
  <2>3. Moves(t, r)
    BY <1>1, <2>1, <2>2, WorkerIs DEF Moves
  <2> QED BY <2>3, MovesStep
<1> QED BY <1>3, <1>4, SpawnTakesStep

\* A process whose slot was lost goes to a stop with its turn's last look at it.
LEMMA OwnedStep ==
  ASSUME IInv, NEW t \in Turns, Owned(t)
  PROVE  IInv'
<1> USE DEF IInv
<1>1. /\ turn[t].pc = "owned" /\ turn[t].pc \in Using
      /\ UNCHANGED <<limit, hand, late, sendlock, lock, active, slot, ready, token, notified, shut, perms,
                     conn, wires, graces>>
  BY DEF Owned, At, Using, adapter
<1>2. turn[t].what = "none"
  BY <1>1 DEF TurnInv
<1>3. CASE Lost(turn[t].conn)
  <2>1. To(t, "opened") /\ stops' = Stopping(t, turn[t].conn)
    BY <1>3 DEF Owned
  <2>2. PICK r \in TurnRecs :
           /\ turn' = [turn EXCEPT ![t] = r] /\ r.pc = "opened" /\ r.out = turn[t].out
           /\ r.conn = turn[t].conn /\ r.what = turn[t].what /\ r.cancelled = turn[t].cancelled
           /\ r.early = turn[t].early /\ r.wait = turn[t].wait
    BY <2>1, ToWrites DEF Pcs
  <2>3. slot # turn[t].conn \/ shut
    BY <1>3 DEF Lost
  <2>4. /\ stops' \subseteq Stops /\ stops \subseteq stops'
        /\ \A s \in stops' : s \in stops \/ s.conn = turn[t].conn
        /\ \E s \in stops' : s.conn = turn[t].conn
    BY <1>1, <2>1, WorkerIs, StoppingWrites
  <2>5. Moves(t, r)
    BY <1>1, <1>2, <2>2, <2>3, <2>4, WorkerIs DEF Moves
  <2> QED BY <2>5, MovesStep
<1>4. CASE ~Lost(turn[t].conn) /\ Stopped
  <2>1. To(t, "opened") /\ UNCHANGED stops
    BY <1>4 DEF Owned
  <2>2. PICK r \in TurnRecs :
           /\ turn' = [turn EXCEPT ![t] = r] /\ r.pc = "opened" /\ r.out = turn[t].out
           /\ r.conn = turn[t].conn /\ r.what = turn[t].what /\ r.cancelled = turn[t].cancelled
           /\ r.early = turn[t].early /\ r.wait = turn[t].wait
    BY <2>1, ToWrites DEF Pcs
  <2>3. Moves(t, r)
    BY <1>1, <1>2, <1>4, <2>1, <2>2, WorkerIs DEF Moves, Lost
  <2> QED BY <2>3, MovesStep
<1>5. CASE ~Lost(turn[t].conn) /\ ~Stopped /\ ~Alive(turn[t].conn)
  <2>1. Out(t, "error") /\ UNCHANGED stops
    BY <1>5 DEF Owned, Report
  <2>2. conn[turn[t].conn].faulty
    BY <1>1, <1>5, SweptTurn, WorkerIs
  <2>3. PICK r \in TurnRecs :
           /\ turn' = [turn EXCEPT ![t] = r] /\ r.pc = "finish" /\ r.out = "error"
           /\ r.conn = turn[t].conn /\ r.what = turn[t].what /\ r.cancelled = turn[t].cancelled
           /\ r.early = turn[t].early /\ r.wait = turn[t].wait
    BY <2>1, OutWrites DEF Out
  <2>4. Moves(t, r)
    BY <1>1, <1>5, <2>1, <2>2, <2>3, WorkerIs DEF Moves
  <2> QED BY <2>4, MovesStep
<1>6. CASE ~Lost(turn[t].conn) /\ ~Stopped /\ Alive(turn[t].conn)
  <2>1. ToRequest(t, turn[t].conn, "init") /\ UNCHANGED stops
    BY <1>6 DEF Owned
  <2>2. PICK r \in TurnRecs :
           /\ turn' = [turn EXCEPT ![t] = r] /\ r.pc = "request" /\ r.out = "none"
           /\ r.conn = turn[t].conn /\ r.what = "init" /\ r.cancelled = turn[t].cancelled
           /\ r.early = turn[t].early /\ r.wait = turn[t].wait
    BY <1>1, <2>1, WorkerIs, RequestWrites
  <2>3. Moves(t, r)
    BY <1>1, <1>6, <2>1, <2>2, WorkerIs DEF Moves, Lost
  <2> QED BY <2>3, MovesStep
<1> QED BY <1>3, <1>4, <1>5, <1>6

LEMMA RequestStep ==
  ASSUME IInv, NEW t \in Turns, Request(t)
  PROVE  IInv'
<1> USE DEF IInv
<1>1. /\ turn[t].pc = "request" /\ turn[t].pc \in Using
      /\ UNCHANGED <<limit, hand, late, sendlock, active, slot, ready, notified, shut, perms, conn, wires,
                     graces, stops>>
  BY DEF Request, At, Using
<1>2. CASE Stopped /\ turn[t].what = "init"
  <2>1. To(t, "opened") /\ UNCHANGED <<token, lock>>
    BY <1>2 DEF Request
  <2>2. PICK r \in TurnRecs :
           /\ turn' = [turn EXCEPT ![t] = r] /\ r.pc = "opened" /\ r.out = turn[t].out
           /\ r.conn = turn[t].conn /\ r.what = turn[t].what /\ r.cancelled = turn[t].cancelled
           /\ r.early = turn[t].early /\ r.wait = turn[t].wait
    BY <2>1, ToWrites DEF Pcs
  <2>3. Moves(t, r)
    BY <1>1, <1>2, <2>1, <2>2, WorkerIs DEF Moves
  <2> QED BY <2>3, MovesStep
<1>3. CASE Stopped /\ turn[t].what # "init"
  <2>1. Out(t, "stopped") /\ UNCHANGED <<token, lock>>
    BY <1>3 DEF Request
  <2>2. PICK r \in TurnRecs :
           /\ turn' = [turn EXCEPT ![t] = r] /\ r.pc = "finish" /\ r.out = "stopped"
           /\ r.conn = turn[t].conn /\ r.what = turn[t].what /\ r.cancelled = turn[t].cancelled
           /\ r.early = turn[t].early /\ r.wait = turn[t].wait
    BY <2>1, OutWrites DEF Out
  <2>3. Moves(t, r)
    BY <1>1, <1>3, <2>1, <2>2, WorkerIs DEF Moves
  <2> QED BY <2>3, MovesStep
<1>4. CASE ~Stopped /\ ~Alive(turn[t].conn)
  <2>1. turn' = [turn EXCEPT ![t].pc = "result", ![t].out = "failed"] /\ UNCHANGED <<token, lock>>
    BY <1>4 DEF Request, Begin
  <2>2. PICK r \in TurnRecs :
           /\ turn' = [turn EXCEPT ![t] = r] /\ r.pc = "result" /\ r.out = "failed"
           /\ r.conn = turn[t].conn /\ r.what = turn[t].what /\ r.cancelled = turn[t].cancelled
           /\ r.early = turn[t].early /\ r.wait = turn[t].wait
    BY <2>1, OutWrites
  <2>3. Moves(t, r)
    BY <1>1, <1>4, <2>1, <2>2, WorkerIs DEF Moves
  <2> QED BY <2>3, MovesStep
<1> QED BY <1>2, <1>3, <1>4, BeginsStep

\* A stop that swept before the waiter came is noticed.
LEMMA RegisterStep ==
  ASSUME IInv, NEW t \in Turns, Register(t)
  PROVE  IInv'
<1> USE DEF IInv
<1>1. CASE Swept(t)
  <2>1. /\ turn[t].pc = "register"
        /\ turn' = [turn EXCEPT ![t].pc = "result", ![t].out = "failed"]
        /\ lock' = 0 /\ token' = NoToken /\ (~Alive(turn[t].conn) \/ ~conn[turn[t].conn].running)
        /\ UNCHANGED <<limit, hand, late, sendlock, active, slot, ready, notified, shut, perms, conn, wires,
                       graces, stops>>
    BY <1>1 DEF Register, At, Swept, Alive
  <2>2. turn[t].wait = "none"
    BY <2>1 DEF TurnInv
  <2>3. PICK r \in TurnRecs :
           /\ turn' = [turn EXCEPT ![t] = r] /\ r.pc = "result" /\ r.out = "failed"
           /\ r.conn = turn[t].conn /\ r.what = turn[t].what /\ r.cancelled = turn[t].cancelled
           /\ r.early = turn[t].early /\ r.wait = turn[t].wait
    BY <2>1, OutWrites
  <2>4. ready \in BOOLEAN /\ (ready => slot # 0) /\ stops \subseteq Stops
    BY DEF Types, SlotInv
  <2>5. Moves(t, r)
    BY <2>1, <2>2, <2>3, <2>4 DEF Moves
  <2> QED BY <2>5, MovesStep
<1> QED BY <1>1, RegistersStep

\* A thread that takes the result of its request.
LEMMA ResultIs ==
  ASSUME IInv, NEW t \in Turns, NEW what, Result(t, what)
  PROVE  /\ turn[t].pc = "result" /\ turn[t].pc \in Using /\ turn[t].what = what
         /\ token' = NoToken
<1> USE DEF IInv
<1>1. turn[t].pc = "result" /\ turn[t].pc \in Using /\ turn[t].what = what
  BY DEF Result, At, Using
<1>2. token \in {NoToken, Token(t)}
  BY <1>1, WorkerIs
<1> QED BY <1>1, <1>2 DEF Result

\* A process that lost its slot while it was initialized goes to a stop.
LEMMA InitializedStep ==
  ASSUME IInv, NEW t \in Turns, Initialized(t)
  PROVE  IInv'
<1> USE DEF IInv
<1>1. /\ turn[t].pc = "result" /\ turn[t].pc \in Using /\ turn[t].what = "init"
      /\ token' = NoToken /\ To(t, "opened")
      /\ UNCHANGED <<limit, hand, late, sendlock, lock, active, notified, shut, wires, graces, slot, perms, conn>>
  BY ResultIs DEF Initialized, Others
<1>2. PICK r \in TurnRecs :
         /\ turn' = [turn EXCEPT ![t] = r] /\ r.pc = "opened" /\ r.out = turn[t].out
         /\ r.conn = turn[t].conn /\ r.what = turn[t].what /\ r.cancelled = turn[t].cancelled
         /\ r.early = turn[t].early /\ r.wait = turn[t].wait
  BY <1>1, ToWrites DEF Pcs
<1>3. CASE Lost(turn[t].conn)
  <2>1. stops' = Stopping(t, turn[t].conn) /\ ready' = ready
    BY <1>3 DEF Initialized
  <2>2. slot # turn[t].conn \/ shut
    BY <1>1, <1>3, WorkerIs DEF Lost, SlotInv
  <2>3. /\ stops' \subseteq Stops /\ stops \subseteq stops'
        /\ \A s \in stops' : s \in stops \/ s.conn = turn[t].conn
    BY <1>1, <2>1, WorkerIs, StoppingWrites
  <2>4. Moves(t, r)
    BY <1>1, <1>2, <2>1, <2>2, <2>3, WorkerIs DEF Moves
  <2> QED BY <2>4, MovesStep
<1>4. CASE ~Lost(turn[t].conn)
  <2>1. ready' = TRUE /\ UNCHANGED stops
    BY <1>4 DEF Initialized
  <2>2. slot # 0
    BY <1>1, <1>4, WorkerIs DEF Lost
  <2>3. Moves(t, r)
    BY <1>1, <1>2, <2>1, <2>2, WorkerIs DEF Moves
  <2> QED BY <2>3, MovesStep
<1> QED BY <1>3, <1>4

LEMMA InitFailsStep ==
  ASSUME IInv, NEW t \in Turns, InitFails(t)
  PROVE  IInv'
<1> USE DEF IInv
<1>1. CASE Lost(turn[t].conn)
  <2>1. /\ turn[t].pc = "result" /\ turn[t].pc \in Using /\ turn[t].what = "init"
        /\ token' = NoToken /\ To(t, "opened")
        /\ UNCHANGED <<limit, hand, late, sendlock, lock, active, notified, shut, wires, graces, slot, ready,
                       perms, conn, stops>>
    BY <1>1, ResultIs DEF InitFails, Others
  <2>2. PICK r \in TurnRecs :
           /\ turn' = [turn EXCEPT ![t] = r] /\ r.pc = "opened" /\ r.out = turn[t].out
           /\ r.conn = turn[t].conn /\ r.what = turn[t].what /\ r.cancelled = turn[t].cancelled
           /\ r.early = turn[t].early /\ r.wait = turn[t].wait
    BY <2>1, ToWrites DEF Pcs
  <2>3. Moves(t, r)
    BY <2>1, <2>2, WorkerIs DEF Moves
  <2> QED BY <2>3, MovesStep
<1> QED BY <1>1, InitReleasesStep

LEMMA OpenStep ==
  ASSUME IInv, NEW t \in Turns, Open(t)
  PROVE  IInv'
<1> USE DEF IInv
<1>1. CASE Stopped \/ slot = 0
  <2>1. /\ turn[t].pc = "opened" /\ conn' = conn
        /\ UNCHANGED <<limit, hand, late, sendlock, lock, active, slot, ready, token, notified, shut, perms,
                       wires, graces, stops>>
    BY <1>1 DEF Open, At, adapter
  <2>2. slot = 0 => Stopped
    BY <2>1, WorkerIs, SenderIs DEF LostInv, Sender
  <2>3. Out(t, "stopped")
    BY <1>1, <2>2 DEF Open
  <2>4. PICK r \in TurnRecs :
           /\ turn' = [turn EXCEPT ![t] = r] /\ r.pc = "finish" /\ r.out = "stopped"
           /\ r.conn = turn[t].conn /\ r.what = turn[t].what /\ r.cancelled = turn[t].cancelled
           /\ r.early = turn[t].early /\ r.wait = turn[t].wait
    BY <2>3, OutWrites DEF Out
  <2>5. Moves(t, r)
    BY <1>1, <2>1, <2>2, <2>4, WorkerIs DEF Moves
  <2> QED BY <2>5, MovesStep
<1> QED BY <1>1, OpensStep

\* A prompt's result that ends the turn and leaves the connection alone.
LEMMA EndsStep ==
  ASSUME IInv, NEW t \in Turns, Result(t, "prompt"), NEW how \in {"stopped", "error", "done"},
         Out(t, how), Keep, UNCHANGED Others,
         how = "stopped" => Stopped,
         how = "error" => conn[turn[t].conn].faulty
  PROVE  IInv'
<1> USE DEF IInv
<1>1. /\ turn[t].pc = "result" /\ turn[t].pc \in Using /\ token' = NoToken
      /\ UNCHANGED <<limit, hand, late, sendlock, lock, active, notified, shut, wires, graces, slot, ready,
                     perms, conn, stops>>
  BY ResultIs DEF Others, Keep
<1>2. PICK r \in TurnRecs :
         /\ turn' = [turn EXCEPT ![t] = r] /\ r.pc = "finish" /\ r.out = how
         /\ r.conn = turn[t].conn /\ r.what = turn[t].what /\ r.cancelled = turn[t].cancelled
         /\ r.early = turn[t].early /\ r.wait = turn[t].wait
  <2> DEFINE w == [turn[t] EXCEPT !.pc = "finish", !.out = how]
  <2>1. turn' = [turn EXCEPT ![t] = w]
    BY DEF Out
  <2>2. /\ w \in TurnRecs /\ w.pc = "finish" /\ w.out = how
        /\ w.conn = turn[t].conn /\ w.what = turn[t].what /\ w.cancelled = turn[t].cancelled
        /\ w.early = turn[t].early /\ w.wait = turn[t].wait
    BY StateFields DEF TurnRecs, Pcs
  <2> HIDE DEF w
  <2> QED BY <2>1, <2>2
<1>3. Moves(t, r)
  BY <1>1, <1>2, WorkerIs DEF Moves
<1> QED BY <1>3, MovesStep

\* One that drops the connection.
LEMMA BreaksStep ==
  ASSUME IInv, NEW t \in Turns, Result(t, "prompt"), turn[t].out \in {"failed", "timeout"},
         ~Stopped, Report(t), Drop(t), UNCHANGED Others
  PROVE  IInv'
<1> USE DEF IInv
<1>1. /\ turn[t].pc = "result" /\ turn[t].pc \in Using /\ token' = NoToken
      /\ UNCHANGED <<limit, hand, late, sendlock, lock, active, notified, shut, wires, graces>>
      /\ Out(t, "error")
  BY ResultIs DEF Others, Report
<1>2. PICK r \in TurnRecs :
         /\ turn' = [turn EXCEPT ![t] = r] /\ r.pc = "finish" /\ r.out = "error"
         /\ r.conn = turn[t].conn /\ r.what = turn[t].what /\ r.cancelled = turn[t].cancelled
         /\ r.early = turn[t].early /\ r.wait = turn[t].wait
  BY <1>1, OutWrites DEF Out
<1>3. slot # 0 /\ conn[turn[t].conn].faulty
  BY <1>1, WorkerIs DEF FailInv
<1>4. Drops(t, r)
  BY <1>1, <1>2, <1>3, WorkerIs DEF Drops
<1> QED BY <1>4, DropsStep

LEMMA PromptOkStep ==
  ASSUME IInv, NEW t \in Turns, PromptOk(t)
  PROVE  IInv'
<1>1. Result(t, "prompt") /\ Keep /\ UNCHANGED Others
  BY DEF PromptOk
<1>2. CASE Stopped
  BY <1>1, <1>2, EndsStep DEF PromptOk
<1>3. CASE ~Stopped
  BY <1>1, <1>3, EndsStep DEF PromptOk
<1> QED BY <1>2, <1>3

LEMMA PromptTimeoutStep ==
  ASSUME IInv, NEW t \in Turns, PromptTimeout(t)
  PROVE  IInv'
<1>1. Result(t, "prompt") /\ turn[t].out = "timeout" /\ Report(t) /\ UNCHANGED Others
  BY DEF PromptTimeout
<1>2. CASE Stopped
  BY <1>1, <1>2, EndsStep DEF PromptTimeout, Report
<1>3. CASE ~Stopped
  BY <1>1, <1>3, BreaksStep DEF PromptTimeout
<1> QED BY <1>2, <1>3

LEMMA PromptFailsStep ==
  ASSUME IInv, NEW t \in Turns, PromptFails(t)
  PROVE  IInv'
<1> USE DEF IInv
<1>1. Result(t, "prompt") /\ turn[t].out = "failed" /\ UNCHANGED Others
  BY DEF PromptFails
<1>2. turn[t].pc = "result" /\ turn[t].pc \in Using
  BY <1>1, ResultIs
<1>3. /\ slot # turn[t].conn => Stopped
      /\ ~Stopped => conn[turn[t].conn].faulty
  BY <1>1, <1>2, WorkerIs DEF FailInv
<1>4. CASE Stopped
  BY <1>1, <1>4, EndsStep DEF PromptFails
<1>5. CASE ~Stopped /\ ~Healthy(turn[t].conn)
  BY <1>1, <1>3, <1>5, BreaksStep DEF PromptFails
<1>6. CASE ~Stopped /\ Healthy(turn[t].conn)
  <2>1. Out(t, "error") /\ Keep
    BY <1>6 DEF PromptFails, Report
  <2> QED BY <1>1, <1>3, <1>6, <2>1, EndsStep
<1> QED BY <1>4, <1>5, <1>6

-----------------------------------------------------------------------------
\* Every step keeps the invariant.
LEMMA UserKeeps ==
  ASSUME IInv, User
  PROVE  IInv'
BY SendClickStep, StopClickStep, ApproveStep, ShutdownStep DEF User

LEMMA WorkerKeeps ==
  ASSUME IInv, NEW t \in Turns, Worker(t)
  PROVE  IInv'
BY EnterStep, EnsureStep, SpawnStep, PlaceStep, StartsStep, StartFailsStep, RunsStep, OwnedStep,
   RequestStep, RegisterStep, EnqueueStep, WatchStep, AwaitStep, InitializedStep, InitFailsStep,
   ReleasedStep, OpenStep, PromptOkStep, PromptTimeoutStep, PromptFailsStep, LeaveStep DEF Worker

LEMMA ProcessKeeps ==
  ASSUME IInv, NEW c \in Conns, Reap(c) \/ Agent(c) \/ Reader(c)
  PROVE  IInv'
BY ReapStep, WriteLandsStep, AnswersStep, AsksStep, DiesStep, ResponseStep, TakesAskStep, PermissionStep,
   ReaderExitsStep DEF Agent, Reader

LEMMA NextKeeps ==
  ASSUME IInv, Next
  PROVE  IInv'
<1>1. CASE User
  BY <1>1, UserKeeps
<1>2. CASE WireStep
  BY <1>2, WireDecidesStep, WireActsStep DEF WireStep
<1>3. CASE StopStep
  BY <1>3, StopSweepsStep, StopClaimsStep DEF StopStep
<1>4. CASE GraceStep
  BY <1>4, GraceFiresStep DEF GraceStep
<1>5. CASE \E c \in Conns : Reap(c) \/ Agent(c) \/ Reader(c)
  BY <1>5, ProcessKeeps
<1>6. CASE \E t \in Turns : Worker(t) \/ Silence(t)
  BY <1>6, WorkerKeeps, SilenceStep
<1> QED BY <1>1, <1>2, <1>3, <1>4, <1>5, <1>6 DEF Next

LEMMA StutterKeeps ==
  ASSUME IInv, UNCHANGED vars
  PROVE  IInv'
<1>1. UNCHANGED <<limit, hand, late, turn, sendlock, lock, active, slot, ready, token, notified, shut, perms,
                  conn, wires, graces, stops>>
  BY DEF vars, adapter
<1>2. UNCHANGED <<Types, SendInv, TurnInv, ClickInv, WireInv>>
  BY <1>1 DEF Types, SendInv, Sender, Token, TurnInv, ClickInv, WireInv
<1>3. UNCHANGED <<GraceInv, FreshInv, CallbackInv, CountInv, SlotInv, LostInv>>
  BY <1>1 DEF GraceInv, FreshInv, Sender, CallbackInv, CountInv, Held, SlotInv, Alive, LostInv
<1>4. UNCHANGED <<FailInv, FaultInv, KeptInv, NoStrayPermission, NoCollateral>>
  BY <1>1 DEF FailInv, FaultInv, KeptInv, Sender, Alive, NoStrayPermission, Stopped, NoCollateral
<1>5. UNCHANGED <<IssuedInv, OnceInv, FeedInv>>
  BY <1>1 DEF IssuedInv, Issued, OnceInv, Cancels, FeedInv, Sender, Alive
<1> QED BY <1>2, <1>3, <1>4, <1>5 DEF IInv

\* It holds of the initial states.
LEMMA InitHolds ==
  ASSUME Init
  PROVE  IInv
<1>1. /\ \A t \in Turns : turn[t] = NewTurn
      /\ \A c \in Conns : conn[c] = NewConn /\ perms[c] = 0 /\ hand[c] = 0
      /\ limit \in Limits /\ sendlock = 0 /\ lock = 0 /\ active = 0 /\ slot = 0 /\ ready = FALSE
      /\ token = NoToken /\ notified = FALSE /\ shut = FALSE
      /\ wires = {} /\ graces = {} /\ stops = {}
  BY DEF Init
<1>2. /\ NewTurn \in TurnRecs /\ NewTurn.pc = "idle" /\ NewTurn.conn = 0 /\ NewTurn.what = "none"
      /\ ~NewTurn.cancelled /\ ~NewTurn.early /\ NewTurn.wait = "none" /\ NewTurn.out = "none"
  BY DEF NewTurn, TurnRecs, Pcs
<1>3. <<>> \in Seq(Written) /\ <<>> \in Seq(Said)
  OBVIOUS
<1>4. /\ NewConn \in ConnRecs /\ ~NewConn.held /\ ~NewConn.alive /\ ~NewConn.faulty
      /\ NewConn.queue = <<>> /\ NewConn.reader = "new" /\ NewConn.callback = 0
      /\ NewConn.lines = <<>> /\ NewConn.asked = 0 /\ NewConn.replies = 0
  BY <1>3 DEF NewConn, ConnRecs
<1>5. Types
  BY <1>1, <1>2, <1>4 DEF Types, Init
<1>6. /\ SendInv /\ TurnInv /\ ClickInv /\ WireInv /\ GraceInv /\ NoCollateral
  BY <1>1, <1>2, Places
     DEF SendInv, Sender, TurnInv, ClickInv, WireInv, GraceInv, NoCollateral, Coming, Using
<1>7. IssuedInv /\ OnceInv /\ FeedInv /\ FaultInv
  <2>1. \A c \in Conns : conn[c].queue = <<>> /\ conn[c].lines = <<>>
    BY <1>1, <1>4
  <2>2. \A c \in Conns : 1 .. Len(conn[c].queue) = {} /\ 1 .. Len(conn[c].lines) = {}
    BY <2>1
  <2> QED BY <1>1, <2>2 DEF IssuedInv, OnceInv, FeedInv, FaultInv, Cancels
<1>8. FreshInv /\ CallbackInv /\ SlotInv /\ LostInv /\ FailInv /\ KeptInv /\ NoStrayPermission
  BY <1>1, <1>2, <1>4 DEF FreshInv, CallbackInv, SlotInv, LostInv, FailInv, KeptInv,
     NoStrayPermission, Sender, Alive, Coming, Using
<1>9. CountInv
  <2>1. limit.asks \in Nat
    BY <1>1, Places
  <2>2. \A c \in Conns : /\ conn[c].replies = 0 /\ perms[c] = 0 /\ hand[c] = 0 /\ conn[c].asked = 0
                         /\ Cardinality(AskedAt(conn[c].lines)) = 0
    BY <1>1, <1>4, AskedNone
  <2> QED BY <2>1, <2>2 DEF CountInv, Held
<1> QED BY <1>5, <1>6, <1>7, <1>8, <1>9 DEF IInv

\* The parts of IInv hold of every reachable state.
THEOREM Invariance == Spec => []IInv
<1>1. IInv /\ [Next]_vars => IInv'
  BY NextKeeps, StutterKeeps
<1> QED BY <1>1, InitHolds, PTL DEF Spec

\* What it says of the permissions,
LEMMA Answered ==
  ASSUME IInv
  PROVE  PermissionInv
<1> USE DEF IInv
<1>1. TypeOK
  <2>1. \A t \in Turns : turn[t] \in TurnRecs
    BY StateFields
  <2>2. {lock, active, token.t} \subseteq {0, sendlock}
    BY DEF SendInv, Token, NoToken
  <2>3. \A c \in Conns : perms[c] \in Nat /\ conn[c].asked \in 0 .. limit.asks
    <3>1. limit.asks \in Nat
      BY Places DEF Types
    <3> QED BY <3>1, StateFields, ConnFields DEF CountInv, Held
  <2> QED BY <2>1, <2>2, <2>3, TurnFields DEF TypeOK, Types
<1>2. OneReply
  <2> SUFFICES ASSUME NEW c \in Conns PROVE conn[c].replies + perms[c] <= conn[c].asked
    BY DEF OneReply
  <2>1. /\ Cardinality(AskedAt(conn[c].lines)) \in Nat /\ conn[c].replies \in Nat
        /\ conn[c].asked \in Nat /\ perms[c] \in Nat
    BY StateFields, ConnFields, AskedNumber
  <2> QED BY <2>1 DEF CountInv, Held
<1> QED BY <1>1, <1>2 DEF PermissionInv

\* Permissions are asked, kept, answered and swept for the turn under way: each
\* is answered at most once, and none is left in hand of a stopped turn.
THEOREM PermissionsAnswered == Spec => []PermissionInv
BY Invariance, Answered, PTL

\* of the cancels in the queues,
LEMMA Own ==
  ASSUME IInv
  PROVE  CancelIsOwn
<1> USE DEF IInv
<1> SUFFICES ASSUME NEW c \in Conns
             PROVE  /\ HeadIs(c, "cancel") => conn[c].work \in {NoToken, Head(conn[c].queue).of}
                    /\ \A i, j \in DOMAIN conn[c].queue :
                         i < j /\ conn[c].queue[i].k = "cancel"
                           => conn[c].queue[i].of # conn[c].queue[j].of
  BY DEF CancelIsOwn
<1>1. conn[c].queue \in Seq(Written)
  BY StateFields
<1>2. ASSUME HeadIs(c, "cancel")
      PROVE  conn[c].work \in {NoToken, Head(conn[c].queue).of}
  <2>1. /\ conn[c].queue # <<>> /\ 1 \in 1 .. Len(conn[c].queue) /\ conn[c].queue[1].k = "cancel"
        /\ Head(conn[c].queue) = conn[c].queue[1]
    BY <1>1, <1>2, Tailed DEF HeadIs
  <2>2. Fed(conn[c].queue, conn[c].work, 0, conn[c].queue[1].of)
    BY <2>1 DEF FeedInv
  <2> QED BY <2>1, <2>2 DEF Fed
<1>3. DOMAIN conn[c].queue = 1 .. Len(conn[c].queue)
  BY <1>1, LenProperties
<1> QED BY <1>2, <1>3 DEF OnceInv

\* A session/cancel reaches the agent while it works on the request it is for, or
\* on none, and no line queued behind it is about that request.
THEOREM CancelsAreOwn == Spec => []CancelIsOwn
BY Invariance, Own, PTL

\* Stops, graces and drops of one turn never cost another its answer.
THEOREM TurnsAreApart == Spec => []NoCollateral
<1>1. IInv => NoCollateral
  BY DEF IInv
<1> QED BY <1>1, Invariance, PTL

\* and of the processes that are left.
LEMMA Empties ==
  ASSUME IInv
  PROVE  ShutdownKills
<1> USE DEF IInv
<1> SUFFICES ASSUME shut, stops = {}, \A t \in Turns : turn[t].pc \in {"idle", "done"},
                    NEW c \in Conns
             PROVE  ~Alive(c)
  BY DEF ShutdownKills
<1>1. sendlock = 0
  BY DEF SendInv, Types
<1> QED BY <1>1, Places DEF KeptInv, Sender

\* A shut down adapter leaves no process behind.
THEOREM NothingLeft == Spec => []ShutdownKills
BY Invariance, Empties, PTL
=============================================================================
