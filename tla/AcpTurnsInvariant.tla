------------------------- MODULE AcpTurnsInvariant -------------------------
(***************************************************************************)
(* The inductive invariant of AcpTurns, for any turns, connections and     *)
(* failures.                                                               *)
(***************************************************************************)
EXTENDS AcpTurns

Pcs == {"idle", "lock", "ensure", "spawn", "place", "start", "run", "owned", "request", "register",
        "enqueue", "watch", "await", "result", "released", "opened", "finish", "done"}
TurnRecs ==
  [pc : Pcs, conn : {0} \cup Conns, what : {"none", "init", "prompt"}, cancelled : BOOLEAN,
   early : BOOLEAN, wait : {"none", "open", "ok", "failed", "timeout"},
   out : {"none", "ok", "failed", "timeout", "stopped", "error", "unstarted", "done"}]
Tokens == [t : Turns, what : {"init", "prompt"}]
Written == [k : {"req", "cancel"}, of : Tokens]
Said == [k : {"ok", "failed"}, of : Tokens] \cup [k : {"ask"}, of : {NoToken}]
ConnRecs ==
  [held : BOOLEAN, running : BOOLEAN, alive : BOOLEAN, faulty : BOOLEAN, queue : Seq(Written),
   reader : {"new", "read", "gone"}, callback : {0} \cup Turns, work : Tokens \cup {NoToken},
   lines : Seq(Said), asked : Nat, replies : Nat]
Wires ==
  [by : {UI} \cup Turns, token : Tokens \cup {NoToken}, conn : {0} \cup Conns,
   pc : {"decide", "send", "settle"}]
Stops == [by : {UI, Grace} \cup Turns, conn : Conns, pc : {"sweep", "claim"}]

\* Every variable has its type, in every field.
Types ==
  /\ limit \in Limits
  /\ turn \in [Turns -> TurnRecs]
  /\ {sendlock, lock, active} \subseteq {0} \cup Turns /\ slot \in {0} \cup Conns
  /\ {ready, notified, shut} \subseteq BOOLEAN
  /\ token \in Tokens \cup {NoToken}
  /\ perms \in [Conns -> Nat] /\ hand \in [Conns -> {0} \cup Turns] /\ late \subseteq Conns
  /\ conn \in [Conns -> ConnRecs]
  /\ wires \subseteq Wires
  /\ graces \subseteq [token : Tokens, conn : {0} \cup Conns]
  /\ stops \subseteq Stops

\* The turn in hand and where it is.
Sender(pcs) == sendlock # 0 /\ turn[sendlock].pc \in pcs
Coming == {"start", "run"}
Using == {"owned", "request", "register", "enqueue", "watch", "await", "result", "released"}

\* The send lock, the scope, the state lock and the token are those of one turn.
SendInv ==
  /\ \A t \in Turns : turn[t].pc \in {"idle", "lock", "done"} <=> sendlock # t
  /\ active = sendlock
  /\ lock = IF Sender({"register", "enqueue"}) THEN sendlock ELSE 0
  /\ token # NoToken =>
       token = Token(sendlock) /\ Sender({"register", "enqueue", "watch", "await", "result"})
\* What a turn knows of its request at each point.
TurnInv ==
  \A t \in Turns :
    /\ turn[t].pc \in {"idle", "lock", "ensure", "spawn", "place", "start", "run", "owned"}
         => turn[t].what = "none" /\ turn[t].out = "none"
    /\ turn[t].pc \in {"request", "register", "enqueue", "watch", "await", "result"}
         => turn[t].what \in {"init", "prompt"}
    /\ turn[t].pc = "opened" => turn[t].what # "prompt"
    /\ turn[t].wait # "none" => turn[t].pc \in {"enqueue", "watch", "await"}
    /\ turn[t].pc \in {"request", "register"} => turn[t].out = "none"
    /\ turn[t].out \in {"stopped", "error", "unstarted", "done"} => turn[t].pc = "finish"
    /\ turn[t].early => turn[t].cancelled
    /\ turn[t].pc \in {"place"} \cup Coming \cup Using => turn[t].conn # 0
    /\ turn[t].out \in {"failed", "timeout", "error"} => turn[t].conn # 0
    /\ turn[t].pc \in {"enqueue", "watch", "await"} => turn[t].wait # "none"
    /\ turn[t].pc = "result" => turn[t].out \in {"ok", "failed", "timeout"}
    /\ turn[t].pc = "released" => turn[t].out \in {"failed", "timeout"}
\* Sends follow one another; a wire is that of a turn that is cancelled.
ClickInv ==
  \A t \in Turns : turn[t].pc # "idle" =>
    \A u \in Turns : u < t => turn[u].pc \in {"finish", "done"} \/ turn[u].cancelled
WireInv ==
  \A w \in wires :
    /\ w.by = UI => \A t \in Turns : turn[t].pc \in {"idle", "done"} \/ turn[t].cancelled
    /\ w.by # UI => w.by = sendlock /\ turn[w.by].cancelled
    /\ w.pc = "send" => lock = 0
\* A token in a line, a wire or a grace is that of a request already queued.
Issued(tok) ==
  \/ turn[tok.t].pc = "done"
  \/ turn[tok.t].what = tok.what /\ turn[tok.t].pc \notin {"request", "register", "enqueue"}
  \/ turn[tok.t].what = "prompt" /\ tok.what = "init"
IssuedInv ==
  /\ \A c \in Conns : \A i \in 1 .. Len(conn[c].queue) : Issued(conn[c].queue[i].of)
  /\ \A w \in wires : w.token # NoToken => w.pc # "decide" /\ Issued(w.token)
  /\ \A w \in wires : w.pc = "send" => w.token # NoToken /\ w.conn # 0
  /\ \A g \in graces : Issued(g.token)
\* One session/cancel at most for a request, on its way or in a queue.
Cancels(c, tok) == \E i \in 1 .. Len(conn[c].queue) : conn[c].queue[i] = Line("cancel", tok)
OnceInv ==
  /\ token # NoToken /\ ~notified =>
       /\ \A c \in Conns : ~Cancels(c, token)
       /\ \A w \in wires : w.pc = "send" => w.token # token
  /\ \A w \in wires : w.pc = "send" =>
       /\ \A c \in Conns : ~Cancels(c, w.token)
       /\ \A v \in wires : v.pc = "send" /\ v.token = w.token => v = w
  /\ \A c \in Conns : \A i, j \in 1 .. Len(conn[c].queue) :
       i < j /\ conn[c].queue[i].k = "cancel" => conn[c].queue[i].of # conn[c].queue[j].of
\* The last request among the first n lines, or else the one the agent works
\* on, is tok.
Fed(q, work, n, tok) ==
  \/ \E k \in 1 .. n : q[k] = Line("req", tok) /\ \A j \in 1 .. n : j > k => q[j].k # "req"
  \/ work \in {NoToken, tok} /\ \A j \in 1 .. n : q[j].k # "req"
FeedInv ==
  /\ \A c \in Conns : \A i \in 1 .. Len(conn[c].queue) : conn[c].queue[i].k = "cancel" =>
       Fed(conn[c].queue, conn[c].work, i - 1, conn[c].queue[i].of)
  /\ \A w \in wires : w.pc = "send" =>
       Fed(conn[w.conn].queue, conn[w.conn].work, Len(conn[w.conn].queue), w.token)
  /\ token # NoToken /\ Sender({"watch", "await", "result"}) =>
       LET c == turn[sendlock].conn
       IN  Alive(c) => Fed(conn[c].queue, conn[c].work, Len(conn[c].queue), token)
\* A grace for the request in flight is that of a stopped turn.
GraceInv == \A g \in graces : token = g.token => turn[sendlock].cancelled
\* A connection not started yet has no permission, and only the turn that
\* starts it can have stopped it.
FreshInv ==
  /\ \A c \in Conns : conn[c].reader = "new" => perms[c] = 0 /\ hand[c] = 0
  /\ \A t \in Turns : turn[t].pc \in {"place"} \cup Coming => conn[turn[t].conn].reader = "new"
  /\ \A t \in Turns : turn[t].pc \in Using => conn[turn[t].conn].reader # "new"
  /\ \A s \in stops : conn[s.conn].reader = "new" =>
       Sender(Coming) /\ turn[sendlock].conn = s.conn
  /\ slot # 0 /\ conn[slot].reader = "new" => Sender(Coming)
\* Permissions are asked of the turn under way, on the connection in the slot.
CallbackInv ==
  \A c \in Conns : conn[c].callback # 0 => slot = c /\ active # 0 /\ ~Sender({"released"})
\* Requests for a permission that are answered, in hand, with the reader or
\* still to be read.
AskedAt(q) == {i \in 1 .. Len(q) : q[i].k = "ask"}
Held(c) == IF hand[c] = 0 THEN 0 ELSE 1
CountInv ==
  \A c \in Conns :
    /\ conn[c].replies + perms[c] + Held(c) + Cardinality(AskedAt(conn[c].lines)) <= conn[c].asked
    /\ conn[c].asked <= limit.asks
\* The slot holds the turn's own connection, which is alive unless its agent
\* failed, and which nobody stops before the turn gives it up.
SlotInv ==
  /\ Sender({"spawn", "place"}) => slot = 0
  /\ slot # 0 /\ Sender(Coming \cup Using) => slot = turn[sendlock].conn
  /\ slot # 0 /\ ~shut /\ ~conn[slot].faulty /\ ~Sender({"start", "released"}) =>
       Alive(slot) /\ (~Sender({"run"}) => conn[slot].running)
  /\ \A s \in stops : s.conn = slot => shut \/ Sender({"released"})
  /\ ready => slot # 0
\* A turn loses its slot to a stop or to the shutdown only.
LostInv ==
  slot = 0 /\ Sender(Coming \cup Using \cup {"opened"}) => shut \/ turn[sendlock].cancelled
\* A request fails with its agent, with a stop or with the shutdown.
FailInv ==
  \A t \in Turns :
    /\ "failed" \in {turn[t].wait, turn[t].out} =>
         conn[turn[t].conn].faulty \/ shut \/ turn[t].cancelled
    /\ "timeout" \in {turn[t].wait, turn[t].out} => conn[turn[t].conn].faulty
FaultInv ==
  \A c \in Conns : \A i \in 1 .. Len(conn[c].lines) : conn[c].lines[i].k = "failed" => conn[c].faulty
\* A live process is in an open slot, about to be stopped, or held by the turn
\* that spawned it and will look at the slot.
KeptInv ==
  /\ \A c \in Conns : Alive(c) =>
       \/ slot = c /\ ~shut
       \/ \E s \in stops : s.conn = c
       \/ Sender({"run", "owned"}) /\ turn[sendlock].conn = c
  /\ Sender({"released"}) /\ Alive(turn[sendlock].conn) =>
       \E s \in stops : s.conn = turn[sendlock].conn

\* The inductive invariant.
IInv ==
  /\ Types /\ SendInv /\ TurnInv /\ ClickInv /\ WireInv /\ IssuedInv /\ OnceInv /\ FeedInv
  /\ GraceInv /\ FreshInv /\ CallbackInv /\ CountInv /\ SlotInv /\ LostInv /\ FailInv
  /\ FaultInv /\ KeptInv /\ NoStrayPermission /\ NoCollateral
=============================================================================
