------------------------------ MODULE AcpTurns ------------------------------
(***************************************************************************)
(* Chat turns sent to an external agent (plugin/acp/acp_backend.py) over a *)
(* JSON-RPC pipe to its process (plugin/acp/acp_connection.py).  One send  *)
(* at a time runs on a worker thread: it opens or reuses a connection,     *)
(* posts a request and waits.  The user's thread stops a turn with a       *)
(* session/cancel line and a grace after which the process is killed, or   *)
(* shuts the adapter down.  Each connection has a writer thread that owns  *)
(* the pipe, a reader thread and, once stopped, a watchdog.                *)
(*                                                                         *)
(* An action is one hold of _state_lock or of a connection's _lock with    *)
(* the unlocked reads before it.  session/new and the model selection,     *)
(* which are further requests like initialize, are left out: a ready       *)
(* connection has its session.  Deadlines are choices; the agent does as   *)
(* it likes, but asks for permissions only while it works on a request.    *)
(* What is queued for a process is lost with it; the request in it is      *)
(* failed by the reader's exit, as it is by the writer's.                  *)
(***************************************************************************)
EXTENDS Naturals, Sequences, FiniteSets

CONSTANTS
  MaxTurns,  \* sends of the sidebar, one after the other
  Limits     \* bounds of a behaviour: its processes, the permission requests of
             \* each, the ways in which one of them may fail, and whether the
             \* adapter may be shut down

\* Silence is the idle timeout of a request.
Faults == {"start", "error", "death", "silence"}

ASSUME AcpAssumption ==
  /\ MaxTurns \in Nat
  /\ Limits \subseteq [conns : Nat, asks : Nat, faults : SUBSET Faults, shutdown : BOOLEAN]

Turns == 1 .. MaxTurns
Conns == UNION {1 .. l.conns : l \in Limits}

VARIABLES
  limit,     \* the bounds of this behaviour
  turn,      \* each send's worker thread and its cancellation scope
  sendlock,  \* holder of _send_lock, or 0
  lock,      \* turn that holds _state_lock across begin_request, or 0
  active,    \* _active_cancel: turn whose scope it is, or 0
  slot,      \* _conn, or 0
  ready,     \* _ready
  token,     \* _inflight_token, or NoToken
  notified,  \* _session_cancel_notified
  shut,      \* _closed of the adapter
  perms,     \* connections, one for each permission the user has not answered
  hand,      \* turn whose callback each reader has read for the question it holds, or 0
  late,      \* history: connections asked a question for a send that had left,
             \* since the last send began
  conn,      \* each ACPConnection, its threads and its process
  wires,     \* runs of _cancel_wire
  graces,    \* armed grace threads
  stops      \* runs of ACPConnection.stop

adapter == <<sendlock, lock, active, slot, ready, token, notified, shut, perms>>
vars == <<limit, hand, late, turn, adapter, conn, wires, graces, stops>>

-----------------------------------------------------------------------------
NoToken == [t |-> 0, what |-> "none"]
Token(t) == [t |-> t, what |-> turn[t].what]
Line(k, tok) == [k |-> k, of |-> tok]
MayFault(c, kind) ==
  /\ kind \in limit.faults
  /\ \A d \in Conns \ {c} : ~conn[d].faulty
UI == 0               \* callers of stop and _cancel_wire that are no turn
Grace == MaxTurns + 1

Stopped == shut \/ (active # 0 /\ turn[active].cancelled)   \* _user_stopped
Alive(c) == conn[c].held /\ conn[c].alive                   \* is_alive
Healthy(c) == conn[c].running /\ Alive(c)                   \* is_healthy
Lost(c) == shut \/ slot # c                                 \* _slot_lost_locked
Unlocked == lock = 0

Busy(who) == \E r \in wires \cup stops : r.by = who
At(t, pc) == turn[t].pc = pc /\ ~Busy(t)

NewTurn == [pc |-> "idle", conn |-> 0, what |-> "none", cancelled |-> FALSE,
            early |-> FALSE, wait |-> "none", out |-> "none"]
Over == [NewTurn EXCEPT !.pc = "done"]
\* held: _proc is this process.  faulty: the agent died, failed or fell silent.
NewConn == [held |-> FALSE, running |-> FALSE, alive |-> FALSE,
            faulty |-> FALSE, queue |-> <<>>, reader |-> "new", callback |-> 0,
            work |-> NoToken, lines |-> <<>>, asked |-> 0, replies |-> 0]

Init ==
  /\ limit \in Limits
  /\ turn = [t \in Turns |-> NewTurn]
  /\ sendlock = 0 /\ lock = 0 /\ active = 0 /\ slot = 0 /\ ready = FALSE
  /\ token = NoToken /\ notified = FALSE /\ shut = FALSE
  /\ perms = [c \in Conns |-> 0] /\ hand = [c \in Conns |-> 0] /\ late = {}
  /\ conn = [c \in Conns |-> NewConn]
  /\ wires = {} /\ graces = {} /\ stops = {}

To(t, pc) == turn' = [turn EXCEPT ![t].pc = pc]
Out(t, out) == turn' = [turn EXCEPT ![t].pc = "finish", ![t].out = out]
\* _report_failure.
Report(t) == Out(t, IF Stopped THEN "stopped" ELSE "error")

\* Every permission in hand is answered on the connection it came from, which
\* drops the answer if its process is gone.
Settled == [c \in Conns |-> [conn[c] EXCEPT !.replies = @ + IF Alive(c) THEN perms[c] ELSE 0]]
PermsKept == perms  \* mutant
NoPerms == [c \in Conns |-> 0]
Quiet(cs, c) == IF c = 0 THEN cs ELSE [cs EXCEPT ![c].callback = 0]

Killed(cn) == [cn EXCEPT !.alive = FALSE, !.work = NoToken, !.queue = <<>>]
Sends(cn, line) == [cn EXCEPT !.queue = Append(@, line)]

\* _fail: what has no answer yet on a connection is failed.
Failed(c) ==
  [t \in Turns |-> IF turn[t].conn = c /\ turn[t].wait = "open"
                   THEN [turn[t] EXCEPT !.wait = "failed"] ELSE turn[t]]

Stopping(by, c) ==
  IF c = 0 THEN stops ELSE stops \cup {[by |-> by, conn |-> c, pc |-> "sweep"]}
ClearSlot(c) ==
  IF slot # c THEN UNCHANGED <<slot, ready>> ELSE slot' = 0 /\ ready' = FALSE

-----------------------------------------------------------------------------
(* The user's thread, which does one thing at a time.                      *)

\* The button is back as soon as the send before has told its end.
SendClick(t) ==
  /\ ~Busy(UI) /\ ~shut /\ turn[t].pc = "idle"
  /\ \A u \in 1 .. t - 1 : turn[u].pc \in {"finish", "done"} \/ turn[u].cancelled
  /\ To(t, "lock")
  /\ UNCHANGED <<limit, hand, late, adapter, conn, wires, graces, stops>>

Wire(by) == wires' = wires \cup {[by |-> by, token |-> NoToken, conn |-> 0, pc |-> "decide"]}
\* The last send's scope: its flag first, then the hook, if it is registered.
StopClick(t) ==
  /\ ~Busy(UI) /\ turn[t].pc \notin {"idle", "done"} /\ ~turn[t].cancelled
  /\ \A u \in t + 1 .. MaxTurns : turn[u].pc = "idle"
  /\ turn' = [turn EXCEPT ![t].cancelled = TRUE]
  /\ IF active = t THEN Wire(UI) ELSE UNCHANGED wires
  /\ UNCHANGED <<limit, hand, late, adapter, conn, graces, stops>>

\* submit_approval.
Approve(c) ==
  /\ ~Busy(UI) /\ Unlocked /\ perms[c] > 0
  /\ perms' = [perms EXCEPT ![c] = @ - 1]
  /\ conn' = IF Alive(c) THEN [conn EXCEPT ![c].replies = @ + 1] ELSE conn
  /\ UNCHANGED <<limit, hand, late, turn, sendlock, lock, active, slot, ready, token, notified, shut,
                 wires, graces, stops>>

\* The panel goes away: its scope is cancelled, then shutdown.
Shutdown ==
  /\ ~Busy(UI) /\ Unlocked /\ ~shut /\ limit.shutdown
  /\ \A t \in Turns : turn[t].pc \in {"idle", "finish", "done"} \/ turn[t].cancelled
  /\ shut' = TRUE
  /\ slot' = 0 /\ ready' = FALSE
  /\ perms' = NoPerms /\ conn' = Quiet(Settled, slot)
  /\ stops' = Stopping(UI, slot)
  /\ UNCHANGED <<limit, hand, late, turn, sendlock, lock, active, token, notified, wires, graces>>

-----------------------------------------------------------------------------
(* _cancel_wire, on the user's thread or on a turn's.                      *)

\* The token and the connection are read in one hold of the state lock.
WireDecides(w) ==
  /\ Unlocked /\ w.pc = "decide"
  /\ LET send == token # NoToken /\ ~notified /\ ready /\ slot # 0 /\ Alive(slot)
     IN  /\ notified' = (notified \/ send)
         /\ wires' = (wires \ {w}) \cup
              {[w EXCEPT !.token = token, !.conn = slot, !.pc = IF send THEN "send" ELSE "settle"]}
  /\ UNCHANGED <<limit, hand, late, turn, sendlock, lock, active, slot, ready, token, shut, perms, conn,
                 graces, stops>>

\* The grace is for any request in flight, told of the cancel or not.
ArmsIfSent(w) == w.pc = "send"  \* mutant
Arms(w) == w.token # NoToken
WireActs(w) ==
  /\ Unlocked /\ w.pc # "decide"
  /\ perms' = NoPerms
  /\ conn' = IF w.pc = "send" /\ Alive(w.conn)
             THEN [Settled EXCEPT ![w.conn] = Sends(@, Line("cancel", w.token))] ELSE Settled
  /\ graces' = IF Arms(w) THEN graces \cup {[token |-> w.token, conn |-> w.conn]} ELSE graces
  /\ wires' = wires \ {w}
  /\ UNCHANGED <<limit, hand, late, turn, sendlock, lock, active, slot, ready, token, notified, shut, stops>>

\* The grace is over, or the turn was done before.
GraceOfAnyTurn(g) == token # NoToken /\ slot = g.conn  \* mutant
GraceApplies(g) == token = g.token /\ slot = g.conn
GraceFires(g) ==
  /\ Unlocked /\ graces' = graces \ {g}
  /\ IF GraceApplies(g)
     THEN /\ perms' = NoPerms /\ conn' = Quiet(Settled, g.conn)
          /\ slot' = 0 /\ ready' = FALSE
          /\ stops' = Stopping(Grace, g.conn)
     ELSE UNCHANGED <<perms, conn, slot, ready, stops>>
  /\ UNCHANGED <<limit, hand, late, turn, sendlock, lock, active, token, notified, shut, wires>>

-----------------------------------------------------------------------------
(* ACPConnection.stop: the sweep, then the claim of the process and the    *)
(* stop item behind what is queued.                                        *)
StopSweeps(s) ==
  /\ s.pc = "sweep"
  /\ conn' = [conn EXCEPT ![s.conn].running = FALSE]
  /\ turn' = Failed(s.conn)
  /\ stops' = (stops \ {s}) \cup {[s EXCEPT !.pc = "claim"]}
  /\ UNCHANGED <<limit, hand, late, adapter, wires, graces>>
StopClaims(s) ==
  /\ s.pc = "claim"
  /\ conn' = [conn EXCEPT ![s.conn].held = FALSE]
  /\ stops' = stops \ {s}
  /\ UNCHANGED <<limit, hand, late, turn, adapter, wires, graces>>

\* The process is claimed: the writer reaches the stop item and kills it, or
\* the watchdog does while the writer is stuck in the pipe.
Reap(c) ==
  /\ conn[c].alive /\ ~conn[c].held
  /\ conn' = [conn EXCEPT ![c] = Killed(@)]
  /\ UNCHANGED <<limit, hand, late, turn, adapter, wires, graces, stops>>

-----------------------------------------------------------------------------
(* The agent, and the writer thread that feeds it.                         *)
HeadIs(c, k) == conn[c].queue # <<>> /\ Head(conn[c].queue).k = k

\* A live agent takes the line, at its leisure.
WriteLands(c) ==
  /\ conn[c].alive /\ conn[c].queue # <<>>
  /\ conn' = [conn EXCEPT ![c].queue = Tail(@),
                          ![c].work = IF HeadIs(c, "req") THEN Head(conn[c].queue).of ELSE @]
  /\ UNCHANGED <<limit, hand, late, turn, adapter, wires, graces, stops>>
Says(c, line) == [conn[c] EXCEPT !.lines = Append(@, line)]
Answers(c) ==
  /\ conn[c].alive /\ conn[c].work # NoToken
  /\ \E k \in {"ok"} \cup (IF MayFault(c, "error") THEN {"failed"} ELSE {}) :
       conn' = [conn EXCEPT ![c] = [Says(c, Line(k, conn[c].work)) EXCEPT
                                      !.work = NoToken, !.faulty = @ \/ k = "failed"]]
  /\ UNCHANGED <<limit, hand, late, turn, adapter, wires, graces, stops>>
Asks(c) ==
  /\ conn[c].alive /\ conn[c].work # NoToken /\ conn[c].asked < limit.asks
  /\ conn' = [conn EXCEPT ![c] = [Says(c, Line("ask", NoToken)) EXCEPT !.asked = @ + 1]]
  /\ UNCHANGED <<limit, hand, late, turn, adapter, wires, graces, stops>>
Dies(c) ==
  /\ conn[c].alive /\ MayFault(c, "death")
  /\ conn' = [conn EXCEPT ![c] = [Killed(@) EXCEPT !.faulty = TRUE]]
  /\ UNCHANGED <<limit, hand, late, turn, adapter, wires, graces, stops>>

-----------------------------------------------------------------------------
(* The reader thread.  Every way out of its loop sweeps the waiters and     *)
(* reaps a child nobody has claimed; a stop is seen at the next line.      *)
Exited(cn) ==
  [(IF cn.held THEN Killed(cn) ELSE cn) EXCEPT
     !.reader = "gone", !.running = FALSE, !.lines = <<>>, !.callback = 0]
Taken(c) == IF conn[c].running THEN [conn[c] EXCEPT !.lines = Tail(@)] ELSE Exited(conn[c])
Reading(c) == conn[c].reader = "read" /\ hand[c] = 0 /\ conn[c].lines # <<>>

Response(c) ==
  /\ Reading(c)
  /\ LET line == Head(conn[c].lines)
     IN  /\ line.k # "ask"
         /\ turn' = [t \in Turns |->
              IF turn[t].wait # "none" /\ turn[t].conn = c /\ Token(t) = line.of
              THEN [turn[t] EXCEPT !.wait = line.k] ELSE turn[t]]
  /\ conn' = [conn EXCEPT ![c] = Taken(c)]
  /\ UNCHANGED <<limit, hand, late, adapter, wires, graces, stops>>

\* The callback is read with no lock: with none installed, the question is
\* answered at once.
TakesAsk(c) ==
  /\ Reading(c) /\ Head(conn[c].lines).k = "ask"
  /\ IF conn[c].callback = 0
     THEN /\ conn' = [conn EXCEPT ![c] = [Taken(c) EXCEPT !.replies = @ + IF Alive(c) THEN 1 ELSE 0]]
          /\ UNCHANGED hand
     ELSE /\ conn' = [conn EXCEPT ![c].lines = Tail(@)]
          /\ hand' = [hand EXCEPT ![c] = conn[c].callback]
  /\ UNCHANGED <<limit, late, turn, adapter, wires, graces, stops>>

\* Stop is read under the lock the map is swept under, but of the send that is
\* under way by now, if one is.
Resumed(c) == IF conn[c].running THEN conn[c] ELSE Exited(conn[c])
RefuseNone == FALSE  \* mutant
Refuse == Stopped
Permission(c) ==
  /\ Unlocked /\ hand[c] # 0 /\ hand' = [hand EXCEPT ![c] = 0]
  /\ IF Refuse
     THEN /\ conn' = [conn EXCEPT ![c] = [Resumed(c) EXCEPT !.replies = @ + IF Alive(c) THEN 1 ELSE 0]]
          /\ UNCHANGED <<perms, late>>
     ELSE /\ conn' = [conn EXCEPT ![c] = Resumed(c)]
          /\ perms' = [perms EXCEPT ![c] = @ + 1]
          /\ late' = IF active = hand[c] THEN late ELSE late \cup {c}
  /\ UNCHANGED <<limit, turn, sendlock, lock, active, slot, ready, token, notified, shut,
                 wires, graces, stops>>
ReaderExits(c) ==
  /\ conn[c].reader = "read" /\ hand[c] = 0 /\ conn[c].lines = <<>> /\ ~conn[c].alive
  /\ conn' = [conn EXCEPT ![c] = Exited(@)]
  /\ turn' = Failed(c)
  /\ UNCHANGED <<limit, hand, late, adapter, wires, graces, stops>>

-----------------------------------------------------------------------------
(* A send's worker thread: the locks, the hook, the connection.            *)

\* A hook registered after the flag runs at once, on this thread.
Enter(t) ==
  /\ At(t, "lock") /\ sendlock = 0 /\ Unlocked
  /\ IF shut
     THEN turn' = [turn EXCEPT ![t] = Over] /\ UNCHANGED <<late, sendlock, active, notified, wires>>
     ELSE /\ To(t, "ensure")
          /\ sendlock' = t /\ active' = t /\ notified' = FALSE /\ late' = {}
          /\ IF turn[t].cancelled THEN Wire(t) ELSE UNCHANGED wires
  /\ UNCHANGED <<limit, hand, lock, slot, ready, token, shut, perms, conn, graces, stops>>

\* _drop_connection: whatever the slot holds.
Drop(t) ==
  /\ slot' = 0 /\ ready' = FALSE
  /\ perms' = NoPerms /\ conn' = Quiet(Settled, slot)
  /\ stops' = Stopping(t, slot)
Keep == UNCHANGED <<slot, ready, perms, conn, stops>>

ToRequest(t, c, what) ==
  turn' = [turn EXCEPT ![t].pc = "request", ![t].conn = c, ![t].what = what, ![t].out = "none"]

Ensure(t) ==
  /\ At(t, "ensure") /\ Unlocked
  /\ IF Stopped THEN Out(t, "stopped") /\ Keep
     ELSE IF slot = 0 THEN To(t, "spawn") /\ Keep
     ELSE IF ~Healthy(slot) THEN To(t, "spawn") /\ Drop(t)
     ELSE IF ready THEN To(t, "opened") /\ Keep
     ELSE ToRequest(t, slot, "init") /\ Keep
  /\ UNCHANGED <<limit, hand, late, sendlock, lock, active, token, notified, shut, wires, graces>>

Unused == {c \in 1 .. limit.conns : conn[c].reader = "new"}
Spawn(t) ==
  /\ At(t, "spawn") /\ Unlocked
  /\ IF Stopped THEN To(t, "opened")
     ELSE IF Unused = {} THEN Out(t, "unstarted")
     ELSE LET c == CHOOSE c \in Unused : \A d \in Unused : c <= d
          IN  turn' = [turn EXCEPT ![t].pc = "place", ![t].conn = c]
  /\ UNCHANGED <<limit, hand, late, adapter, conn, wires, graces, stops>>
\* The slot is taken whatever has happened since.
Place(t) ==
  /\ At(t, "place") /\ Unlocked
  /\ To(t, "start")
  /\ slot' = turn[t].conn /\ ready' = FALSE
  /\ UNCHANGED <<limit, hand, late, sendlock, lock, active, token, notified, shut, perms,
                 conn, wires, graces, stops>>

\* ACPConnection.start: the process, then the threads.
Starts(t) ==
  /\ At(t, "start")
  /\ To(t, "run")
  /\ conn' = [conn EXCEPT ![turn[t].conn].held = TRUE, ![turn[t].conn].alive = TRUE]
  /\ UNCHANGED <<limit, hand, late, adapter, wires, graces, stops>>
StartFails(t) ==
  /\ At(t, "start") /\ MayFault(turn[t].conn, "start")
  /\ Report(t)
  /\ conn' = [conn EXCEPT ![turn[t].conn].reader = "gone", ![turn[t].conn].faulty = TRUE]
  /\ UNCHANGED <<limit, hand, late, adapter, wires, graces, stops>>
Runs(t) ==
  /\ At(t, "run")
  /\ To(t, "owned")
  /\ conn' = [conn EXCEPT ![turn[t].conn].running = TRUE, ![turn[t].conn].reader = "read"]
  /\ UNCHANGED <<limit, hand, late, adapter, wires, graces, stops>>

\* A slot lost while the process came up takes the process with it.
OwnedUnchecked(t) ==  \* mutant
  /\ At(t, "owned") /\ Unlocked
  /\ IF Stopped THEN To(t, "opened") /\ UNCHANGED stops
     ELSE IF ~Alive(turn[t].conn) THEN Report(t) /\ UNCHANGED stops
     ELSE ToRequest(t, turn[t].conn, "init") /\ UNCHANGED stops
  /\ UNCHANGED <<limit, hand, late, adapter, conn, wires, graces>>
Owned(t) ==
  /\ At(t, "owned") /\ Unlocked
  /\ IF Lost(turn[t].conn) THEN To(t, "opened") /\ stops' = Stopping(t, turn[t].conn)
     ELSE IF Stopped THEN To(t, "opened") /\ UNCHANGED stops
     ELSE IF ~Alive(turn[t].conn) THEN Report(t) /\ UNCHANGED stops
     ELSE ToRequest(t, turn[t].conn, "init") /\ UNCHANGED stops
  /\ UNCHANGED <<limit, hand, late, adapter, conn, wires, graces>>

-----------------------------------------------------------------------------
(* _request.                                                               *)

\* begin_request runs under the state lock, which nobody else gets meanwhile.
BeginUnlocked(t) ==  \* mutant
  IF Alive(turn[t].conn)
  THEN token' = Token(t) /\ lock' = 0 /\ To(t, "register")
  ELSE /\ UNCHANGED <<token, lock>>
       /\ turn' = [turn EXCEPT ![t].pc = "result", ![t].out = "failed"]
Begin(t) ==
  IF Alive(turn[t].conn)
  THEN token' = Token(t) /\ lock' = t /\ To(t, "register")
  ELSE /\ UNCHANGED <<token, lock>>
       /\ turn' = [turn EXCEPT ![t].pc = "result", ![t].out = "failed"]
Request(t) ==
  /\ At(t, "request") /\ Unlocked
  /\ IF ~Stopped THEN Begin(t)
     ELSE /\ IF turn[t].what = "init" THEN To(t, "opened") ELSE Out(t, "stopped")
          /\ UNCHANGED <<token, lock>>
  /\ UNCHANGED <<limit, hand, late, sendlock, active, slot, ready, notified, shut, perms, conn, wires,
                 graces, stops>>

\* A stop may have swept the waiters since: then nobody would wake this one.
Swept(t) == ~conn[turn[t].conn].running \/ ~conn[turn[t].conn].held
Register(t) ==
  /\ At(t, "register")
  /\ IF Swept(t)
     THEN /\ turn' = [turn EXCEPT ![t].pc = "result", ![t].out = "failed"]
          /\ lock' = 0 /\ token' = NoToken
     ELSE /\ turn' = [turn EXCEPT ![t].pc = "enqueue", ![t].wait = "open"]
          /\ UNCHANGED <<lock, token>>
  /\ UNCHANGED <<limit, hand, late, sendlock, active, slot, ready, notified, shut, perms, conn, wires,
                 graces, stops>>
Enqueue(t) ==
  /\ At(t, "enqueue")
  /\ LET c == turn[t].conn
     IN  /\ conn' = IF Alive(c) THEN [conn EXCEPT ![c] = Sends(@, Line("req", Token(t)))] ELSE conn
         /\ turn' = [(IF Alive(c) THEN turn ELSE Failed(c)) EXCEPT
                       ![t].pc = "watch"]
  /\ lock' = 0
  /\ UNCHANGED <<limit, hand, late, sendlock, active, slot, ready, token, notified, shut, perms, wires,
                 graces, stops>>
\* The flag is read again once the lock is free.
Watch(t) ==
  /\ At(t, "watch")
  /\ turn' = [turn EXCEPT ![t].pc = "await", ![t].early = turn[t].cancelled]
  /\ UNCHANGED <<limit, hand, late, adapter, conn, wires, graces, stops>>
Silence(t) ==
  /\ At(t, "await") /\ turn[t].wait = "open" /\ MayFault(turn[t].conn, "silence")
  /\ turn' = [turn EXCEPT ![t].wait = "timeout"]
  /\ conn' = [conn EXCEPT ![turn[t].conn].faulty = TRUE]
  /\ UNCHANGED <<limit, hand, late, adapter, wires, graces, stops>>
\* A flag seen before the wait, and no session/cancel yet: this thread sends it.
Await(t) ==
  /\ At(t, "await") /\ turn[t].wait # "open" /\ Unlocked
  /\ turn' = [turn EXCEPT ![t].pc = "result", ![t].early = FALSE,
                          ![t].out = turn[t].wait, ![t].wait = "none"]
  /\ IF turn[t].early /\ token = Token(t) /\ ~notified THEN Wire(t) ELSE UNCHANGED wires
  /\ UNCHANGED <<limit, hand, late, adapter, conn, graces, stops>>

-----------------------------------------------------------------------------
(* What became of a request.                                               *)
Result(t, what) ==
  /\ At(t, "result") /\ Unlocked /\ turn[t].what = what
  /\ token' = IF token = Token(t) THEN NoToken ELSE token
Others == <<limit, hand, late, sendlock, lock, active, notified, shut, wires, graces>>

Initialized(t) ==
  /\ Result(t, "init") /\ turn[t].out = "ok"
  /\ To(t, "opened")
  /\ IF Lost(turn[t].conn) THEN stops' = Stopping(t, turn[t].conn) /\ UNCHANGED ready
     ELSE ready' = TRUE /\ UNCHANGED stops
  /\ UNCHANGED <<Others, slot, perms, conn>>
InitFails(t) ==
  /\ Result(t, "init") /\ turn[t].out # "ok"
  /\ IF Lost(turn[t].conn) THEN To(t, "opened") /\ UNCHANGED <<conn, stops>>
     ELSE /\ To(t, "released")
          /\ conn' = Quiet(conn, turn[t].conn)
          /\ stops' = Stopping(t, turn[t].conn)
  /\ UNCHANGED <<Others, slot, ready, perms>>
Released(t) ==
  /\ At(t, "released") /\ Unlocked
  /\ ClearSlot(turn[t].conn) /\ Report(t)
  /\ UNCHANGED <<limit, hand, late, sendlock, lock, active, token, notified, shut, perms, conn, wires,
                 graces, stops>>

Open(t) ==
  /\ At(t, "opened") /\ Unlocked
  /\ IF Stopped THEN Out(t, "stopped") /\ UNCHANGED conn
     ELSE IF slot = 0 THEN Report(t) /\ UNCHANGED conn
     ELSE ToRequest(t, slot, "prompt") /\ conn' = [conn EXCEPT ![slot].callback = t]
  /\ UNCHANGED <<limit, hand, late, adapter, wires, graces, stops>>

PromptOk(t) ==
  /\ Result(t, "prompt") /\ turn[t].out = "ok"
  /\ Out(t, IF Stopped THEN "stopped" ELSE "done")
  /\ Keep /\ UNCHANGED Others
PromptTimeout(t) ==
  /\ Result(t, "prompt") /\ turn[t].out = "timeout"
  /\ Report(t)
  /\ IF Stopped THEN Keep ELSE Drop(t)
  /\ UNCHANGED Others
\* A connection that lost the slot and its life was killed by an earlier grace.
PromptFails(t) ==
  /\ Result(t, "prompt") /\ turn[t].out = "failed"
  /\ LET dead == ~Healthy(turn[t].conn)
     IN  IF Stopped \/ (dead /\ slot # turn[t].conn) THEN Out(t, "stopped") /\ Keep
         ELSE Report(t) /\ IF dead THEN Drop(t) ELSE Keep
  /\ UNCHANGED Others

Leave(t) ==
  /\ At(t, "finish") /\ Unlocked
  /\ turn' = [turn EXCEPT ![t] = Over]
  /\ active' = 0 /\ sendlock' = 0
  /\ perms' = NoPerms /\ conn' = Quiet(Settled, slot)
  /\ UNCHANGED <<limit, hand, late, lock, slot, ready, token, notified, shut, wires, graces, stops>>

-----------------------------------------------------------------------------
User == Shutdown \/ (\E t \in Turns : SendClick(t) \/ StopClick(t)) \/ (\E c \in Conns : Approve(c))
WireStep == \E w \in wires : WireDecides(w) \/ WireActs(w)
StopStep == \E s \in stops : StopSweeps(s) \/ StopClaims(s)
GraceStep == \E g \in graces : GraceFires(g)
Agent(c) == WriteLands(c) \/ Answers(c) \/ Asks(c) \/ Dies(c)
Reader(c) == Response(c) \/ TakesAsk(c) \/ Permission(c) \/ ReaderExits(c)
Worker(t) ==
  \/ Enter(t) \/ Ensure(t) \/ Spawn(t) \/ Place(t) \/ Starts(t) \/ StartFails(t) \/ Runs(t)
  \/ Owned(t) \/ Request(t) \/ Register(t) \/ Enqueue(t) \/ Watch(t) \/ Await(t)
  \/ Initialized(t) \/ InitFails(t) \/ Released(t) \/ Open(t)
  \/ PromptOk(t) \/ PromptTimeout(t) \/ PromptFails(t) \/ Leave(t)

Next ==
  \/ User \/ WireStep \/ StopStep \/ GraceStep
  \/ \E c \in Conns : Reap(c) \/ Agent(c) \/ Reader(c)
  \/ \E t \in Turns : Worker(t) \/ Silence(t)

Spec == Init /\ [][Next]_vars

(* Threads run and the grace passes.  Nothing is asked of the agent, of    *)
(* the idle timeout or of the user.                                        *)
FairSpec ==
  /\ Spec /\ WF_vars(WireStep) /\ WF_vars(StopStep) /\ WF_vars(GraceStep)
  /\ \A c \in Conns : WF_vars(Reap(c)) /\ WF_vars(Reader(c))
  /\ \A t \in Turns : WF_vars(Worker(t))
-----------------------------------------------------------------------------
TypeOK ==
  /\ limit \in Limits
  /\ \A t \in Turns :
       /\ turn[t].conn \in {0} \cup Conns
       /\ turn[t].wait \in {"none", "open", "ok", "failed", "timeout"}
       /\ turn[t].out \in {"none", "ok", "failed", "timeout", "stopped", "error",
                           "unstarted", "done"}
  /\ sendlock \in {0} \cup Turns /\ slot \in {0} \cup Conns
  /\ {lock, active, token.t} \subseteq {0, sendlock}
  /\ {ready, notified, shut} \subseteq BOOLEAN
  /\ \A c \in Conns : perms[c] \in Nat /\ conn[c].asked \in 0 .. limit.asks

\* A session/cancel follows the request it is meant for and reaches the agent
\* before any other: no turn is cancelled for another, or too early.
CancelIsOwn ==
  \A c \in Conns :
    /\ HeadIs(c, "cancel") => conn[c].work \in {NoToken, Head(conn[c].queue).of}
    /\ \A i, j \in DOMAIN conn[c].queue :
         i < j /\ conn[c].queue[i].k = "cancel" => conn[c].queue[i].of # conn[c].queue[j].of

\* A turn fails only when its own agent or its own spawn did, and is called
\* stopped only when it was: stops, graces and drops of one turn never cost
\* another one its answer.
NoCollateral ==
  \A t \in Turns :
    /\ turn[t].out = "error" => conn[turn[t].conn].faulty
    /\ turn[t].out = "stopped" => turn[t].cancelled \/ shut

\* Each permission is answered at most once, by the user, Stop or the turn's end.
OneReply == \A c \in Conns : conn[c].replies + perms[c] <= conn[c].asked

\* A permission in hand has somebody to decide it: a send is under way, and if
\* that was stopped its wire is still to come.  The exception is a question
\* whose reader had read the callback before its send left: stored after the
\* sweep, it keeps its agent waiting until the next send begins, although a
\* request that meets no callback is answered so that a kept process cannot
\* block on it (docs/framework/threading.md:81).
NoStrayPermission ==
  \A c \in Conns : perms[c] > 0 /\ Alive(c) =>
    (active # 0 \/ c \in late) /\ (Stopped => wires # {})

\* Permissions are asked, kept, answered and swept for the turn under way.
PermissionInv == TypeOK /\ OneReply /\ NoStrayPermission

\* A shut down adapter leaves no process behind, not even one that was being
\* spawned: when the sends are over, each has been claimed by a stop.
ShutdownKills ==
  shut /\ stops = {} /\ (\A t \in Turns : turn[t].pc \in {"idle", "done"})
    => \A c \in Conns : ~Alive(c)

\* A stopped turn ends, wherever Stop finds it and whatever its agent does, as
\* soon as the send before it is over.
StopEndsTurn == \A t \in Turns : turn[t].cancelled /\ sendlock = t ~> turn[t].pc = "done"

=============================================================================
