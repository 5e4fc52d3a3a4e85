---------------------------- MODULE FormulaPool ----------------------------
(***************************************************************************)
(* The compute service's pool of warm Python children                      *)
(* (compute_service/formula_pool.py, compute_service/worker_base.py,       *)
(* plugin/framework/process_worker.py and the Child of warm_child.py):     *)
(* HTTP threads lease slots, respawn dead ones, send a cell down a pipe    *)
(* and read one frame back; shared sessions live in the child that ran     *)
(* them first; a reaper thread, the operating system and shutdown kill     *)
(* children at any moment.                                                 *)
(*                                                                         *)
(* An action is one hold of the pool condition, one step of a slot, or one *)
(* step of the child.  Clocks are choices: whatever a deadline can cut     *)
(* short may be cut short.  A child that survives SIGKILL is left out, and *)
(* slot[w].child is the last child adopted, so the code's "child is None"  *)
(* is ~slot[w].alive here: nothing reads the pointer of a dead child.      *)
(***************************************************************************)
EXTENDS Naturals, Sequences, FiniteSets, SequencesExt, SequenceFilters

CONSTANTS
  NumWorkers,    \* formula workers
  Callers,       \* HTTP threads; each makes one call after the other
  Sessions,      \* shared session ids
  NoSession,     \* an isolated call
  Nobody,        \* no holder of a session gate
  MaxTasks,      \* max_tasks
  MaxSpawns,     \* bound on the children of one slot; later spawns fail
  MaxCrashes,    \* bound on crashes and abandoned cells
  Abandons,      \* a timed-out cell may leave its thread behind
  Stops          \* shutdown() may be called

ASSUME PoolAssumption ==
  /\ NumWorkers \in Nat \ {0} /\ MaxTasks \in Nat \ {0}
  /\ MaxSpawns \in Nat \ {0} /\ MaxCrashes \in Nat
  /\ NoSession \notin Sessions /\ Nobody \notin Callers
  /\ IsFiniteSet(Callers) /\ IsFiniteSet(Sessions)
  /\ {Abandons, Stops} \subseteq BOOLEAN

Workers == 1 .. NumWorkers

VARIABLES
  slot,       \* each BaseProcessWorker and its child
  idle,       \* _idle, oldest first
  leased,     \* _leased
  recycling,  \* _recycling
  rows,       \* _sessions
  gate,       \* holder of each entry of _session_locks
  call,       \* what each HTTP thread is doing
  reaping,    \* slots the reaper took out of idle and has not killed yet
  closing,    \* 0 open, else how far shutdown() has come
  crashes,    \* crashes and abandoned cells so far
  owed        \* sessions whose namespace died and whose client was not told

vars == <<slot, idle, leased, recycling, rows, gate, call, reaping, closing,
          crashes, owed>>
poolvars == <<idle, leased, recycling>>
outside == <<reaping, closing, crashes>>

-----------------------------------------------------------------------------
NoRow == [worker |-> 0, child |-> 0]
Rows == [worker : Workers, child : 1 .. MaxSpawns]
Frames == {"none", "ok", "error", "raised", "large", "abandoned"}
Unrun == {"QUEUE_TIMEOUT", "PAYLOAD_TOO_LARGE", "WORKER_SPAWN_FAILED",
          "WORKER_PIPE_BROKEN"}
Codes == Unrun \cup {"none", "ok", "error", "RESULT_TOO_LARGE", "WORKER_CRASHED",
                     "EXECUTION_TIMEOUT", "SERVICE_SHUTDOWN"}

\* Where a call stands; from "held" to "drop" it has its slot.
Holding == {"held", "shake", "send", "wait", "ran", "final", "release",
            "settle", "reap", "drop"}
Free == [pc |-> "free", op |-> "cell", sid |-> NoSession, slot |-> 0,
         bound |-> FALSE, fresh |-> FALSE, ran |-> FALSE, frame |-> "none",
         code |-> "none", why |-> "keep"]

Stopping(w) == closing > w                 \* _shutting_down of the slot
AllStopped == NumWorkers + 1
AllKilled == 2 * NumWorkers + 1

Live(row) ==
  /\ row # NoRow
  /\ slot[row.worker].alive
  /\ row.child = slot[row.worker].child
Hosted(w) == {s \in Sessions : rows[s].worker = w /\ Live(rows[s])}

\* Any death of the child: its namespaces and its pipe go with it.  Nothing
\* reads tasks_executed again before the next handshake resets it.
DeadSlot(w) == [slot[w] EXCEPT !.alive = FALSE, !.due = FALSE, !.tasks = 0,
                               !.leaving = FALSE, !.spaces = {}, !.untold = {}]
Kill(w) ==
  /\ slot' = [slot EXCEPT ![w] = DeadSlot(w)]
  /\ owed' = owed \cup slot[w].spaces

To(c, pc) == call' = [call EXCEPT ![c].pc = pc]
Outcome(c, code) == call' = [call EXCEPT ![c].pc = "final", ![c].code = code]
\* The call is over: the gate is released unless shutdown dropped its entry.
Return(c) ==
  /\ call' = [call EXCEPT ![c] = Free]
  /\ gate' = [s \in Sessions |-> IF gate[s] = c THEN Nobody ELSE gate[s]]

Init ==
  \E up \in SUBSET Workers :
    /\ slot = [w \in Workers |->
         [child |-> 1, alive |-> w \in up, due |-> FALSE, leaving |-> FALSE,
          exiting |-> FALSE, tasks |-> 0, spaces |-> {}, untold |-> {}]]
    /\ idle = Without([w \in Workers |-> w], Workers \ up)
    /\ leased = {} /\ recycling = {} /\ reaping = <<>>
    /\ rows = [s \in Sessions |-> NoRow]
    /\ gate = [s \in Sessions |-> Nobody]
    /\ call = [c \in Callers |-> Free]
    /\ closing = 0 /\ crashes = 0 /\ owed = {}

-----------------------------------------------------------------------------
\* Arrival, the session gate and placement.

Arrive(c) ==
  /\ call[c].pc = "free"
  /\ \E op \in {"cell", "reset"}, s \in Sessions \cup {NoSession} :
       /\ op = "reset" => s # NoSession
       /\ op = "cell" => closing = 0
       /\ call' = [call EXCEPT ![c] =
            [Free EXCEPT !.pc = IF s = NoSession THEN "lease" ELSE "gate",
                         !.op = op, !.sid = s]]
  /\ UNCHANGED <<slot, poolvars, rows, gate, outside, owed>>

GateTimeout(c) ==
  /\ call[c].pc = "gate"
  /\ gate[call[c].sid] # Nobody
  /\ Return(c)
  /\ UNCHANGED <<slot, poolvars, rows, outside, owed>>

\* A new session goes to a live slot first, then the one that hosts the fewest
\* sessions, then an idle one, then the lowest id.
Better(v, w) ==
  LET rank(x) == <<IF slot[x].alive THEN 0 ELSE 1, Cardinality(Hosted(x)),
                   IF x \in ToSet(idle) THEN 0 ELSE 1, x>>
  IN \E i \in 1 .. 4 : /\ rank(v)[i] < rank(w)[i]
                       /\ \A k \in 1 .. i - 1 : rank(v)[k] = rank(w)[k]
NewHost ==
  LET steady == {w \in Workers : w \notin recycling /\ ~slot[w].exiting}
      eligible == IF steady = {} THEN Workers ELSE steady
  IN CHOOSE w \in eligible : \A v \in eligible \ {w} : Better(w, v)

TargetAny(s) == NewHost  \* mutant
Target(s) == IF rows[s] # NoRow THEN rows[s].worker ELSE NewHost

\* mutant
EnterHeld(c) ==
  /\ call[c].pc = "gate"
  /\ gate' = [gate EXCEPT ![call[c].sid] = c]
EnterGate(c) ==
  /\ call[c].pc = "gate"
  /\ gate[call[c].sid] = Nobody
  /\ gate' = [gate EXCEPT ![call[c].sid] = c]

BoundLive(s) == Live(rows[s])  \* mutant
Bound(s) == rows[s] # NoRow

\* The first hold of the condition behind the gate.
AdmitCell(c) ==
  LET s == call[c].sid
  IN /\ EnterGate(c)
     /\ call[c].op = "cell" /\ closing = 0
     /\ call' = [call EXCEPT ![c].pc = "lease", ![c].slot = Target(s),
                             ![c].bound = Bound(s)]
     /\ UNCHANGED <<slot, poolvars, rows, outside, owed>>

\* After shutdown the slot list is empty: a row left names no slot of it.
AdmitClosed(c) ==
  /\ call[c].pc = "gate" /\ gate[call[c].sid] = Nobody
  /\ call[c].op = "cell" /\ closing > 0
  /\ rows' = [rows EXCEPT ![call[c].sid] = NoRow]
  /\ Return(c)
  /\ UNCHANGED <<slot, poolvars, outside, owed>>

AdmitReset(c) ==
  /\ EnterGate(c)
  /\ call[c].op = "reset" /\ Live(rows[call[c].sid])
  /\ call' = [call EXCEPT ![c].pc = "lease", ![c].slot = rows[call[c].sid].worker]
  /\ UNCHANGED <<slot, poolvars, rows, outside, owed>>

ResetNothing(c) ==
  LET s == call[c].sid
  IN /\ call[c].pc = "gate" /\ gate[s] = Nobody
     /\ call[c].op = "reset" /\ ~Live(rows[s])
     /\ rows' = [rows EXCEPT ![s] = NoRow]
     /\ owed' = owed \ {s}
     /\ Return(c)
     /\ UNCHANGED <<slot, poolvars, outside>>

-----------------------------------------------------------------------------
\* The lease.

LivingIdle == Without(idle, {w \in Workers : ~slot[w].alive})
\* Isolated work takes the oldest of the idle slots that host the fewest
\* sessions, a clean one when there is one.
LeastHost ==
  LET n(i) == Cardinality(Hosted(LivingIdle[i]))
      i0 == CHOOSE i \in DOMAIN LivingIdle :
              /\ \A k \in DOMAIN LivingIdle : n(i) <= n(k)
              /\ \A k \in 1 .. i - 1 : n(i) < n(k)
  IN LivingIdle[i0]
\* A dead slot nobody holds; the oldest entry of the list comes first.
ColdHeld == {w \in Workers : ~slot[w].alive}  \* mutant
Cold == {w \in Workers : w \notin leased /\ ~slot[w].alive}
ColdFirst == CHOOSE w \in Cold : \A v \in Cold : w <= v
AnyFree == LivingIdle # <<>> \/ Cold # {}

SlotFree(w) == w \in ToSet(idle) \/ (~slot[w].alive /\ w \notin leased)

CanLease(c) ==
  /\ closing = 0
  /\ IF call[c].slot = 0 THEN AnyFree ELSE SlotFree(call[c].slot)

Lease(c) ==
  /\ call[c].pc = "lease"
  /\ CanLease(c)
  /\ LET any == call[c].slot = 0
         w == IF ~any THEN call[c].slot
              ELSE IF LivingIdle # <<>> THEN LeastHost ELSE ColdFirst
         seen == IF any THEN LivingIdle ELSE idle
     IN /\ idle' = Without(seen, {w})
        /\ leased' = leased \cup {w}
        /\ call' = [call EXCEPT ![c].pc = "held", ![c].slot = w]
  /\ UNCHANGED <<slot, recycling, rows, gate, outside, owed>>

LeaseFails(c) ==
  /\ call[c].pc = "lease"
  /\ ~CanLease(c)
  /\ Return(c)
  /\ UNCHANGED <<slot, poolvars, rows, outside, owed>>

-----------------------------------------------------------------------------
\* One request on the leased slot.

\* Nothing was written: the lease or the packing spent the clock, or the frame
\* is too large.  The child stays.
Refuse(c) ==
  /\ \/ call[c].pc \in {"held", "send"} /\ Outcome(c, "EXECUTION_TIMEOUT")
     \/ /\ call[c].pc = "held" /\ call[c].op = "cell"
        /\ \E code \in {"QUEUE_TIMEOUT", "PAYLOAD_TOO_LARGE"} : Outcome(c, code)
  /\ UNCHANGED <<slot, poolvars, rows, gate, outside, owed>>

FindLive(c) ==
  /\ call[c].pc = "held"
  /\ slot[call[c].slot].alive
  /\ To(c, "send")
  /\ UNCHANGED <<slot, poolvars, rows, gate, outside, owed>>

AdoptAlways(w) == TRUE  \* mutant
MayAdopt(w) == ~Stopping(w)
Spawn(c) ==
  LET w == call[c].slot
  IN /\ call[c].pc = "held"
     /\ ~slot[w].alive
     /\ MayAdopt(w)
     /\ slot[w].child < MaxSpawns
     /\ slot' = [slot EXCEPT ![w].child = @ + 1, ![w].alive = TRUE]
     /\ To(c, "shake")
     /\ UNCHANGED <<poolvars, rows, gate, outside, owed>>

SpawnFails(c) ==
  LET w == call[c].slot
  IN /\ call[c].pc = "held"
     /\ ~slot[w].alive
     /\ Outcome(c, IF Stopping(w) THEN "SERVICE_SHUTDOWN" ELSE "WORKER_SPAWN_FAILED")
     /\ UNCHANGED <<slot, poolvars, rows, gate, outside, owed>>

Ready(c) ==
  LET w == call[c].slot
  IN /\ call[c].pc = "shake"
     /\ slot[w].alive
     /\ slot' = [slot EXCEPT ![w].tasks = 0, ![w].exiting = FALSE]
     /\ To(c, "send")
     /\ UNCHANGED <<poolvars, rows, gate, outside, owed>>

NotReady(c) ==
  LET w == call[c].slot
  IN /\ call[c].pc = "shake"
     /\ Kill(w)
     /\ \E code \in {"WORKER_SPAWN_FAILED", "EXECUTION_TIMEOUT"} :
          Outcome(c, IF Stopping(w) THEN "SERVICE_SHUTDOWN" ELSE code)
     /\ UNCHANGED <<poolvars, rows, gate, outside>>

Write(c) ==
  LET w == call[c].slot
  IN /\ call[c].pc = "send"
     /\ slot[w].alive
     /\ slot' = [slot EXCEPT ![w].due = TRUE]
     /\ To(c, "wait")
     /\ UNCHANGED <<poolvars, rows, gate, outside, owed>>

\* A timeout, a broken pipe, a crash or an empty answer.  A stopping slot says
\* SERVICE_SHUTDOWN instead and leaves the kill to shutdown().
Failure(c) ==
  IF slot[call[c].slot].alive THEN "EXECUTION_TIMEOUT"
  ELSE IF call[c].pc = "send" THEN "WORKER_PIPE_BROKEN" ELSE "WORKER_CRASHED"
SparesSlow(w) == Stopping(w) \/ slot[w].alive  \* mutant
Spares(w) == Stopping(w)
RequestFails(c) ==
  LET w == call[c].slot
  IN /\ call[c].pc \in {"send", "wait", "ran"}
     /\ IF Spares(w)
        THEN Outcome(c, "SERVICE_SHUTDOWN") /\ UNCHANGED <<slot, owed>>
        ELSE Outcome(c, Failure(c)) /\ Kill(w)
     /\ UNCHANGED <<poolvars, rows, gate, outside>>

\* The child runs the request.  A cell creates its session's namespace unless
\* its init script fails; a reset drops it.  "raised" is the frame the worker
\* makes of an exception that escapes the cell, binding its inputs included.
CellFrames ==
  {"ok", "error", "raised", "large"}
    \cup (IF Abandons /\ crashes < MaxCrashes THEN {"abandoned"} ELSE {})
Run(c) ==
  LET w == call[c].slot  s == call[c].sid
      answered(f, fresh) ==
        call' = [call EXCEPT ![c].pc = "ran", ![c].ran = TRUE,
                             ![c].frame = f, ![c].fresh = fresh]
  IN /\ call[c].pc = "wait"
     /\ slot[w].alive /\ ~slot[w].leaving
     /\ \/ /\ call[c].op = "cell"
           /\ \E f \in CellFrames :
                answered(f, s # NoSession /\ s \notin slot[w].spaces)
           /\ slot' = [slot EXCEPT ![w].spaces = @ \cup ({s} \ {NoSession})]
        \/ /\ call[c].op = "cell" /\ s \notin slot[w].spaces
           /\ answered("error", FALSE)
           /\ UNCHANGED slot
        \/ /\ call[c].op = "reset"
           /\ answered("ok", FALSE)
           /\ slot' = [slot EXCEPT ![w].spaces = @ \ {s}, ![w].untold = @ \ {s}]
     /\ crashes' = IF call'[c].frame = "abandoned" THEN crashes + 1 ELSE crashes
     /\ UNCHANGED <<poolvars, rows, gate, reaping, closing, owed>>

FrameCode(f) == IF f = "large" THEN "RESULT_TOO_LARGE"
                ELSE IF f = "ok" THEN "ok" ELSE "error"
\* The replacement for a frame that is too large carries no namespace_created,
\* and the frame of an exception says FALSE, whatever the cell had created.
Mute == {"large", "raised"}
Flagged(c) == call[c].bound /\ call[c].fresh /\ call[c].frame \notin Mute
Silent(c) == call[c].sid \in owed /\ call[c].fresh /\ call[c].frame \in Mute

\* An error frame returns before pending_exit and tasks_executed are touched.
Consumed(w, f) ==
  LET read == [slot[w] EXCEPT !.due = FALSE, !.leaving = f = "abandoned"]
  IN IF f # "ok" THEN read
     ELSE [read EXCEPT !.tasks = IF @ < MaxTasks THEN @ + 1 ELSE @]

Answer(c) ==
  LET w == call[c].slot
  IN /\ call[c].pc = "ran"
     /\ slot[w].alive
     /\ slot' = [slot EXCEPT ![w] = [Consumed(w, call[c].frame) EXCEPT
                  !.untold = IF Silent(c) THEN @ \cup {call[c].sid} ELSE @]]
     /\ Outcome(c, FrameCode(call[c].frame))
     /\ owed' = IF Flagged(c) \/ call[c].op = "reset"
                THEN owed \ {call[c].sid} ELSE owed
     /\ UNCHANGED <<poolvars, rows, gate, outside>>

-----------------------------------------------------------------------------
\* The end of a call: the session row, the release, the gate.

Finalize(c) ==
  LET w == call[c].slot  s == call[c].sid
  IN /\ call[c].pc = "final"
     /\ rows' =
          IF s = NoSession THEN rows
          ELSE IF call[c].op = "cell" /\ call[c].code \notin Unrun
          THEN [rows EXCEPT ![s] = [worker |-> w, child |-> slot[w].child]]
          ELSE IF call[c].op = "reset" /\ call[c].code = "ok" /\ rows[s].worker = w
          THEN [rows EXCEPT ![s] = NoRow]
          ELSE rows
     /\ call' = [call EXCEPT ![c] = [Free EXCEPT
          !.pc = "release", !.sid = s, !.slot = w]]
     /\ UNCHANGED <<slot, poolvars, gate, outside, owed>>

DueRecycleAny(w) == slot[w].alive /\ slot[w].tasks >= MaxTasks  \* mutant
DueRecycle(w) ==
  /\ slot[w].alive
  /\ Hosted(w) = {}
  /\ slot[w].tasks >= MaxTasks
Marked(w) == IF DueRecycle(w) THEN recycling \cup {w} ELSE recycling \ {w}

\* should_recycle_worker runs in a hold of its own, and once more in Settle.
Weigh(c) ==
  LET w == call[c].slot
  IN /\ call[c].pc = "release"
     /\ call' = [call EXCEPT ![c].pc = "settle",
          ![c].why = IF slot[w].exiting THEN "exit"
                     ELSE IF DueRecycle(w) THEN "recycle" ELSE "keep"]
     /\ recycling' = IF slot[w].exiting THEN recycling ELSE Marked(w)
     /\ UNCHANGED <<slot, idle, leased, rows, gate, outside, owed>>

GoesIdleClean(w) == slot[w].alive /\ Hosted(w) = {}  \* mutant
GoesIdle(w) == slot[w].alive
Settle(c) ==
  LET w == call[c].slot
      retire == call[c].why = "exit" \/ (call[c].why = "recycle" /\ DueRecycle(w))
  IN /\ call[c].pc = "settle"
     /\ closing = 0
     /\ recycling' = IF call[c].why = "recycle" THEN Marked(w) ELSE recycling
     /\ IF retire
        THEN To(c, "reap") /\ UNCHANGED <<idle, leased, gate>>
        ELSE /\ leased' = leased \ {w}
             /\ idle' = IF GoesIdle(w) THEN Append(idle, w) ELSE idle
             /\ Return(c)
     /\ UNCHANGED <<slot, rows, outside, owed>>

SettleClosed(c) ==
  /\ call[c].pc = "settle"
  /\ closing > 0
  /\ leased' = leased \ {call[c].slot}
  /\ Kill(call[c].slot)
  /\ Return(c)
  /\ UNCHANGED <<idle, recycling, rows, outside>>

\* The lease is held across the reap and dropped after it.
Reap(c) ==
  LET w == call[c].slot
  IN /\ call[c].pc = "reap"
     /\ slot' = [slot EXCEPT ![w] = [DeadSlot(w) EXCEPT !.exiting = FALSE]]
     /\ owed' = owed \cup slot[w].spaces
     /\ recycling' = recycling \ {w}
     /\ To(c, "drop")
     /\ UNCHANGED <<idle, leased, rows, gate, outside>>

DropLease(c) ==
  /\ call[c].pc = "drop"
  /\ leased' = leased \ {call[c].slot}
  /\ Return(c)
  /\ UNCHANGED <<slot, idle, recycling, rows, outside, owed>>

-----------------------------------------------------------------------------
\* The reaper thread, the operating system and shutdown().

\* A row whose child is gone expires idle_worker_ttl_sec after a tick saw it.
ExpireRow(s) ==
  /\ closing = 0 /\ reaping = <<>>
  /\ rows[s] # NoRow /\ ~Live(rows[s])
  /\ rows' = [rows EXCEPT ![s] = NoRow]
  /\ owed' = owed \ {s}
  /\ UNCHANGED <<slot, poolvars, gate, call, outside>>

\* Dead slots leave idle; those idle for too long are the oldest ones.
Evict ==
  /\ closing = 0 /\ reaping = <<>>
  /\ \E n \in 1 .. Len(LivingIdle) :
       /\ reaping' = SubSeq(LivingIdle, 1, n)
       /\ idle' = SubSeq(LivingIdle, n + 1, Len(LivingIdle))
  /\ UNCHANGED <<slot, leased, recycling, rows, gate, call, closing, crashes, owed>>

EvictKill ==
  /\ reaping # <<>>
  /\ Kill(Head(reaping))
  /\ reaping' = Tail(reaping)
  /\ UNCHANGED <<poolvars, rows, gate, call, closing, crashes>>

Crash(w) ==
  /\ slot[w].alive
  /\ crashes < MaxCrashes
  /\ crashes' = crashes + 1
  /\ Kill(w)
  /\ UNCHANGED <<poolvars, rows, gate, call, reaping, closing>>

\* os._exit after the frame of an abandoned cell.
Exit(w) ==
  /\ slot[w].alive /\ slot[w].leaving
  /\ Kill(w)
  /\ UNCHANGED <<poolvars, rows, gate, call, outside>>

ShutDown ==
  /\ Stops /\ closing = 0
  /\ closing' = 1
  /\ rows' = [s \in Sessions |-> NoRow]
  /\ gate' = [s \in Sessions |-> Nobody]
  /\ recycling' = {} /\ idle' = <<>> /\ leased' = {}
  /\ UNCHANGED <<slot, call, reaping, crashes, owed>>

RequestShutdown ==
  /\ closing \in 1 .. NumWorkers
  /\ closing' = closing + 1
  /\ UNCHANGED <<slot, poolvars, rows, gate, call, reaping, crashes, owed>>

ShutdownKill ==
  /\ closing \in AllStopped .. 2 * NumWorkers
  /\ closing' = closing + 1
  /\ Kill(closing - NumWorkers)
  /\ UNCHANGED <<poolvars, rows, gate, call, reaping, crashes>>

-----------------------------------------------------------------------------
CallStep(c) ==
  \/ Arrive(c) \/ GateTimeout(c) \/ AdmitCell(c) \/ AdmitClosed(c)
  \/ AdmitReset(c) \/ ResetNothing(c)
  \/ Lease(c) \/ LeaseFails(c) \/ Refuse(c) \/ FindLive(c) \/ Spawn(c)
  \/ SpawnFails(c) \/ Ready(c) \/ NotReady(c) \/ Write(c) \/ RequestFails(c)
  \/ Run(c) \/ Answer(c) \/ Finalize(c) \/ Weigh(c) \/ Settle(c)
  \/ SettleClosed(c) \/ Reap(c) \/ DropLease(c)

Next ==
  \/ \E c \in Callers : CallStep(c)
  \/ \E s \in Sessions : ExpireRow(s)
  \/ Evict \/ EvictKill
  \/ \E w \in Workers : Crash(w) \/ Exit(w)
  \/ ShutDown \/ RequestShutdown \/ ShutdownKill

Spec == Init /\ [][Next]_vars

-----------------------------------------------------------------------------
\* Properties.

Holders(w) == {c \in Callers : call[c].pc \in Holding /\ call[c].slot = w}

Slots == [child : 1 .. MaxSpawns, alive : BOOLEAN, due : BOOLEAN, leaving : BOOLEAN,
          exiting : BOOLEAN, tasks : 0 .. MaxTasks, spaces : SUBSET Sessions, untold : SUBSET Sessions]
Calls == [pc : Holding \cup {"free", "gate", "lease"}, op : {"cell", "reset"},
          sid : Sessions \cup {NoSession}, slot : Workers \cup {0}, bound : BOOLEAN,
          fresh : BOOLEAN, ran : BOOLEAN, frame : Frames, code : Codes,
          why : {"keep", "exit", "recycle"}]

\* Every variable stays in its set (the state the four sources declare).
TypeOK ==
  /\ slot \in [Workers -> Slots]
  /\ idle \in Seq(Workers) /\ reaping \in Seq(Workers)
  /\ leased \subseteq Workers /\ recycling \subseteq Workers
  /\ rows \in [Sessions -> Rows \cup {NoRow}]
  /\ gate \in [Sessions -> Callers \cup {Nobody}]
  /\ call \in [Callers -> Calls]
  /\ closing \in 0 .. AllKilled
  /\ crashes \in 0 .. MaxCrashes
  /\ owed \subseteq Sessions

\* "Exclusive worker occupancy" (worker_base.py:15): while the pool is open a
\* leased slot has exactly one caller, and no leased slot is idle.
LeaseExclusive ==
  closing = 0 =>
    /\ \A w \in Workers : Cardinality(Holders(w)) = IF w \in leased THEN 1 ELSE 0
    /\ ToSet(idle) \cap leased = {}
    /\ Cardinality(ToSet(idle)) = Len(idle)

\* The assertion of execute (formula_pool.py:528): the row of the session whose
\* cell just got its slot names that slot.
RowMatchesLease ==
  \A c \in Callers :
    (/\ closing = 0 /\ call[c].pc = "held" /\ call[c].op = "cell"
     /\ call[c].sid # NoSession /\ rows[call[c].sid] # NoRow)
      => rows[call[c].sid].worker = call[c].slot

\* Affinity: a session never has a namespace in two live children, so no cell
\* computes on a forgotten copy of the workbook.
OneNamespace ==
  \A s \in Sessions : \A v, w \in Workers :
    s \in slot[v].spaces /\ s \in slot[w].spaces => v = w

\* A request is only ever written to a child that owes no answer: otherwise
\* the caller would read the previous caller's frame as its own.
CleanPipe ==
  \A c \in Callers :
    call[c].pc = "send" /\ slot[call[c].slot].alive => ~slot[call[c].slot].due

\* A session that lost its namespace lives again only in a cell whose answer is
\* still out: that answer carries session_reset.  The exceptions are the two
\* frames that cannot carry it, where compute_service/README.md:138 and :406
\* promise the flag all the same: the replacement for a frame that is too large
\* and the error frame of an exception raised once the namespace was there.
ResetTold ==
  \A s \in owed, w \in Workers :
    closing = 0 /\ s \in slot[w].spaces \ slot[w].untold
      => \E c \in Holders(w) : call[c].pc = "ran" /\ call[c].sid = s

\* "Workers holding active stateful sessions skip that kill" (README.md:405):
\* a slot retired for max_tasks hosts no namespace at all.
RecycleLosesNothing ==
  \A c \in Callers :
    call[c].pc = "reap" /\ call[c].why = "recycle" => slot[call[c].slot].spaces = {}

\* No slot falls between the sets: while the pool is open a slot with a live
\* child is idle, leased, or in the reaper's hands.
NoLimboSlot ==
  closing = 0 => \A w \in Workers :
    slot[w].alive => w \in ToSet(idle) \cup leased \cup ToSet(reaping)

\* Slots, sets and session rows agree at every moment: a slot is in one place,
\* its caller alone has it, its row names it, and no retirement costs a kernel.
SlotInv ==
  TypeOK /\ LeaseExclusive /\ NoLimboSlot /\ RowMatchesLease /\ RecycleLosesNothing

\* Once shutdown() has returned no child is alive, and none is spawned later.
NothingOutlivesShutdown ==
  closing = AllKilled => \A w \in Workers : ~slot[w].alive
=============================================================================
