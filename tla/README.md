# WriterAgent: formal models and proofs

WriterAgent puts a language model into LibreOffice: a chat sidebar whose model
calls tools that change the open document, a Python service that computes sheet
cells, servers and clients of other agents. The hard part of the code is not any
one algorithm. Worker threads, office callbacks, child processes and a user who
clicks Stop all act at once on a document that only one thread may touch.

This directory holds TLA+ models of that concurrent core, TLC configurations
that check them, and machine-checked proofs. Every definition follows the
source; the source file and lines of each are in `PROJECT.json` under `map`.

    tlc -workers 2 -config MainThreadSafety.cfg MCMainThread.tla
    tlapm MainThreadProofs.tla

| Module | Models | Source |
|---|---|---|
| `MainThread` | handing work to the office's main thread | `plugin/framework/queue_executor.py`, `send_cancellation.py` |
| `MarshalContract` | what that hand-over promises, abstractly | (specification) |
| `MainThreadProofs` | theorems about `MainThread`, and that it implements `MarshalContract` | |
| `ToolLoop` | one sidebar's chat sends: turns, tool calls, Stop, Clear | `plugin/chatbot/{panel,tool_loop,tool_loop_actions,tool_loop_state,chat_session}.py` |
| `ToolLoopProofs` | theorems about `ToolLoop` | |
| `DocTurns` | the turns of several documents on the one main thread, and the messages between them | `plugin/chatbot/{send_state,panel}.py`, `plugin/framework/{send_cancellation,async_drain_guard,async_stream}.py`, `plugin/doc/peer_message.py` |
| `DocTurnsProofs` | theorems about `DocTurns` | |
| `EventDrain` | one streamed answer from its worker to the screen | `plugin/framework/{async_stream,stream_batch}.py` |
| `StreamPromise` | what the reader of the sidebar is promised | (specification) |
| `EventDrainProofs` | theorems about `EventDrain`, and that it implements `StreamPromise` | |
| `WarmChild` | one warm child process and the supervisor that spawns it | `plugin/framework/{warm_child,managed_subprocess}.py` |
| `WarmChildProofs` | theorems about `WarmChild` | |
| `FormulaPool` | the compute service's pool of warm Python children | `compute_service/{formula_pool,worker_base,formula_worker,worker_stdio}.py`, `plugin/framework/process_worker.py` |
| `FormulaPoolProofs` | theorems about `FormulaPool` | |
| `McpCalls` | tool calls of MCP clients | `plugin/mcp/{mcp_protocol,document_mutation_gate}.py` |
| `McpCallsProofs` | theorems about `McpCalls` | |
| `AcpTurns` | turns sent to an external agent process | `plugin/acp/{acp_backend,acp_connection}.py` |
| `AcpTurnsInvariant`, `AcpTurnsProofs` | the inductive invariant of `AcpTurns`; theorems about it | |
| `SequenceFilters` | filtering a list | (used by the models) |
| `MC...` | finite instances for TLC | |

## 1. Inventory

### 1.1 Threads and processes

- **The main thread** runs office callbacks, clicks and every call into the
  office API. It must not block, but some of its waits pump events, so callbacks
  nest.
- **Worker threads** (chat, tools, grammar, MCP, ACP) talk to the network and to
  children, and hand document work to the main thread.
- **The drain** runs on the main thread in slices: it takes what the workers of
  one chat send have queued, updates the sidebar and starts the next tool. Each
  slice arms the next one, at once or through a timer.
- **Warm children** are Python processes kept for the next request: formula
  workers, the plugin's Python cells, editors, speech. One spawner thread starts
  all of them.
- **The compute service** is a separate process with HTTP threads, a reaper
  thread and its own children.
- **External agents** are processes that speak JSON-RPC over a pipe, each with a
  reader thread and a writer thread.

Stop is the common thread: a click sets the flag of the send's
`SendCancellation`; the marshal drops the send's work, the drain closes the
turn, waits give up, an agent is told to cancel and killed if it does not, and
workers that cannot be interrupted come back later to a turn that no longer
accepts them.

### 1.2 Components

"Correct when" is what the models state or, for the parts not modelled, what a
model of them should state.

| Component | State | Operations | What is hard | Correct when | Module |
|---|---|---|---|---|---|
| Marshal (`queue_executor`) | pending posts, work queue, item status, callback | call, post, flush, set_context, process_queue, cancel | timeout, claim and Stop race; one notification for a batch | a told outcome stays true, nothing runs twice, no wakeup is lost | `MainThread` |
| Chat turn and tool loop | turn, transcript, loop state, pending calls | Send, Stop, Clear, FSM events, workers | workers that outlive their turn; ids used again | the transcript is what the turns produced, every call is paired, every send ends | `ToolLoop` |
| Send scopes (`send_cancellation`) | flag, executors, current scope | agent_session, cancel, bind, register | sessions of two documents end in either order | the current scope is of an open turn; Stop reaches its own work | `DocTurns`, `MainThread` |
| Drain ownership (`async_drain_guard`) | owner, depth, captured drain | acquire, release, idle callbacks | drains nest and end in either order | one end per turn, in its own drain; idle callbacks when nobody drains | `DocTurns` |
| Send button (`send_state`, `panel`) | busy, recording | click, record, complete, dispose | a click between a post and its run | the button tells what is running | `DocTurns` |
| Peer messages | per-listener queues, global order | send, kick, refuse, drop | a kick during a drain; a start that fails midway | each is delivered once, in order, or dropped by its own Stop | `DocTurns` |
| Event drain (`async_stream`, `stream_batch`) | armed callback, timers, batches, buffers | put, flush, slice, re-arm, discard | timer, post and end race for one callback | text in order, no item stranded, Stop closes | `EventDrain` |
| Warm children (`warm_child`) | child, kill and retire marks, spawn queue | lease, spawn, kill, retire, shutdown_all | kill before publication; spawn abandoned by its waiter | every process has an owner; a kill is not forgotten | `WarmChild` |
| Formula pool (`compute_service`) | slots, idle and leased sets, session rows, gates | execute, reset, lease, spawn, recycle, reap, shutdown | a child dies anywhere; rows read before a wait | one caller per slot, one namespace per session, losses reported, nothing outlives shutdown | `FormulaPool` |
| MCP server | permit, document gates, request scopes | tools/call, cancel | two marshals with a gate between | one edit per document among the calls waited for; a cancel reaches its request; a refused call did nothing | `McpCalls` |
| ACP connection | pending requests, writer queue, process, permissions | send, stop, approve, shutdown, grace | Stop on one thread, the turn on another, the agent on its own | cancels hit their own turn, every stopped turn ends, no process is left | `AcpTurns` |
| LLM lanes | lock, in-flight counter | enter, leave, time out, stop | waiters with different limits | the limit is kept and a free slot is used | |
| Work pool (`worker_pool`) | threads, futures, process generations | run, join, start, on_exit | join from the pool; exit of an old generation | no self-deadlock; exits belong to the current child | |
| Grammar queue | stamps, queue, drain workers | enqueue, supersede, forget | stamps recorded out of order | nothing is promised: see 6 | |
| Compaction | summary, cut index | compact, view, retry | finishes after Clear | the view pairs calls and belongs to this list | (retry: `ToolLoop`) |
| Scripting, Calc Python | session keys, venv child | run cell, reset, host call | rests on warm children | as the pool, for one user | (child: `WarmChild`) |
| Voice, history, registries, tunnel, tools, clients, user interface | files, devices, documents | | mostly I/O or document content | left to tests | |

### 1.3 How they interact

- A chat send opens an `agent_session`, becomes drain owner and spawns workers.
  They put items on the queue of their own turn; tools that need the document
  go through the marshal and inherit the send's scope.
- The drain's slices are armed outside the marshal on purpose: Stop drops the
  send's marshalled work and must not drop the slice that notices Stop.
- `ToolLoop` takes the slices for granted; `EventDrain` shows that they come.
  `DocTurns` takes one turn's stream as open until it ends; `ToolLoop` shows
  that it ends. `FormulaPool` takes a child as spawned or not; `WarmChild` shows
  that exactly one side owns it. `McpCalls` and `DocTurns` use the marshal as a
  queue, which `MainThread` and its proofs justify.
- MCP requests use the same marshal with scopes of their own and a gate per
  document; peer messages wait until no drain owns the main thread.
- Sheet cells reach the compute service over HTTP; each HTTP thread runs
  `FormulaPool.execute`, and the reaper and `shutdown` act on the same slots.

The hazards, each with its line and the properties that cover it, are in
`PROJECT.json` under `hazards`.

## 2. The models

Where an action is an atomic step, the code holds a lock for it, or runs on the
one thread that may touch the state, or makes a single unlocked read that
others can come between. A value that the properties do not tell apart (message
text, cell source, document content) is a model value or absent. Operators
marked `\* mutant` are what a plausible slip of the code next to them would look
like; they are not part of the specification and each one violates the property
that `PROJECT.json` pairs it with.

### 2.1 MainThread and MarshalContract

| State | Code |
|---|---|
| `pending`, `queue`, `batch` | `_pending_posts`, `_work_queue`, the local list of `_flush_pending_posts` |
| `status[j]` | the fields of the job's `_WorkItem` (`_claimed`, `_cancelled`, the event, the error) |
| `order`, `pokes`, `stack` | holder of `_order_lock`, undelivered `addCallback`s, nested `process_queue` frames |
| `pc`, `idx`, `ret` | where each thread is inside `call` or `post`, in its own program, and what it got back |
| `bound`, `cancelled`, `cpc` | `SendCancellation._executors`, its flag, the progress of `cancel()` |
| `doomed` | history: jobs that had not passed the last cancel check when Stop came |

`call` is CheckCallback, (FlushBegin, FlushPut or FlushFail, FlushEnd,
FlushPoke), EnqueueBind, EnqueuePut, EnqueuePoke and then the wait: Wakeup, or
WaitExpires, GiveUpOrWait, RereadClaim, because the timeout handler re-reads
`_claimed` outside the lock. `post` ends at EnqueuePoke or stores into
`pending`. The main thread does Notify (or PumpQueue from a drain loop), then
RecheckCancel, StartFn, FinishFn and Repoke for the item on top of `stack`; a
job may itself pump, which nests. Stop is CancelFlag, CancelDrain, CancelPoke,
CancelPending.

`MarshalContract` knows only jobs, their life, what their callers were told,
and Stop. `MainThread` implements it with `status` mapped to a life
(`ContractSpec`, a run and a theorem): at most one start per job, no answer taken
back, and nothing that Stop barred starts.

Left out: inline execution on the main thread and the test policies (there is
no queue then), cancel_pending_work without a scope, interpreter shutdown, and
threads that marshal without end; each thread has a finite program.

### 2.2 ToolLoop

| State | Code |
|---|---|
| `busy`, `phase`, `teardown` | `sidebar_state.send.is_busy`, posted / starting / draining send, `_panel_teardown` |
| `cur`, `alive`, `shut`, `closed`, `outcome` | `host._turn` and the TurnController's `alive`, `closed_by_document`, `_stop_committed`, `outcome` |
| `messages`, `list`, `base` | `session.messages`, its identity, and the list each turn captured |
| `round`, `pending`, `retries` | `ToolLoopState.round_num`, `.pending_tools`, `_overflow_compact_attempts` |
| `queue`, `workers` | the queue of the current turn, the background threads not yet returned |

Clicks (Send, Stop, Clear, dispose) come at any time the main thread returns to
the event loop. A send is posted, begins (BeginSend, StartLoop) or is refused
(BodyRefused, BodyAborted, DrainRefused, SkipSend). `Slice` handles a Stop, or
one queue item through the matching FSM transition with all its effects, or the
end. `Work` is everything workers do: begin a request, stream text, end with
calls or an answer, fail, overflow, run a tool, be refused approval. A worker of
an old turn stays in `workers` and may answer much later.

Abstractions: a send, its turn and its scope share a number. Text is the set of
fragments shown. A queue item is an action of its own: a click between two items
of one slice leads to the same state as a click between two slices. The web
approval dialog is a choice between allowed and refused; Clear pressed while the
dialog is open is not modelled. A compaction changes what the next request sees
and no row. Plain stream labels are filtered from the transcript by the code
and are absent here.

Left out: slash, peer, ACP and helper sends, native audio and its fallback,
image stripping, mode switches, exceptions of the handlers themselves, the
FSM's own stop latch, thinking text, the HTML stripper's held tail, speech.

### 2.3 DocTurns

| State | Code |
|---|---|
| `todo` | the main thread's stack; a speech-to-text wait stays on it and pumps |
| `mode`, `gone`, `scope` | `SendMode`, a disposed panel, `_send_cancellation` of each panel |
| `open`, `before`, `current` | `_AGENT_OPEN_SCOPES`, each session's `token.old_value`, `_current_send_cancellation` |
| `drains`, `depth`, `captured`, `epilogues` | the open event drains, `_drain_depth`, `_event_drain`, what each runs when it finishes |
| `queue` | the marshal's work queue with the scope each item is bound to |
| `fifo`, `waiting` | `_global_fifo`, `_listener_queues` |
| `started`, `dropped`, `raised`, `refused`, `wronged` | history: what became of peer messages and of work another turn's Stop took |

A click (ClickSend, ClickStop, ClickRecord, ClickStopRec, ClickCancelRec,
Dispose) comes whenever the main thread pumps events. A posted send runs (Run),
may listen to speech while it pumps (Listen, SttDone), opens a drain that stays
open over callbacks (OpenDrain; the body may still raise behind it) or does not
(NoDrain; a drain refused on entry or not armed has cleared the capture), and is
closed by Close, at once or when the captured drain ends (DeferUntilDrainDone,
DrainEnds). Tools of an
open drain are marshalled (ToolStarts, RunTool). Kick takes the first message
whose panel is free from both queues, puts the skipped ones back, and starts a
turn that may raise.

`ContextVar`s are modelled as the code's threads have them: the main thread has
one context, so a session opened in one callback is current in the next.

Left out: what a stream delivers, drains with their own loop, helper sends,
librarian and web modes, and the panel's own retries.

### 2.4 EventDrain and StreamPromise

| State | Code |
|---|---|
| `runs`, `dropped`, `burst` | the batcher's `_runs`, `_dropped`, its deadline timer |
| `raw`, `batch`, `thinking`, `content`, `shown` | the queue, the slice's items, the two display buffers, what `apply_chunk_fn` got |
| `pc`, `more`, `streak` | what the slice is doing, `_notify`'s further closures, `_immediate_streak` |
| `target`, `timer`, `firing`, `pending`, `pokes` | the re-arm: `_idle_target`, its timer and that timer's thread, `_pending`, user events |
| `put`, `tail`, `stranded` | history: fragments produced, those that Stop's flush brought within reach (all of them, or what had left the batcher when the flush raises), a poke that failed on the timer's thread |

The producer puts fragments and the end of its answer; the batcher joins them
until a limit, a change of kind or its timer; a slice takes a bounded batch,
folds and applies it, and re-arms: at once while items wait, through the timer
when none do or after `MaxImmediate` slices. Stop is seen at the start of a
slice or between two items, and then the rest is flushed and shown (StopTail,
StopRest). What may raise, does: a handler and the flush behind it
(BatchFails), Stop's flush (StopTail), a poke, the start of the idle timer
(ArmTimer). A closure carries its generation: "live" or "old".

`StreamPromise` says what is on the screen: fragments in order, each once,
nothing after the end. `EventDrain` implements it with `over` read as `closed`.

Left out: the blocking fallback without a toolkit, approval items, a handler
whose exception `on_error` recovers from (`async_stream.py:435-440`), a stream
without a batcher (`flush_pending` is None), and a display flush that raises
with text in its buffer.

### 2.5 WarmChild

| State | Code |
|---|---|
| `todo[t]`, `at[t]` | the steps thread t has yet to take, and the child they are about |
| `io`, `gate` | holders of `_io_lock` and `_spawn_gate` |
| `child`, `pending`, `retired`, `ours`, `hooked` | `_child`, `_cancel_pending`, `_retired`, `_killed_by_us`, `_death_hook_fired` |
| `ch[k]` | a spawn request and its process: state, abandoned by its waiter, owner of the pipes, signalled, settled |
| `queue`, `listed`, `quit` | the spawn queue, the supervisor's registry, `_shutdown` |
| `told`, `fell`, `late`, `torn` | history used by DeathsAreReal and PipesHeld |

A lease takes the pipe lock, looks for a live child, spawns one if there is none
(Arm, Enqueue, then the spawner's TakeRequest, StartOk or StartFails,
FinishSpawn, then Publish, or Abandon when the waiter gives up first), greets
it, uses it and gives the pipes back. A kill is Mark, Find, Pend or Signal,
Owner, Finish, Close, DropChild: each a hold of a lock or an unlocked access.
Stoppers kill or retire, the reaper evicts, the office quits, the child crashes.

Left out: a child that survives SIGKILL, the death hook's own work, stderr.

### 2.6 FormulaPool

| State | Code |
|---|---|
| `slot[w]` | a `BaseProcessWorker` and its child: incarnation, alive, a frame due in the pipe, tasks, namespaces |
| `idle`, `leased`, `recycling` | `_idle`, `_leased`, `_recycling` of `WorkerPool` |
| `rows`, `gate` | `_sessions` and `_session_locks` of `FormulaPool` |
| `call[c]` | where an HTTP thread is in `execute` or `reset_session` |
| `reaping`, `closing`, `crashes` | the reaper's local list, progress of `shutdown`, a bound |
| `owed`, `slot[w].untold` | history: sessions whose namespace died and whose client has not been told; those of them that were made anew by a cell whose frame could not say so |

A call arrives, takes the session's gate, is admitted (placement by row, or the
best host), leases a slot, finds it live or spawns and handshakes, writes its
frame, waits, reads one frame back, finalizes its row, and releases: Weigh,
Settle, and Reap when it recycles. At any of these steps the child may crash
(Crash), leave by itself (Exit), be evicted (Evict, EvictKill), the row may
expire (ExpireRow), the request may give up (GateTimeout, LeaseFails,
RequestFails), and the pool may shut down (ShutDown, RequestShutdown for each
slot, ShutdownKill for each slot).

What a cell answers (`CellFrames`) is a result, an error it caught, an exception
that escapes it ("raised", which may come after its namespace was made and says
`namespace_created=False`), a frame over the cap ("large", replaced by one
without the flags), or nothing before the caller gives up.

Abstractions: deadlines are choices. An incarnation number replaces the child's
pointer, which nothing reads once the child is dead. The acquisition of a gate
is one step with the first hold of the pool condition behind it, and its release
one step with the end of the call. A row that is not live may expire at any
reaper tick. The vision pool uses the same base class without sessions.

Left out: a child that survives SIGKILL, `check_dependencies`, requests that are
invalid or cannot be serialized, a queue timeout before any state changed,
`PoolSingleton`, dropping a row whose policy differs, init snapshots.

### 2.7 McpCalls

| State | Code |
|---|---|
| `req[r]` | a request and its HTTP thread: its key, document, tool, scope's flag, whether its tool began and is still running |
| `permit` | holder of `_tool_semaphore` |
| `gate[d]` | holder of a document's gate |
| `scopes[k]` | `_request_scopes` |
| `queue`, `running` | the main thread's items |
| `notice[n]` | a notifications/cancelled and its thread |

A call arrives, takes the permit, is prepared on the main thread, gives the
permit back, takes the gate if the tool needs it, and runs: on the main thread
under the permit again, or off it, where the body may go to the main thread
while it holds the gate. A tool the exposure mode hides is refused before any
permit (RefuseEarly). The last look at the scope (CheckAgent, Claim) and the
entry of the tool (EnterAgent, EnterBody) are two steps, as in the code. Permit, gate and both waits may time out, the wait for
the main thread only while the item is not claimed (MayGiveUp, which is
`OutcomeIsTrue` of MainThread). A body may be abandoned by its tool's timeout
and runs on, without the gate; it is `alive` until it returns. A notification reads the scopes of its key and cancels each.

Left out: HTTP and its thread pool, listings, prompts, `mcp_session`, tracing.

### 2.8 AcpTurns

| State | Code |
|---|---|
| `turn[t]` | a send's worker thread, its scope's flag, its request and outcome |
| `sendlock`, `lock`, `active` | `_send_lock`, `_state_lock` over `begin_request`, `_active_cancel` |
| `slot`, `ready`, `token`, `notified`, `shut` | `_conn`, `_ready`, `_inflight_token`, `_session_cancel_notified`, `_closed` |
| `perms[c]`, `hand[c]` | `_pending_permissions` of a connection; the turn whose callback its reader has read for the question it holds |
| `conn[c]` | an `ACPConnection`: process, reader, writer's queue, callback; and the agent's work and lines |
| `wires`, `graces`, `stops` | runs of `_cancel_wire`, grace threads, runs of `stop` |
| `late` | history: connections that stored a question after its send had left |

A send takes the send lock, ensures a connection (Ensure, Spawn, Place, Starts,
Runs, Owned, initialize), posts its prompt (Request, Register, Enqueue, Watch),
waits and leaves. A question is two steps of the reader: it reads the callback
without a lock (TakesAsk) and later takes the state lock to refuse or store it
(Permission); Stop, the end of the send and the next send may come between. Stop cancels the scope and runs the wire: it decides under the state
lock whether a session/cancel is due, sends it, sweeps the permissions and arms
the grace, which kills the process if the same request is still in flight. A
stop of a connection sweeps its waiters and hands its process to the writer, or
to the watchdog (both are Reap). The agent answers, asks for permissions, fails,
dies or falls silent as it likes.

`Limits` is a set of bounds from which a behaviour takes one: the number of
processes, permission requests, kinds of faults and whether the adapter is shut
down. Properties hold under each; the faults of one bound do not meet those of
another.

Left out: session/new and the model selection (further requests like
initialize), updates and their text, errors without an id, `_notify_idle`, the
log tail of one agent.

## 3. The runs

Every passing run finishes its whole state space. A property that is a
conjunction is one of named parts, each with a sentence of its own in its
module; the parts share a subject and the run.

| Run | Question | Instance and why it is enough | Distinct states |
|---|---|---|---|
| `marshal` | Is the marshal safe under timeout, Stop and nesting, and does every call return? | Two threads with three posts and a call, one scope across both, capacity 2, two levels of `process_queue` (a job that pumps the queue from inside another), under `FairSpec`. Each race is between a waiter, the main thread and Stop; two threads give order and a flush by somebody else; capacity 2 fills the pending list, so the bounded wait for a slot fires too. | 540 k |
| `marshal_faults` | Does the marshal implement its contract with a toolkit that fails? | Two contexts, failing `addCallback`, failing creation, failing flush, two levels of nesting. | 575 k |
| `toolloop_safety` | Is the transcript what the turns produced? | Two sends of two rounds, responses without or with two calls, the same call ids again in every round, one Clear, Stop, dispose and teardown anywhere. Two sends let a worker of the first meet the second; two rounds let ids come back. | 489 k |
| `toolloop_ends` | Is the loop bounded and driven by one thing at a time, and does every send end? | One send of two rounds, a response with at most one call, one overflow retry, refused approvals, disposal and teardown. | 9.9 k |
| `toolloop_cancelled_twice` | Are only unanswered calls cancelled? (No.) | One send, one response with two calls. | stops at the violation |
| `turns` | Does every turn of every document end once, in its own drain (but for one stated exception), within reach of its Stop, and is every peer message delivered once? | Two panels, two sends of the user, two peer messages, two marshalled tools, one start that raises: four turns, so two drains overlap while a third turn waits, and each panel both sends and receives. | 2.44 M |
| `turns_foreign_stop` | Does Stop in one document leave the others' work alone? (No.) | The same. | stops at the violation |
| `event_drain` | Is a streamed answer shown in order and to its end, and does the drain never fall asleep? | Four fragments of two kinds, two producers in turn, batches of two, one immediate re-arm, one failing call. Four fragments are spread over batcher, queue, slice, buffers and screen at once; the limits are small enough that each is reached; the one failure may hit a handler, a flush, a poke or a timer. | 193 k |
| `warm_child` | Is no process lost, left running or closed from two sides, and no lock kept? | One caller that leases again and again, one stopper, the reaper and the quitter, two spawns, one kill, one crash. One caller is enough because `_io_lock` serialises leases; two spawns make a late kill meet the next child. | 777 k |
| `pool` | Are slots exclusive, clean, never lost, dead after shutdown, and do sessions keep their kernel or learn that it is gone, but for two frames that cannot say so? | Two callers, two slots, a session beside isolated cells, two incarnations per slot, one crash or abandoned cell, a task limit of one so that every release considers recycling, shutdown anywhere. | 5.16 M |
| `mcp_calls` | Do permit, gates and scopes keep calls apart, and does every call get its answer? | Two calls of any tool on one document or two, with one id or two, and one notification. Each property is about two calls and a cancel. | 1.01 M |
| `acp_turns` | Do Stop, graces, drops and shutdown hit their own turn, and does every stopped turn end? | Two sends in three bounds: two processes and a shutdown; two processes and one that does not start or dies; one process that asks a permission and fails or falls silent. Two sends let what one leaves behind meet the next; a permission and a shutdown do not meet in one bound (the theorems put no such limit). | 652 k |

Deadlock is checked in `pool` and `warm_child`, where a caller can always come.
The programs, sends, turns, fragments and calls of the others are finite, so
their runs stop and their configurations say so.

### Bounds

`MaxSends`, `MaxClears`, `MaxPeers`, `MaxTools`, `MaxRaises`, `MaxFragments`,
`MaxFails`, `MaxSpawns`, `MaxKills`, `MaxCrashes`, `MaxTurns`, `MaxNesting` and
`Limits` bound the models. `Cap`, `QueueCap`, `MaxRounds`, `MaxOverflow`,
`BatchLimit`, `MaxImmediate`, `MaxTasks`, `NumWorkers` are settings of the
program, chosen small. Callers of the pool call for ever; only spawns of a slot
are bounded, and a spawn over the bound fails, as spawns may. Panels, callers
and sessions are interchangeable and declared symmetric where no liveness is
checked.

### Fairness

- `MainThread.FairSpec`: a thread inside `call` or `post` runs on, the event loop
  delivers notifications and lets `process_queue` end, a Stop that began ends.
  Running on includes the bounded wait for a slot of the pending list, which
  ends (SlotTimeout). Nobody has to make another call, the wait for an answer
  need not expire (WaitExpires), no loop has to pump.
  These are the scheduler's and the toolkit's promises.
- `ToolLoop.Spec`: the posted send drain and the slices go on, which is what
  `EventDrain` shows. The user need not click; a request or tool may hang.
  `SendEnds` adds that requests and tools return, which the HTTP client's and
  the tools' timeouts give; `StopEnds` does not need it.
- `EventDrain.Spec`: both timers fire, their threads run, the main thread runs.
  The producer need not say anything more. A stranded drain is an exception that
  `TextIsShown` and `StopCloses` name.
- `WarmChild.FairSpec`: every thread that is running goes on. Popen may hang,
  nobody has to call anything, and no wait has to expire unless it is the wait
  for a spawn, which is timed in the code.
- `McpCalls.FairSpec`: threads and the main loop run and bodies return. No
  deadline is relied on.
- `AcpTurns.FairSpec`: threads run and the grace passes. The agent, its idle
  timeout and the user owe nothing.
- `DocTurns` and `FormulaPool` state safety only. `PeersNotForgotten` is about
  the main thread at rest, which says the same without fairness: nothing polls,
  so what waits at rest waits for somebody's next act.

## 4. The proofs

Every theorem holds for all values of its module's constants: any set of
threads, workers, callers, sessions, requests, documents or turns, any limit.
Each safety theorem follows from an inductive invariant `IInv` of its module
(`Invariance`), with one lemma per action or per conjunct and action. TLC checked
every `IInv` on the instance of the module's run before it was proved.

| Module | Theorem | Says |
|---|---|---|
| `MainThreadProofs` | `Implements` | every behaviour is, with the places forgotten, one of `MarshalContract` |
| | `NoWakeupLost` | whenever items wait, a notification, a pump or a thread on its way will come for them |
| | `JobsInOrder` | a thread's jobs are taken in the order it handed them over |
| | `OutcomesAreTrue` | a result means the job ran to its end; an error means it never starts |
| | `StopIsFinal` | work that had not passed the last cancel check when Stop came never starts |
| | `JobsHeldOnce`, `PlacesAgree`, `TypeCorrect` | no job is in two places or twice in one; places and threads stay in step |
| `FormulaPoolProofs` | `SlotsAreExclusive` | a leased slot has one caller, no slot is lost, recycling costs no kernel |
| | `Affinity` | a session has a namespace in one live child at most |
| | `PipeIsClean` | nothing is written to a child that owes an answer |
| | `ResetIsTold` | a lost namespace is reported to its session, unless the answer that could is one of the two frames that drop the flag |
| | `NothingSurvives` | when shutdown() has returned, every child is dead and stays so |
| `WarmChildProofs` | `Lives` | a live process is in somebody's hands, a signalled one is reaped and closed, the pointer is clean at rest, deaths reported are real |
| | `RetiredForGood` | after retire() and shutdown_all() no live child is published |
| | `PipesApart` | pipes are not closed under the thread using them (an action property) |
| `McpCallsProofs` | `CallsInOrder` | the permit is with the call the main thread works for; a key's scopes are its calls in flight |
| | `EditsUnderTheGate` | of two edits of a document that overlap, one was abandoned at its own deadline and its client is told an error |
| | `RefusalIsTrue` | a call answered 429 or 504 has not begun its tool |
| | `StopComesFirst` | a call cancelled before its last look at the scope does not get past it (an action property) |
| `AcpTurnsProofs` | `PermissionsAnswered` | no agent is answered more than it asked; a question in hand has a send to decide it, and a stopped one's wire to sweep it, unless it was stored after its own send had left |
| | `CancelsAreOwn` | a session/cancel meets its own request, or none |
| | `TurnsAreApart` | a turn fails only with its own agent and is called stopped only if it was |
| | `NothingLeft` | a shut down adapter leaves no process |
| `ToolLoopProofs` | `TranscriptIsSound` | every row is of its own turn and list, in the order of the turns, and results are stored in the order of their calls |
| | `StoppedCallsAnswered` | when Stop has closed a turn, no call up to it lacks a tool row |
| | `StopLineIsLast` | a stopped turn shows one stop line, its last row; no other turn has one |
| | `QuestionsAreAnswered` | no ended turn leaves its question without an answer, error or stop row |
| | `LoopIsDriven` | a running loop has one worker or one item, within its requests, and the button tells it |
| `DocTurnsProofs` | `TurnsEndOnce` | every turn that was started has one end to come, in its own drain unless it listened to speech while another opened, and Stop has its scope until then |
| | `NoStaleScope` | the current scope is that of an open session |
| | `PeersOnceInOrder` | a peer message waits, was started once or was dropped; a panel gets its messages in order |
| | `NoPeerForgotten` | with the main thread at rest no message waits that a kick would start |
| `EventDrainProofs` | `DrainHolds` | the text is one line from the batcher to the screen, the next slice is in one place with an event or a timer behind it, nothing is held back at the end |
| | `Implements` | every behaviour is, with all but the screen forgotten, one of `StreamPromise` |

### Assumptions

The named assumptions on the constants, in the module that declares them, and
nothing else, except two theorems with hypotheses of their own:

- `NoWakeupLost` assumes one UNO context and an `addCallback` that does not
  raise (`OneCtx`, `~FlakyToolkit`), `JobsInOrder` one context and a flush that
  puts every job it took (`~FlushMayFail`). These are the settings of the
  `marshal` run. `marshal_faults`, which gives up all three, asks for the contract
  only: a notification that the toolkit refuses is lost, and a job that a failed
  flush drops is not taken at all.

### MainThread

None of the properties is inductive. That no job is doubled depends on where a
job may be, and that depends on its status: `PlaceInv` says that a job in the
pending list has status pending, one in the flusher's list flushing, one in the
queue queued or expired, one on the stack a status from claimed on. Since a job
has one status it cannot be in two places, and within one place the lists have
no repetition (`Distinct`). `ProgramInv` says that a job its thread has not yet
handed over is new, so what is added was nowhere before; `FlushInv` that only
the holder of the order lock has a local list. For outcomes, `ClaimInv` is the
key: a waiter that saw the claim under the lock and left the lock finds the
claim or an abandoned item when it reads again, so `AnswerInv` (an error was
told only about a dead job) survives RereadClaim. `DoomInv` says that a doomed
job's scope is cancelled and the job is not past the second check.

`ThreadMoves` and `OtherMoves` say once which way a job may go in any step
(`OldMove`, `NewMove`), so `ClaimStep`, `AnswerStep` and `DoomStep` need not look
at actions again; `PlaceStep` and `ProgramStep` go through them. `SurvivorsKept`
is the lemma about Stop's put-back: it keeps a subsequence, without the jobs of
its scope.

For the refinement each step is one of the contract or a stutter
(`StepImplements`), by the move of the one job it concerns. Stop is the step that
needs an invariant: what it bars is every job of its scope but one past its last
check, and `PlacesInv` (a job past that check is the one on top of the stack)
gives the one. `NoWakeupLost` is kept because whoever puts an item either leaves
a poke or is still on its way to one, and a taker of the last poke re-arms.
`JobsInOrder` rests on `OrderInv`: the pending list, the local list and the queue,
read one after the other, hold each thread's jobs in its program's order.

### FormulaPool

`OneNamespace` says where namespaces are not, so the invariant says where they
are: `SpaceInv`, in the child the session's row names, or in the slot of the
call that is about to write that row; `AskInv` and `RowInv`, a call inside a
request has leased just that slot. Two calls cannot each make one, because
`GateInv` keeps one call of a session inside a request, also while shutdown()
has broken the gates. Pipes are clean by `DueInv` (a frame that is due has a
caller waiting for it), `HolderInv` (one caller per slot) and the kill every
failing path makes before it gives the slot back. For `ResetTold`: a session
that is owed the news has a row, or a call about to write one (`TellInv`), the
call that meets a row knows it (`BoundInv`), and the one that makes the new
namespace carries the news (`FreshInv`) or is answered with a frame that cannot,
which puts the session among the `untold` of its slot. After shutdown() the second pass leaves
only dead slots behind it (`ShutInv`), and nobody spawns in a stopping slot.

### WarmChild

A thread's stack of steps is one of a few shapes (`Shaped`): what kill() was
called from, below the steps of kill() still to come. Every proof about an action
therefore starts with one about its stack (`KillMoves`, `LeaseMoves`, `Pops`,
`Starts`: which top comes next, and that the thread still owns, holds or retires
what it did), and from there on compares tops only. The steps that change nothing
but a stack and a mark are one lemma (`QuietStep`); the others have one each.

- *No orphan*: a request in progress has its caller waiting or was left
  (`WaitInv`), and until it is published its child is its caller's alone
  (`PrivateInv`), which `RequestInv` needs to be kept: numbers not handed out are
  nobody's. So FinishSpawn hands a live process to somebody or kills it.
- *No limbo*: the owner on a child's record is the thread that has `end` on its
  stack (`OwnerInv`), so a killer that leaves the closing to the owner leaves it
  to somebody who comes by; `LimboInv` is `NoLimbo` with the pointer added, which
  the thread about to drop it will clear.
- *Pipes*: only one thread can be between begin_io and end_io, the holder of the
  pipe lock (`IoInv`, `HoldInv`). A thread that is to close found no other owner;
  one that came later took a signalled child's pipes (`LateInv`).
- *Deaths*: until a kill marks the published child, no kill is near it
  (`DeathInv`), but for one held between its mark and its look (`torn`).
- *Retire*: `RetireInv` says step by step how far retire() has come: marked, then
  the child looked at is the only one that can be published, then it is dead.
  A publication after the mark is refused, so `unlist` finds no live child.

### McpCalls

`ItemInv` ties an item of the main thread to the place its request waits at and
to the permit, and `ToolInv` the tool to the gate: past the gate, an editing call
holds the gate of its document until it is over; `AliveInv` says that a body that
runs is one its call waits for or one its deadline abandoned. `EditsApart` follows
from the two, though calls give the permit back and take it again. `BeganInv` says that nothing
begins before its body is claimed, which is why a refusal, given only while the
item is not claimed, is true.

### AcpTurns

The parts of `IInv` follow one request through the threads that touch it.

- *One turn at a time*: `SendInv` ties the send lock, the scope, the state lock
  and the token to one turn; `ClickInv` and `WireInv` say that a wire is of a turn
  that is cancelled and that the user's next Send waits for it.
- *Cancels* (`CancelIsOwn`): a token in a wire, a grace or a line is that of a
  request already queued (`IssuedInv`), at most one session/cancel is on its way
  for it (`OnceInv`), and the last request queued before the place where it will
  stand is its own (`FeedInv`). `Fed` says this of a queue and the agent's work,
  and the lemmas `FedAppend`, `FedTail`, `FedRequest`, `FedCancel` of every change
  of the two.
- *No collateral*: a grace speaks of the request in flight only if the user
  stopped it (`GraceInv`); the slot holds the turn's own connection, alive unless
  its agent failed, and no stop of it is under way before the turn gives it up
  (`SlotInv`, `LostInv`); so a request fails with its agent, a stop or the
  shutdown (`FailInv`, `FaultInv`).
- *Permissions*: asked for the turn under way (`CallbackInv`), never before the
  connection's threads run (`FreshInv`), and answered, stored, read and unread
  ones together are at most those asked (`CountInv`, a count over the reader's
  lines). A question the reader holds may outlive its send; it is then in `late`.
- *Processes*: a live process is in an open slot, under a stop, or with the turn that
  spawned it and has yet to look at the slot (`KeptInv`).

`MovesStep` handles at once the steps of a send's thread that write only its own
turn, `DropsStep` those that give a connection up; the other steps have a lemma
each.

### ToolLoop

The properties speak of the transcript, which nearly every action changes, so the
proof has two layers.

The lower one knows rows only. The code rewrites the open row at the end (`Like`:
it grows or is dropped), or appends a row (`Longer`), or fills in cancelled rows.
For each way a lemma says which call rows keep their answers (`Steady`,
`SteadyKeeps`), and `FoldEffect`, `AnswerEffect`, `CallsEffect`, the lemmas about
results and `CloseRows` put the code's operations together from these. What
they keep is `Sorted` (a turn's rows stand together, behind its question and
before its stop line), `Paired` (results in the order of the calls) and, per
turn, whether its calls are all answered (`AllFull`, `AllClosed`). `FillCancelled`
inserts rows in the middle: it is a recursive function, and an induction over the
length tells where each old row ends up and that each added row follows the
block of its response. Call ids come again in later rounds, so answers are
positions, not ids.

The upper one is the loop.

- *Order of results*: nothing in the transcript says which result comes next; the
  loop's own state does. `ChainInv` says that while a tool runs, or its result or
  the next trigger is queued, the calls still due of the last response are that
  tool's and then the pending ones (`OnCall`), and that otherwise none is due.
  Without it `AnsweredInOrder` is not inductive, nor would a turn that ends Ready
  have all its results (`FullInv`).
- *One driver*: `OneInv` is `LoopHasWork` for a loop that is neither stopped nor
  over, with workers and items apart: a step that takes the item leaves one
  worker or puts one item.
- *Budget*: `BudgetInv` counts by round. An overflow on the final stream goes back
  through the loop, so the last round pays two requests for a retry; `Finale`
  tells which of the two the turn is at.
- *Stop and late workers*: `StageInv` says what is set at each stage of a send: a
  turn that is alive has not been stopped and writes into its own list. A worker
  that is no longer of the current turn puts nothing, so `PlaceInv` is kept
  whatever it answers. `StopInv`, `ClosedInv` and `HoleInv` are what the turn's end
  leaves behind and no later change takes away (`Kept`).

`WorkerGoesOn` and `WorkerReturns` take the workers' steps together, `SpawnKeeps`
and `TriggerKeeps` those that start the next request or tool; the others have a
lemma each. Three definitions of the model are written for the proof: `Missing`
with `Without`, `FillCancelled` row by row, and the answers of a call as positions
in the transcript.

### DocTurns

`Ends` counts places; the proof names them instead: a turn is `Posted`, `OnStack`
or `InDrain`. `OneEnd` says that it is one of these at most and there only once,
`Sessions` that an open session is on the stack or in a drain and that an open
drain holds the close of its own turn, `Reached` that a turn with an end to come
is what its panel's scope names. Without `Sessions` a session whose close had
been lost could end another turn's, and without `Reached` two sends could share a
panel.

The peer messages are in three places at once: the order, the per-listener
queues, and the lists that kicks lower on the stack have put aside (`back` of
"unskip"). `Accounted` ties them, and `Ordered` says how they interleave: a
panel's messages are oldest in the lists deepest on the stack, then those above
it, then in the order itself. It is inductive only with `Aside`: while a list
waits on the stack, nothing above it pumps (a turn started by a kick is not
spoken, so no click comes in between), and each message in it is for a panel that
is not free, whose turn no kick above can start. `StartedInOrder` follows the
starts. `Remembered` is `PeersNotForgotten` before the main thread is at rest:
whenever no drain is open and the stack holds nothing but lists being put back,
a message that waits is for a panel that refused it, raised for it, had its turn
taken away, or has a turn still to end, which will kick again.

Whose drain closes a turn (`ClosesAtHome`) is an invariant of its own on top of
these (`Homes`): while a body is on top of the stack nothing is captured, unless
it has heard its speech and is a spoken turn's; so the drain a close joins is
the turn's own or the turn is the exception.

The stack changes in a few ways only, and each has a lemma: the top is replaced
(`SwapStep`, `SwapTwo`), moves into a drain (`MoveStep`), a kick is nested, the
queue alone changes (`QuietQueue`). `KickStarts` is taken apart conjunct by
conjunct (`ScanLaws` says what the scan of the order leaves).

### EventDrain

The places of the text are one line, `Everywhere`: screen, two buffers, batch,
queue, batcher. Its fragments are numbered, so `InOrder` says at once that none
is lost, doubled or overtaken. What a step does to the line is a law about
concatenation (`LineEmit`, `LineTake`, `LineShow`, ...), and what the code does
to the text of an item (`Buffer`, `Folded`) is compared with the line once
(`BufferText`, `FoldedText`), whatever the items are.

`CallbackInv` replaces the count of `OneCallback` by the shapes it allows: the
closure of the next slice is posted with its event, in the hands of the timer's
thread, waiting for the timer, or nowhere while a slice runs. In none of them is
there a second closure or a superseded one: only a slice arms the next slice.
`DoneInv` says that a terminal item is the last thing its worker sent, with
nothing behind it on the line; without it the end of an answer could leave text
in the queue. `TailInv` follows Stop from its flush to the end.

`Implements` needs of the invariant that the screen is a beginning of what was
put (`ShownIs`); the steps then only have to let it grow, and only while the
drain is open (`ShowsMore`).

### What stays with TLC

- Liveness, which the prover does not do: `CallsReturn`, `SendEnds`, `StopEnds`,
  `TextIsShown`, `StopCloses`, `AllAnswered`, `StopEndsTurn`, `LocksReleased`.
- The two sentences of section 5 that the code does not keep.

Induction over data is done where it is needed without the library's induction
theorems, from the least length at which a statement fails (`LeastNat`,
`BoundedInduction`). `Without` is written as a recursive function for that; the
community modules' `SelectSeq` cannot be looked into by the provers. These lemmas
and what they say of lists (`WithoutProperties`, `CutElements`, `SplitContains`)
stand at the head of each proof module that cites them, so that a module's proofs
can be read and checked by themselves.

## 5. Findings

Each of the first two is a run that ends in a counterexample.

1. **Stop cancels completed calls** (`toolloop_cancelled_twice`). The status line
   of a running tool is a row between the assistant row and its first tool row;
   the scan for answered calls (`tool_loop_actions.py:668`) stops at it, so a call
   that has its result gets a cancelled row as well.
2. **Stop in one document takes another document's work** (`turns_foreign_stop`).
   A session stays current on the main thread between callbacks, and a post
   without a scope of its own is bound to whichever is current
   (`queue_executor.py:573`). A Send clicked in B while A streams is bound to A's
   scope; Stop in A drops it, and B's button stays on Stop. A tool worker started
   by A's slice while B's session is current is bound to B's in the same way
   (`tool.py:1012`, `llm_lanes.py:53`).

Seen while modelling, with no run of their own. Marshal and chat:

- An accepted post can stay behind: `post` reads "no callback" before it takes
  `_pending_lock`; a `set_context` in between flushes an empty list, and the post
  is stored after it (`queue_executor.py:722`) until somebody marshals again.
- `panel.py:963` aborts the turn before it cancels the scope, so the slice that
  sees Stop drops text queued before the click, which `async_stream.py:367`
  means to show; and `abort_turn` discards the batcher (`tool_loop_actions.py:331`).
- An overflow on the final stream goes back through the loop
  (`tool_loop.py:987`), one request more than the configured rounds.
- After speech-to-text has pumped another document's send, the close of a turn
  that opens no drain is deferred onto the other's, although `panel.py:1081` says
  that it "must not defer its completion onto it" and `async_stream.py:472` that
  a deferral can "only attach to a drain started in the same synchronous call".
  `ClosesAtHome`, a part of `TurnInv`, states this one exception.
- Cancelling a recording starts no waiting peer turn: a turn refused for it waits
  for the end of some other turn. A start that raises lets a later message of the
  same panel overtake.
- With three overlapping sessions, ending the second and then the third leaves no
  current scope while the first is open.
- `addCallback` that raises on the idle timer's thread (`async_stream.py:579`)
  strands the drain: the closure is taken back for a retry that path does not
  have, and neither a new item nor Stop runs a slice again.
  `docs/framework/threading.md:98` says of this case that the re-arm "gives up
  after 8 failures and posts an unscoped abort"; there is nothing of that kind in
  `async_stream.py`. `EventDrain` marks it `stranded`, and its liveness excepts it.
- A flush that raises keeps its buffer, so the end applies the text again
  (`async_stream.py:147`); not modelled.

Children:

- `assert child is not None` (`warm_child.py:459`) can fail when a kill from
  another thread (`kokoro_pool.py:156`) drops the child just before.
- A kill that finds no child and marks `_cancel_pending` after the publication is
  lost until the next lease clears it (`warm_child.py:359`). One held between its
  mark and its look over a whole spawn makes its child a reported death (`torn`).
- Pipes taken after a signal are closed under their thread (`late`), for a child
  that is already dead.
- A 503 for a cell that ran: `_fail_request` (`process_worker.py:374`) answers
  SERVICE_SHUTDOWN for any failure while the slot stops, also after the frame was
  sent; `error_codes.py:72` lets a proxy retry.
- A lost kernel nobody hears of: two answers to the first cell after a loss carry
  no `session_reset`, although `compute_service/README.md:138` and `:406` promise
  it. One is the frame that replaces a result over the cap
  (`worker_stdio.py:164`), the other that of an exception which comes after
  `venv_sandbox.py:1307` has made the namespace, say at the binding of the inputs
  (`:1328`): `formula_worker.py:153-161` then says `namespace_created=False`.
  `ResetTold` states both as exceptions (`untold`).
- An error frame returns before `exiting` and `tasks_executed` are looked at
  (`process_worker.py:551`): evaluation errors never count towards recycling
  (`worker_base.py:18`), and a child about to exit returns to idle, the latter
  only where SIGALRM is missing.
- A new session whose first cell timed out before anything was sent is told of a
  reset it never had (`compute_service/README.md:138`). The reaper's kill
  (`worker_base.py:270`) can hit a child respawned after its pop.
  `_finalize_session` can insert a row after `shutdown` cleared them.

MCP and ACP:

- A body that its own timeout abandons (`tool.py:899`) runs on after its gate was
  released, so a second edit of the document overlaps it, although
  `docs/mcp-protocol.md:373` says that the gate "prevents overlapping mutating MCP
  tool runs on the same file", and `docs/framework/threading.md:65` repeats it.
  `EditsApart` counts such a body and states it as the only exception.
- A permission asked for a send that has left: the reader reads the callback
  without a lock (`acp_connection.py:635`), the send is stopped, times out and
  leaves, which sweeps the map, and then the question is stored
  (`acp_backend.py:979`), where only the next send can reach it.
  `docs/framework/threading.md:81` says that a request without a callback is
  answered so that a kept process cannot block on it. `NoStrayPermission` states
  this exception (`late`).
- `docs/framework/threading.md:61` keeps the permit from the preparation through
  the body; the code gives it back and takes it again, which is what
  `AllAnswered` needs.
- A call cancelled while queued is answered 200 with an error result, since
  `SendCancelled` is a plain exception. Clients of one host share a session key,
  so a cancel of one reaches the other's call of the same id.
- The session/cancel line is sent after the state lock is released. `CancelIsOwn`
  holds because the user's thread serialises Stop with the next Send, and the
  wire of a turn runs under its send lock.
- A stopped send that waits for the send before it ends only when that one does;
  `StopEndsTurn` says so. An idle timeout after Stop keeps the wedged process in
  the slot for the next send (`acp_backend.py:1197`).

## 6. Not modelled

`PROJECT.json` lists every part with the reason. In short: document tools and
user interface code are single calls on the main thread whose correctness is
about content; language-model clients, HTTP, SQLite and devices are I/O;
research agents follow model text; vendored code is not this program's, and most
of the repository's lines are one of these.

The grammar queue draws its stamps before it records them, and forgetting a
document lets older items count again (`grammar_work_queue.py:126`, `:222`).
Either costs one check of a sentence, which the next proofreading pass asks for
again, so the code promises nothing that a property could state.

LLM lanes, the work pool, blocking waits, pool singletons and the tunnel have
small protocols of their own and are candidates. The components that are modelled
are all "partly": what each leaves out is in its note.

## 7. Plan

Every invariant and action property that a run checks is proved; liveness is
checked. What could come next are the components of section 6 with protocols of
their own: the lanes first, then the work pool's joins and generations. Bounds
stay at two or three actors of each kind.
