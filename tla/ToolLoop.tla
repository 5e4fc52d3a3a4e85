------------------------------ MODULE ToolLoop ------------------------------
(***************************************************************************)
(* One sidebar's chat sends (plugin/chatbot: panel.py, tool_loop.py,       *)
(* tool_loop_actions.py, tool_loop_state.py, chat_session.py), driven by   *)
(* the event drain of plugin/framework/async_stream.py.                    *)
(*                                                                         *)
(* The UI thread runs the button clicks, the send drain and one drain      *)
(* slice at a time.  LLM and tool workers are background threads; they     *)
(* only put items on the queue of the turn they captured at spawn.  A      *)
(* worker cannot be killed: after Stop it stays around as long as it likes *)
(* and its turn refuses what it puts.                                      *)
(*                                                                         *)
(* A slice is one VCL callback.  The model handles one item per action: a  *)
(* click between two items of one slice is the click between two slices    *)
(* that the same puts, arriving later, lead to.                            *)
(***************************************************************************)
EXTENDS Naturals, Sequences, FiniteSets, SequencesExt, SequenceFilters

CONSTANTS
  MaxSends,      \* bound on Send clicks; a send, its turn and scope share a number
  MaxClears,     \* bound on Clear clicks
  MaxRounds,     \* chat_max_tool_rounds
  MaxOverflow,   \* MAX_OVERFLOW_COMPACTION_ATTEMPTS
  Ids,           \* tool call ids; providers use them again in later rounds
  CallLists,     \* the tool_calls lists a response may carry, <<>> for none
  Tokens,        \* the text fragments a response may stream
  Approvals,     \* web_research asks for approval and the user may refuse
  Disposals,     \* the document may go away during a send
  Teardowns      \* the sidebar may be disposed

ASSUME BoundAssumption ==
  /\ MaxSends \in Nat \ {0} /\ MaxClears \in Nat /\ MaxOverflow \in Nat
  /\ MaxRounds \in Nat \ {0}
ASSUME DataAssumption ==
  /\ CallLists \subseteq Seq(Ids)
  /\ \A c \in CallLists : \A i, k \in DOMAIN c : c[i] = c[k] => i = k
  /\ IsFiniteSet(Tokens)
  /\ Tokens \cap {"status", "banner", "error"} = {}
  /\ {Approvals, Disposals, Teardowns} \subseteq BOOLEAN

VARIABLES
  busy,       \* sidebar_state.send.is_busy
  phase,      \* "none", "posted", "starting" (_do_send), "draining"
  teardown,   \* _panel_teardown
  sends,      \* Send clicks so far: the newest send
  cur,        \* host._turn, 0 for None
  alive,      \* turns with alive = True
  cancelled,  \* sends whose SendCancellation is set
  shut,       \* turns with closed_by_document = True
  closed,     \* turns with _stop_committed = True
  list,       \* identity of session.messages
  base,       \* the list each turn captured
  messages,   \* session.messages, without the system row
  outcome,    \* turn.outcome
  partial,    \* _stop_partial_text of the current turn, {} for none
  round,      \* ToolLoopState.round_num
  pending,    \* ToolLoopState.pending_tools
  retries,    \* _overflow_compact_attempts of the current turn
  requests,   \* history: LLM requests each turn has started
  queue,      \* the current turn's queue, batcher included
  workers     \* the LLM and tool threads that have not returned

vars == <<busy, phase, teardown, sends, cur, alive, cancelled, shut, closed,
          list, base, messages, outcome, partial, round, pending, retries,
          requests, queue, workers>>
\* What a drain slice never touches, and what a worker never touches.
uivars == <<teardown, sends, cancelled, shut, list, base>>
turnvars == <<busy, phase, cur, alive, closed, messages, outcome>>
loopvars == <<round, pending, retries, requests>>

Turns == 1 .. MaxSends
None == "none"

-----------------------------------------------------------------------------
\* Rows of session.messages.  An "open" row holds streamed text; it is dropped
\* when a committed assistant row follows it.
Words == Tokens \cup {"status", "banner", "error"}
Kinds == {"user", "open", "asst", "tool", "stop"}
Rows == [k : Kinds, t : Turns, calls : CallLists \cup {<<>>},
         id : Ids \cup {None}, res : {None, "result", "cancelled"},
         say : SUBSET Words]

Row(k, t) == [k |-> k, t |-> t, calls |-> <<>>, id |-> None, res |-> None, say |-> {}]
User(t) == Row("user", t)
StopLine(t) == Row("stop", t)
Open(t, say) == [Row("open", t) EXCEPT !.say = say]
Asst(t, calls, say) == [Row("asst", t) EXCEPT !.calls = calls, !.say = say]
Tool(t, id, res) == [Row("tool", t) EXCEPT !.id = id, !.res = res]

EndsOpen(ms) == ms # <<>> /\ Last(ms).k = "open"
OpenText(ms) == IF EndsOpen(ms) THEN Last(ms).say ELSE {}

\* fold_transcript_chunk: streamed text grows the open row at the end.
Fold(ms, t, say) ==
  IF EndsOpen(ms) THEN [ms EXCEPT ![Len(ms)].say = @ \cup say]
                  ELSE Append(ms, Open(t, say))

\* add_assistant_message: a committed row replaces the open row at the end.
DropOpen(ms) == IF EndsOpen(ms) THEN Front(ms) ELSE ms
Commit(ms, row) == Append(DropOpen(ms), row)

\* The tool rows directly after the assistant row i, and the calls of i that
\* none of them answers.
Block(ms, i) == {j \in DOMAIN ms : j > i /\ \A k \in i + 1 .. j : ms[k].k = "tool"}
AnsweredAnywhere(ms, i) == {ms[j].id : j \in {k \in DOMAIN ms : ms[k].k = "tool"}}  \* mutant
AnsweredIds(ms, i) == {ms[j].id : j \in Block(ms, i)}
Missing(ms, i) == Without(ms[i].calls, AnsweredIds(ms, i))

\* _append_cancelled_tool_rows: each assistant row's missing calls are answered
\* at the end of its block, which is row n for the rows in BlockOf(ms, n).
CancelledRows(ms, i) ==
  [n \in DOMAIN Missing(ms, i) |-> Tool(ms[i].t, Missing(ms, i)[n], "cancelled")]
BlockOf(ms, n) ==
  {i \in 1 .. n : /\ ms[i].k = "asst" /\ (i = n \/ n \in Block(ms, i))
                  /\ n + 1 \in DOMAIN ms => ms[n + 1].k # "tool"}
Added(ms, n) ==
  IF BlockOf(ms, n) = {} THEN <<>> ELSE CancelledRows(ms, CHOOSE i \in BlockOf(ms, n) : TRUE)
FillStep(ms, f, n) == IF n = 0 THEN <<>> ELSE Append(f[n - 1], ms[n]) \o Added(ms, n)
FillCancelled(ms) == LET f[n \in 0 .. Len(ms)] == FillStep(ms, f, n) IN f[Len(ms)]

\* close_stopped: the open row, or else the worker's partial text, is committed,
\* unanswered calls get cancelled rows, and the stop line ends the turn.
StopText(ms, part) == IF OpenText(ms) # {} THEN OpenText(ms) ELSE part
CloseRows(ms, t, part) ==
  LET said == IF StopText(ms, part) = {} THEN ms
              ELSE Commit(ms, Asst(t, <<>>, StopText(ms, part)))
      filled == FillCancelled(said)
      silent == StopText(ms, part) = {} /\ filled = said
  IN  Append(IF silent THEN Commit(filled, Asst(t, <<>>, {"banner"})) ELSE filled, StopLine(t))

-----------------------------------------------------------------------------
\* Items on the queue.  t is the turn of the worker that put it.
Control == {"done", "next", "result", "final", "error"}
Items == [k : {"chunk", "stopped"} \cup Control, t : Turns, say : SUBSET Tokens,
          calls : CallLists \cup {<<>>}, id : Ids \cup {None},
          mark : {None, "mutated", "overflow"}]
Item(k, t) == [k |-> k, t |-> t, say |-> {}, calls |-> <<>>, id |-> None, mark |-> None]

\* Worker threads: k is what runs, n the number of requests made at spawn.
Workers == [k : {"llm", "final", "tool"}, t : Turns, n : Nat,
            id : Ids \cup {None}, pc : {"new", "running", "refused"},
            sent : SUBSET Tokens]
Worker(k, t, n, id) ==
  [k |-> k, t |-> t, n |-> n, id |-> id, pc |-> "new", sent |-> {}]

\* TurnController.can_write and running_turn.
CanWriteAlive(t) == cur = t /\ t \in alive /\ t \notin shut /\ base[t] = list  \* mutant
CanWrite(t) == cur = t /\ t \notin shut /\ base[t] = list
Running == cur # 0 /\ cur \in alive /\ CanWrite(cur)

\* TurnController.put: a dead turn refuses the item.
AcceptsAny(t) == TRUE  \* mutant: one queue for all turns
Accepts(t) == t \in alive
Put(t, item) == queue' = IF Accepts(t) THEN Append(queue, item) ELSE queue

Init ==
  /\ busy = FALSE /\ phase = "none" /\ teardown = FALSE
  /\ sends = 0 /\ cur = 0 /\ list = 0
  /\ alive = {} /\ cancelled = {} /\ shut = {} /\ closed = {}
  /\ base = [t \in Turns |-> 0] /\ messages = <<>>
  /\ outcome = [t \in Turns |-> "none"]
  /\ partial = {} /\ round = 0 /\ pending = <<>> /\ retries = 0
  /\ requests = [t \in Turns |-> 0]
  /\ queue = <<>> /\ workers = {}

-----------------------------------------------------------------------------
\* The clicks.  They run on the UI thread between two VCL callbacks, or inside
\* _do_send where it pumps the UI.

\* Stop, and what Clear and dispose share with it: abort the turn, then cancel.
Aborted == alive \ {cur}
StopSend ==
  /\ alive' = Aborted
  /\ cancelled' = cancelled \cup {sends}

SendClick ==
  /\ ~busy /\ ~teardown /\ sends < MaxSends
  /\ busy' = TRUE /\ phase' = "posted" /\ sends' = sends + 1
  /\ outcome' = [outcome EXCEPT ![sends + 1] = "ready"]
  /\ UNCHANGED <<teardown, cur, alive, cancelled, shut, closed, list, base,
                 messages, partial, loopvars, queue, workers>>

StopClick ==
  /\ busy /\ ~teardown /\ sends \notin cancelled
  /\ StopSend
  /\ UNCHANGED <<busy, phase, teardown, sends, cur, shut, closed, list, base,
                 messages, outcome, partial, loopvars, queue, workers>>

ClearClick ==
  /\ ~teardown /\ list < MaxClears
  /\ IF busy THEN StopSend ELSE UNCHANGED <<alive, cancelled>>
  /\ list' = list + 1 /\ messages' = <<>>
  /\ UNCHANGED <<busy, phase, teardown, sends, cur, shut, closed, base,
                 outcome, partial, loopvars, queue, workers>>

\* The sidebar goes away, alone or with its document's window.
Dispose ==
  /\ Teardowns /\ ~teardown
  /\ teardown' = TRUE
  /\ IF phase # "none" THEN StopSend ELSE UNCHANGED <<alive, cancelled>>
  /\ \/ shut' = shut \cup ({cur} \ {0})
     \/ cur # 0 /\ UNCHANGED shut
  /\ UNCHANGED <<busy, phase, sends, cur, closed, list, base, messages,
                 outcome, partial, loopvars, queue, workers>>

-----------------------------------------------------------------------------
\* The end of a send: the tool loop's epilogue aborts the turn, the send
\* drain's epilogue completes the button and forgets the turn.
BusyKept == busy  \* mutant
BusyAfter == teardown
Finish ==
  /\ phase' = "none" /\ busy' = BusyAfter
  /\ cur' = 0 /\ alive' = Aborted
  /\ queue' = <<>> /\ partial' = {}
  /\ round' = 0 /\ pending' = <<>> /\ retries' = 0
  /\ UNCHANGED requests

EndWith(o) == Finish /\ outcome' = [outcome EXCEPT ![sends] = o]

\* _append_response: text reaches the list while the turn runs.
Say(say) == messages' = IF Running THEN Fold(messages, cur, say) ELSE messages

\* _run_send_drain; a Stop that came first ends the send here.
SkipSend ==
  /\ phase = "posted" /\ sends \in cancelled
  /\ EndWith("stopped")
  /\ UNCHANGED <<uivars, closed, messages, workers>>

BeginSend ==
  /\ phase = "posted" /\ sends \notin cancelled
  /\ phase' = "starting"
  /\ cur' = sends /\ alive' = alive \cup {sends}
  /\ base' = [base EXCEPT ![sends] = list]
  /\ UNCHANGED <<busy, teardown, sends, cancelled, shut, closed, list, messages,
                 outcome, partial, loopvars, queue, workers>>

\* The document is gone or the configuration is refused.
BodyRefused ==
  /\ phase = "starting"
  /\ Say({"error"})
  /\ EndWith("error")
  /\ UNCHANGED <<uivars, closed, workers>>

\* Stop or Clear while _do_send pumped the UI: the body returns, nothing said.
BodyAborted ==
  /\ phase = "starting" /\ ~Running
  /\ Finish
  /\ UNCHANGED <<uivars, closed, messages, outcome, workers>>

\* _spawn_llm_worker and _spawn_final_stream, the r-th request of the turn.
Spawn(k) ==
  /\ requests' = [requests EXCEPT ![cur] = @ + 1]
  /\ workers' = workers \cup {Worker(k, cur, requests[cur] + 1, None)}

\* The user row is stored, the drain armed and the first request started.
StartLoop ==
  /\ phase = "starting" /\ Running
  /\ phase' = "draining"
  /\ messages' = Append(messages, User(cur))
  /\ Spawn("llm")
  /\ UNCHANGED <<uivars, busy, cur, alive, closed, outcome, partial, round,
                 pending, retries, queue>>

\* run_stream_drain_loop could not start: reported like a stream error.
DrainRefused ==
  /\ phase = "starting" /\ Running
  /\ messages' = Append(Append(messages, User(cur)), Asst(cur, <<>>, {"error"}))
  /\ EndWith("error")
  /\ UNCHANGED <<uivars, closed, workers>>

-----------------------------------------------------------------------------
\* One slice of the drain.

\* A slice looks at the scope before it takes items.
StopSeenWithItem == sends \in cancelled /\ queue # <<>>  \* mutant
StopSeen == sends \in cancelled

CloseStopped ==
  IF CanWrite(cur) /\ cur \notin closed
  THEN messages' = CloseRows(messages, cur, partial) /\ closed' = closed \cup {cur}
  ELSE UNCHANGED <<messages, closed>>

\* _finish_on_stop: queued text is offered to a turn that no longer runs.
SliceStop ==
  /\ phase = "draining" /\ StopSeen
  /\ CloseStopped
  /\ EndWith("stopped")
  /\ UNCHANGED <<uivars, workers>>

Take(k) == phase = "draining" /\ ~StopSeen /\ queue # <<>> /\ Head(queue).k = k
item == Head(queue)
Queued(more) == queue' = Tail(queue) \o more

\* TriggerNextToolEffect.
TriggerTwice == <<Item("next", cur), Item("next", cur)>>  \* mutant
TriggerNever == <<>>  \* mutant
TriggerNext == <<Item("next", cur)>>

TakeChunk ==
  /\ Take("chunk")
  /\ messages' = Fold(messages, item.t, item.say)
  /\ Queued(<<>>)
  /\ UNCHANGED <<uivars, busy, phase, cur, alive, closed, outcome, partial,
                 loopvars, workers>>

\* STREAM_DONE without tool calls ends the turn; an empty answer is a banner.
TakeAnswer ==
  /\ Take("done") /\ item.calls = <<>>
  /\ messages' = Commit(messages, Asst(item.t, <<>>,
                   IF item.say = {} THEN {"banner"} ELSE item.say))
  /\ EndWith("ready")
  /\ UNCHANGED <<uivars, closed, workers>>

\* STREAM_DONE with tool calls.
TakeCalls ==
  /\ Take("done") /\ item.calls # <<>>
  /\ messages' = Commit(messages, Asst(item.t, item.calls, item.say))
  /\ pending' = pending \o item.calls
  /\ Queued(TriggerNext)
  /\ UNCHANGED <<uivars, busy, phase, cur, alive, closed, outcome, partial,
                 round, retries, requests, workers>>

\* NEXT_TOOL with no pending call: the next round, or the final stream.
CappedRound == IF round + 1 < MaxRounds THEN round + 1 ELSE MaxRounds
NextRound ==
  /\ Take("next") /\ pending = <<>>
  /\ round' = CappedRound
  /\ Spawn(IF round + 1 < MaxRounds THEN "llm" ELSE "final")
  /\ Queued(<<>>)
  /\ UNCHANGED <<uivars, turnvars, partial, pending, retries>>

\* NEXT_TOOL with a pending call: show it and run it on a worker.
NewestCall == Last(pending)  \* mutant
NextCall == Head(pending)
StartTool ==
  /\ Take("next") /\ pending # <<>>
  /\ messages' = Fold(messages, cur, {"status"})
  /\ workers' = workers \cup {Worker("tool", cur, requests[cur], NextCall)}
  /\ pending' = Tail(pending)
  /\ Queued(<<>>)
  /\ UNCHANGED <<uivars, busy, phase, cur, alive, closed, outcome, partial,
                 round, retries, requests>>

\* TOOL_DONE: the result line, the tool row, and after a change of the document
\* a new snapshot of it.
ResultRows ==
  Append(Fold(messages, item.t, {"status"}), Tool(item.t, item.id, "result"))
TakeResult ==
  /\ Take("result")
  /\ messages' = ResultRows
  /\ Queued(TriggerNext)
  /\ UNCHANGED <<uivars, busy, phase, cur, alive, closed, outcome, partial,
                 loopvars, workers>>

\* The snapshot failed: the document is closed or unreadable.
TakeResultDocumentGone ==
  /\ Take("result") /\ item.mark = "mutated" /\ Disposals
  /\ messages' = Append(ResultRows, Open(cur, {"error"}))
  /\ EndWith("error")
  /\ UNCHANGED <<uivars, closed, workers>>

\* FINAL_DONE.  Without text the notice is stored and then appended as text.
TakeFinal ==
  /\ Take("final")
  /\ messages' = IF item.say # {} THEN Commit(messages, Asst(item.t, <<>>, item.say))
                 ELSE Fold(Commit(messages, Asst(item.t, <<>>, {"banner"})),
                           item.t, {"banner"})
  /\ EndWith("ready")
  /\ UNCHANGED <<uivars, closed, workers>>

\* ERROR, prompt too large: compaction and one more request on the same round.
RetryAlways == TRUE  \* mutant
MayRetry == retries < MaxOverflow
TakeOverflow ==
  /\ Take("error") /\ item.mark = "overflow" /\ MayRetry
  /\ retries' = retries + 1
  /\ Spawn("llm")
  /\ Queued(<<>>)
  /\ UNCHANGED <<uivars, turnvars, partial, round, pending>>

\* ERROR: the banner is stored as the answer.  should_retry_overflow also gives
\* up early when compaction did not help.
ErrorShownOnly == Fold(messages, cur, {"error"})  \* mutant
ErrorRows == Commit(messages, Asst(cur, <<>>, {"error"}))
TakeError ==
  /\ Take("error")
  /\ messages' = ErrorRows
  /\ EndWith("error")
  /\ UNCHANGED <<uivars, closed, workers>>

\* STOPPED from a live turn: the user refused a web search.
TakeStopped ==
  /\ Take("stopped")
  /\ CloseStopped
  /\ EndWith("stopped")
  /\ UNCHANGED <<uivars, workers>>

Slice ==
  \/ SliceStop \/ TakeChunk \/ TakeAnswer \/ TakeCalls \/ NextRound \/ StartTool
  \/ TakeResult \/ TakeResultDocumentGone \/ TakeFinal \/ TakeOverflow
  \/ TakeError \/ TakeStopped

-----------------------------------------------------------------------------
\* The worker threads.
Streams == {w \in workers : w.k # "tool"}
Tools == {w \in workers : w.k = "tool"}
Replace(w, v) == workers' = (workers \ {w}) \cup {v}
Gone(w) == workers' = workers \ {w}
workervars == <<uivars, turnvars, loopvars>>

\* The first look at the turn and its scope.  A worker that finds them ended
\* puts STOPPED on a turn that refuses it.
Begin(w) ==
  /\ w.pc = "new"
  /\ IF w.t \in alive THEN Replace(w, [w EXCEPT !.pc = "running"]) ELSE Gone(w)
  /\ UNCHANGED <<workervars, partial, queue>>

\* A fragment of the answer arrives.
Stream(w, x) ==
  /\ w.pc = "running" /\ x \notin w.sent
  /\ Replace(w, [w EXCEPT !.sent = @ \cup {x}])
  /\ Put(w.t, [Item("chunk", w.t) EXCEPT !.say = {x}])
  /\ UNCHANGED <<workervars, partial>>

\* The stream ended under Stop: note_stop_partial keeps the text unless the
\* response has calls or the request raised.  STOPPED is refused.
NotePartial(w) == partial' = IF w.t = cur THEN w.sent ELSE partial
StreamCut(w) ==
  /\ w.pc = "running" /\ w.t \in cancelled
  /\ NotePartial(w) \/ UNCHANGED partial
  /\ Gone(w)
  /\ UNCHANGED <<workervars, queue>>

\* The stream ended: STREAM_DONE or FINAL_DONE.
StreamDone(w, c) ==
  /\ w.pc = "running" /\ w.t \notin cancelled
  /\ w.k = "final" => c = <<>>
  /\ Put(w.t, [Item(IF w.k = "llm" THEN "done" ELSE "final", w.t) EXCEPT
                 !.say = w.sent, !.calls = c])
  /\ Gone(w)
  /\ UNCHANGED <<workervars, partial>>

\* The request raised: ERROR, whether or not Stop has come.
StreamFailed(w, mark) ==
  /\ w.pc = "running"
  /\ Put(w.t, [Item("error", w.t) EXCEPT !.mark = mark])
  /\ Gone(w)
  /\ UNCHANGED <<workervars, partial>>

\* The user refused the search: STOPPED now, the tool's result later.
ToolRefused(w) ==
  /\ Approvals /\ w.pc = "running"
  /\ Put(w.t, Item("stopped", w.t))
  /\ Replace(w, [w EXCEPT !.pc = "refused"])
  /\ UNCHANGED <<workervars, partial>>

\* The tool returned or raised: TOOL_DONE with a result or an error payload.
ToolDone(w, mark) ==
  /\ w.pc \in {"running", "refused"}
  /\ Put(w.t, [Item("result", w.t) EXCEPT !.id = w.id, !.mark = mark])
  /\ Gone(w)
  /\ UNCHANGED <<workervars, partial>>

\* The tool found its document disposed: ERROR ends the loop.
ToolDisposed(w) ==
  /\ Disposals /\ w.pc = "running"
  /\ Put(w.t, Item("error", w.t))
  /\ Gone(w)
  /\ UNCHANGED <<workervars, partial>>

StreamEnds(w) ==
  \/ StreamCut(w)
  \/ \E c \in CallLists : StreamDone(w, c)
  \/ \E mark \in {None, "overflow"} : StreamFailed(w, mark)
ToolEnds(w) ==
  \/ \E mark \in {None, "mutated"} : ToolDone(w, mark)
  \/ ToolDisposed(w)
WorkerEnds(w) == Begin(w) \/ (w.k # "tool" /\ StreamEnds(w)) \/ (w.k = "tool" /\ ToolEnds(w))

Work ==
  \/ \E w \in workers : Begin(w)
  \/ \E w \in Streams : StreamEnds(w) \/ \E x \in Tokens : Stream(w, x)
  \/ \E w \in Tools : ToolEnds(w) \/ ToolRefused(w)

Clicks == SendClick \/ StopClick \/ ClearClick \/ Dispose
SendDrain ==
  SkipSend \/ BeginSend \/ BodyRefused \/ BodyAborted \/ StartLoop \/ DrainRefused

Next == Clicks \/ SendDrain \/ Slice \/ Work

\* VCL delivers posted callbacks, so the send drain and the slices go on.  The
\* user is not bound to click, and a request or a tool may hang.
Spec == Init /\ [][Next]_vars /\ WF_vars(SendDrain) /\ WF_vars(Slice)

\* Requests and tools return: the HTTP client and the tools have timeouts.
WorkersReturn == WF_vars(\E w \in workers : WorkerEnds(w))

-----------------------------------------------------------------------------
\* What must hold.

Ended(t) == t <= sends /\ (t = sends => phase = "none")
RowsOf(k, t) == {i \in DOMAIN messages : messages[i].k = k /\ messages[i].t = t}
Started(t) == RowsOf("user", t) # {}

\* The tool rows after the assistant row i and before the next committed row
\* that is no tool row: what the next request pairs with the calls of i.
RowsAfter(ms, i) ==
  {j \in DOMAIN ms : j > i /\ \A k \in i + 1 .. j : ms[k].k \in {"tool", "open"}}
Answers(ms, i) == {j \in RowsAfter(ms, i) : ms[j].k = "tool"}
Results(ms, i) == {j \in Answers(ms, i) : ms[j].res = "result"}
CallRows(ms) == {i \in DOMAIN ms : ms[i].k = "asst" /\ ms[i].calls # <<>>}
Answering(ms, rows, id) == \E j \in rows : ms[j].id = id

\* Every variable has its type; the round stays within the configured number.
TypeOK ==
  /\ busy \in BOOLEAN /\ teardown \in BOOLEAN
  /\ phase \in {"none", "posted", "starting", "draining"}
  /\ sends \in 0 .. MaxSends /\ cur \in {0, sends} /\ list \in 0 .. MaxClears
  /\ alive \subseteq {cur} /\ {cancelled, shut, closed} \subseteq SUBSET Turns
  /\ base \in [Turns -> 0 .. MaxClears]
  /\ messages \in Seq(Rows)
  /\ outcome \in [Turns -> {"none", "ready", "stopped", "error"}]
  /\ partial \subseteq Tokens /\ round \in 0 .. MaxRounds
  /\ pending \in Seq(Ids) /\ retries \in 0 .. MaxOverflow
  /\ requests \in [Turns -> Nat]
  /\ queue \in Seq(Items) /\ workers \subseteq Workers

\* A turn's text never reaches the transcript of a later turn or a list that
\* was cleared, however late its workers answer
\* (TurnController, tool_loop_actions.py).
RowsInTurnOrder ==
  /\ \A i, j \in DOMAIN messages : i < j => messages[i].t <= messages[j].t
  /\ \A i \in DOMAIN messages : base[messages[i].t] = list

\* The results of a response's calls are stored in the order of the calls, none
\* twice, and all of them when the turn ends Ready (TOOL_RESULT, NEXT_TOOL).
AnsweredInOrder ==
  \A i \in CallRows(messages) :
    LET calls == messages[i].calls  done == Results(messages, i) IN
    /\ \A j \in done : \E n \in DOMAIN calls :
         /\ messages[j].id = calls[n]
         /\ \A m \in 1 .. n - 1 : Answering(messages, {k \in done : k < j}, calls[m])
    /\ \A j, k \in done : messages[j].id = messages[k].id => j = k
    /\ Ended(messages[i].t) /\ outcome[messages[i].t] = "ready"
         => \A n \in DOMAIN calls : Answering(messages, done, calls[n])

\* The transcript is what the turns produced, in their order and each turn's
\* calls in theirs: no row of another turn, list, response or call among them.
TranscriptInv == RowsInTurnOrder /\ AnsweredInOrder

\* Once a turn was closed by Stop no call up to that turn lacks a tool row:
\* an unpaired call makes the next request a 400 (_append_cancelled_tool_rows).
StopClosesCalls ==
  \A t \in closed : \A i \in CallRows(messages) :
    messages[i].t <= t =>
      \A n \in DOMAIN messages[i].calls : Answering(messages, Answers(messages, i), messages[i].calls[n])

\* A send whose loop was stopped ends with one stop line, its last row, unless
\* its window closed; a send that was not stopped has none (close_stopped).
StopLines(t) == RowsOf("stop", t)
StopIsShown ==
  \A t \in Turns :
    /\ Cardinality(StopLines(t)) <= 1
    /\ StopLines(t) # {} => Ended(t) /\ outcome[t] = "stopped"
    /\ Ended(t) /\ Started(t) /\ t \in cancelled /\ t \notin shut => StopLines(t) # {}
    /\ \A i \in StopLines(t), j \in DOMAIN messages : j > i => messages[j].t > t

\* No ended turn leaves its question without a committed answer, error or stop
\* row: a retry would send two user rows in a row (_handle_stream_error).
NoHoleAfterUser ==
  \A i \in DOMAIN messages :
    /\ messages[i].k = "user" /\ Ended(messages[i].t) /\ messages[i].t \notin shut
    => \E j \in DOMAIN messages :
         /\ j > i /\ messages[j].k \in {"asst", "stop"}
         /\ messages[j].t = messages[i].t

\* A running loop always waits for exactly one thing: a worker of this turn, or
\* one control item on its queue.  None would hang the drain, two would run the
\* rest of the turn twice (TriggerNextToolEffect, the spawn effects, SPAWNED).
ControlItems == {i \in DOMAIN queue : queue[i].k \in Control}
Asked == \E w \in workers : w.pc = "refused" /\ w.t = cur
LoopHasWork ==
  phase = "draining" /\ cur \in alive /\ ~Asked
  /\ (\A i \in DOMAIN queue : queue[i].k # "stopped") =>
    Cardinality({w \in workers : w.t = cur}) + Cardinality(ControlItems) = 1

\* A turn makes at most one request per round, the final one, and two for each
\* overflow retry (NEXT_TOOL, should_retry_overflow).
RequestBudget == \A t \in Turns : requests[t] <= MaxRounds + 1 + 2 * MaxOverflow

\* The button is on Stop exactly while a send is posted, starting or draining,
\* and a live turn is always the one the sidebar is busy with (_close_turn_ui).
BusyIffSending ==
  /\ ~teardown => (busy <=> phase # "none")
  /\ alive # {} => busy /\ phase \in {"starting", "draining"}

\* The loop is driven by one thing at a time, within its budget, for the turn
\* the button shows, and never from a state the code has no name for.
LoopInv == TypeOK /\ LoopHasWork /\ BusyIffSending /\ RequestBudget

\* Stop ends the send even if its request or tool never returns
\* (_EventDrain._slice looks at the scope before the queue).
StopEnds == \A t \in Turns : t \in cancelled ~> Ended(t)

\* Every Send ends, and the sidebar can send again, if requests and tools return.
SendEnds == WorkersReturn => \A t \in Turns : t = sends ~> Ended(t)

-----------------------------------------------------------------------------
\* A sentence of the repository that the code does not keep.

\* "Append one cancelled tool row for each call that has none."
\* (_append_cancelled_tool_rows)
CancelledOnlyUnanswered ==
  \A i \in CallRows(messages) : \A j \in Answers(messages, i) :
    messages[j].res = "cancelled" => ~Answering(messages, Results(messages, i), messages[j].id)
=============================================================================
