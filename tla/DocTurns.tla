------------------------------ MODULE DocTurns ------------------------------
(***************************************************************************)
(* Chat turns of several documents on the one main thread: the Send button *)
(* (chatbot/send_state.py, chatbot/panel.py), the scope a turn is stopped  *)
(* with (framework/send_cancellation.py), the pump owner                   *)
(* (framework/async_drain_guard.py), the end of a turn deferred to its     *)
(* drain (framework/async_stream.py) and the messages one document's turn  *)
(* sends to another document (doc/peer_message.py).                        *)
(*                                                                         *)
(* Every step is taken by the main thread.  todo is its stack, the next    *)
(* step first.  A speech-to-text wait ("stt") stays on the stack and pumps:*)
(* the work queue always, VCL events unless two drains are open.  A turn   *)
(* and its SendCancellation carry the same number, counted from 1; 0 is    *)
(* None.  What a stream delivers is in ToolLoop: here it is open, may call *)
(* tools, and ends.                                                        *)
(***************************************************************************)
EXTENDS Naturals, Sequences, FiniteSets, SequencesExt, SequenceFilters

CONSTANTS
  Panels,    \* documents with a sidebar
  QueueCap,  \* PEER_QUEUE_CAP
  MaxSends,  \* bound on the user's Sends
  MaxPeers,  \* bound on the peer messages that are accepted
  MaxTools,  \* bound on the tool calls marshalled to the main thread
  MaxRaises  \* bound on the starts of a peer turn that raise

ASSUME TurnsAssumption ==
  /\ IsFiniteSet(Panels) /\ QueueCap \in Nat \ {0}
  /\ MaxSends \in Nat /\ MaxPeers \in Nat /\ MaxTools \in Nat /\ MaxRaises \in Nat

MaxTurns == MaxSends + MaxPeers
Turns == 1 .. MaxTurns
Messages == 1 .. MaxPeers

VARIABLES
  todo,       \* the main thread's stack of steps
  mode,       \* SendMode of each panel
  gone,       \* panels that were disposed
  scope,      \* _send_cancellation of each panel
  turn,       \* every turn so far: its panel, its peer message, whether spoken
  open,       \* _AGENT_OPEN_SCOPES
  before,     \* token.old_value of each open session
  current,    \* _current_send_cancellation of the main thread
  cancelled,  \* scopes whose flag is set
  drains,     \* open event-driven drains
  depth,      \* _drain_depth
  captured,   \* _event_drain
  epilogues,  \* what each open drain runs when it finishes
  queue,      \* the marshal's work queue
  fifo,       \* _global_fifo
  waiting,    \* _listener_queues
  sent,       \* peer messages accepted
  started,    \* ghost: messages a turn was started for, in order
  dropped,    \* ghost: messages Stop or dispose dropped
  raised,     \* ghost: messages a start raised for
  refused,    \* ghost: panels that refused a peer turn because they record
  wronged,    \* ghost: turns whose queued work another turn's scope took away
  tools       \* tool calls so far

button == <<mode, gone, scope>>
session == <<turn, open, before, current, cancelled>>
drain == <<drains, depth, captured, epilogues>>
peer == <<fifo, waiting, sent, started, dropped, raised, refused>>
vars == <<todo, button, session, drain, queue, peer, wronged, tools>>

Step(op, s, err) == [op |-> op, turn |-> s, err |-> err, back |-> <<>>]
Unskipping(skipped) == [op |-> "unskip", turn |-> 0, err |-> FALSE, back |-> skipped]
Item(do, s) == [do |-> do, turn |-> s, bound |-> current]
Panel(s) == turn[s].panel
Live(p) == p \notin gone

Init ==
  /\ todo = <<>> /\ queue = <<>> /\ fifo = <<>>
  /\ mode = [p \in Panels |-> "idle"] /\ gone = {}
  /\ scope = [p \in Panels |-> 0] /\ turn = <<>>
  /\ open = {} /\ before = [s \in Turns |-> 0] /\ current = 0 /\ cancelled = {}
  /\ drains = {} /\ depth = 0 /\ captured = 0 /\ epilogues = [s \in Turns |-> <<>>]
  /\ waiting = [p \in Panels |-> {}] /\ sent = 0
  /\ started = <<>> /\ dropped = {} /\ raised = {} /\ refused = {}
  /\ wronged = {} /\ tools = 0

-----------------------------------------------------------------------------
(* When the main thread can turn to something new.                         *)

Top == IF todo = <<>> THEN "none" ELSE Head(todo).op
At(ops) == Top \in ops

Pumping == At({"none", "stt"})
MayPumpVcl == Pumping /\ (Top = "stt" => depth <= 1)

Then(steps) == todo' = steps \o Tail(todo)
Nest(steps) == todo' = steps \o todo

(* cancel_pending_work: the items bound to a cancelled scope go.           *)
Cancel(S) ==
  /\ cancelled' = cancelled \cup S
  /\ queue' = Without(queue, {i \in ToSet(queue) : i.bound \in S})
  /\ wronged' = wronged \cup
       ({i.turn : i \in {j \in ToSet(queue) : j.bound \in S /\ j.turn \notin S}} \ {0})

DropListener(p) ==
  /\ waiting' = [waiting EXCEPT ![p] = {}]
  /\ fifo' = Without(fifo, {e \in ToSet(fifo) : e.to = p})
  /\ dropped' = dropped \cup waiting[p]
  /\ UNCHANGED <<sent, started, raised, refused>>

NewTurn(p, message, spoken) ==
  /\ turn' = Append(turn, [panel |-> p, message |-> message, spoken |-> spoken])
  /\ scope' = [scope EXCEPT ![p] = Len(turn) + 1]
  /\ mode' = [mode EXCEPT ![p] = "busy"]
  /\ UNCHANGED gone

-----------------------------------------------------------------------------
(* Clicks.                                                                 *)

StartSend(p, spoken) ==
  /\ MayPumpVcl /\ Live(p)
  /\ Cardinality({s \in DOMAIN turn : turn[s].message = 0}) < MaxSends
  /\ NewTurn(p, 0, spoken)
  /\ queue' = Append(queue, Item("send", Len(turn) + 1))
  /\ UNCHANGED <<todo, open, before, current, cancelled, drain, peer, wronged, tools>>

ClickSend(p) == mode[p] = "idle" /\ StartSend(p, FALSE)

ClickStopRec(p) == mode[p] = "recording" /\ StartSend(p, TRUE)

SetMode(p, from, to) ==
  /\ MayPumpVcl /\ Live(p) /\ mode[p] = from
  /\ mode' = [mode EXCEPT ![p] = to]
  /\ UNCHANGED <<todo, gone, scope, session, drain, queue, peer, wronged, tools>>

ClickRecord(p) == SetMode(p, "idle", "recording")

ClickCancelRec(p) == SetMode(p, "recording", "idle")

Stops(p) == Cancel({scope[p]} \ {0}) /\ DropListener(p)

ClickStop(p) ==
  /\ MayPumpVcl /\ Live(p) /\ mode[p] = "busy"
  /\ Stops(p)
  /\ UNCHANGED <<todo, button, turn, open, before, current, drain, tools>>

Dispose(p) ==
  /\ MayPumpVcl /\ Live(p)
  /\ gone' = gone \cup {p}
  /\ Stops(p)
  /\ UNCHANGED <<todo, mode, scope, turn, open, before, current, drain, tools>>

-----------------------------------------------------------------------------
(* The marshal's work queue.                                               *)

TakeItem(do) == Pumping /\ queue # <<>> /\ Head(queue).do = do /\ queue' = Tail(queue)

DropItem ==
  /\ Pumping /\ queue # <<>> /\ Head(queue).bound \in cancelled
  /\ queue' = Tail(queue)
  /\ wronged' = wronged \cup ({Head(queue).turn} \ {0, Head(queue).bound})
  /\ UNCHANGED <<todo, button, session, drain, peer, tools>>

Bound == Head(queue).bound \notin cancelled

RunPost ==
  /\ \/ TakeItem("send") /\ Bound /\ Nest(<<Step("run", Head(queue).turn, FALSE)>>)
     \/ TakeItem("kick") /\ Bound /\ Nest(<<Step("kick", 0, FALSE)>>)
  /\ UNCHANGED <<button, session, drain, peer, wronged, tools>>

RunTool ==
  /\ TakeItem("tool") /\ Bound
  /\ UNCHANGED <<todo, button, session, drain, peer, wronged, tools>>

(* listener_is_busy *)
Busy(p) == mode[p] = "busy" \/ scope[p] # 0

PeerSend(p) ==
  /\ TakeItem("tool") /\ Bound /\ Live(p) /\ p # Panel(Head(queue).turn)
  /\ Cardinality(waiting[p]) < QueueCap /\ sent < MaxPeers
  /\ sent' = sent + 1
  /\ waiting' = [waiting EXCEPT ![p] = @ \cup {sent + 1}]
  /\ fifo' = Append(fifo, [to |-> p, message |-> sent + 1])
  /\ IF depth = 0 /\ ~Busy(p) THEN Nest(<<Step("kick", 0, FALSE)>>) ELSE UNCHANGED todo
  /\ UNCHANGED <<button, session, drain, started, dropped, raised, refused, wronged, tools>>

-----------------------------------------------------------------------------
(* One turn: _run_turn_drain, its body, and its end.                       *)

DeferNow(s, err, into) == Then(<<Step("close", s, err)>>) /\ UNCHANGED epilogues   \* mutant

(* defer_until_drain_done: the close joins the captured drain, or runs now.*)
DeferUntilDrainDone(s, err, into) ==
  LET end == Step("close", s, err) IN
  IF into = 0
    THEN Then(<<end>>) /\ UNCHANGED epilogues
    ELSE Then(<<>>) /\ epilogues' = [epilogues EXCEPT ![into] = Append(@, end)]

RunKeepsCapture(s) ==   \* mutant
  /\ At({"run"}) /\ s = Head(todo).turn
  /\ open' = open \cup {s} /\ before' = [before EXCEPT ![s] = current] /\ current' = s
  /\ scope' = [scope EXCEPT ![Panel(s)] = s]
  /\ IF s \in cancelled
       THEN DeferUntilDrainDone(s, FALSE, captured)
       ELSE Then(<<Step("body", s, FALSE)>>) /\ UNCHANGED epilogues
  /\ UNCHANGED <<captured, mode, gone, turn, cancelled, drains, depth, queue, peer, wronged, tools>>

(* clear_drain_capture, agent_session and the check for an early Stop.     *)
Run(s) ==
  /\ At({"run"}) /\ s = Head(todo).turn
  /\ captured' = 0
  /\ open' = open \cup {s} /\ before' = [before EXCEPT ![s] = current] /\ current' = s
  /\ scope' = [scope EXCEPT ![Panel(s)] = s]
  /\ IF s \in cancelled
       THEN DeferUntilDrainDone(s, FALSE, 0)
       ELSE Then(<<Step("body", s, FALSE)>>) /\ UNCHANGED epilogues
  /\ UNCHANGED <<mode, gone, turn, cancelled, drains, depth, queue, peer, wronged, tools>>

Listen(s) ==
  /\ At({"body"}) /\ s = Head(todo).turn /\ turn[s].spoken
  /\ Then(<<Step("stt", s, FALSE)>>)
  /\ UNCHANGED <<button, session, drain, queue, peer, wronged, tools>>

SttDone(s) ==
  /\ At({"stt"}) /\ s = Head(todo).turn
  /\ Then(<<Step("heard", s, FALSE)>>)
  /\ UNCHANGED <<button, session, drain, queue, peer, wronged, tools>>

(* The body returns, or raises, and has opened no drain.  A drain that was *)
(* refused or failed to arm has cleared the capture on its way.            *)
NoDrain(s) ==
  /\ At({"body", "heard"}) /\ s = Head(todo).turn
  /\ captured' \in {captured, 0}
  /\ \E err \in BOOLEAN : DeferUntilDrainDone(s, err, captured')
  /\ UNCHANGED <<button, session, drains, depth, queue, peer, wronged, tools>>

OpenDrainClears(s) ==   \* mutant
  /\ At({"body", "heard"}) /\ s = Head(todo).turn /\ s \notin cancelled
  /\ drains' = drains \cup {s} /\ depth' = depth + 1 /\ captured' = s
  /\ DeferUntilDrainDone(s, FALSE, s)
  /\ scope' = [scope EXCEPT ![Panel(s)] = 0]
  /\ UNCHANGED <<mode, gone, session, queue, peer, wronged, tools>>

(* acquire_drain_owner("stream"): the same name enters again.  The body    *)
(* may still raise behind it; its close waits for the drain all the same.  *)
OpenDrain(s) ==
  /\ At({"body", "heard"}) /\ s = Head(todo).turn /\ s \notin cancelled
  /\ drains' = drains \cup {s} /\ depth' = depth + 1 /\ captured' = s
  /\ \E err \in BOOLEAN : DeferUntilDrainDone(s, err, s)
  /\ UNCHANGED <<button, session, queue, peer, wronged, tools>>

(* The mode a panel is left in: hands-free arms the next take after a      *)
(* spoken turn that Stop did not end (a re-arm that first waits for the    *)
(* reply to be read out is ClickRecord).                                   *)
Rest(s) == {"idle"} \cup IF turn[s].spoken /\ ~Head(todo).err /\ s \notin cancelled THEN {"recording"} ELSE {}

RestoredToken(s) == IF current = s THEN before[s] ELSE current   \* mutant

(* _restore_send_cancellation *)
Restored(s) ==
  CASE current # s -> current
    [] current = s /\ before[s] \in open \ {s} -> before[s]
    [] OTHER -> 0

CloseNoKick(s) ==   \* mutant
  LET p == Panel(s) IN
  /\ At({"close"}) /\ s = Head(todo).turn
  /\ IF Head(todo).err THEN Cancel({s} \ cancelled) ELSE UNCHANGED <<cancelled, queue, wronged>>
  /\ open' = open \ {s} /\ current' = Restored(s)
  /\ IF Live(p)
       THEN /\ scope' = [scope EXCEPT ![p] = 0]
            /\ \E m \in Rest(s) : mode' = [mode EXCEPT ![p] = m]
       ELSE UNCHANGED <<scope, mode>>
  /\ Then(<<>>)
  /\ UNCHANGED <<gone, turn, before, drain, peer, tools>>

Close(s) ==
  LET p == Panel(s) IN
  /\ At({"close"}) /\ s = Head(todo).turn
  /\ IF Head(todo).err THEN Cancel({s} \ cancelled) ELSE UNCHANGED <<cancelled, queue, wronged>>
  /\ open' = open \ {s} /\ current' = Restored(s)
  /\ IF Live(p)
       THEN /\ scope' = [scope EXCEPT ![p] = 0]
            /\ \E m \in Rest(s) : mode' = [mode EXCEPT ![p] = m]
       ELSE UNCHANGED <<scope, mode>>
  /\ Then(<<Step("kick", 0, FALSE)>>)
  /\ UNCHANGED <<gone, turn, before, drain, peer, tools>>

-----------------------------------------------------------------------------
(* Open drains.                                                            *)

(* The tool's worker copies the context of the slice that starts it, and   *)
(* main.call binds its item to the scope found there.                      *)
ToolStarts(s) ==
  /\ MayPumpVcl /\ s \in drains \ cancelled /\ tools < MaxTools
  /\ \A i \in DOMAIN queue : queue[i].turn # s
  /\ queue' = Append(queue, Item("tool", s)) /\ tools' = tools + 1
  /\ UNCHANGED <<todo, button, session, drain, peer, wronged>>

(* _finish: release the owner, tell the idle callbacks, run the epilogues. *)
DrainEnds(s) ==
  /\ MayPumpVcl /\ s \in drains
  /\ s \in cancelled \/ \A i \in DOMAIN queue : queue[i].turn # s
  /\ drains' = drains \ {s} /\ depth' = depth - 1
  /\ captured' = IF captured = s THEN 0 ELSE captured
  /\ queue' = IF depth' = 0 /\ fifo # <<>> THEN Append(queue, Item("kick", 0)) ELSE queue
  /\ epilogues' = [epilogues EXCEPT ![s] = <<>>]
  /\ Nest(epilogues[s])
  /\ UNCHANGED <<button, session, peer, wronged, tools>>

-----------------------------------------------------------------------------
(* kick_pending_peer_starts                                                *)

(* start_extracted_peer_send takes the turn for this entry.                *)
Startable(i) == ~Busy(fifo[i].to) /\ mode[fifo[i].to] = "idle"

(* Entries the scan passes: busy, refused for a recording, or raised.      *)
Passed(i, R) == ~Startable(i) \/ fifo[i].message \in R

(* Every entry the scan took out goes back in front, in its old order.     *)
PutBackReversed(skipped, rest) == Reverse(skipped) \o rest   \* mutant
PutBack(skipped, rest) == skipped \o rest

KickStarts(i, R) ==
  LET e == fifo[i]
      n == Len(turn) + 1
      skipped == SubSeq(fifo, 1, i - 1) IN
  /\ At({"kick"}) /\ depth = 0
  /\ Startable(i) /\ e.message \notin R
  /\ \A j \in 1 .. i - 1 : Passed(j, R)
  /\ NewTurn(e.to, e.message, FALSE)
  /\ waiting' = [waiting EXCEPT ![e.to] = @ \ {e.message}]
  /\ fifo' = SubSeq(fifo, i + 1, Len(fifo))
  /\ started' = Append(started, e.message)
  /\ raised' = raised \cup {m \in R : \E j \in 1 .. i - 1 : fifo[j].message = m}
  /\ refused' = refused \cup {fifo[j].to : j \in {k \in 1 .. i - 1 : mode[fifo[k].to] = "recording"}}
  /\ Then(<<Step("run", n, FALSE), Unskipping(skipped)>>)
  /\ UNCHANGED <<open, before, current, cancelled, drain, queue, sent, dropped, wronged, tools>>

KickFindsNone(R) ==
  /\ At({"kick"})
  /\ depth > 0 \/ \A i \in DOMAIN fifo : Passed(i, R)
  /\ Then(<<>>)
  /\ IF depth > 0 THEN UNCHANGED <<fifo, raised, refused>>
     ELSE /\ fifo' = PutBack(fifo, <<>>)
          /\ raised' = raised \cup {m \in R : \E i \in DOMAIN fifo : fifo[i].message = m}
          /\ refused' = refused \cup {fifo[i].to : i \in {k \in DOMAIN fifo : mode[fifo[k].to] = "recording"}}
  /\ UNCHANGED <<button, session, drain, queue, waiting, sent, started, dropped, wronged, tools>>

Kick ==
  \E R \in SUBSET {fifo[i].message : i \in {j \in DOMAIN fifo : Startable(j)}} :
    /\ R = {} \/ Cardinality(raised \cup R) <= MaxRaises
    /\ KickFindsNone(R) \/ \E i \in DOMAIN fifo : KickStarts(i, R)

UnskipForgets ==   \* mutant
  /\ At({"unskip"})
  /\ fifo' = fifo
  /\ Then(<<>>)
  /\ UNCHANGED <<button, session, drain, queue, waiting, sent, started, dropped, raised, refused, wronged, tools>>

Unskip ==
  /\ At({"unskip"})
  /\ fifo' = PutBack(Head(todo).back, fifo)
  /\ Then(<<>>)
  /\ UNCHANGED <<button, session, drain, queue, waiting, sent, started, dropped, raised, refused, wronged, tools>>

-----------------------------------------------------------------------------
Clicks == \E p \in Panels : \/ ClickSend(p) \/ ClickStopRec(p) \/ ClickRecord(p)
                            \/ ClickCancelRec(p) \/ ClickStop(p) \/ Dispose(p)

Items == DropItem \/ RunPost \/ RunTool \/ \E p \in Panels : PeerSend(p)

Steps == \/ \E s \in DOMAIN turn : \/ Run(s) \/ Listen(s) \/ SttDone(s) \/ NoDrain(s)
                                   \/ OpenDrain(s) \/ Close(s)
         \/ Kick \/ Unskip

Next == Clicks \/ Items \/ Steps \/ \E s \in DOMAIN turn : ToolStarts(s) \/ DrainEnds(s)

Spec == Init /\ [][Next]_vars

-----------------------------------------------------------------------------
Steps0 == {"run", "body", "stt", "heard", "close", "kick", "unskip"}
StepSet == [op : Steps0, turn : 0 .. MaxTurns, err : BOOLEAN,
            back : Seq([to : Panels, message : Messages])]

(* Every variable has its type.                                            *)
TypeOK ==
  /\ \A i \in DOMAIN todo : todo[i] \in StepSet
  /\ mode \in [Panels -> {"idle", "recording", "busy"}] /\ gone \subseteq Panels
  /\ scope \in [Panels -> 0 .. MaxTurns]
  /\ Len(turn) <= MaxTurns
  /\ \A s \in DOMAIN turn : turn[s] \in [panel : Panels, message : 0 .. MaxPeers, spoken : BOOLEAN]
  /\ open \cup cancelled \cup drains \subseteq DOMAIN turn
  /\ before \in [Turns -> 0 .. MaxTurns] /\ current \in 0 .. MaxTurns
  /\ depth \in 0 .. MaxTurns /\ captured \in 0 .. MaxTurns
  /\ \A s \in Turns : \A i \in DOMAIN epilogues[s] : epilogues[s][i] \in StepSet
  /\ \A i \in DOMAIN queue :
       queue[i] \in [do : {"send", "kick", "tool"}, turn : 0 .. MaxTurns, bound : 0 .. MaxTurns]
  /\ \A i \in DOMAIN fifo : fifo[i] \in [to : Panels, message : Messages]
  /\ waiting \in [Panels -> SUBSET Messages] /\ sent \in 0 .. MaxPeers
  /\ started \in Seq(Messages) /\ dropped \cup raised \subseteq Messages
  /\ refused \subseteq Panels /\ wronged \subseteq DOMAIN turn /\ tools \in 0 .. MaxTools

(* The places from which a turn will still be closed: its queued post, the *)
(* stack, an open drain.                                                   *)
Ends(s) == {<<"queue", i>> : i \in {j \in DOMAIN queue : queue[j].do = "send" /\ queue[j].turn = s}}
      \cup {<<"stack", i>> : i \in {j \in DOMAIN todo : todo[j].turn = s}}
      \cup UNION {{<<d, i>> : i \in {j \in DOMAIN epilogues[d] : epilogues[d][j].turn = s}} : d \in drains}

Unfinished == {s \in DOMAIN turn : Ends(s) # {}}

(* A turn is closed exactly once: an open session has one close to come,   *)
(* and a turn with an open drain is closed by that drain and not before    *)
(* (_run_turn_drain, defer_until_drain_done, _EventDrain._finish).         *)
EndsOnce ==
  /\ \A s \in DOMAIN turn : Cardinality(Ends(s)) <= 1
  /\ open \subseteq Unfinished
  /\ \A s \in drains : \E i \in DOMAIN epilogues[s] : epilogues[s][i].turn = s
  /\ depth = Cardinality(drains) /\ captured \in drains \cup {0}

(* While a panel's turn is under way its button is busy and Stop has that  *)
(* turn's scope; a panel that is not busy holds no scope; a busy one has a *)
(* turn whose end is still to come, unless another turn took its post.     *)
StopReaches ==
  /\ \A s \in Unfinished : scope[Panel(s)] = s /\ (Live(Panel(s)) => mode[Panel(s)] = "busy")
  /\ \A p \in Panels \ gone :
       IF mode[p] = "busy" THEN scope[p] \in Unfinished \cup wronged ELSE scope[p] = 0

(* A turn is closed at once or by its own drain -- but for one that pumped *)
(* while it waited for its speech: a send of another document, nested in   *)
(* that wait, leaves its drain captured, and a body that then opens none   *)
(* hands its close to it.  panel.py:1081 says of exactly this that "this   *)
(* send must not defer its completion onto it", and the docstring of       *)
(* clear_drain_capture (async_stream.py:469) that a deferral "can only     *)
(* attach to a drain started in the same synchronous call": the capture is *)
(* cleared before the body, and the body is not synchronous.               *)
ClosesAtHome ==
  \A d \in drains : \A i \in DOMAIN epilogues[d] :
    LET s == epilogues[d][i].turn IN s = d \/ turn[s].spoken

(* Every turn that was started has one end to come, in its own drain but   *)
(* for the exception of ClosesAtHome, and Stop has its scope until then,   *)
(* however the turns of the documents are nested.                          *)
TurnInv == TypeOK /\ EndsOnce /\ ClosesAtHome /\ StopReaches

(* Main-thread work is never bound to the scope of a turn that is over:    *)
(* _restore_send_cancellation does not bring a finished scope back.        *)
CurrentIsOpen == current \in open \cup {0}

Skipped == UNION {{todo[i].back[j] : j \in DOMAIN todo[i].back} : i \in DOMAIN todo}
Queued == {fifo[i] : i \in DOMAIN fifo} \cup Skipped

(* The global order and the per-listener queues hold the same messages,    *)
(* and each accepted message is waiting, was started once, or was dropped  *)
(* by its own panel's Stop.                                                *)
PeersOnce ==
  /\ Queued = UNION {{[to |-> p, message |-> m] : m \in waiting[p]} : p \in Panels}
  /\ Len(fifo) + Cardinality(Skipped) = Cardinality(Queued)
  /\ LET W == {e.message : e \in Queued}  S == ToSet(started) IN
     /\ W \cup S \cup dropped = 1 .. sent
     /\ W \cap S = {} /\ (W \cup S) \cap dropped = {} /\ Cardinality(S) = Len(started)

(* A panel gets its messages in the order they were accepted, whatever     *)
(* turns were skipped in between; only a start that raised loses its place.*)
PeersInOrder ==
  \A i, j \in DOMAIN started :
    LET to(m) == (CHOOSE s \in DOMAIN turn : turn[s].message = m) IN
    i < j /\ turn[to(started[i])].panel = turn[to(started[j])].panel
      /\ {started[i], started[j]} \cap raised = {} => started[i] < started[j]

(* Peer messages are delivered once and in order (PeerTurnQueue).          *)
PeersInv == PeersOnce /\ PeersInOrder

(* No message is forgotten: when the main thread has nothing left to do, a *)
(* waiting message's panel is recording, refused or failed it, or has lost *)
(* its own turn.                                                           *)
PeersNotForgotten ==
  todo = <<>> /\ queue = <<>> /\ drains = {} =>
    \A e \in Queued : \/ e.to \in refused \/ e.message \in raised
                      \/ scope[e.to] \in wronged

(* cancel_pending_work: "A scope cancels only items enqueued under that    *)
(* send".  Stop in one document takes nothing another document queued.     *)
StopStaysHome == wronged = {}

=============================================================================
