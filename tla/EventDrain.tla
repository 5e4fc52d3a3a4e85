----------------------------- MODULE EventDrain -----------------------------
(***************************************************************************)
(* One streamed answer on its way from the worker to the sidebar:          *)
(* framework/stream_batch.py joins fragments for at most a quarter of a    *)
(* second, framework/async_stream.py takes them off the queue in slices,   *)
(* each a VCL callback that arms the next one.                             *)
(*                                                                         *)
(* Four threads: the producer, the batcher's timer, the re-arm's timer and *)
(* the main thread.  An action is one hold of a lock or one step of the    *)
(* main thread.  Fragments are numbered as they are put.  Delays are       *)
(* choices: an armed timer may fire at any time.  A slice's closure is     *)
(* "live" while its generation is the drain's, and "old" after that.      *)
(***************************************************************************)
EXTENDS Naturals, Sequences, FiniteSets, SequencesExt

CONSTANTS
  MaxFragments,   \* bound on the fragments produced
  MaxRounds,      \* bound on the workers that follow each other on the queue
  BatchLimit,     \* max_items of _drain_ready
  MaxImmediate,   \* _DRAIN_MAX_IMMEDIATE_REARMS
  MaxFails    \* bound on the host's and the toolkit's calls that raise

ASSUME DrainAssumption ==
  /\ {MaxFragments, MaxImmediate, MaxFails} \subseteq Nat
  /\ {MaxRounds, BatchLimit} \subseteq Nat \ {0}

Kinds == {"chunk", "thinking"}

VARIABLES
  put,        \* fragments produced
  working,    \* a worker is producing
  rounds,     \* workers started
  runs,       \* the batcher's _runs
  dropped,    \* the batcher's _dropped
  burst,      \* the batcher's timer: "armed", "fires", both or none
  raw,        \* the stream queue
  thinking,   \* current_thinking
  content,    \* current_content
  shown,      \* fragments handed to apply_chunk_fn
  pc,         \* what the main thread is doing
  batch,      \* items the slice has pulled
  more,       \* _notify saw further closures
  streak,     \* _immediate_streak
  target,     \* _idle_target, or "none"
  timer,      \* the re-arm's timer: "off" or "armed"
  firing,     \* what its thread is doing, and with which closure
  pending,    \* the re-arm's _pending
  pokes,      \* user events queued with the toolkit
  cancelled,  \* the scope is cancelled
  closed,     \* the drain and its re-arm are closed
  ended,      \* outcome.reason
  tail,       \* ghost: fragments that Stop's flush brought within reach
  stranded,   \* ghost: the re-arm's timer thread failed to poke
  fails

producer == <<put, working, rounds>>
batcher == <<runs, dropped, burst>>
display == <<thinking, content, shown>>
slice == <<pc, batch, more, streak>>
rearm == <<target, timer, firing, pending, pokes>>
vars == <<producer, batcher, raw, display, slice, rearm, cancelled, closed, ended, tail, stranded, fails>>

Idle == [at |-> "no", fn |-> "none"]

(* _generation += 1 *)
Aged(fn) == IF fn = "live" THEN "old" ELSE fn
AgedAll(fns) == [i \in DOMAIN fns |-> Aged(fns[i])]

(* _EventDrain.start arms the first slice, then starts the worker.         *)
Init ==
  /\ put = 0 /\ working = TRUE /\ rounds = 1
  /\ runs = <<>> /\ dropped = FALSE /\ burst = {} /\ raw = <<>>
  /\ thinking = <<>> /\ content = <<>> /\ shown = <<>>
  /\ pc = "vcl" /\ batch = <<>> /\ more = FALSE /\ streak = 0
  /\ target = "none" /\ timer = "off" /\ firing = Idle
  /\ pending = <<"live">> /\ pokes = 1
  /\ cancelled = FALSE /\ closed = FALSE /\ ended = "no"
  /\ tail = 0 /\ stranded = FALSE /\ fails = 0

-----------------------------------------------------------------------------
(* BatchingStreamQueue and its timer.                                      *)

(* The first fragment of a burst arms the timer.                           *)
PutText(kind) ==
  /\ working /\ put < MaxFragments
  /\ put' = put + 1
  /\ IF dropped THEN UNCHANGED batcher
     ELSE /\ IF runs # <<>> /\ Last(runs).kind = kind
               THEN runs' = [runs EXCEPT ![Len(runs)].text = Append(@, put + 1)]
               ELSE runs' = Append(runs, [kind |-> kind, text |-> <<put + 1>>])
          /\ burst' = IF runs = <<>> THEN burst \cup {"armed"} ELSE burst
          /\ UNCHANGED dropped
  /\ UNCHANGED <<working, rounds, raw, display, slice, rearm, cancelled, closed, ended, tail, stranded, fails>>

(* _emit_pending_locked: a timer that already fires is not called back.    *)
Emit(last) ==
  /\ raw' = raw \o runs \o last
  /\ runs' = <<>>
  /\ burst' = burst \ {"armed"}

DoneItem == [kind |-> "done", text |-> <<>>]

(* The worker returns: its terminal item goes behind what it had put.      *)
PutDone ==
  /\ working
  /\ working' = FALSE
  /\ IF dropped THEN UNCHANGED <<runs, burst, raw>> ELSE Emit(<<DoneItem>>)
  /\ UNCHANGED <<put, rounds, dropped, display, slice, rearm, cancelled, closed, ended, tail, stranded, fails>>

BurstExpires ==
  /\ burst = {"armed"} /\ burst' = {"fires"}
  /\ UNCHANGED <<producer, runs, dropped, raw, display, slice, rearm, cancelled, closed, ended, tail, stranded, fails>>

BurstFlush ==
  /\ "fires" \in burst
  /\ raw' = raw \o runs /\ runs' = <<>> /\ burst' = {}
  /\ UNCHANGED <<producer, dropped, display, slice, rearm, cancelled, closed, ended, tail, stranded, fails>>

-----------------------------------------------------------------------------
(* _AsyncCallbackRearm and its timer.                                      *)

MayFail == fails < MaxFails

(* DeadlineThread._run: the deadline is cleared before _fire is called.    *)
Expire ==
  /\ timer = "armed" /\ firing = Idle
  /\ timer' = "off" /\ firing' = [at |-> "fire", fn |-> "none"]
  /\ UNCHANGED <<producer, batcher, raw, display, slice, target, pending, pokes,
                 cancelled, closed, ended, tail, stranded, fails>>

TakeTargetKeeps == \* mutant: _idle_target is not cleared
  /\ firing.at = "fire"
  /\ firing' = IF target = "none" THEN Idle ELSE [at |-> "enqueue", fn |-> target]
  /\ UNCHANGED <<producer, batcher, raw, display, slice, target, timer, pending, pokes,
                 cancelled, closed, ended, tail, stranded, fails>>

(* _on_idle_fire *)
TakeTarget ==
  /\ firing.at = "fire"
  /\ firing' = IF target = "none" THEN Idle ELSE [at |-> "enqueue", fn |-> target]
  /\ target' = "none"
  /\ UNCHANGED <<producer, batcher, raw, display, slice, timer, pending, pokes,
                 cancelled, closed, ended, tail, stranded, fails>>

TimerEnqueue ==
  /\ firing.at = "enqueue"
  /\ IF closed THEN firing' = Idle /\ UNCHANGED pending
     ELSE firing' = [firing EXCEPT !.at = "poke"] /\ pending' = Append(pending, firing.fn)
  /\ UNCHANGED <<producer, batcher, raw, display, slice, target, timer, pokes,
                 cancelled, closed, ended, tail, stranded, fails>>

TakenBackNone(fns, fn) == fns \* mutant: the closure of a failed poke stays

(* The newest entry of the closure is taken back.                          *)
TakenBack(fns, fn) ==
  LET found == {i \in DOMAIN fns : fns[i] = fn} IN
  IF found = {} THEN fns ELSE RemoveAt(fns, CHOOSE i \in found : \A j \in found : j <= i)

(* An addCallback that raises takes the closure back, and only logs.       *)
TimerPoke ==
  /\ firing.at = "poke" /\ firing' = Idle
  /\ \/ pokes' = (IF closed THEN pokes ELSE pokes + 1) /\ UNCHANGED <<pending, stranded, fails>>
     \/ /\ MayFail /\ ~closed /\ fails' = fails + 1
        /\ pending' = TakenBack(pending, firing.fn)
        /\ stranded' = TRUE /\ UNCHANGED pokes
  /\ UNCHANGED <<producer, batcher, raw, display, slice, target, timer,
                 cancelled, closed, ended, tail>>

-----------------------------------------------------------------------------
(* The slice, on the main thread.                                          *)

(* The fragments of a list of items.                                       *)
TextStep(items, f, n) == IF n = 0 THEN <<>> ELSE f[n - 1] \o items[n].text
Text(items) == LET f[n \in 0 .. Len(items)] == TextStep(items, f, n) IN f[Len(items)]

(* flush_buffers: thinking first.                                          *)
Flushed == shown \o thinking \o content

\* mutant: a change of kind does not flush
BufferUnflushed(d, item) ==
  CASE item.kind = "done" -> d
    [] item.kind = "thinking" -> [d EXCEPT !.thinking = @ \o item.text]
    [] item.kind = "chunk" -> [d EXCEPT !.content = @ \o item.text]

(* _append_stream_text, for each text item in turn.                        *)
Buffer(d, item) ==
  CASE item.kind = "done" -> d
    [] item.kind = "thinking" ->
         IF d.content # <<>> THEN [shown |-> d.shown \o d.thinking \o d.content, thinking |-> item.text, content |-> <<>>]
                             ELSE [d EXCEPT !.thinking = @ \o item.text]
    [] item.kind = "chunk" ->
         IF d.thinking # <<>> THEN [shown |-> d.shown \o d.thinking \o d.content, thinking |-> <<>>, content |-> item.text]
                              ELSE [d EXCEPT !.content = @ \o item.text]

Screen == [shown |-> shown, thinking |-> thinking, content |-> content]
FoldStep(d, items, f, n) == IF n = 0 THEN d ELSE Buffer(f[n - 1], items[n])
Folded(items) ==
  LET f[n \in 0 .. Len(items)] == FoldStep(Screen, items, f, n) IN f[Len(items)]

Buffered(d) == shown' = d.shown /\ thinking' = d.thinking /\ content' = d.content

FlushAll(text) == shown' = text /\ thinking' = <<>> /\ content' = <<>>

(* The poke for what _notify left waiting; it may raise into the toolkit.  *)
PokeMore(again, n, failed) ==
  \/ pokes' = (IF again THEN n + 1 ELSE n) /\ fails' = failed
  \/ again /\ failed < MaxFails /\ pokes' = n /\ fails' = failed + 1

Least(m, n) == IF m < n THEN m ELSE n

NotifyStopWithItem == \* mutant: Stop is looked at only when an item waits
  LET n == Least(Len(raw), BatchLimit)
      fn == IF pending = <<>> \/ closed THEN "none" ELSE Head(pending)
      rest == IF fn = "none" THEN pending ELSE Tail(pending) IN
  /\ pc = "vcl" /\ pokes > 0 /\ pending' = rest
  /\ IF fn # "live"
       THEN PokeMore(fn = "old" /\ rest # <<>>, pokes - 1, fails) /\ UNCHANGED <<more, pc, batch, raw>>
       ELSE /\ pokes' = pokes - 1 /\ more' = (rest # <<>>) /\ UNCHANGED fails
            /\ IF cancelled /\ raw # <<>>
                 THEN pc' = "stop" /\ UNCHANGED <<batch, raw>>
                 ELSE pc' = "batch" /\ batch' = SubSeq(raw, 1, n) /\ raw' = SubSeq(raw, n + 1, Len(raw))
  /\ UNCHANGED <<producer, batcher, display, streak, target, timer, firing,
                 cancelled, closed, ended, tail, stranded>>

(* _notify, and the start of the slice it runs unless that is superseded.  *)
Notify ==
  LET n == Least(Len(raw), BatchLimit)
      fn == IF pending = <<>> \/ closed THEN "none" ELSE Head(pending)
      rest == IF fn = "none" THEN pending ELSE Tail(pending) IN
  /\ pc = "vcl" /\ pokes > 0 /\ pending' = rest
  /\ IF fn # "live"
       THEN PokeMore(fn = "old" /\ rest # <<>>, pokes - 1, fails) /\ UNCHANGED <<more, pc, batch, raw>>
       ELSE /\ pokes' = pokes - 1 /\ more' = (rest # <<>>) /\ UNCHANGED fails
            /\ IF cancelled
                 THEN pc' = "stop" /\ UNCHANGED <<batch, raw>>
                 ELSE pc' = "batch" /\ batch' = SubSeq(raw, 1, n) /\ raw' = SubSeq(raw, n + 1, Len(raw))
  /\ UNCHANGED <<producer, batcher, display, streak, target, timer, firing,
                 cancelled, closed, ended, tail, stranded>>

(* _process_batch, one item.                                               *)
ApplyText ==
  /\ pc = "batch" /\ batch # <<>> /\ ~cancelled /\ Head(batch).kind \in Kinds
  /\ Buffered(Buffer(Screen, Head(batch))) /\ batch' = Tail(batch)
  /\ UNCHANGED <<producer, batcher, raw, pc, more, streak, rearm, cancelled, closed, ended, tail, stranded, fails>>

(* A terminal item ends the drain, or its handler starts the next worker.  *)
ApplyDone ==
  /\ pc = "batch" /\ batch # <<>> /\ ~cancelled /\ Head(batch).kind = "done"
  /\ FlushAll(Flushed) /\ batch' = Tail(batch)
  /\ \/ pc' = "finish" /\ ended' = "done" /\ UNCHANGED <<working, rounds>>
     \/ /\ rounds < MaxRounds
        /\ rounds' = rounds + 1 /\ working' = TRUE /\ UNCHANGED <<pc, ended>>
  /\ UNCHANGED <<put, batcher, raw, more, streak, rearm, cancelled, closed, tail, stranded, fails>>

StopSeen ==
  /\ pc = "batch" /\ batch # <<>> /\ cancelled
  /\ pc' = "stop"
  /\ UNCHANGED <<producer, batcher, raw, display, batch, more, streak, rearm, cancelled, closed, ended, tail, stranded, fails>>

(* A handler raises, and on_error does not recover: what is buffered shows, *)
(* unless showing it raises as well.                                       *)
BatchFails ==
  /\ pc = "batch" /\ batch # <<>> /\ ~cancelled /\ MayFail
  /\ FlushAll(Flushed) \/ UNCHANGED display
  /\ fails' = fails + 1 /\ ended' = "error" /\ pc' = "finish"
  /\ UNCHANGED <<producer, batcher, raw, batch, more, streak, rearm, cancelled, closed, tail, stranded>>

BatchDoneKeeps == \* mutant: buffered text waits for the next batch
  /\ pc = "batch" /\ batch = <<>>
  /\ pc' = "rearm"
  /\ UNCHANGED <<producer, batcher, raw, display, batch, more, streak, rearm, cancelled, closed, ended, tail, stranded, fails>>

BatchDone ==
  /\ pc = "batch" /\ batch = <<>>
  /\ FlushAll(Flushed) /\ pc' = "rearm"
  /\ UNCHANGED <<producer, batcher, raw, batch, more, streak, rearm, cancelled, closed, ended, tail, stranded, fails>>

StopTailDropped == \* mutant: the rest of the batch is dropped
  /\ pc = "stop"
  /\ batch' = <<>>
  /\ Emit(<<>>) /\ tail' = put /\ pc' = "stoprest"
  /\ UNCHANGED <<producer, dropped, display, more, streak, rearm, cancelled, closed, ended, stranded, fails>>

StopTailUnflushed == \* mutant: the batcher is not flushed
  /\ pc = "stop"
  /\ Buffered(Folded(batch)) /\ batch' = <<>>
  /\ tail' = put /\ pc' = "stoprest"
  /\ UNCHANGED <<producer, batcher, raw, more, streak, rearm, cancelled, closed, ended, stranded, fails>>

(* _finish_on_stop: the rest of the batch, then the batcher's flush, which *)
(* may raise and is then only logged ...                                   *)
StopTail ==
  /\ pc = "stop"
  /\ Buffered(Folded(batch)) /\ batch' = <<>> /\ pc' = "stoprest"
  /\ \/ Emit(<<>>) /\ tail' = put /\ UNCHANGED fails
     \/ /\ MayFail /\ fails' = fails + 1
        /\ tail' = Len(Flushed \o Text(batch) \o Text(raw)) /\ UNCHANGED <<raw, runs, burst>>
  /\ UNCHANGED <<producer, dropped, more, streak, rearm, cancelled, closed, ended, stranded>>

(* ... and what is then on the queue.                                      *)
StopRest ==
  LET d == Folded(raw) IN
  /\ pc = "stoprest"
  /\ FlushAll(d.shown \o d.thinking \o d.content) /\ raw' = <<>>
  /\ ended' = "stopped" /\ pc' = "finish"
  /\ UNCHANGED <<producer, batcher, batch, more, streak, rearm, cancelled, closed, tail, stranded, fails>>

(* _schedule_next with a delay, and without.  Arming starts the timer's    *)
(* thread, which may raise into _fail; nothing then fires the target.      *)
ArmTimer ==
  /\ pending' = AgedAll(pending) /\ firing' = [firing EXCEPT !.fn = Aged(@)]
  /\ \/ /\ target' = "live" /\ timer' = "armed" /\ PokeMore(more, pokes, fails)
        /\ pc' = "vcl" /\ UNCHANGED ended
     \/ /\ MayFail /\ fails' = fails + 1 /\ UNCHANGED <<target, timer, pokes>>
        /\ pc' = "finish" /\ ended' = "error"

PostNow ==
  /\ target' = "none" /\ timer' = "off" /\ firing' = [firing EXCEPT !.fn = Aged(@)]
  /\ \/ /\ pending' = Append(AgedAll(pending), "live") /\ PokeMore(more, pokes + 1, fails)
        /\ pc' = "vcl" /\ UNCHANGED ended
     \/ /\ MayFail /\ pending' = AgedAll(pending) /\ fails' = fails + 1
        /\ pc' = "finish" /\ ended' = "error" /\ UNCHANGED pokes

Rearm ==
  /\ pc = "rearm" /\ more' = FALSE
  /\ \/ raw = <<>> /\ streak' = 0 /\ ArmTimer
     \/ raw # <<>> /\ streak >= MaxImmediate /\ streak' = 0 /\ ArmTimer
     \/ raw # <<>> /\ streak < MaxImmediate /\ streak' = streak + 1 /\ PostNow
  /\ UNCHANGED <<producer, batcher, raw, display, batch, cancelled, closed, tail, stranded>>

(* _finish, with the re-arm's close.                                       *)
Finish ==
  /\ pc = "finish" /\ pc' = "vcl" /\ more' = FALSE
  /\ closed' = TRUE /\ firing' = [firing EXCEPT !.fn = Aged(@)]
  /\ timer' = "off" /\ pending' = <<>> /\ target' = "none"
  /\ UNCHANGED <<producer, batcher, raw, display, batch, streak, pokes,
                 cancelled, ended, tail, stranded, fails>>

-----------------------------------------------------------------------------
(* Stop cancels the scope; the chat's Stop also discards the batcher.      *)
Stop ==
  /\ ~cancelled /\ cancelled' = TRUE
  /\ \/ UNCHANGED batcher
     \/ dropped' = TRUE /\ runs' = <<>> /\ burst' = burst \ {"armed"}
  /\ UNCHANGED <<producer, raw, display, slice, rearm, closed, ended, tail, stranded, fails>>

Worker == PutDone \/ \E k \in Kinds : PutText(k)
BurstTimer == BurstExpires \/ BurstFlush
RearmTimer == Expire \/ TakeTarget \/ TimerEnqueue \/ TimerPoke
Main == Notify \/ ApplyText \/ ApplyDone \/ StopSeen \/ BatchFails \/ BatchDone \/ StopTail \/ StopRest \/ Rearm \/ Finish

Next == Worker \/ BurstTimer \/ RearmTimer \/ Main \/ Stop

(* Timers expire and the toolkit delivers; a worker may hang for ever.     *)
Fairness == WF_vars(BurstTimer) /\ WF_vars(RearmTimer) /\ WF_vars(Main)

Spec == Init /\ [][Next]_vars /\ Fairness

-----------------------------------------------------------------------------
Closures == {"live", "old"}
Fragments == 1 .. MaxFragments
Items == [kind : Kinds, text : Seq(Fragments)] \cup {DoneItem}

(* Every variable has its type.                                            *)
TypeOK ==
  /\ put \in 0 .. MaxFragments /\ rounds \in 0 .. MaxRounds
  /\ {working, dropped, more, cancelled, closed, stranded} \subseteq BOOLEAN
  /\ {runs, raw, batch} \subseteq Seq(Items) /\ {shown, thinking, content} \subseteq Seq(Fragments)
  /\ burst \subseteq {"armed", "fires"}
  /\ pc \in {"vcl", "batch", "stop", "stoprest", "rearm", "finish"}
  /\ streak \in 0 .. MaxImmediate /\ target \in Closures \cup {"none"}
  /\ timer \in {"off", "armed"} /\ firing \in [at : {"no", "fire", "enqueue", "poke"}, fn : Closures \cup {"none"}]
  /\ pending \in Seq(Closures) /\ pokes \in 0 .. 3
  /\ ended \in {"no", "done", "stopped", "error"} /\ tail \in 0 .. put /\ fails \in 0 .. MaxFails

Everywhere == shown \o thinking \o content \o Text(batch) \o Text(raw) \o Text(runs)

(* Between the batcher, its timer, the queue and the slice no fragment is  *)
(* lost, doubled or overtaken; a discard loses only what came last.        *)
InOrder ==
  /\ Everywhere = [i \in 1 .. Len(Everywhere) |-> i]
  /\ ~dropped => Len(Everywhere) = put

(* The slice's next callback exists exactly once while the drain is open.  *)
OneCallback ==
  closed \/ stranded \/
    Cardinality({i \in DOMAIN pending : pending[i] = "live"})
      + Cardinality({x \in {"target"} : target = "live"})
      + Cardinality({x \in {"firing"} : firing.at = "enqueue" /\ firing.fn = "live"})
      + Cardinality({x \in {"slice"} : pc # "vcl"}) = 1

(* A queued slice has a user event that will run it, and a target a timer. *)
EventsFollow ==
  ~closed =>
    /\ pending # <<>> => pokes > 0 \/ firing.at = "poke" \/ more
    /\ target # "none" => timer = "armed" \/ firing.at = "fire"

(* The end of an answer shows all of it; Stop shows what its flush brought *)
(* within reach, unless the host discarded the batch: all that was put, or *)
(* what had left the batcher when the flush raises.                        *)
NothingHeldBack ==
  closed /\ ~dropped =>
    /\ ended = "stopped" => Len(shown) >= tail
    /\ ended = "done" => Len(shown) = put

(* The drain at every moment: its text in order wherever it is, one slice  *)
(* to come with an event or a timer behind it, nothing held at the end.    *)
DrainInv == TypeOK /\ InOrder /\ OneCallback /\ EventsFollow /\ NothingHeldBack

(* StreamPromise: in order, once, and nothing after the end.               *)
Promise == INSTANCE StreamPromise WITH over <- closed
KeepsPromise == Promise!Spec

(* Every fragment reaches the screen although the worker sends nothing     *)
(* more, and Stop closes the drain although the worker hangs -- with one   *)
(* exception, which both properties name: a drain whose timer thread could *)
(* not poke is stranded for good (async_stream.py:579-586 takes the        *)
(* closure back and raises into DeadlineThread, which logs).  Nothing      *)
(* tries again, so neither a new fragment nor Stop reaches it.  The code   *)
(* does not have what docs/framework/threading.md:98 says of this case,    *)
(* "Idle re-arm gives up after 8 failures and posts an unscoped abort".    *)
TextIsShown == \A n \in 1 .. MaxFragments : put >= n ~> Len(shown) >= n \/ closed \/ stranded
StopCloses == cancelled ~> closed \/ stranded
=============================================================================
