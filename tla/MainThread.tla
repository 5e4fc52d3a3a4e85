----------------------------- MODULE MainThread -----------------------------
(***************************************************************************)
(* The marshal onto the LibreOffice main thread                            *)
(* (plugin/framework/queue_executor.py, class MainThread).                 *)
(*                                                                         *)
(* Background threads hand callables ("jobs") to the main thread with      *)
(* call() (blocking) and post() (fire and forget).  A job waits in         *)
(* _pending_posts while AsyncCallback does not exist, in a flusher's local *)
(* list while it is moved, in _work_queue until process_queue takes it,    *)
(* and on the main thread's stack while it runs.  Stop cancels the jobs of *)
(* one send (a scope) at the same time.                                    *)
(*                                                                         *)
(* One action is one critical section or one unlocked read of the code.    *)
(* _claim_lock and _pending_lock are held for one action at a time;        *)
(* _order_lock is held across a whole flush and is the variable `order`.   *)
(***************************************************************************)
EXTENDS Naturals, Sequences, FiniteSets, SequenceFilters

CONSTANTS
  Threads,       \* background threads that marshal
  Boot,          \* the bootstrap code that calls set_context
  NoOne,         \* "nobody holds _order_lock"
  Jobs,          \* the callables; each is handed over once
  Calls,         \* the jobs handed over by call(); the others by post()
  Program,       \* the jobs each thread hands over, in its own order
  Scopes,        \* SendCancellation objects
  NoScope,       \* bound_scope = None
  ScopeOf,       \* the scope each job is enqueued under
  Contexts,      \* component contexts given to set_context
  NoCtx,         \* no context yet
  BootProgram,   \* the contexts set_context is called with, in order
  Cap,           \* _PENDING_POST_CAP
  MaxNesting,    \* bound on nested process_queue calls on the main thread
  EvalHarness,   \* Policy.eval_harness: AsyncCallback is never created
  FlakyToolkit,  \* creating AsyncCallback or addCallback may raise
  FlushMayFail,  \* _enqueue_work may raise inside a flush
  DrainPumps     \* drain loops also call process_queue (pump_ui_idle)

Posts == Jobs \ Calls
Actors == Threads \cup {Boot}

ASSUME JobsAssumption ==
  /\ Calls \subseteq Jobs
  /\ Program \in [Threads -> Seq(Jobs)]
  /\ \A t, u \in Threads : \A i \in DOMAIN Program[t], k \in DOMAIN Program[u] :
        Program[t][i] = Program[u][k] => t = u /\ i = k
  /\ ScopeOf \in [Jobs -> Scopes \cup {NoScope}]
  /\ NoScope \notin Scopes
ASSUME ActorAssumption ==
  /\ Boot \notin Threads /\ NoOne \notin Actors
  /\ BootProgram \in Seq(Contexts) /\ NoCtx \notin Contexts
ASSUME BoundAssumption ==
  /\ Cap \in Nat \ {0} /\ MaxNesting \in Nat \ {0}
  /\ {EvalHarness, FlakyToolkit, FlushMayFail, DrainPumps} \subseteq BOOLEAN

VARIABLES
  pc,        \* where each actor is inside call, post or set_context
  idx,       \* the position of each actor in its program
  ctx,       \* _ctx
  service,   \* "unset", "ready" (_async_callback_service), "disabled" (harness)
  pending,   \* _pending_posts
  batch,     \* the flusher's local list
  moved,     \* the flush has enqueued at least one job
  order,     \* the holder of _order_lock
  queue,     \* _work_queue
  pokes,     \* AsyncCallback notifications not yet delivered
  stack,     \* the items process_queue is working on, innermost first
  status,    \* the fields of each job's _WorkItem (see Status)
  ret,       \* what the caller of each job got back
  bound,     \* scopes with this executor in _executors
  cancelled, \* scopes whose flag is set
  cpc,       \* where SendCancellation.cancel() is, for each scope
  doomed     \* history: jobs not past the last cancel check when Stop came

vars == <<pc, idx, ctx, service, pending, batch, moved, order, queue, pokes,
          stack, status, ret, bound, cancelled, cpc, doomed>>
tvars == <<pc, idx, ret>>
qvars == <<pending, batch, moved, order, queue>>
cvars == <<bound, cancelled, cpc, doomed>>

\* The life of a job.  "queued" is a _WorkItem that is neither claimed nor
\* cancelled, "expired" one its waiter has cancelled, "claimed" one taken by
\* process_queue, "cleared" one past the second cancel check, "done" one whose
\* event is set after fn, "abandoned" one whose event is set with
\* SendCancelled, "dropped" a pending post removed by Stop.
Status == {"new", "pending", "flushing", "queued", "expired", "claimed",
           "cleared", "running", "done", "abandoned", "dropped", "refused"}
Claimed == {"claimed", "cleared", "running", "done"}
Finished == {"done", "abandoned"}
Started == {"running", "done"}
Outcomes == {"none", "result", "SendCancelled", "TimeoutError", "RuntimeError"}

Job(t) == Program[t][idx[t]]
IsCancelled(j) == ScopeOf[j] \in cancelled

Init ==
  /\ pc = [a \in Actors |-> "idle"]
  /\ idx = [a \in Actors |-> 1]
  /\ ctx = NoCtx /\ service = "unset"
  /\ pending = <<>> /\ batch = <<>> /\ moved = FALSE /\ order = NoOne
  /\ queue = <<>> /\ pokes = 0 /\ stack = <<>>
  /\ status = [j \in Jobs |-> "new"]
  /\ ret = [j \in Jobs |-> "none"]
  /\ bound = {} /\ cancelled = {} /\ doomed = {}
  /\ cpc = [s \in Scopes |-> "idle"]

-----------------------------------------------------------------------------
\* The helpers below are parts of actions.

\* _get_async_callback() returned the service, creating it if it had to.
CallbackReady ==
  /\ \/ service = "ready"
     \/ service = "unset" /\ ctx # NoCtx /\ ~EvalHarness
  /\ service' = "ready"

\* _get_async_callback() returned None.
CallbackMissing ==
  \/ service = "disabled" /\ UNCHANGED service
  \/ service = "unset" /\ EvalHarness /\ service' = "disabled"
  \/ /\ service = "unset" /\ ~EvalHarness
     /\ ctx = NoCtx \/ FlakyToolkit
     /\ UNCHANGED service

\* _poke_main_thread(): skipped without a service, logged if it raises.
Poke ==
  \/ service = "ready" /\ pokes' = pokes + 1
  \/ (service # "ready" \/ FlakyToolkit) /\ UNCHANGED pokes

Goto(a, l) == pc' = [pc EXCEPT ![a] = l]

\* call or post of t's current job returns with outcome r.
Return(t, r) ==
  /\ ret' = [ret EXCEPT ![Job(t)] = r]
  /\ idx' = [idx EXCEPT ![t] = @ + 1]
  /\ Goto(t, "idle")

SetStatus(j, s) == status' = [status EXCEPT ![j] = s]

\* A flush, the put of _enqueue_work and the drain of cancel_pending_work wait
\* for a flush in progress.
OrderIgnored == TRUE
OrderFree == order = NoOne

\* SendCancellation.bind_executor, when the job has a scope.
Bind(j) == bound' = bound \cup ({ScopeOf[j]} \ {NoScope})

\* What Stop leaves in a list: the jobs of other scopes, in their order.
Survivors(q, s) == Without(q, {j \in Jobs : ScopeOf[j] = s})

-----------------------------------------------------------------------------
\* call() and post() on a background thread.

\* The reads that decide where the job goes.  The answer is used later, so
\* the service may have appeared or gone by then.
CheckCallback(t) ==
  /\ pc[t] = "idle" /\ idx[t] <= Len(Program[t])
  /\ \/ /\ CallbackReady
        /\ Goto(t, "flush")
        /\ UNCHANGED <<idx, ret, status>>
     \/ /\ CallbackMissing
        /\ Job(t) \in Posts
        /\ Goto(t, "slot")
        /\ UNCHANGED <<idx, ret, status>>
     \/ /\ CallbackMissing
        /\ Job(t) \in Calls
        /\ SetStatus(Job(t), "refused")
        /\ Return(t, "RuntimeError")
  /\ UNCHANGED <<ctx, qvars, pokes, stack, cvars>>

\* A post without a callback is stored while the list has room ...
StorePending(t) ==
  /\ pc[t] = "slot" /\ Len(pending) < Cap
  /\ pending' = Append(pending, Job(t))
  /\ SetStatus(Job(t), "pending")
  /\ Return(t, "none")
  /\ UNCHANGED <<ctx, service, batch, moved, order, queue, pokes, stack, cvars>>

WaitForever(t) == FALSE /\ UNCHANGED vars

\* ... and refused with TimeoutError when it stays full (at once when the
\* callback is known missing, after _PENDING_POST_WAIT_SEC otherwise).
SlotTimeout(t) ==
  /\ pc[t] = "slot" /\ Len(pending) >= Cap
  /\ SetStatus(Job(t), "refused")
  /\ Return(t, "TimeoutError")
  /\ UNCHANGED <<ctx, service, qvars, pokes, stack, cvars>>

\* _enqueue_work: bind the scope, put under both locks, poke after them.
EnqueueBind(t) ==
  /\ pc[t] = "enqueue"
  /\ Bind(Job(t))
  /\ Goto(t, "put")
  /\ UNCHANGED <<idx, ctx, service, qvars, pokes, stack, status, ret, cancelled, cpc, doomed>>

EnqueuePut(t) ==
  /\ pc[t] = "put" /\ OrderFree
  /\ queue' = Append(queue, Job(t))
  /\ SetStatus(Job(t), "queued")
  /\ Goto(t, "poke")
  /\ UNCHANGED <<idx, ctx, service, pending, batch, moved, order, pokes, stack, ret, cvars>>

EnqueuePoke(t) ==
  /\ pc[t] = "poke"
  /\ Poke
  /\ IF Job(t) \in Calls
     THEN Goto(t, "wait") /\ UNCHANGED <<idx, ret>>
     ELSE Return(t, "none")
  /\ UNCHANGED <<ctx, service, qvars, stack, status, cvars>>

\* _wait_for_result: the event was set, in time or after the claim was seen.
Wakeup(t) ==
  /\ pc[t] \in {"wait", "inflight"} /\ status[Job(t)] \in Finished
  /\ Return(t, IF status[Job(t)] = "done" THEN "result" ELSE "SendCancelled")
  /\ UNCHANGED <<ctx, service, qvars, pokes, stack, status, cvars>>

\* item.event.wait(timeout) returned False.
WaitExpires(t) ==
  /\ pc[t] = "wait" /\ status[Job(t)] \notin Finished
  /\ Goto(t, "expired")
  /\ UNCHANGED <<idx, ctx, service, qvars, pokes, stack, status, ret, cvars>>

\* The decision under _claim_lock: finished, give up, or someone claimed it.
\* The first leads back to the read of the result.
GiveUpOrWait(t) ==
  /\ pc[t] = "expired"
  /\ \/ /\ status[Job(t)] \in Finished
        /\ Goto(t, "inflight")
        /\ UNCHANGED <<idx, ret, status>>
     \/ /\ status[Job(t)] = "queued"
        /\ SetStatus(Job(t), "expired")
        /\ Return(t, "TimeoutError")
     \/ /\ status[Job(t)] \in Claimed \ Finished
        /\ Goto(t, "sawClaim")
        /\ UNCHANGED <<idx, ret, status>>
  /\ UNCHANGED <<ctx, service, qvars, pokes, stack, cvars>>

\* item._claimed is read again without the lock: the second cancel check of
\* process_queue may have taken the claim back.
RereadClaim(t) ==
  /\ pc[t] = "sawClaim"
  /\ IF status[Job(t)] \in Claimed
     THEN Goto(t, "inflight") /\ UNCHANGED <<idx, ret>>
     ELSE Return(t, "TimeoutError")
  /\ UNCHANGED <<ctx, service, qvars, pokes, stack, status, cvars>>

-----------------------------------------------------------------------------
\* _flush_pending_posts, by a thread inside call or post or by set_context.

AfterFlush(a) == IF a = Boot THEN "idle" ELSE "enqueue"

\* The swap of _pending_posts, under _pending_lock.
SwapForgotten == UNCHANGED pending
SwapPending == pending' = <<>>

FlushBegin(a) ==
  /\ pc[a] = "flush" /\ OrderFree
  /\ IF service = "ready" /\ pending # <<>>
     THEN /\ order' = a /\ batch' = pending /\ SwapPending /\ moved' = FALSE
          /\ status' = [j \in Jobs |-> IF status[j] = "pending" THEN "flushing"
                                       ELSE status[j]]
          /\ Goto(a, "flushing")
     ELSE /\ Goto(a, AfterFlush(a))
          /\ UNCHANGED <<order, batch, pending, moved, status>>
  /\ UNCHANGED <<idx, ctx, service, queue, pokes, stack, ret, cvars>>

FlushPut(a) ==
  /\ pc[a] = "flushing" /\ batch # <<>>
  /\ queue' = Append(queue, Head(batch))
  /\ batch' = Tail(batch) /\ moved' = TRUE
  /\ Bind(Head(batch))
  /\ SetStatus(Head(batch), "queued")
  /\ UNCHANGED <<pc, idx, ctx, service, pending, order, pokes, stack, ret,
                 cancelled, cpc, doomed>>

\* The failed job and the tail go back in front of later posts.
FlushFail(a) ==
  /\ pc[a] = "flushing" /\ batch # <<>> /\ FlushMayFail
  /\ pending' = batch \o pending /\ batch' = <<>>
  /\ status' = [j \in Jobs |-> IF status[j] = "flushing" THEN "pending" ELSE status[j]]
  /\ UNCHANGED <<pc, idx, ctx, service, moved, order, queue, pokes, stack, ret, cvars>>

\* The lock is released, then one poke stands for the whole batch.
FlushEnd(a) ==
  /\ pc[a] = "flushing" /\ batch = <<>>
  /\ order' = NoOne
  /\ Goto(a, IF moved THEN "flushPoke" ELSE AfterFlush(a))
  /\ UNCHANGED <<idx, ctx, service, pending, batch, moved, queue, pokes, stack,
                 status, ret, cvars>>

FlushPoke(a) ==
  /\ pc[a] = "flushPoke"
  /\ Poke
  /\ Goto(a, AfterFlush(a))
  /\ UNCHANGED <<idx, ctx, service, qvars, stack, status, ret, cvars>>

-----------------------------------------------------------------------------
\* set_context, on the main thread.

\* A different context object forgets the callback of the old one.
SetContext ==
  /\ pc[Boot] = "idle" /\ idx[Boot] <= Len(BootProgram) /\ stack = <<>>
  /\ ctx' = BootProgram[idx[Boot]]
  /\ service' = IF ctx' # ctx THEN "unset" ELSE service
  /\ idx' = [idx EXCEPT ![Boot] = @ + 1]
  /\ Goto(Boot, "wakePending")
  /\ UNCHANGED <<qvars, pokes, stack, status, ret, cvars>>

\* Waiting posts need the callback now; otherwise it is created lazily.
WakePending ==
  /\ pc[Boot] = "wakePending"
  /\ IF pending # <<>> THEN CallbackReady \/ CallbackMissing ELSE UNCHANGED service
  /\ Goto(Boot, "flush")
  /\ UNCHANGED <<idx, ctx, qvars, pokes, stack, status, ret, cvars>>

-----------------------------------------------------------------------------
\* process_queue, on the main thread.  A running fn may pump events, so a
\* nested call works on a later item first.

MainMayEnter ==
  /\ pc[Boot] = "idle"
  /\ Len(stack) < MaxNesting
  /\ stack # <<>> => status[Head(stack)] = "running"

\* The two cancel checks: the first sees the timeout of the waiter and Stop,
\* the second sees a Stop that came after the claim.
FirstCheckWithoutTimeout(j) == IF IsCancelled(j) THEN "abandoned" ELSE "claimed"
FirstCheck(j) ==
  IF status[j] = "expired" \/ IsCancelled(j) THEN "abandoned" ELSE "claimed"

SecondCheckMissing(j) == "cleared"
SecondCheck(j) == IF IsCancelled(j) THEN "abandoned" ELSE "cleared"

\* Dequeue and first cancel check, in one hold of _claim_lock.
TakeItem ==
  IF queue = <<>>
  THEN UNCHANGED <<queue, stack, status>>
  ELSE LET j == Head(queue) IN
       /\ queue' = Tail(queue)
       /\ stack' = <<j>> \o stack
       /\ SetStatus(j, FirstCheck(j))

Notified == pokes > 0

\* The notification of one poke.
Notify ==
  /\ MainMayEnter /\ Notified
  /\ pokes' = pokes - 1
  /\ TakeItem
  /\ UNCHANGED <<tvars, ctx, service, pending, batch, moved, order, cvars>>

\* pump_main_thread_work_queue from a drain or idle loop.
PumpQueue ==
  /\ MainMayEnter /\ DrainPumps
  /\ queue # <<>>
  /\ TakeItem
  /\ UNCHANGED <<tvars, ctx, service, pending, batch, moved, order, pokes, cvars>>

\* The second cancel check takes the claim back.
RecheckCancel ==
  /\ stack # <<>> /\ status[Head(stack)] = "claimed"
  /\ SetStatus(Head(stack), SecondCheck(Head(stack)))
  /\ UNCHANGED <<tvars, ctx, service, qvars, pokes, stack, cvars>>

StartFn ==
  /\ stack # <<>> /\ status[Head(stack)] = "cleared"
  /\ SetStatus(Head(stack), "running")
  /\ UNCHANGED <<tvars, ctx, service, qvars, pokes, stack, cvars>>

\* fn returned or raised; the finally clause sets the event either way.
FinishFn ==
  /\ stack # <<>> /\ status[Head(stack)] = "running"
  /\ SetStatus(Head(stack), "done")
  /\ UNCHANGED <<tvars, ctx, service, qvars, pokes, stack, cvars>>

NoSecondPoke == UNCHANGED pokes
PokeIfMore == IF queue # <<>> THEN Poke ELSE UNCHANGED pokes

\* process_queue ends: poke again when more items wait.
Repoke ==
  /\ stack # <<>> /\ status[Head(stack)] \in Finished
  /\ stack' = Tail(stack)
  /\ PokeIfMore
  /\ UNCHANGED <<tvars, ctx, service, qvars, status, cvars>>

-----------------------------------------------------------------------------
\* Stop: SendCancellation.cancel() and MainThread.cancel_pending_work(scope).

\* agent_session binds the main executor when the send starts.
SessionBind(s) ==
  /\ s \notin bound /\ cpc[s] = "idle"
  /\ bound' = bound \cup {s}
  /\ UNCHANGED <<tvars, ctx, service, qvars, pokes, stack, status, cancelled, cpc, doomed>>

\* Set the flag and copy the executors, in one hold of the scope's lock.
CancelFlag(s) ==
  /\ cpc[s] = "idle"
  /\ cancelled' = cancelled \cup {s}
  /\ doomed' = doomed \cup {j \in Jobs : ScopeOf[j] = s /\
                  status[j] \in {"new", "pending", "flushing", "queued", "claimed"}}
  /\ cpc' = [cpc EXCEPT ![s] = IF s \in bound THEN "drain" ELSE "over"]
  /\ UNCHANGED <<tvars, ctx, service, qvars, pokes, stack, status, bound>>

\* Drain, abandon the scope's items and put the survivors back, under both
\* locks.
CancelDrain(s) ==
  /\ cpc[s] = "drain" /\ OrderFree
  /\ queue' = Survivors(queue, s)
  /\ status' = [j \in Jobs |->
        IF status[j] \in {"queued", "expired"} /\ ScopeOf[j] = s THEN "abandoned"
        ELSE status[j]]
  /\ cpc' = [cpc EXCEPT ![s] = IF queue' # <<>> THEN "poke" ELSE "clear"]
  /\ UNCHANGED <<tvars, ctx, service, pending, batch, moved, order, pokes, stack,
                 bound, cancelled, doomed>>

CancelPoke(s) ==
  /\ cpc[s] = "poke"
  /\ Poke
  /\ cpc' = [cpc EXCEPT ![s] = "clear"]
  /\ UNCHANGED <<tvars, ctx, service, qvars, stack, status, bound, cancelled, doomed>>

CancelPending(s) ==
  /\ cpc[s] = "clear"
  /\ pending' = Survivors(pending, s)
  /\ status' = [j \in Jobs |->
        IF status[j] = "pending" /\ ScopeOf[j] = s THEN "dropped" ELSE status[j]]
  /\ cpc' = [cpc EXCEPT ![s] = "over"]
  /\ UNCHANGED <<tvars, ctx, service, batch, moved, order, queue, pokes, stack,
                 bound, cancelled, doomed>>

-----------------------------------------------------------------------------
CallerStep(t) ==
  \/ StorePending(t) \/ SlotTimeout(t)
  \/ EnqueueBind(t) \/ EnqueuePut(t) \/ EnqueuePoke(t)
  \/ Wakeup(t) \/ GiveUpOrWait(t) \/ RereadClaim(t)

FlushStep(a) ==
  \/ FlushBegin(a) \/ FlushPut(a) \/ FlushFail(a) \/ FlushEnd(a) \/ FlushPoke(a)

ProcessStep == RecheckCancel \/ StartFn \/ FinishFn \/ Repoke

CancelStep(s) == CancelDrain(s) \/ CancelPoke(s) \/ CancelPending(s)

Next ==
  \/ \E t \in Threads : CheckCallback(t) \/ CallerStep(t) \/ WaitExpires(t)
  \/ \E a \in Actors : FlushStep(a)
  \/ SetContext \/ WakePending
  \/ Notify \/ PumpQueue \/ ProcessStep
  \/ \E s \in Scopes : SessionBind(s) \/ CancelFlag(s) \/ CancelStep(s)

\* A thread inside call or post runs on, which includes that its bounded wait for
\* a slot of the pending list comes to an end (SlotTimeout); the VCL loop delivers
\* notifications and lets process_queue end, and a started Stop ends.  Nobody has
\* to make another call, the wait for an answer need not expire (WaitExpires) and
\* no drain loop has to pump.
Fairness ==
  /\ \A t \in Threads : WF_vars(CallerStep(t))
  /\ \A a \in Actors : WF_vars(FlushStep(a))
  /\ WF_vars(SetContext) /\ WF_vars(WakePending)
  /\ WF_vars(Notify) /\ WF_vars(ProcessStep)
  /\ \A s \in Scopes : WF_vars(CancelStep(s))

Spec == Init /\ [][Next]_vars
FairSpec == Spec /\ Fairness

-----------------------------------------------------------------------------
\* The contract of the marshal: where a job waits is not visible outside.
LifeOf(s) ==
  CASE s = "new" -> "new"
    [] s \in {"pending", "flushing", "queued", "claimed", "cleared"} -> "waiting"
    [] s = "running" -> "running"
    [] s = "done" -> "ran"
    [] OTHER -> "dead"
Contract == INSTANCE MarshalContract WITH
  life <- [j \in Jobs |-> LifeOf(status[j])],
  answer <- ret,
  stopped <- cancelled,
  barred <- doomed
ContractSpec == Contract!Spec

TypeOK ==
  /\ pc \in [Actors -> {"idle", "slot", "flush", "flushing", "flushPoke", "enqueue",
                        "put", "poke", "wait", "expired", "sawClaim", "inflight",
                        "wakePending"}]
  /\ idx \in [Actors -> Nat \ {0}]
  /\ ctx \in Contexts \cup {NoCtx}
  /\ service \in {"unset", "ready", "disabled"}
  /\ pending \in Seq(Jobs) /\ batch \in Seq(Jobs) /\ queue \in Seq(Jobs)
  /\ stack \in Seq(Jobs)
  /\ moved \in BOOLEAN /\ order \in Actors \cup {NoOne} /\ pokes \in Nat
  /\ status \in [Jobs -> Status]
  /\ ret \in [Jobs -> Outcomes]
  /\ bound \subseteq Scopes /\ cancelled \subseteq Scopes /\ doomed \subseteq Jobs
  /\ cpc \in [Scopes -> {"idle", "drain", "poke", "clear", "over"}]

\* What a caller is told is what happened: a result means fn ran to its end,
\* any error means fn never starts, in this state or a later one, however the
\* timeout, the claim and Stop interleave (a retry after TimeoutError would
\* otherwise apply a document change twice).
OutcomeIsTrue ==
  \A j \in Jobs :
    /\ ret[j] = "result" => status[j] = "done"
    /\ ret[j] \in {"TimeoutError", "SendCancelled", "RuntimeError"}
          => status[j] \notin Started \cup {"claimed", "cleared"}

\* A job sits in one place, once: no flush, put-back, drain or nested
\* process_queue makes a second copy that would run again.
HeldOnce ==
  LET places == pending \o batch \o queue \o stack IN
  \A i, k \in DOMAIN places : places[i] = places[k] => i = k

\* Work of a stopped send that had not passed the last cancel check when
\* Stop came never starts, whether it was waiting in the pending list, in a
\* flush, in the queue or already claimed, or is handed over later.
DoomedNeverStarts == \A j \in doomed : status[j] \notin Started

\* No lost wakeup: while items wait in the queue a notification is on its
\* way, or somebody who will poke has not done so yet.
NoLostWakeup ==
  queue # <<>> =>
    \/ pokes > 0
    \/ stack # <<>>
    \/ \E a \in Actors : pc[a] \in {"poke", "flushPoke"} \/ (pc[a] = "flushing" /\ moved)
    \/ \E s \in Scopes : cpc[s] = "poke"

\* A thread's jobs start in the order it handed them over, also across the
\* switch from the pending list to the queue and across other threads' Stops.
FifoPerThread ==
  \A t \in Threads : \A i, k \in DOMAIN Program[t] :
    /\ i < k
    /\ status[Program[t][k]] \in Started \cup {"claimed", "cleared"}
    => status[Program[t][i]] \notin {"new", "pending", "flushing", "queued"}

\* Every call and post returns to its thread: no timeout of a call has to
\* expire for it, and with no callback at all nothing waits for one.
CallsReturn ==
  \A t \in Threads : \A i \in DOMAIN Program[t] :
    (pc[t] # "idle" /\ idx[t] = i) ~> (idx[t] > i)

-----------------------------------------------------------------------------
\* The inductive invariant behind the safety properties (MainThreadProofs).

Distinct(q) == \A i, k \in 1..Len(q) : q[i] = q[k] => i = k
HeldAs(q, S) == \A i \in 1..Len(q) : status[q[i]] \in S

\* Where a thread is before its job is handed over, and while it waits.
Before == {"idle", "slot", "flush", "flushing", "flushPoke", "enqueue", "put"}

\* A thread that is busy has a job; what it has not handed over is untouched.
ProgramInv ==
  /\ \A t \in Threads : pc[t] # "idle" => idx[t] <= Len(Program[t])
  /\ pc[Boot] \in {"idle", "wakePending", "flush", "flushing", "flushPoke"}
  /\ \A t \in Threads : \A i \in 1..Len(Program[t]) :
       /\ i >= idx[t] => ret[Program[t][i]] = "none"
       /\ i > idx[t] \/ (i = idx[t] /\ pc[t] \in Before) => status[Program[t][i]] = "new"

\* One flusher at a time, and it holds _order_lock.
FlushInv ==
  /\ \A a \in Actors : pc[a] = "flushing" <=> order = a
  /\ order = NoOne => batch = <<>>

\* The status of a job tells where it is.
PlaceInv ==
  /\ Distinct(pending) /\ HeldAs(pending, {"pending"})
  /\ Distinct(batch) /\ HeldAs(batch, {"flushing"})
  /\ Distinct(queue) /\ HeldAs(queue, {"queued", "expired"})
  /\ Distinct(stack)
  /\ HeldAs(stack, {"claimed", "cleared", "running", "done", "abandoned"})

\* A caller that saw the claim finds it again, or finds the job abandoned.
ClaimInv ==
  \A t \in Threads : pc[t] = "sawClaim" => status[Job(t)] \in Claimed \cup {"abandoned"}

Dead == {"expired", "abandoned", "dropped", "refused"}
AnswerInv ==
  \A j \in Jobs : /\ ret[j] = "result" => status[j] = "done"
                  /\ ret[j] \in {"TimeoutError", "SendCancelled", "RuntimeError"}
                        => status[j] \in Dead

DoomInv ==
  \A j \in doomed : IsCancelled(j) /\ status[j] \notin {"cleared", "running", "done"}

IInv == TypeOK /\ ProgramInv /\ FlushInv /\ PlaceInv /\ ClaimInv /\ AnswerInv /\ DoomInv
=============================================================================
