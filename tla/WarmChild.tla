----------------------------- MODULE WarmChild -----------------------------
(***************************************************************************)
(* One warm worker (plugin/framework/warm_child.py): callers lease its     *)
(* pipes one at a time and spawn it on the supervisor's single spawner     *)
(* thread; any thread may kill or retire it at any moment; an idle reaper  *)
(* and the office's shutdown do too.  managed_subprocess.py supplies start,*)
(* kill_tree and the last sweep.                                           *)
(*                                                                         *)
(* todo[t] is the stack of steps thread t has yet to take, the next first: *)
(* a call pushes the callee's steps.  A step is one hold of a lock or one  *)
(* unlocked access of a shared field.  Children are numbered in the order  *)
(* of their spawn requests.  Deadlines and TTLs are choices.  A child that *)
(* survives SIGKILL is left out, so wait_once always reaps.                *)
(***************************************************************************)
EXTENDS Naturals, Sequences, FiniteSets, SequencesExt

CONSTANTS
  Callers,      \* threads that lease
  Stoppers,     \* threads that call kill() or retire() without a lease
  Reaper,       \* the idle reaper
  Quitter,      \* the thread that runs shutdown_all()
  Nobody,       \* no thread
  MaxSpawns,    \* bound on the spawn requests
  MaxKills,     \* bound on the calls of Stoppers and Reaper
  MaxCrashes    \* bound on the deaths nobody asked for

Threads == Callers \cup Stoppers \cup {Reaper, Quitter}
Children == 1 .. MaxSpawns

ASSUME WarmAssumption ==
  /\ MaxSpawns \in Nat \ {0} /\ MaxKills \in Nat /\ MaxCrashes \in Nat
  /\ IsFiniteSet(Threads) /\ Nobody \notin Threads
  /\ Callers \cap Stoppers = {} /\ Reaper # Quitter
  /\ {Reaper, Quitter} \cap (Callers \cup Stoppers) = {}

VARIABLES
  todo,      \* the steps each thread has yet to take
  at,        \* the child each thread's steps are about, 0 for none
  io,        \* holder of _io_lock
  child,     \* _child, 0 for None
  pending,   \* _cancel_pending
  retired,   \* _retired
  listed,    \* the warm child is in the supervisor's _registry
  ours,      \* _killed_by_us
  hooked,    \* _death_hook_fired
  ch,        \* every child: its spawn request, its process and its Child
  queue,     \* _spawn_queue; 0 is _SPAWN_SHUTDOWN
  gate,      \* holder of _spawn_gate when held over several steps
  quit,      \* "no", "on" once _shutdown is set, "done" when shutdown_all returned
  told,      \* children on_death was called for
  fell,      \* children that died unasked
  late,      \* children whose pipes were taken after a signal
  torn,      \* children published while a kill() had marked and not yet looked
  kills

warm == <<io, child, pending, retired, listed, ours, hooked>>
super == <<queue, gate, quit>>
ghosts == <<told, fell, late, torn, kills>>
vars == <<todo, at, warm, ch, super, ghosts>>

NewChild == [st |-> "none", left |-> FALSE, proc |-> "none", owner |-> Nobody,
             signaled |-> FALSE, settled |-> FALSE, once |-> Nobody]

Init ==
  /\ todo = [t \in Threads |-> <<>>] /\ at = [t \in Threads |-> 0]
  /\ io = Nobody /\ child = 0 /\ pending = FALSE /\ retired = FALSE
  /\ listed = TRUE /\ ours = FALSE /\ hooked = FALSE
  /\ ch = [k \in Children |-> NewChild]
  /\ queue = <<>> /\ gate = Nobody /\ quit = "no"
  /\ told = {} /\ fell = {} /\ late = {}
  /\ torn = {} /\ kills = 0

-----------------------------------------------------------------------------
Next_(t) == IF todo[t] = <<>> THEN "idle" ELSE Head(todo[t])
Then(t, steps) == todo' = [todo EXCEPT ![t] = steps \o Tail(@)]
Start(t, steps) == todo[t] = <<>> /\ todo' = [todo EXCEPT ![t] = steps]

Alive(k) == k # 0 /\ ch[k].proc = "alive"
Requests == {k \in Children : ch[k].st # "none"}
ForeignNever(t, k) == FALSE \* mutant
Foreign(t, k) == ch[k].owner \notin {Nobody, t}
Drop(k) == child' = IF child = k THEN 0 ELSE child

Kill == <<"mark", "find">>
SignalFrom == <<"signal", "owner">>

-----------------------------------------------------------------------------
(* kill() and what it calls, by any thread.                                *)

Mark(t) ==
  /\ Next_(t) = "mark" /\ Then(t, <<>>) /\ ours' = TRUE
  /\ UNCHANGED <<at, io, child, pending, retired, listed, hooked, ch, super, ghosts>>

Find(t) ==
  /\ Next_(t) = "find"
  /\ IF child = 0 THEN Then(t, <<"pend">>) /\ UNCHANGED at
                  ELSE Then(t, SignalFrom) /\ at' = [at EXCEPT ![t] = child]
  /\ UNCHANGED <<warm, ch, super, ghosts>>

Pend(t) ==
  /\ Next_(t) = "pend" /\ Then(t, <<>>) /\ pending' = TRUE
  /\ UNCHANGED <<at, io, child, retired, listed, ours, hooked, ch, super, ghosts>>

Signal(t) ==
  /\ Next_(t) = "signal" /\ Then(t, <<>>)
  /\ ch' = [ch EXCEPT ![at[t]].signaled = TRUE, ![at[t]].proc = "dead"]
  /\ UNCHANGED <<at, warm, super, ghosts>>

\* A foreign owner finishes in its own end_io.
Owner(t) ==
  /\ Next_(t) = "owner"
  /\ Then(t, IF Foreign(t, at[t]) THEN <<>> ELSE <<"finish">>)
  /\ UNCHANGED <<at, warm, ch, super, ghosts>>

Finish(t) ==
  LET c == ch[at[t]] IN
  /\ Next_(t) = "finish" /\ c.once = Nobody
  /\ \/ c.settled /\ Then(t, <<"drop">>) /\ UNCHANGED ch
     \/ ~c.settled /\ Foreign(t, at[t]) /\ Then(t, <<>>) /\ UNCHANGED ch
     \/ /\ ~c.settled /\ ~Foreign(t, at[t]) /\ Then(t, <<"close">>)
        /\ ch' = [ch EXCEPT ![at[t]].once = t]
  /\ UNCHANGED <<at, warm, super, ghosts>>

CloseOnly(t) == \* mutant
  /\ Next_(t) = "close" /\ Then(t, <<>>)
  /\ ch' = [ch EXCEPT ![at[t]].settled = TRUE, ![at[t]].once = Nobody]
  /\ UNCHANGED <<at, warm, super, ghosts>>

Close(t) ==
  /\ Next_(t) = "close" /\ Then(t, <<"drop">>)
  /\ ch' = [ch EXCEPT ![at[t]].settled = TRUE, ![at[t]].once = Nobody]
  /\ UNCHANGED <<at, warm, super, ghosts>>

DropChild(t) ==
  /\ Next_(t) = "drop" /\ Then(t, <<>>) /\ Drop(at[t])
  /\ UNCHANGED <<at, io, pending, retired, listed, ours, hooked, ch, super, ghosts>>

\* end_io clears the owner, then looks at the signal.
EndIo(t) ==
  /\ Next_(t) = "end" /\ Then(t, <<"settle">>)
  /\ ch' = [ch EXCEPT ![at[t]].owner = Nobody]
  /\ UNCHANGED <<at, warm, super, ghosts>>

SettleNot(t) == \* mutant
  Next_(t) = "settle" /\ Then(t, <<>>) /\ UNCHANGED <<at, warm, ch, super, ghosts>>

Settle(t) ==
  /\ Next_(t) = "settle"
  /\ Then(t, IF ch[at[t]].signaled THEN <<"finish">> ELSE <<>>)
  /\ UNCHANGED <<at, warm, ch, super, ghosts>>

-----------------------------------------------------------------------------
(* lease() and _ensure_live(), by a caller.                                *)

Ask(c) ==
  /\ Start(c, <<"wait">>)
  /\ UNCHANGED <<at, warm, ch, super, ghosts>>

\* cancel, refuse or the end of the wait
GiveUp(c) ==
  /\ Next_(c) = "wait" /\ Then(c, <<>>)
  /\ UNCHANGED <<at, warm, ch, super, ghosts>>

TakeIo(c) ==
  /\ Next_(c) = "wait" /\ io = Nobody /\ io' = c /\ Then(c, <<"clear", "unlock">>)
  /\ UNCHANGED <<at, child, pending, retired, listed, ours, hooked, ch, super, ghosts>>

ReleaseIo(t) ==
  /\ Next_(t) = "unlock" /\ Then(t, <<>>) /\ io' = Nobody
  /\ at' = [at EXCEPT ![t] = 0]
  /\ UNCHANGED <<child, pending, retired, listed, ours, hooked, ch, super, ghosts>>

ClearPending(c) ==
  /\ Next_(c) = "clear" /\ Then(c, <<"check">>) /\ pending' = FALSE
  /\ UNCHANGED <<at, io, child, retired, listed, ours, hooked, ch, super, ghosts>>

Check(c) ==
  /\ Next_(c) = "check"
  /\ Then(c, IF quit # "no" \/ retired THEN <<>> ELSE <<"look">>)
  /\ UNCHANGED <<at, warm, ch, super, ghosts>>

LookBlind(c) == \* mutant
  /\ Next_(c) = "look"
  /\ \/ child = 0 /\ Then(c, <<"arm">>) /\ UNCHANGED <<child, hooked, told>>
     \/ Alive(child) /\ Then(c, <<"pick">>) /\ UNCHANGED <<child, hooked, told>>
     \/ /\ child # 0 /\ ~Alive(child) /\ Then(c, <<"arm">>) /\ child' = 0
        /\ hooked' = TRUE /\ told' = told \cup {child}
  /\ UNCHANGED <<at, io, pending, retired, listed, ours, ch, super, fell, late, torn, kills>>

\* A child found dead that nobody killed is reported before it is dropped.
Look(c) ==
  /\ Next_(c) = "look"
  /\ \/ child = 0 /\ Then(c, <<"arm">>) /\ UNCHANGED <<child, hooked, told>>
     \/ Alive(child) /\ Then(c, <<"pick">>) /\ UNCHANGED <<child, hooked, told>>
     \/ /\ child # 0 /\ ~Alive(child) /\ Then(c, <<"arm">>) /\ child' = 0
        /\ IF ours \/ hooked THEN UNCHANGED <<hooked, told>>
           ELSE hooked' = TRUE /\ told' = told \cup {child}
  /\ UNCHANGED <<at, io, pending, retired, listed, ours, ch, super, fell, late, torn, kills>>

\* Retired, or no time left to spawn.
NoSpawn(c) ==
  /\ Next_(c) = "arm" /\ Then(c, <<>>)
  /\ UNCHANGED <<at, warm, ch, super, ghosts>>

Arm(c) ==
  /\ Next_(c) = "arm" /\ ~retired /\ Requests # Children
  /\ ours' = FALSE /\ hooked' = FALSE /\ Then(c, <<"spawn">>)
  /\ UNCHANGED <<at, io, child, pending, retired, listed, ch, super, ghosts>>

\* Supervisor.spawn, under _spawn_gate
Enqueue(c) ==
  LET k == Cardinality(Requests) + 1 IN
  /\ Next_(c) = "spawn" /\ gate = Nobody
  /\ \/ quit # "no" /\ Then(c, <<>>) /\ UNCHANGED <<at, ch, queue>>
     \/ /\ quit = "no" /\ queue' = Append(queue, k) /\ at' = [at EXCEPT ![c] = k]
        /\ ch' = [ch EXCEPT ![k].st = "queued"] /\ Then(c, <<"await">>)
  /\ UNCHANGED <<warm, gate, quit, ghosts>>

Spawned(c) ==
  /\ Next_(c) = "await" /\ ch[at[c]].st = "done"
  /\ Then(c, IF ch[at[c]].proc = "none" THEN <<>> ELSE <<"publish">>)
  /\ UNCHANGED <<at, warm, ch, super, ghosts>>

AbandonQueued(c) == \* mutant
  /\ Next_(c) = "await" /\ ch[at[c]].st = "queued" /\ Then(c, <<>>)
  /\ ch' = [ch EXCEPT ![at[c]].left = TRUE]
  /\ UNCHANGED <<at, warm, super, ghosts>>

\* give_up: decided under the request's lock, so not after finish_spawn
Abandon(c) ==
  /\ Next_(c) = "await" /\ ch[at[c]].st # "done" /\ Then(c, <<>>)
  /\ ch' = [ch EXCEPT ![at[c]].left = TRUE]
  /\ UNCHANGED <<at, warm, super, ghosts>>

RefusedPending == pending \/ child # 0 \* mutant
Refused == retired \/ quit # "no" \/ pending \/ child # 0

Publish(c) ==
  /\ Next_(c) = "publish"
  /\ IF Refused THEN Then(c, SignalFrom) /\ UNCHANGED <<child, torn>>
     ELSE /\ Then(c, <<"greet">>) /\ child' = at[c]
          /\ torn' = IF \E t \in Threads : Next_(t) = "find" THEN torn \cup {at[c]} ELSE torn
  /\ UNCHANGED <<at, io, pending, retired, listed, ours, hooked, ch, super,
                 told, fell, late, kills>>

BeginIo(c) ==
  /\ ch' = [ch EXCEPT ![at[c]].owner = c]
  /\ late' = IF ch[at[c]].signaled THEN late \cup {at[c]} ELSE late \ {at[c]}

\* The spawn budget may be gone by now.
Greet(c) ==
  /\ Next_(c) = "greet"
  /\ \/ Then(c, Kill) /\ UNCHANGED <<ch, late>>
     \/ Then(c, <<"read">>) /\ BeginIo(c)
  /\ UNCHANGED <<at, warm, super, told, fell, torn, kills>>

\* read_ready_frame_during_io: timeout, interrupted, not ready, ready
ReadReady(c) ==
  LET k == at[c] IN
  /\ Next_(c) = "read"
  /\ \/ Then(c, Kill \o <<"end">>)
     \/ ch[k].signaled /\ Then(c, <<"drop", "end">>)
     \/ ~ch[k].signaled /\ Alive(k) /\ Then(c, <<"end", "pick">>)
  /\ UNCHANGED <<at, warm, ch, super, ghosts>>

\* With no child the assertion of lease() fails, and the exception unlocks.
Pick(c) ==
  /\ Next_(c) = "pick"
  /\ IF child = 0 THEN Then(c, <<>>) /\ UNCHANGED at
                  ELSE Then(c, <<"lease">>) /\ at' = [at EXCEPT ![c] = child]
  /\ UNCHANGED <<warm, ch, super, ghosts>>

Lease(c) ==
  /\ Next_(c) = "lease" /\ Then(c, <<"use", "end">>) /\ BeginIo(c)
  /\ UNCHANGED <<at, warm, super, told, fell, torn, kills>>

\* The body of the lease returns, or a step of its round trip failed.
Use(c) ==
  /\ Next_(c) = "use"
  /\ \/ Then(c, <<>>)
     \/ child # 0 /\ Then(c, Kill)
  /\ UNCHANGED <<at, warm, ch, super, ghosts>>

-----------------------------------------------------------------------------
(* The spawner thread.                                                     *)

Spawning == {k \in Children : ch[k].st \in {"starting", "started", "failed"}}

TakeRequest ==
  LET k == Head(queue) IN
  /\ queue # <<>> /\ k # 0 /\ Spawning = {} /\ queue' = Tail(queue)
  /\ ch' = [ch EXCEPT ![k].st = IF ch[k].left THEN "done" ELSE "starting"]
  /\ UNCHANGED <<todo, at, warm, gate, quit, ghosts>>

StartOk(k) ==
  /\ ch[k].st = "starting"
  /\ ch' = [ch EXCEPT ![k].st = "started", ![k].proc = "alive"]
  /\ UNCHANGED <<todo, at, warm, super, ghosts>>

StartFails(k) ==
  /\ ch[k].st = "starting" /\ ch' = [ch EXCEPT ![k].st = "failed"]
  /\ UNCHANGED <<todo, at, warm, super, ghosts>>

FinishSpawnKeep(k) == \* mutant
  /\ ch[k].st \in {"started", "failed"} /\ ch' = [ch EXCEPT ![k].st = "done"]
  /\ UNCHANGED <<todo, at, warm, super, ghosts>>

\* Only the spawner kills what its waiter has left.
FinishSpawn(k) ==
  /\ ch[k].st \in {"started", "failed"}
  /\ ch' = [ch EXCEPT ![k].st = "done",
              ![k].proc = IF ch[k].left /\ @ = "alive" THEN "dead" ELSE @]
  /\ UNCHANGED <<todo, at, warm, super, ghosts>>

-----------------------------------------------------------------------------
(* Everybody else.                                                         *)

Stop(s) ==
  /\ kills < MaxKills /\ kills' = kills + 1
  /\ Start(s, Kill) /\ at' = [at EXCEPT ![s] = 0]
  /\ UNCHANGED <<warm, ch, super, told, fell, late, torn>>

\* retire(): the flag under _lifecycle_lock, kill(), then out of the registry
StopForGood(s) ==
  /\ kills < MaxKills /\ kills' = kills + 1
  /\ Start(s, <<"retire">> \o Kill \o <<"unlist">>) /\ at' = [at EXCEPT ![s] = 0]
  /\ UNCHANGED <<warm, ch, super, told, fell, late, torn>>

Retire(t) ==
  /\ Next_(t) = "retire" /\ Then(t, <<>>) /\ retired' = TRUE
  /\ UNCHANGED <<at, io, child, pending, listed, ours, hooked, ch, super, ghosts>>

Unlist(t) ==
  /\ Next_(t) = "unlist" /\ Then(t, <<>>) /\ listed' = FALSE
  /\ UNCHANGED <<at, io, child, pending, retired, ours, hooked, ch, super, ghosts>>

\* _evict_idle: the pipe lock is tried, the child looked at again.
TryEvict ==
  /\ kills < MaxKills /\ kills' = kills + 1
  /\ ~retired /\ Alive(child) /\ io = Nobody /\ io' = Reaper
  /\ Start(Reaper, <<"again", "unlock">>)
  /\ UNCHANGED <<at, child, pending, retired, listed, ours, hooked, ch, super,
                 told, fell, late, torn>>

Evict ==
  /\ Next_(Reaper) = "again"
  /\ Then(Reaper, IF retired \/ ~Alive(child) THEN <<>> ELSE Kill)
  /\ UNCHANGED <<at, warm, ch, super, ghosts>>

\* shutdown_all holds _spawn_gate until every listed child is retired.
ShutDown ==
  /\ quit = "no" /\ quit' = "on" /\ gate = Nobody /\ gate' = Quitter
  /\ queue' = Append(queue, 0)
  /\ Start(Quitter, (IF listed THEN <<"retire">> \o Kill \o <<"unlist">> ELSE <<>>)
                    \o <<"ungate", "sweep">>)
  /\ UNCHANGED <<at, warm, ch, ghosts>>

Ungate ==
  /\ Next_(Quitter) = "ungate" /\ Then(Quitter, <<>>) /\ gate' = Nobody
  /\ UNCHANGED <<at, warm, ch, queue, quit, ghosts>>

\* managed_subprocess.shutdown_all: kill_tree of whatever is registered
Sweep ==
  /\ Next_(Quitter) = "sweep" /\ Then(Quitter, <<>>) /\ quit' = "done"
  /\ ch' = [k \in Children |->
              [ch[k] EXCEPT !.proc = IF @ = "alive" THEN "dead" ELSE @]]
  /\ UNCHANGED <<at, warm, queue, gate, ghosts>>

Crash(k) ==
  /\ Alive(k) /\ Cardinality(fell) < MaxCrashes /\ fell' = fell \cup {k}
  /\ ch' = [ch EXCEPT ![k].proc = "dead"]
  /\ UNCHANGED <<todo, at, warm, super, told, late, torn, kills>>

-----------------------------------------------------------------------------
KillStep(t) == Mark(t) \/ Find(t) \/ Pend(t) \/ Signal(t) \/ Owner(t)
                 \/ Finish(t) \/ Close(t) \/ DropChild(t)
Waiting(c) == GiveUp(c) \/ TakeIo(c)
LeaseStep(c) ==
  \/ ReleaseIo(c) \/ ClearPending(c) \/ Check(c) \/ Look(c) \/ NoSpawn(c)
  \/ Arm(c) \/ Enqueue(c) \/ Spawned(c) \/ Abandon(c) \/ Publish(c) \/ Greet(c)
  \/ ReadReady(c) \/ Pick(c) \/ Lease(c) \/ Use(c) \/ EndIo(c) \/ Settle(c)
SpawnerStep == TakeRequest \/ \E k \in Children : FinishSpawn(k)
QuitStep == Retire(Quitter) \/ Unlist(Quitter) \/ Ungate \/ Sweep

Next ==
  \/ \E t \in Threads : KillStep(t)
  \/ \E c \in Callers : Ask(c) \/ Waiting(c) \/ LeaseStep(c)
  \/ \E s \in Stoppers : Stop(s) \/ StopForGood(s) \/ Retire(s) \/ Unlist(s)
  \/ TryEvict \/ Evict \/ ReleaseIo(Reaper)
  \/ SpawnerStep \/ \E k \in Children : StartOk(k) \/ StartFails(k) \/ Crash(k)
  \/ ShutDown \/ QuitStep

Spec == Init /\ [][Next]_vars

\* Every thread that is running goes on running; Popen alone may hang.
FairSpec ==
  /\ Spec
  /\ \A t \in Threads : WF_vars(KillStep(t))
  /\ \A c \in Callers : WF_vars(LeaseStep(c))
  /\ \A s \in Stoppers : WF_vars(Retire(s) \/ Unlist(s))
  /\ WF_vars(Evict \/ ReleaseIo(Reaper)) /\ WF_vars(SpawnerStep) /\ WF_vars(QuitStep)

-----------------------------------------------------------------------------
Steps == {"mark", "find", "pend", "signal", "owner", "finish", "close", "drop",
          "end", "settle", "wait", "clear", "check", "look", "arm", "spawn",
          "await", "publish", "greet", "read", "pick", "lease", "use", "unlock",
          "retire", "unlist", "again", "ungate", "sweep"}

\* Types of the fields of WarmChild, Child, _SpawnRequest and Supervisor.
TypeOK ==
  /\ \A t \in Threads : ToSet(todo[t]) \subseteq Steps /\ at[t] \in 0 .. MaxSpawns
  /\ {io, gate} \subseteq Threads \cup {Nobody} /\ child \in 0 .. MaxSpawns
  /\ {pending, retired, listed, ours, hooked} \subseteq BOOLEAN
  /\ ch \in [Children ->
       [st : {"none", "queued", "starting", "started", "failed", "done"},
        left : BOOLEAN, proc : {"none", "alive", "dead"},
        owner : Threads \cup {Nobody}, signaled : BOOLEAN, settled : BOOLEAN,
        once : Threads \cup {Nobody}]]
  /\ ToSet(queue) \subseteq 0 .. MaxSpawns /\ quit \in {"no", "on", "done"}
  /\ told \subseteq Children /\ fell \subseteq Children /\ late \subseteq Children
  /\ torn \subseteq Children

\* Every live process is in somebody's hands: the spawner that has not finished
\* it, the waiter that has not published it, the thread about to kill what was
\* refused, or the published pointer that kill(), the reaper and shutdown read.
NoOrphan ==
  \A k \in Children : Alive(k) =>
    \/ child = k \/ ch[k].st = "started"
    \/ \E t \in Threads : at[t] = k /\ Next_(t) \in {"await", "publish", "signal"}

\* Once retire() or shutdown_all() has returned, no live child is published,
\* whatever lease was spawning one meanwhile.
NothingOutlivesRetire ==
  ~listed \/ quit = "done" => ~Alive(child)

\* A signalled child is reaped and its pipes closed: by the killer when no one
\* is on the pipes, else by the owner's end_io; neither leaves it to the other.
NoLimbo ==
  \A k \in Children : ch[k].signaled /\ ~ch[k].settled =>
    \/ \E t \in Threads : at[t] = k /\ Next_(t) \in {"owner", "finish", "close", "settle"}
    \/ \E c \in Callers : ch[k].owner = c /\ at[c] = k
         /\ ToSet(todo[c]) \cap {"read", "end"} # {}

\* At rest the pointer is empty or shows a child nobody signalled.
NoStalePointer ==
  (\A t \in Threads : todo[t] = <<>>) /\ child # 0 => ~ch[child].signaled

\* on_death is called only for children that died unasked; the exception is a
\* kill() held up between its mark and its look for as long as a spawn takes.
DeathsAreReal == told \subseteq fell \cup torn

\* The life of a child under lease, kill, retire, reaper and shutdown: it is
\* owned while it lives, settled once it is killed, forgotten once it is gone.
ChildInv == TypeOK /\ NoOrphan /\ NoLimbo /\ NoStalePointer /\ DeathsAreReal

\* Pipes are closed under the thread using them by that thread only, unless the
\* child had been signalled before the thread took them.
PipesHeld ==
  [][\A k \in Children : ch'[k].settled /\ ~ch[k].settled =>
       \/ ch[k].owner = Nobody \/ k \in late
       \/ todo'[ch[k].owner] # todo[ch[k].owner]]_vars

\* A lease gives the pipe lock back and shutdown_all returns, even when Popen
\* never does.
LocksReleased ==
  (io # Nobody \/ quit = "on") ~> (io = Nobody /\ quit # "on")
=============================================================================
