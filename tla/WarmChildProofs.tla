-------------------------- MODULE WarmChildProofs --------------------------
(***************************************************************************)
(* Proofs about WarmChild: for any number of callers, killers, spawns and  *)
(* crashes, every live process is in somebody's hands, every signalled one *)
(* is reaped and its pipes closed, the published pointer outlives neither  *)
(* retire() nor the office, and nobody closes pipes under their user.      *)
(***************************************************************************)
EXTENDS WarmChild, SequenceFilters, SequencesExt, SequenceTheorems,
        FiniteSetTheorems, WellFoundedInduction, TLAPS

-----------------------------------------------------------------------------
(* Lists: what the operations on them keep.                                *)

LEMMA AppendContains ==
  ASSUME NEW X, NEW q \in Seq(X), NEW e \in X
  PROVE  /\ Append(q, e) \in Seq(X)
         /\ \A x : Contains(Append(q, e), x) <=> Contains(q, x) \/ x = e
         /\ IsDistinct(q) /\ ~Contains(q, e) => IsDistinct(Append(q, e))
<1>1. /\ Append(q, e) \in Seq(X) /\ Len(q) \in Nat
      /\ Len(Append(q, e)) = Len(q) + 1 /\ Append(q, e)[Len(q) + 1] = e
      /\ \A i \in 1 .. Len(q) : Append(q, e)[i] = q[i]
  BY AppendProperties, LenProperties
<1>2. \A i \in 1 .. Len(Append(q, e)) : i \in 1 .. Len(q) \/ i = Len(q) + 1
  BY <1>1
<1>3. \A x : Contains(Append(q, e), x) <=> Contains(q, x) \/ x = e
  BY <1>1, <1>2 DEF Contains
<1>4. IsDistinct(q) /\ ~Contains(q, e) => IsDistinct(Append(q, e))
  BY <1>1, <1>2 DEF IsDistinct, Contains
<1> QED BY <1>1, <1>3, <1>4

LEMMA TailContains ==
  ASSUME NEW X, NEW q \in Seq(X), q # <<>>
  PROVE  /\ Head(q) \in X /\ Tail(q) \in Seq(X)
         /\ \A x : Contains(q, x) <=> Contains(Tail(q), x) \/ x = Head(q)
         /\ IsDistinct(q) => IsDistinct(Tail(q)) /\ ~Contains(Tail(q), Head(q))
<1>1. /\ Head(q) \in X /\ Tail(q) \in Seq(X) /\ Head(q) = q[1]
      /\ Len(q) \in Nat /\ Len(q) # 0 /\ Len(Tail(q)) = Len(q) - 1
      /\ \A i \in 1 .. Len(Tail(q)) : Tail(q)[i] = q[i + 1]
  BY HeadTailProperties, LenProperties, EmptySeq
<1>2. \A i \in 1 .. Len(q) : i = 1 \/ i - 1 \in 1 .. Len(Tail(q))
  BY <1>1
<1>3. \A i \in 1 .. Len(Tail(q)) : i + 1 \in 1 .. Len(q)
  BY <1>1
<1>4. \A x : Contains(q, x) <=> Contains(Tail(q), x) \/ x = Head(q)
  <2> SUFFICES ASSUME NEW x PROVE Contains(q, x) <=> Contains(Tail(q), x) \/ x = Head(q)
    OBVIOUS
  <2>1. ASSUME Contains(q, x) PROVE Contains(Tail(q), x) \/ x = Head(q)
    <3>1. PICK i \in 1 .. Len(q) : q[i] = x
      BY <2>1 DEF Contains
    <3>2. i # 1 => i - 1 \in 1 .. Len(Tail(q)) /\ Tail(q)[i - 1] = x
      BY <1>1, <1>2, <3>1
    <3> QED BY <3>1, <3>2, <1>1 DEF Contains
  <2>2. ASSUME Contains(Tail(q), x) \/ x = Head(q) PROVE Contains(q, x)
    BY <2>2, <1>1, <1>3 DEF Contains
  <2> QED BY <2>1, <2>2
<1>5. ASSUME IsDistinct(q) PROVE IsDistinct(Tail(q)) /\ ~Contains(Tail(q), Head(q))
  BY <1>1, <1>3, <1>5 DEF IsDistinct, Contains
<1> QED BY <1>1, <1>4, <1>5

LEMMA EmptyContains ==
  /\ \A x : ~Contains(<<>>, x)
  /\ IsDistinct(<<>>)
  /\ \A X : <<>> \in Seq(X)
BY EmptySeq DEF Contains, IsDistinct

-----------------------------------------------------------------------------
(* The stacks a thread can have.                                           *)

Push(x, s) == <<x>> \o s
Top(s) == IF s = <<>> THEN "idle" ELSE Head(s)
Owns(s) == ToSet(s) \cap {"read", "end"} # {}      \* it is between begin_io and end_io
Holds(s) == "unlock" \in ToSet(s)                  \* it holds the pipe lock
Retires(s) == "unlist" \in ToSet(s)                \* it is inside retire()

Bare == <<>>
Unlock == Push("unlock", Bare)
End == Push("end", Unlock)
Again == Push("pick", Unlock)
Unlisting == Push("unlist", Bare)
Sweeping == Push("sweep", Bare)
Ungating == Push("ungate", Sweeping)
Quitting == Push("unlist", Ungating)

\* What a call of kill() returns to.
Bases(t) ==
  IF t \in Callers THEN {Unlock, End, Again}
  ELSE IF t \in Stoppers THEN {Bare, Unlisting}
  ELSE IF t = Reaper THEN {Unlock} ELSE {Quitting}

InKill == {"find", "pend", "owner", "finish", "close", "drop"}
InLease == {"clear", "check", "look", "arm", "spawn", "await", "publish", "greet",
            "read", "pick", "lease"}

Shaped(t, s) ==
  \/ s = Bare
  \/ \E r \in Bases(t) :
       \/ s = r \/ s = Push("mark", Push("find", r)) \/ s = Push("signal", Push("owner", r))
       \/ \E h \in InKill : s = Push(h, r)
       \/ r # Bare /\ t \in Stoppers \cup {Quitter}
            /\ s = Push("retire", Push("mark", Push("find", r)))
  \/ /\ t \in Callers
     /\ \/ s = Push("wait", Bare) \/ s = Push("use", End)
        \/ \E h \in InLease : s = Push(h, Unlock)
        \/ \E h \in {"end", "settle"}, r \in {Unlock, Again} : s = Push(h, r)
  \/ t = Reaper /\ s = Push("again", Unlock)
  \/ t = Quitter /\ s \in {Ungating, Sweeping}

ShapeInv ==
  /\ todo \in [Threads -> Seq(Steps)] /\ \A t \in Threads : Shaped(t, todo[t])
  /\ at \in [Threads -> 0 .. MaxSpawns]

-----------------------------------------------------------------------------
(* The invariant, part by part.                                            *)

At(t, k, tops) == at[t] = k /\ Top(todo[t]) \in tops

\* The pipe lock is held by the thread that will release it.
IoInv == \A t \in Threads : io = t <=> Holds(todo[t])

\* The requests made so far are the first ones; a later one is nobody's.
RequestInv ==
  /\ \E n \in Nat : Requests = 1 .. n
  /\ \A k \in Children : ch[k].st = "none" =>
       child # k /\ ch[k].proc = "none" /\ ~ch[k].left /\ \A t \in Threads : at[t] # k
  /\ \A t \in Threads : Top(todo[t]) = "spawn" => Requests # Children

\* Each request is queued once; the shutdown marker is the last thing queued.
QueueInv ==
  /\ queue \in Seq(0 .. MaxSpawns) /\ IsDistinct(queue)
  /\ Contains(queue, 0) => quit # "no"
  /\ \A k \in Children : Contains(queue, k) => ch[k].st = "queued"

\* What the record of a child says.
ProcInv ==
  \A k \in Children :
    /\ ch[k].st \in {"none", "queued", "starting", "failed"} => ch[k].proc = "none"
    /\ ch[k].st # "done" => ch[k].owner = Nobody /\ ~ch[k].signaled /\ ~ch[k].settled
    /\ ch[k].signaled => ch[k].proc = "dead"
    /\ ch[k].proc = "alive" => ch[k].st \in {"started", "done"}
    /\ child = k => ch[k].st = "done" /\ ch[k].proc # "none"

\* A request in progress that was not left has its caller waiting.
WaitInv ==
  \A k \in Children :
    ch[k].st \in {"queued", "starting", "started", "failed"} /\ ~ch[k].left =>
      \E t \in Threads : At(t, k, {"await"})

\* A child that is not published is its caller's alone.
PrivateInv ==
  \A t \in Threads : Top(todo[t]) \in {"await", "publish"} =>
    /\ at[t] \in Children /\ at[t] # child
    /\ \A u \in Threads \ {t} : at[u] # at[t]
    /\ ch[at[t]].st # "none" /\ ~ch[at[t]].left /\ ~ch[at[t]].signaled
    /\ Top(todo[t]) = "publish" => ch[at[t]].st = "done" /\ ch[at[t]].proc # "none"
    /\ ch[at[t]].proc = "dead" => at[t] \in fell \/ quit # "no"

\* The caller of the pipe lock sees one child at most.
HoldInv ==
  \A t \in Threads :
    /\ Top(todo[t]) \in {"arm", "spawn", "await", "publish"} => child = 0
    /\ Top(todo[t]) \in {"greet", "lease"} \/ Owns(todo[t]) => child \in {0, at[t]}

\* What a thread knows of the child it is about.
AtInv ==
  \A t \in Threads :
    /\ \/ Top(todo[t]) \in {"signal", "owner", "finish", "close", "drop", "greet",
                            "lease", "settle"}
       \/ Owns(todo[t])
       => at[t] \in Children /\ ch[at[t]].st = "done" /\ ch[at[t]].proc # "none"
    /\ Top(todo[t]) \in {"owner", "finish", "close", "drop"} => ch[at[t]].signaled
    /\ Top(todo[t]) = "drop" => ch[at[t]].settled \/ Owns(todo[t])

\* The owner of a child is the thread that is going to call end_io on it.
OwnerInv ==
  /\ \A t \in Threads : Owns(todo[t]) => at[t] \in Children /\ ch[at[t]].owner = t
  /\ \A k \in Children : ch[k].owner # Nobody =>
       ch[k].owner \in Threads /\ Owns(todo[ch[k].owner]) /\ at[ch[k].owner] = k

\* A signalled child has somebody to settle it and to clear the pointer.
LimboInv ==
  \A k \in Children : ch[k].signaled /\ (~ch[k].settled \/ child = k) =>
    \/ \E t \in Threads : At(t, k, {"owner", "finish", "close", "settle"})
    \/ ch[k].settled /\ \E t \in Threads : At(t, k, {"drop"})
    \/ ch[k].owner # Nobody

\* Whoever closes pipes closes its own, nobody's, or those taken too late.
LateInv ==
  \A t \in Threads : Top(todo[t]) = "close" =>
    ch[at[t]].owner \in {Nobody, t} \/ at[t] \in late

\* While nobody killed the published child, no kill() is near it, and it died
\* only if it died unasked.
DeathInv ==
  child # 0 /\ child \notin torn /\ ~ours =>
    /\ \A t \in Threads : Top(todo[t]) # "find" /\ ~At(t, child, {"signal"})
    /\ ch[child].proc = "dead" => child \in fell

\* How far retire() has come.
RetireInv ==
  /\ \A t \in Threads : Retires(todo[t]) /\ Top(todo[t]) # "retire" =>
       /\ retired
       /\ Top(todo[t]) = "pend" => child = 0
       /\ Top(todo[t]) = "signal" => child \in {0, at[t]}
       /\ Top(todo[t]) \in {"owner", "finish", "close", "drop", "unlist"} => ~Alive(child)
  /\ (\E t \in Threads : Top(todo[t]) \in {"ungate", "sweep"}) \/ quit = "done" => ~listed
  /\ ~listed => retired /\ ~Alive(child)

IInv ==
  /\ TypeOK /\ ShapeInv /\ IoInv /\ RequestInv /\ QueueInv /\ ProcInv /\ WaitInv
  /\ PrivateInv /\ HoldInv /\ AtInv /\ OwnerInv /\ LimboInv /\ LateInv /\ DeathInv
  /\ RetireInv /\ NoOrphan /\ DeathsAreReal

-----------------------------------------------------------------------------
(* What pushing and popping do.                                            *)

\* What a sequence with one more element in front is.
LEMMA Pushes ==
  ASSUME NEW X, NEW x \in X, NEW r \in Seq(X)
  PROVE  /\ Push(x, r) \in Seq(X) /\ Push(x, r) # <<>>
         /\ Head(Push(x, r)) = x /\ Tail(Push(x, r)) = r
         /\ ToSet(Push(x, r)) = {x} \cup ToSet(r)
<1>1. /\ <<x>> \in Seq(X) /\ Len(<<x>>) = 1 /\ <<x>>[1] = x
      /\ Len(r) \in Nat /\ DOMAIN r = 1 .. Len(r)
  BY LenProperties
<1>2. /\ Push(x, r) \in Seq(X) /\ Len(Push(x, r)) = 1 + Len(r)
      /\ \A i \in 1 .. 1 + Len(r) :
           Push(x, r)[i] = IF i <= 1 THEN <<x>>[i] ELSE r[i - 1]
  BY <1>1, ConcatProperties DEF Push
<1>3. Push(x, r) # <<>> /\ Push(x, r)[1] = x
  BY <1>1, <1>2, EmptySeq
<1>4. Head(Push(x, r)) = x /\ Tail(Push(x, r)) \in Seq(X)
      /\ Len(Tail(Push(x, r))) = Len(r)
      /\ \A i \in 1 .. Len(r) : Tail(Push(x, r))[i] = Push(x, r)[i + 1]
  BY <1>1, <1>2, <1>3, HeadTailProperties
<1>5. \A i \in 1 .. Len(r) : Tail(Push(x, r))[i] = r[i]
  BY <1>1, <1>2, <1>4
<1>6. Tail(Push(x, r)) = r
  BY <1>4, <1>5, SeqEqual
<1>7. DOMAIN Push(x, r) = 1 .. 1 + Len(r)
  BY <1>2, LenProperties
<1>8. /\ \A i \in 1 .. 1 + Len(r) : Push(x, r)[i] \in {x} \cup ToSet(r)
      /\ \A i \in 1 .. Len(r) : i + 1 \in 1 .. 1 + Len(r) /\ Push(x, r)[i + 1] = r[i]
      /\ 1 \in 1 .. 1 + Len(r)
  <2>1. \A i \in 1 .. 1 + Len(r) : i = 1 \/ i - 1 \in 1 .. Len(r)
    BY <1>1
  <2>2. \A i \in 1 .. Len(r) : r[i] \in ToSet(r)
    BY <1>1 DEF ToSet
  <2>3. \A i \in 1 .. Len(r) : /\ i + 1 \in 1 .. 1 + Len(r) /\ ~(i + 1 <= 1)
                                /\ (i + 1) - 1 = i
    BY <1>1
  <2>4. \A i \in 1 .. Len(r) : Push(x, r)[i + 1] = r[i]
    BY <1>2, <2>3
  <2>5. \A i \in 1 .. 1 + Len(r) : i # 1 => Push(x, r)[i] = r[i - 1]
    BY <1>1, <1>2
  <2>6. 1 \in 1 .. 1 + Len(r)
    BY <1>1
  <2> QED BY <2>1, <2>2, <2>3, <2>4, <2>5, <2>6, <1>3
<1>9. ToSet(Push(x, r)) = {x} \cup ToSet(r)
  BY <1>1, <1>3, <1>7, <1>8 DEF ToSet
<1> QED BY <1>2, <1>3, <1>4, <1>6, <1>9

\* The top and the contents of a stack with one more step.
LEMMA PushFacts ==
  ASSUME NEW x \in Steps, NEW r \in Seq(Steps)
  PROVE  /\ Push(x, r) \in Seq(Steps) /\ Push(x, r) # <<>> /\ Tail(Push(x, r)) = r
         /\ Top(Push(x, r)) = x
         /\ Owns(Push(x, r)) <=> x \in {"read", "end"} \/ Owns(r)
         /\ Holds(Push(x, r)) <=> x = "unlock" \/ Holds(r)
         /\ Retires(Push(x, r)) <=> x = "unlist" \/ Retires(r)
<1>1. /\ Push(x, r) \in Seq(Steps) /\ Push(x, r) # <<>> /\ Tail(Push(x, r)) = r
      /\ Head(Push(x, r)) = x /\ ToSet(Push(x, r)) = {x} \cup ToSet(r)
  BY Pushes, Zenon
<1> QED BY <1>1 DEF Top, Owns, Holds, Retires

\* Taking a step off the stack.
LEMMA Popped ==
  ASSUME NEW h \in Steps, NEW r \in Seq(Steps)
  PROVE  <<>> \o Tail(Push(h, r)) = r
<1>1. Tail(Push(h, r)) = r
  BY Pushes, Zenon
<1>2. <<>> \o r = r
  BY ConcatEmptySeq, Zenon
<1> QED BY <1>1, <1>2

\* Replacing the next step by another.
LEMMA Pushed ==
  ASSUME NEW h \in Steps, NEW r \in Seq(Steps), NEW x
  PROVE  <<x>> \o Tail(Push(h, r)) = Push(x, r)
<1>1. Tail(Push(h, r)) = r
  BY Pushes, Zenon
<1> QED BY <1>1 DEF Push

\* Replacing the next step by two others.
LEMMA PushedTwo ==
  ASSUME NEW h \in Steps, NEW r \in Seq(Steps), NEW x \in Steps, NEW y \in Steps
  PROVE  <<x, y>> \o Tail(Push(h, r)) = Push(x, Push(y, r))
<1>1. Tail(Push(h, r)) = r
  BY Pushes, Zenon
<1>2. /\ <<x>> \in Seq(Steps) /\ Len(<<x>>) = 1 /\ <<x>>[1] = x
      /\ <<y>> \in Seq(Steps) /\ Len(<<y>>) = 1 /\ <<y>>[1] = y
      /\ <<x, y>> \in Seq(Steps) /\ Len(<<x, y>>) = 2
      /\ <<x, y>>[1] = x /\ <<x, y>>[2] = y
  OBVIOUS
<1>3. /\ <<x>> \o <<y>> \in Seq(Steps) /\ Len(<<x>> \o <<y>>) = 2
      /\ \A i \in 1 .. 2 : (<<x>> \o <<y>>)[i] = IF i <= 1 THEN <<x>>[i] ELSE <<y>>[i - 1]
  BY <1>2, ConcatProperties
<1>4. \A i \in 1 .. 2 : (<<x>> \o <<y>>)[i] = <<x, y>>[i]
  BY <1>2, <1>3
<1>5. <<x, y>> = <<x>> \o <<y>>
  BY <1>2, <1>3, <1>4, SeqEqual
<1>6. (<<x>> \o <<y>>) \o r = <<x>> \o (<<y>> \o r)
  BY <1>2, ConcatAssociative
<1> QED BY <1>1, <1>5, <1>6 DEF Push

-----------------------------------------------------------------------------
(* The stacks by name, and what their tops tell.                           *)

\* Every step the code names is a step.
LEMMA StepNames ==
  /\ "mark" \in Steps /\ "find" \in Steps /\ "pend" \in Steps /\ "signal" \in Steps /\ "owner" \in Steps
  /\ "finish" \in Steps /\ "close" \in Steps /\ "drop" \in Steps /\ "end" \in Steps /\ "settle" \in Steps
  /\ "wait" \in Steps /\ "clear" \in Steps /\ "check" \in Steps /\ "look" \in Steps /\ "arm" \in Steps
  /\ "spawn" \in Steps /\ "await" \in Steps /\ "publish" \in Steps /\ "greet" \in Steps /\ "read" \in Steps
  /\ "pick" \in Steps /\ "lease" \in Steps /\ "use" \in Steps /\ "unlock" \in Steps /\ "retire" \in Steps
  /\ "unlist" \in Steps /\ "again" \in Steps /\ "ungate" \in Steps /\ "sweep" \in Steps
  /\ \A x \in InKill \cup InLease : x \in Steps
BY DEF Steps, InKill, InLease

\* The pairs of steps that are pushed.
LEMMA TwoSteps ==
  ASSUME NEW h \in Steps, NEW r \in Seq(Steps)
  PROVE  /\ SignalFrom \o Tail(Push(h, r)) = Push("signal", Push("owner", r))
         /\ Kill \o Tail(Push(h, r)) = Push("mark", Push("find", r))
         /\ <<"use", "end">> \o Tail(Push(h, r)) = Push("use", Push("end", r))
         /\ <<"drop", "end">> \o Tail(Push(h, r)) = Push("drop", Push("end", r))
         /\ <<"end", "pick">> \o Tail(Push(h, r)) = Push("end", Push("pick", r))
         /\ <<"clear", "unlock">> \o Tail(Push(h, r)) = Push("clear", Push("unlock", r))
<1>1. SignalFrom \o Tail(Push(h, r)) = Push("signal", Push("owner", r))
  <2>1. "signal" \in Steps /\ "owner" \in Steps
    BY StepNames
  <2> QED BY <2>1, PushedTwo DEF SignalFrom
<1>2. Kill \o Tail(Push(h, r)) = Push("mark", Push("find", r))
  <2>1. "mark" \in Steps /\ "find" \in Steps
    BY StepNames
  <2> QED BY <2>1, PushedTwo DEF Kill
<1>3. <<"use", "end">> \o Tail(Push(h, r)) = Push("use", Push("end", r))
  <2>1. "use" \in Steps /\ "end" \in Steps
    BY StepNames
  <2> QED BY <2>1, PushedTwo
<1>4. <<"drop", "end">> \o Tail(Push(h, r)) = Push("drop", Push("end", r))
  <2>1. "drop" \in Steps /\ "end" \in Steps
    BY StepNames
  <2> QED BY <2>1, PushedTwo
<1>5. <<"end", "pick">> \o Tail(Push(h, r)) = Push("end", Push("pick", r))
  <2>1. "end" \in Steps /\ "pick" \in Steps
    BY StepNames
  <2> QED BY <2>1, PushedTwo
<1>6. <<"clear", "unlock">> \o Tail(Push(h, r)) = Push("clear", Push("unlock", r))
  <2>1. "clear" \in Steps /\ "unlock" \in Steps
    BY StepNames
  <2> QED BY <2>1, PushedTwo
<1> QED BY <1>1, <1>2, <1>3, <1>4, <1>5, <1>6

\* The stacks with a name: their tops and what they hold.
LEMMA Named ==
  /\ Bare \in Seq(Steps) /\ Top(Bare) = "idle" /\ ~Owns(Bare) /\ ~Holds(Bare) /\ ~Retires(Bare)
  /\ Unlock \in Seq(Steps) /\ Top(Unlock) = "unlock" /\ Unlock # <<>>
       /\ ~Owns(Unlock) /\ Holds(Unlock) /\ ~Retires(Unlock)
  /\ End \in Seq(Steps) /\ Top(End) = "end" /\ End # <<>>
       /\ Owns(End) /\ Holds(End) /\ ~Retires(End)
  /\ Again \in Seq(Steps) /\ Top(Again) = "pick" /\ Again # <<>>
       /\ ~Owns(Again) /\ Holds(Again) /\ ~Retires(Again)
  /\ Unlisting \in Seq(Steps) /\ Top(Unlisting) = "unlist" /\ Unlisting # <<>>
       /\ ~Owns(Unlisting) /\ ~Holds(Unlisting) /\ Retires(Unlisting)
  /\ Sweeping \in Seq(Steps) /\ Top(Sweeping) = "sweep" /\ Sweeping # <<>>
       /\ ~Owns(Sweeping) /\ ~Holds(Sweeping) /\ ~Retires(Sweeping)
  /\ Ungating \in Seq(Steps) /\ Top(Ungating) = "ungate" /\ Ungating # <<>>
       /\ ~Owns(Ungating) /\ ~Holds(Ungating) /\ ~Retires(Ungating)
  /\ Quitting \in Seq(Steps) /\ Top(Quitting) = "unlist" /\ Quitting # <<>>
       /\ ~Owns(Quitting) /\ ~Holds(Quitting) /\ Retires(Quitting)
<1> USE StepNames
<1>1. Bare \in Seq(Steps) /\ Top(Bare) = "idle" /\ ~Owns(Bare) /\ ~Holds(Bare) /\ ~Retires(Bare)
  <2>1. Bare \in Seq(Steps) /\ ToSet(Bare) = {}
    BY EmptySeq DEF Bare, ToSet
  <2> QED BY <2>1 DEF Top, Bare, Owns, Holds, Retires
<1>2. Unlock \in Seq(Steps) /\ Top(Unlock) = "unlock" /\ Unlock # <<>>
        /\ ~Owns(Unlock) /\ Holds(Unlock) /\ ~Retires(Unlock)
  BY <1>1, PushFacts DEF Unlock
<1>3. End \in Seq(Steps) /\ Top(End) = "end" /\ End # <<>>
       /\ Owns(End) /\ Holds(End) /\ ~Retires(End)
  BY <1>2, PushFacts DEF End
<1>4. Again \in Seq(Steps) /\ Top(Again) = "pick" /\ Again # <<>>
       /\ ~Owns(Again) /\ Holds(Again) /\ ~Retires(Again)
  BY <1>2, PushFacts DEF Again
<1>5. Unlisting \in Seq(Steps) /\ Top(Unlisting) = "unlist" /\ Unlisting # <<>>
       /\ ~Owns(Unlisting) /\ ~Holds(Unlisting) /\ Retires(Unlisting)
  BY <1>1, PushFacts DEF Unlisting
<1>6. Sweeping \in Seq(Steps) /\ Top(Sweeping) = "sweep" /\ Sweeping # <<>>
       /\ ~Owns(Sweeping) /\ ~Holds(Sweeping) /\ ~Retires(Sweeping)
  BY <1>1, PushFacts DEF Sweeping
<1>7. Ungating \in Seq(Steps) /\ Top(Ungating) = "ungate" /\ Ungating # <<>>
       /\ ~Owns(Ungating) /\ ~Holds(Ungating) /\ ~Retires(Ungating)
  BY <1>6, PushFacts DEF Ungating
<1>8. Quitting \in Seq(Steps) /\ Top(Quitting) = "unlist" /\ Quitting # <<>>
       /\ ~Owns(Quitting) /\ ~Holds(Quitting) /\ Retires(Quitting)
  BY <1>7, PushFacts DEF Quitting
<1> QED BY <1>1, <1>2, <1>3, <1>4, <1>5, <1>6, <1>7, <1>8

\* The threads are of four kinds.
LEMMA Kinds ==
  /\ \A t \in Threads : t \in Callers \/ t \in Stoppers \/ t = Reaper \/ t = Quitter
  /\ \A t \in Callers : t \in Threads /\ t \notin Stoppers /\ t # Reaper /\ t # Quitter
  /\ \A t \in Stoppers : t \in Threads /\ t \notin Callers /\ t # Reaper /\ t # Quitter
  /\ Reaper \in Threads /\ Quitter \in Threads /\ Reaper # Quitter
  /\ Nobody \notin Threads /\ Reaper \notin Callers \cup Stoppers
  /\ Quitter \notin Callers \cup Stoppers
BY WarmAssumption DEF Threads

\* What a call of kill() returns to, by the kind of thread.
LEMMA BaseFacts ==
  ASSUME NEW t \in Threads, NEW r \in Bases(t)
  PROVE  /\ r \in Seq(Steps)
         /\ Top(r) \in {"unlock", "end", "pick", "idle", "unlist"}
         /\ Owns(r) <=> Top(r) = "end"
         /\ Retires(r) <=> Top(r) = "unlist"
         /\ Holds(r) <=> t \in Callers \cup {Reaper}
         /\ Top(r) \in {"end", "pick"} => t \in Callers
         /\ Top(r) = "idle" <=> r = Bare
         /\ Retires(r) => t \in Stoppers \cup {Quitter}
         /\ t \in Stoppers \cup {Quitter} => r = Bare \/ Retires(r)
<1>1. \/ t \in Callers /\ r \in {Unlock, End, Again}
      \/ t \in Stoppers /\ r \in {Bare, Unlisting}
      \/ (t = Reaper /\ r = Unlock) \/ (t = Quitter /\ r = Quitting)
  BY Kinds DEF Bases
<1> QED BY <1>1, Named, Kinds

\* What the top of a stack tells about the thread and the rest of the stack.
Known(t, s) ==
  /\ s \in Seq(Steps) /\ (s = <<>> <=> Top(s) = "idle")
  /\ Owns(s) => t \in Callers /\ Top(s) \in {"read", "end", "use", "mark", "signal"} \cup InKill
  /\ Top(s) \in {"read", "end", "use"} => Owns(s)
  /\ Top(s) \in InLease \cup {"wait", "settle", "use", "end"} => t \in Callers
  /\ Holds(s) <=> t \in Callers \cup {Reaper} /\ Top(s) \notin {"idle", "wait"}
  /\ Retires(s) => t \in Stoppers \cup {Quitter}
  /\ Top(s) \in {"retire", "unlist"} => Retires(s)
  /\ Top(s) \in {"ungate", "sweep"} => t = Quitter /\ ~Retires(s)
  /\ Top(s) = "again" => t = Reaper

\* The top of a well-shaped stack tells whose it is and what it holds.
LEMMA ShapeFacts ==
  ASSUME NEW t \in Threads, NEW s, Shaped(t, s)
  PROVE  Known(t, s)
<1>f. "mark" \in Steps /\ "find" \in Steps
  BY StepNames
<1>o. "signal" \in Steps /\ "owner" \in Steps
  BY StepNames
<1>u. "wait" \in Steps /\ "use" \in Steps
  BY StepNames
<1>r. "retire" \in Steps
  BY StepNames
<1>a. "again" \in Steps
  BY StepNames
<1>1. CASE s = Bare
  BY <1>1, Named DEF Known, Bare, InLease, InKill
<1>2. ASSUME NEW r \in Bases(t), s = r PROVE Known(t, s)
  <2>1. /\ s \in Seq(Steps) /\ Top(s) \in {"unlock", "end", "pick", "idle", "unlist"}
        /\ Owns(s) <=> Top(s) = "end"
        /\ Retires(s) <=> Top(s) = "unlist"
        /\ Holds(s) <=> t \in Callers \cup {Reaper}
        /\ Top(s) \in {"end", "pick"} => t \in Callers
        /\ Top(s) = "idle" <=> s = <<>>
        /\ Retires(s) => t \in Stoppers \cup {Quitter}
    BY <1>2, BaseFacts DEF Bare
  <2>2. Top(s) = "idle" => t \notin Callers \cup {Reaper}
    BY <2>1, <1>2, Named, Kinds DEF Bases, Bare
  <2> QED BY <2>1, <2>2 DEF Known, InLease, InKill
<1>3. ASSUME NEW r \in Bases(t), NEW h \in InKill, s = Push(h, r) PROVE Known(t, s)
  <2>1. r \in Seq(Steps) /\ (Owns(r) => t \in Callers) /\ (Holds(r) <=> t \in Callers \cup {Reaper})
        /\ (Retires(r) => t \in Stoppers \cup {Quitter})
    BY BaseFacts
  <2>2. /\ s \in Seq(Steps) /\ s # <<>> /\ Top(s) = h
        /\ (Owns(s) <=> Owns(r)) /\ (Holds(s) <=> Holds(r)) /\ (Retires(s) <=> Retires(r))
    <3> h \in Steps /\ h \notin {"read", "end", "unlock", "unlist"}
      BY StepNames DEF InKill
    <3> QED BY <1>3, <2>1, PushFacts
  <2> QED BY <2>1, <2>2 DEF Known, InLease, InKill
<1>4. ASSUME NEW r \in Bases(t), s = Push("mark", Push("find", r)) PROVE Known(t, s)
  <2>1. r \in Seq(Steps) /\ (Owns(r) => t \in Callers) /\ (Holds(r) <=> t \in Callers \cup {Reaper})
        /\ (Retires(r) => t \in Stoppers \cup {Quitter})
    BY BaseFacts
  <2>2. LET n == Push("find", r) IN
        /\ n \in Seq(Steps) /\ n # <<>> 
        /\ (Owns(n) <=> Owns(r)) /\ (Holds(n) <=> Holds(r)) /\ (Retires(n) <=> Retires(r))
    BY <2>1, <1>f, PushFacts
  <2>3. /\ s \in Seq(Steps) /\ s # <<>> /\ Top(s) = "mark"
        /\ (Owns(s) <=> Owns(r)) /\ (Holds(s) <=> Holds(r)) /\ (Retires(s) <=> Retires(r))
    BY <1>4, <2>2, <1>f, PushFacts
  <2> QED BY <2>1, <2>3 DEF Known, InLease, InKill
<1>5. ASSUME NEW r \in Bases(t), s = Push("signal", Push("owner", r)) PROVE Known(t, s)
  <2>1. r \in Seq(Steps) /\ (Owns(r) => t \in Callers) /\ (Holds(r) <=> t \in Callers \cup {Reaper})
        /\ (Retires(r) => t \in Stoppers \cup {Quitter})
    BY BaseFacts
  <2>2. LET n == Push("owner", r) IN
        /\ n \in Seq(Steps) /\ n # <<>> 
        /\ (Owns(n) <=> Owns(r)) /\ (Holds(n) <=> Holds(r)) /\ (Retires(n) <=> Retires(r))
    BY <2>1, <1>o, PushFacts
  <2>3. /\ s \in Seq(Steps) /\ s # <<>> /\ Top(s) = "signal"
        /\ (Owns(s) <=> Owns(r)) /\ (Holds(s) <=> Holds(r)) /\ (Retires(s) <=> Retires(r))
    BY <1>5, <2>2, <1>o, PushFacts
  <2> QED BY <2>1, <2>3 DEF Known, InLease, InKill
<1>6. ASSUME NEW r \in Bases(t), r # Bare, t \in Stoppers \cup {Quitter},
             s = Push("retire", Push("mark", Push("find", r)))
      PROVE  Known(t, s)
  <2>1. Retires(r) /\ r \in Seq(Steps) /\ ~Owns(r) /\ ~Holds(r)
    BY <1>6, BaseFacts, Kinds
  <2>2. LET n == Push("find", r) IN
        n \in Seq(Steps) /\ Retires(n) /\ ~Owns(n) /\ ~Holds(n)
    BY <2>1, <1>f, PushFacts
  <2>3. LET n == Push("mark", Push("find", r)) IN
        n \in Seq(Steps) /\ Retires(n) /\ ~Owns(n) /\ ~Holds(n)
    BY <2>2, <1>f, PushFacts
  <2> DEFINE m == Push("mark", Push("find", r))
  <2> HIDE DEF m
  <2>4. s \in Seq(Steps) /\ s # <<>> /\ Top(s) = "retire" /\ Retires(s) /\ ~Owns(s) /\ ~Holds(s)
    <3>1. m \in Seq(Steps) /\ Retires(m) /\ ~Owns(m) /\ ~Holds(m) /\ s = Push("retire", m)
      BY <1>6, <2>3 DEF m
    <3> QED BY <3>1, <1>r, PushFacts
  <2> QED BY <1>6, <2>4, Kinds DEF Known, InLease, InKill
<1>7. ASSUME t \in Callers, s = Push("wait", Bare) PROVE Known(t, s)
  <2>1. Bare \in Seq(Steps) /\ ~Owns(Bare) /\ ~Holds(Bare) /\ ~Retires(Bare)
    BY Named
  <2>2. s \in Seq(Steps) /\ s # <<>> /\ Top(s) = "wait" /\ ~Retires(s) /\ ~Owns(s) /\ ~Holds(s)
    BY <1>7, <1>u, <2>1, PushFacts
  <2> QED BY <1>7, <2>2 DEF Known, InLease, InKill
<1>12. ASSUME t \in Callers, s = Push("use", End) PROVE Known(t, s)
  <2>1. End \in Seq(Steps) /\ Owns(End) /\ Holds(End) /\ ~Retires(End)
    BY Named
  <2>2. s \in Seq(Steps) /\ s # <<>> /\ Top(s) = "use" /\ ~Retires(s) /\ Owns(s) /\ Holds(s)
    BY <1>12, <1>u, <2>1, PushFacts
  <2> QED BY <1>12, <2>2 DEF Known, InLease, InKill
<1>8. ASSUME t \in Callers, NEW h \in InLease, s = Push(h, Unlock) PROVE Known(t, s)
  <2>1. s \in Seq(Steps) /\ s # <<>> /\ Top(s) = h /\ ~Retires(s) /\ Holds(s)
        /\ (Owns(s) <=> h \in {"read", "end"})
    <3> h \in Steps /\ h \notin {"unlock", "unlist"}
      BY StepNames DEF InLease
    <3> QED BY <1>8, Named, PushFacts
  <2> QED BY <1>8, <2>1 DEF Known, InLease, InKill
<1>9. ASSUME t \in Callers, NEW h \in {"end", "settle"}, NEW r \in {Unlock, Again}, s = Push(h, r)
      PROVE  Known(t, s)
  <2>1. s \in Seq(Steps) /\ s # <<>> /\ Top(s) = h /\ ~Retires(s) /\ Holds(s)
        /\ (Owns(s) <=> h \in {"read", "end"})
    <3> h \in Steps /\ h \notin {"unlock", "unlist"}
      BY StepNames
    <3> r \in Seq(Steps) /\ ~Owns(r) /\ Holds(r) /\ ~Retires(r)
      BY Named
    <3> QED BY <1>9, PushFacts
  <2> QED BY <1>9, <2>1 DEF Known, InLease, InKill
<1>10. ASSUME t = Reaper, s = Push("again", Unlock) PROVE Known(t, s)
  <2>1. s \in Seq(Steps) /\ s # <<>> /\ Top(s) = "again" /\ ~Retires(s) /\ Holds(s) /\ ~Owns(s)
    BY <1>10, <1>a, Named, PushFacts
  <2> QED BY <1>10, <2>1 DEF Known, InLease, InKill
<1>11. ASSUME t = Quitter, s \in {Ungating, Sweeping} PROVE Known(t, s)
  BY <1>11, Named, Kinds DEF Known, InLease, InKill
<1> QED BY <1>1, <1>2, <1>3, <1>4, <1>5, <1>6, <1>7, <1>8, <1>9, <1>10, <1>11, <1>12 DEF Shaped

\* The same flags: in the same call.
Same(s, n) == (Owns(n) <=> Owns(s)) /\ (Holds(n) <=> Holds(s)) /\ (Retires(n) <=> Retires(s))
Goes(t, s, n, x) == Shaped(t, n) /\ Same(s, n) /\ Top(n) = x

\* The top of each form a stack can have.
LEMMA Tops ==
  /\ \A t \in Threads : \A r \in Bases(t) :
       /\ r \in Seq(Steps) /\ Push("find", r) \in Seq(Steps) /\ Push("owner", r) \in Seq(Steps)
       /\ Push("mark", Push("find", r)) \in Seq(Steps)
       /\ Top(Push("mark", Push("find", r))) = "mark"
       /\ Top(Push("signal", Push("owner", r))) = "signal"
       /\ Top(Push("retire", Push("mark", Push("find", r)))) = "retire"
       /\ \A h \in InKill : Top(Push(h, r)) = h
  /\ Top(Push("wait", Bare)) = "wait" /\ Top(Push("use", End)) = "use"
  /\ \A h \in InLease : Top(Push(h, Unlock)) = h
  /\ \A h \in {"end", "settle"}, r \in {Unlock, Again} : Top(Push(h, r)) = h
  /\ Top(Push("again", Unlock)) = "again"
<1>1. ASSUME NEW t \in Threads, NEW r \in Bases(t)
      PROVE  /\ r \in Seq(Steps) /\ Push("find", r) \in Seq(Steps) /\ Push("owner", r) \in Seq(Steps)
             /\ Push("mark", Push("find", r)) \in Seq(Steps)
             /\ Top(Push("mark", Push("find", r))) = "mark"
             /\ Top(Push("signal", Push("owner", r))) = "signal"
             /\ Top(Push("retire", Push("mark", Push("find", r)))) = "retire"
             /\ \A h \in InKill : Top(Push(h, r)) = h
  <2>1. r \in Seq(Steps)
    BY BaseFacts
  <2>2. /\ "find" \in Steps /\ "owner" \in Steps /\ "mark" \in Steps /\ "signal" \in Steps
        /\ "retire" \in Steps /\ \A h \in InKill : h \in Steps
    BY StepNames
  <2>3. Push("find", r) \in Seq(Steps)
    BY <2>1, <2>2, PushFacts, Zenon
  <2>4. Push("owner", r) \in Seq(Steps)
    BY <2>1, <2>2, PushFacts, Zenon
  <2>5. Push("mark", Push("find", r)) \in Seq(Steps) /\ Top(Push("mark", Push("find", r))) = "mark"
    BY <2>3, <2>2, PushFacts, Zenon
  <2>6. Top(Push("signal", Push("owner", r))) = "signal"
    BY <2>4, <2>2, PushFacts, Zenon
  <2>7. Top(Push("retire", Push("mark", Push("find", r)))) = "retire"
    BY <2>5, <2>2, PushFacts, Zenon
  <2>8. \A h \in InKill : Top(Push(h, r)) = h
    BY <2>1, <2>2, PushFacts, Zenon
  <2> QED BY <2>1, <2>3, <2>4, <2>5, <2>6, <2>7, <2>8
<1>n. Bare \in Seq(Steps) /\ Unlock \in Seq(Steps) /\ End \in Seq(Steps) /\ Again \in Seq(Steps)
  BY Named
<1>s. /\ "wait" \in Steps /\ "use" \in Steps /\ "end" \in Steps /\ "settle" \in Steps
      /\ "again" \in Steps /\ \A h \in InLease : h \in Steps
  BY StepNames
<1>2. Top(Push("wait", Bare)) = "wait" /\ Top(Push("use", End)) = "use"
  BY <1>n, <1>s, PushFacts, Zenon
<1>3. \A h \in InLease : Top(Push(h, Unlock)) = h
  BY <1>n, <1>s, PushFacts, Zenon
<1>4. \A h \in {"end", "settle"}, r \in {Unlock, Again} : Top(Push(h, r)) = h
  BY <1>n, <1>s, PushFacts, Zenon
<1>5. Top(Push("again", Unlock)) = "again"
  BY <1>n, <1>s, PushFacts, Zenon
<1> QED BY <1>1, <1>2, <1>3, <1>4, <1>5

\* The stack under each top.
Form(t, s) ==
  /\ Top(s) \in InKill => \E r \in Bases(t) : s = Push(Top(s), r)
  /\ Top(s) = "mark" => \E r \in Bases(t) : s = Push("mark", Push("find", r))
  /\ Top(s) = "signal" => \E r \in Bases(t) : s = Push("signal", Push("owner", r))
  /\ Top(s) = "retire" => \E r \in Bases(t) : s = Push("retire", Push("mark", Push("find", r)))
  /\ Top(s) \in InLease => t \in Callers /\ s = Push(Top(s), Unlock)
  /\ Top(s) \in {"end", "settle"} =>
       t \in Callers /\ \E r \in {Unlock, Again} : s = Push(Top(s), r)
  /\ Top(s) = "wait" => t \in Callers /\ s = Push("wait", Bare)
  /\ Top(s) = "use" => t \in Callers /\ s = Push("use", End)
  /\ Top(s) = "unlock" => s = Unlock
  /\ Top(s) = "unlist" => s = Unlisting \/ (t = Quitter /\ s = Quitting)
  /\ Top(s) = "again" => t = Reaper /\ s = Push("again", Unlock)
  /\ Top(s) = "ungate" => t = Quitter /\ s = Ungating
  /\ Top(s) = "sweep" => t = Quitter /\ s = Sweeping

\* The top of a well-shaped stack determines the rest.
LEMMA Forms ==
  ASSUME NEW t \in Threads, NEW s, Shaped(t, s)
  PROVE  Form(t, s)
<1>1. CASE s = Bare
  BY <1>1, Named DEF Form, InLease, InKill
<1>11. ASSUME t = Quitter, s \in {Ungating, Sweeping} PROVE Form(t, s)
  BY <1>11, Named DEF Form, InLease, InKill
<1>2. ASSUME NEW r \in Bases(t), s = r PROVE Form(t, s)
  <2>1. \/ s = Unlock
        \/ t \in Callers /\ (s = End \/ s = Again)
        \/ s = Bare \/ s = Unlisting \/ (t = Quitter /\ s = Quitting)
    BY <1>2, Kinds DEF Bases
  <2>2. s = Unlock \/ s = Bare \/ s = Unlisting \/ (t = Quitter /\ s = Quitting) => Form(t, s)
    BY Named DEF Form, InLease, InKill
  <2>3. t \in Callers /\ s = End => Form(t, s)
    BY Named DEF Form, InLease, InKill, End
  <2>4. t \in Callers /\ s = Again => Form(t, s)
    BY Named DEF Form, InLease, InKill, Again
  <2> QED BY <2>1, <2>2, <2>3, <2>4
<1>3. ASSUME NEW r \in Bases(t), NEW h \in InKill, s = Push(h, r) PROVE Form(t, s)
  <2>1. Top(s) = h
    BY <1>3, Tops
  <2> QED BY <2>1, <1>3 DEF Form, InLease, InKill
<1>4. ASSUME NEW r \in Bases(t), s = Push("mark", Push("find", r)) PROVE Form(t, s)
  <2>1. Top(s) = "mark"
    BY <1>4, Tops
  <2> QED BY <2>1, <1>4 DEF Form, InLease, InKill
<1>5. ASSUME NEW r \in Bases(t), s = Push("signal", Push("owner", r)) PROVE Form(t, s)
  <2>1. Top(s) = "signal"
    BY <1>5, Tops
  <2> QED BY <2>1, <1>5 DEF Form, InLease, InKill
<1>6. ASSUME NEW r \in Bases(t), s = Push("retire", Push("mark", Push("find", r))) PROVE Form(t, s)
  <2>1. Top(s) = "retire"
    BY <1>6, Tops
  <2> QED BY <2>1, <1>6 DEF Form, InLease, InKill
<1>7. ASSUME t \in Callers, s = Push("wait", Bare) \/ s = Push("use", End) PROVE Form(t, s)
  BY <1>7, Tops DEF Form, InLease, InKill
<1>8. ASSUME t \in Callers, NEW h \in InLease, s = Push(h, Unlock) PROVE Form(t, s)
  <2>1. Top(s) = h
    BY <1>8, Tops
  <2> QED BY <2>1, <1>8 DEF Form, InLease, InKill
<1>9. ASSUME t \in Callers, NEW h \in {"end", "settle"}, NEW r \in {Unlock, Again}, s = Push(h, r)
      PROVE  Form(t, s)
  <2>1. Top(s) = h
    BY <1>9, Tops
  <2> QED BY <2>1, <1>9 DEF Form, InLease, InKill
<1>10. ASSUME t = Reaper, s = Push("again", Unlock) PROVE Form(t, s)
  <2>1. Top(s) = "again"
    BY <1>10, Tops
  <2> QED BY <2>1, <1>10 DEF Form, InLease, InKill
<1> QED BY <1>1, <1>2, <1>3, <1>4, <1>5, <1>6, <1>7, <1>8, <1>9, <1>10, <1>11 DEF Shaped

\* A step inside kill(): the next one, another one on the same base, or back.
LEMMA KillMoves ==
  ASSUME NEW t \in Threads, NEW s, Shaped(t, s), Top(s) \in InKill
  PROVE  /\ \A x \in InKill : Goes(t, s, <<x>> \o Tail(s), x)
         /\ Goes(t, s, SignalFrom \o Tail(s), "signal")
         /\ LET n == <<>> \o Tail(s) IN
              Shaped(t, n) /\ Same(s, n) /\ Top(n) \in {"unlock", "end", "pick", "idle", "unlist"}
<1>1. PICK r \in Bases(t) : s = Push(Top(s), r)
  BY Forms DEF Form
<1> DEFINE h == Top(s)
<1>2. h \in Steps /\ h \notin {"read", "end", "unlock", "unlist"}
  BY StepNames DEF InKill
<1> HIDE DEF h
<1>3. r \in Seq(Steps) /\ s = Push(h, r)
  BY <1>1, BaseFacts DEF h
<1>4. Same(r, s)
  BY <1>2, <1>3, PushFacts DEF Same
<1>5. ASSUME NEW x \in InKill PROVE Goes(t, s, <<x>> \o Tail(s), x)
  <2>1. x \in Steps /\ x \notin {"read", "end", "unlock", "unlist"}
    BY StepNames DEF InKill
  <2>2. <<x>> \o Tail(s) = Push(x, r)
    BY <1>2, <1>3, Pushed
  <2>3. Top(Push(x, r)) = x /\ Same(r, Push(x, r))
    BY <1>3, <2>1, PushFacts DEF Same
  <2>4. Shaped(t, Push(x, r))
    BY DEF Shaped
  <2> QED BY <2>2, <2>3, <2>4, <1>4 DEF Goes, Same
<1>6. Goes(t, s, SignalFrom \o Tail(s), "signal")
  <2>1. "signal" \in Steps /\ "owner" \in Steps
    BY StepNames
  <2>2. SignalFrom \o Tail(s) = Push("signal", Push("owner", r))
    BY <1>2, <1>3, <2>1, PushedTwo DEF SignalFrom
  <2>3. Push("owner", r) \in Seq(Steps) /\ Same(r, Push("owner", r))
    BY <1>3, <2>1, PushFacts DEF Same
  <2> DEFINE o == Push("owner", r)
  <2> HIDE DEF o
  <2>4. Top(Push("signal", o)) = "signal" /\ Same(o, Push("signal", o))
    BY <2>3, <2>1, PushFacts DEF Same, o
  <2>5. Shaped(t, Push("signal", o))
    BY DEF Shaped, o
  <2> QED BY <2>2, <2>3, <2>4, <2>5, <1>4 DEF Goes, Same, o
<1>7. LET n == <<>> \o Tail(s) IN
        Shaped(t, n) /\ Same(s, n) /\ Top(n) \in {"unlock", "end", "pick", "idle", "unlist"}
  <2>1. <<>> \o Tail(s) = r
    BY <1>2, <1>3, Popped
  <2>2. Shaped(t, r)
    BY DEF Shaped
  <2>3. Top(r) \in {"unlock", "end", "pick", "idle", "unlist"}
    BY BaseFacts
  <2> QED BY <2>1, <2>2, <2>3, <1>4 DEF Same
<1> QED BY <1>5, <1>6, <1>7

\* A step that is over.
LEMMA Pops ==
  ASSUME NEW t \in Threads, NEW s, Shaped(t, s)
  PROVE  LET n == <<>> \o Tail(s) IN
         /\ Top(s) = "mark" => Goes(t, s, n, "find")
         /\ Top(s) = "signal" => Goes(t, s, n, "owner")
         /\ Top(s) = "retire" => Goes(t, s, n, "mark")
         /\ Top(s) = "wait" => Goes(t, s, n, "idle")
         /\ Top(s) = "use" => Goes(t, s, n, "end")
         /\ Top(s) = "again" => Goes(t, s, n, "unlock")
         /\ Top(s) = "ungate" => Goes(t, s, n, "sweep")
         /\ Top(s) = "sweep" => Goes(t, s, n, "idle")
         /\ Top(s) = "settle" => Shaped(t, n) /\ Same(s, n) /\ Top(n) \in {"unlock", "pick"}
         /\ Top(s) \in InLease \ {"read"} => Goes(t, s, n, "unlock")
         /\ Top(s) = "unlock" => n = Bare
         /\ Top(s) = "unlist" => n = Bare \/ (t = Quitter /\ n = Ungating)
<1> DEFINE n == <<>> \o Tail(s)
<1>n. /\ Bare \in Seq(Steps) /\ Unlock \in Seq(Steps) /\ End \in Seq(Steps)
      /\ Again \in Seq(Steps) /\ Sweeping \in Seq(Steps) /\ Ungating \in Seq(Steps)
  BY Named
<1>f. Form(t, s)
  BY Forms
<1>u. ASSUME NEW x \in Steps, NEW r \in Seq(Steps), s = Push(x, r), x \notin {"read", "end", "unlock", "unlist"}
      PROVE  n = r /\ Same(s, n)
  <2>1. n = r
    BY <1>u, Popped
  <2>2. /\ Owns(Push(x, r)) <=> Owns(r)
        /\ Holds(Push(x, r)) <=> Holds(r)
        /\ Retires(Push(x, r)) <=> Retires(r)
    BY <1>u, PushFacts
  <2> QED BY <1>u, <2>1, <2>2 DEF Same
<1>v. ASSUME NEW x \in Steps, NEW r \in Seq(Steps), s = Push(x, r)
      PROVE  n = r
  BY <1>v, Popped
<1> HIDE DEF n
<1>1. ASSUME Top(s) = "mark" PROVE Goes(t, s, n, "find")
  <2>1. PICK r \in Bases(t) : s = Push("mark", Push("find", r))
    BY <1>1, <1>f DEF Form
  <2>2. "mark" \in Steps /\ Push("find", r) \in Seq(Steps) /\ "find" \in InKill
    BY StepNames, Tops DEF InKill
  <2>3. n = Push("find", r) /\ Same(s, n)
    BY <2>1, <2>2, <1>u
  <2>4. Shaped(t, n) /\ Top(n) = "find"
    BY <2>3, <2>2, Tops DEF Shaped
  <2> QED BY <2>3, <2>4 DEF Goes
<1>2. ASSUME Top(s) = "signal" PROVE Goes(t, s, n, "owner")
  <2>1. PICK r \in Bases(t) : s = Push("signal", Push("owner", r))
    BY <1>2, <1>f DEF Form
  <2>2. "signal" \in Steps /\ Push("owner", r) \in Seq(Steps) /\ "owner" \in InKill
    BY StepNames, Tops DEF InKill
  <2>3. n = Push("owner", r) /\ Same(s, n)
    BY <2>1, <2>2, <1>u
  <2>4. Shaped(t, n) /\ Top(n) = "owner"
    BY <2>3, <2>2, Tops DEF Shaped
  <2> QED BY <2>3, <2>4 DEF Goes
<1>3. ASSUME Top(s) = "retire" PROVE Goes(t, s, n, "mark")
  <2>1. PICK r \in Bases(t) : s = Push("retire", Push("mark", Push("find", r)))
    BY <1>3, <1>f DEF Form
  <2>2. "retire" \in Steps /\ Push("mark", Push("find", r)) \in Seq(Steps)
    BY StepNames, Tops
  <2>3. n = Push("mark", Push("find", r)) /\ Same(s, n)
    BY <2>1, <2>2, <1>u
  <2>4. Shaped(t, n) /\ Top(n) = "mark"
    BY <2>3, Tops DEF Shaped
  <2> QED BY <2>3, <2>4 DEF Goes
<1>4. ASSUME Top(s) = "wait" PROVE Goes(t, s, n, "idle")
  <2>1. "wait" \in Steps
    BY StepNames
  <2>2. n = Bare /\ Same(s, n)
    BY <1>4, <1>f, <1>n, <1>u, <2>1 DEF Form
  <2> QED BY <2>2, Named DEF Goes, Shaped
<1>5. ASSUME Top(s) = "use" PROVE Goes(t, s, n, "end")
  <2>1. "use" \in Steps
    BY StepNames
  <2>2. n = End /\ Same(s, n) /\ t \in Callers
    BY <1>5, <1>f, <1>n, <1>u, <2>1 DEF Form
  <2>3. End \in Bases(t)
    BY <2>2 DEF Bases
  <2> QED BY <2>2, <2>3, Named DEF Goes, Shaped
<1>6. ASSUME Top(s) = "again" PROVE Goes(t, s, n, "unlock")
  <2>1. "again" \in Steps
    BY StepNames
  <2>2. n = Unlock /\ Same(s, n) /\ t = Reaper
    BY <1>6, <1>f, <1>n, <1>u, <2>1 DEF Form
  <2>3. Unlock \in Bases(t)
    BY <2>2, Kinds DEF Bases
  <2> QED BY <2>2, <2>3, Named DEF Goes, Shaped
<1>7. ASSUME Top(s) = "ungate" PROVE Goes(t, s, n, "sweep")
  <2>1. "ungate" \in Steps
    BY StepNames
  <2>2. n = Sweeping /\ Same(s, n) /\ t = Quitter
    BY <1>7, <1>f, <1>n, <1>u, <2>1 DEF Form, Ungating
  <2> QED BY <2>2, Named DEF Goes, Shaped
<1>8. ASSUME Top(s) = "sweep" PROVE Goes(t, s, n, "idle")
  <2>1. "sweep" \in Steps
    BY StepNames
  <2>2. n = Bare /\ Same(s, n)
    BY <1>8, <1>f, <1>n, <1>u, <2>1 DEF Form, Sweeping
  <2> QED BY <2>2, Named DEF Goes, Shaped
<1>9. ASSUME Top(s) = "settle"
      PROVE  Shaped(t, n) /\ Same(s, n) /\ Top(n) \in {"unlock", "pick"}
  <2>1. "settle" \in Steps
    BY StepNames
  <2>2. PICK r \in {Unlock, Again} : t \in Callers /\ s = Push("settle", r)
    BY <1>9, <1>f DEF Form
  <2>3. n = r /\ Same(s, n)
    BY <2>1, <2>2, <1>n, <1>u
  <2>4. r \in Bases(t)
    BY <2>2 DEF Bases
  <2> QED BY <2>3, <2>4, Named DEF Shaped
<1>10. ASSUME Top(s) \in InLease \ {"read"} PROVE Goes(t, s, n, "unlock")
  <2>1. Top(s) \in Steps /\ Top(s) \notin {"read", "end", "unlock", "unlist"}
    BY <1>10, StepNames DEF InLease
  <2>2. t \in Callers /\ s = Push(Top(s), Unlock)
    BY <1>10, <1>f DEF Form
  <2>3. n = Unlock /\ Same(s, n)
    BY <2>1, <2>2, <1>n, <1>u, Zenon
  <2>4. Unlock \in Bases(t)
    BY <2>2 DEF Bases
  <2> QED BY <2>3, <2>4, Named DEF Goes, Shaped
<1>11. ASSUME Top(s) = "unlock" PROVE n = Bare
  <2>1. "unlock" \in Steps
    BY StepNames
  <2> QED BY <1>11, <1>f, <1>n, <1>v, <2>1 DEF Form, Unlock
<1>12. ASSUME Top(s) = "unlist" PROVE n = Bare \/ (t = Quitter /\ n = Ungating)
  <2>1. "unlist" \in Steps
    BY StepNames
  <2> QED BY <1>12, <1>f, <1>n, <1>v, <2>1 DEF Form, Unlisting, Quitting
<1> QED BY <1>1, <1>2, <1>3, <1>4, <1>5, <1>6, <1>7, <1>8, <1>9, <1>10, <1>11, <1>12 DEF n

\* A literal of one or two steps is a stack.
LEMMA Appends ==
  ASSUME NEW x \in Steps, NEW y \in Steps, NEW r \in Seq(Steps)
  PROVE  <<x, y>> \o r = Push(x, Push(y, r)) /\ <<x, y>> = Push(x, Push(y, Bare))
         /\ <<x>> = Push(x, Bare)
<1>1. <<x, y>> \o Tail(Push(x, r)) = Push(x, Push(y, r))
  BY PushedTwo
<1>2. Tail(Push(x, r)) = r
  BY Pushes, Zenon
<1>3. Bare \in Seq(Steps) /\ <<x, y>> \in Seq(Steps) /\ <<x>> \in Seq(Steps)
  BY Named
<1>4. <<x, y>> \o Tail(Push(x, Bare)) = Push(x, Push(y, Bare))
  BY <1>3, PushedTwo
<1>5. Tail(Push(x, Bare)) = Bare
  BY <1>3, Pushes, Zenon
<1>6. <<x, y>> \o Bare = <<x, y>> /\ <<x>> \o Bare = <<x>>
  BY <1>3, ConcatEmptySeq DEF Bare
<1> QED BY <1>1, <1>2, <1>4, <1>5, <1>6 DEF Push

\* What a thread starts with.
LEMMA Starts ==
  ASSUME NEW t \in Threads
  PROVE  /\ t \in Callers => LET n == <<"wait">> IN
              Shaped(t, n) /\ Top(n) = "wait" /\ ~Owns(n) /\ ~Holds(n) /\ ~Retires(n)
         /\ t \in Stoppers => LET n == Kill IN
              Shaped(t, n) /\ Top(n) = "mark" /\ ~Owns(n) /\ ~Holds(n) /\ ~Retires(n)
         /\ t \in Stoppers => LET n == <<"retire">> \o Kill \o <<"unlist">> IN
              Shaped(t, n) /\ Top(n) = "retire" /\ ~Owns(n) /\ ~Holds(n) /\ Retires(n)
         /\ t = Reaper => LET n == <<"again", "unlock">> IN
              Shaped(t, n) /\ Top(n) = "again" /\ ~Owns(n) /\ Holds(n) /\ ~Retires(n)
         /\ t = Quitter => LET n == (<<"retire">> \o Kill \o <<"unlist">>) \o <<"ungate", "sweep">> IN
              Shaped(t, n) /\ Top(n) = "retire" /\ ~Owns(n) /\ ~Holds(n) /\ Retires(n)
         /\ t = Quitter => LET n == <<>> \o <<"ungate", "sweep">> IN
              Shaped(t, n) /\ Top(n) = "ungate" /\ ~Owns(n) /\ ~Holds(n) /\ ~Retires(n)
<1>n. /\ Bare \in Seq(Steps) /\ ~Owns(Bare) /\ ~Holds(Bare) /\ ~Retires(Bare)
      /\ Unlock \in Seq(Steps) /\ Unlisting \in Seq(Steps) /\ Quitting \in Seq(Steps)
  BY Named
<1>s. /\ "wait" \in Steps /\ "mark" \in Steps /\ "find" \in Steps /\ "retire" \in Steps
      /\ "unlist" \in Steps /\ "again" \in Steps /\ "unlock" \in Steps /\ "ungate" \in Steps
      /\ "sweep" \in Steps
  BY StepNames
<1>a. /\ \A a, b, c \in Seq(Steps) : (a \o b) \o c = a \o (b \o c)
      /\ Kill \in Seq(Steps) /\ \A x \in Steps : <<x>> \in Seq(Steps)
      /\ <<"ungate", "sweep">> \in Seq(Steps)
  BY <1>s, ConcatAssociative DEF Kill
<1>t. /\ <<"ungate", "sweep">> = Ungating
      /\ <<"again", "unlock">> = Push("again", Unlock)
      /\ Kill = Push("mark", Push("find", Bare))
      /\ <<"wait">> = Push("wait", Bare)
      /\ <<"unlist">> = Unlisting
  BY <1>n, <1>s, Appends, Zenon DEF Ungating, Sweeping, Unlock, Kill, Unlisting
<1>k. \A r \in Seq(Steps) : Kill \o r = Push("mark", Push("find", r))
  BY <1>s, Appends, Zenon DEF Kill
<1>r. <<"retire">> \o Kill \o <<"unlist">> = Push("retire", Push("mark", Push("find", Unlisting)))
  <2>0. <<"retire">> \in Seq(Steps) /\ <<"unlist">> \in Seq(Steps)
    BY <1>a, <1>s
  <2>1. <<"retire">> \o Kill \o <<"unlist">> = <<"retire">> \o (Kill \o <<"unlist">>)
    BY <2>0, <1>a, ConcatAssociative, Zenon
  <2> QED BY <2>1, <1>k, <1>n, <1>t DEF Push
<1>q. (<<"retire">> \o Kill \o <<"unlist">>) \o <<"ungate", "sweep">>
        = Push("retire", Push("mark", Push("find", Quitting)))
  <2>0. <<"retire">> \in Seq(Steps) /\ <<"unlist">> \in Seq(Steps)
    BY <1>a, <1>s
  <2>1. <<"retire">> \o Kill \in Seq(Steps)
    BY <2>0, <1>a, ConcatProperties, Zenon
  <2>2. (<<"retire">> \o Kill \o <<"unlist">>) \o <<"ungate", "sweep">>
          = (<<"retire">> \o Kill) \o (<<"unlist">> \o <<"ungate", "sweep">>)
    BY <2>0, <2>1, <1>a, ConcatAssociative, Zenon
  <2>3. <<"unlist">> \o <<"ungate", "sweep">> = Quitting
    BY <1>t DEF Quitting, Push
  <2>4. (<<"retire">> \o Kill) \o Quitting = <<"retire">> \o (Kill \o Quitting)
    <3>1. Quitting \in Seq(Steps) /\ Kill \in Seq(Steps)
      BY <1>n, <1>a
    <3> QED BY <2>0, <3>1, ConcatAssociative
  <2> QED BY <2>2, <2>3, <2>4, <1>k, <1>n DEF Push
<1>1. ASSUME t \in Callers
      PROVE  LET n == <<"wait">> IN
              Shaped(t, n) /\ Top(n) = "wait" /\ ~Owns(n) /\ ~Holds(n) /\ ~Retires(n)
  <2>1. LET n == Push("wait", Bare) IN ~Owns(n) /\ ~Holds(n) /\ ~Retires(n) /\ Top(n) = "wait"
    <3>1. "wait" \in Steps
      BY <1>s
    <3> QED BY <3>1, <1>n, PushFacts
  <2> QED BY <1>1, <2>1, <1>t DEF Shaped
<1>2. ASSUME t \in Stoppers
      PROVE  LET n == Kill IN
              Shaped(t, n) /\ Top(n) = "mark" /\ ~Owns(n) /\ ~Holds(n) /\ ~Retires(n)
  <2>1. Bare \in Bases(t)
    BY <1>2, Kinds DEF Bases
  <2>2. Shaped(t, Kill)
    BY <2>1, <1>t DEF Shaped
  <2>3. Top(Kill) = "mark"
    BY <1>t, <2>1, Tops
  <2>4. "mark" \notin {"read", "end", "use"} \cup InKill
    BY DEF InKill
  <2>5. Known(t, Kill) /\ Form(t, Kill)
    BY <2>2, ShapeFacts, Forms
  <2>6. ~Owns(Kill) /\ ~Holds(Kill)
    BY <2>5, <1>2, Kinds DEF Known
  <2>7. ~Retires(Kill)
    <3>1. LET m == Push("find", Bare) IN m \in Seq(Steps) /\ ~Retires(m)
      <4>1. "find" \in Steps
        BY <1>s
      <4> QED BY <4>1, <1>n, PushFacts
    <3>2. "mark" \in Steps
      BY <1>s
    <3> DEFINE m == Push("find", Bare)
    <3> HIDE DEF m
    <3>3. ~Retires(Push("mark", m))
      BY <3>1, <3>2, PushFacts DEF m
    <3> QED BY <3>3, <1>t DEF m
  <2> QED BY <2>2, <2>3, <2>6, <2>7
<1>3. ASSUME t \in Stoppers
      PROVE  LET n == <<"retire">> \o Kill \o <<"unlist">> IN
              Shaped(t, n) /\ Top(n) = "retire" /\ ~Owns(n) /\ ~Holds(n) /\ Retires(n)
  <2> DEFINE n == <<"retire">> \o Kill \o <<"unlist">>
  <2>1. Unlisting \in Bases(t) /\ Unlisting # Bare
    BY <1>3, Kinds, Named DEF Bases, Bare
  <2>0. n = Push("retire", Push("mark", Push("find", Unlisting)))
    BY <1>r
  <2> HIDE DEF n
  <2>2. Shaped(t, n) /\ Top(n) = "retire"
    BY <2>0, <2>1, <1>3, Tops DEF Shaped
  <2>3. Known(t, n)
    BY <2>2, ShapeFacts
  <2>4. ~Owns(n) /\ ~Holds(n) /\ Retires(n)
    BY <2>2, <2>3, <1>3, Kinds DEF Known
  <2> QED BY <2>2, <2>4 DEF n
<1>4. ASSUME t = Reaper
      PROVE  LET n == <<"again", "unlock">> IN
              Shaped(t, n) /\ Top(n) = "again" /\ ~Owns(n) /\ Holds(n) /\ ~Retires(n)
  <2> DEFINE n == <<"again", "unlock">>
  <2>2. Shaped(t, n) /\ Top(n) = "again"
    BY <1>4, <1>t, Tops DEF Shaped
  <2> HIDE DEF n
  <2>3. Known(t, n)
    BY <2>2, ShapeFacts
  <2>4. ~Owns(n) /\ Holds(n) /\ ~Retires(n)
    BY <2>2, <2>3, <1>4, Kinds DEF Known
  <2> QED BY <2>2, <2>4 DEF n
<1>5. ASSUME t = Quitter
      PROVE  LET n == (<<"retire">> \o Kill \o <<"unlist">>) \o <<"ungate", "sweep">> IN
              Shaped(t, n) /\ Top(n) = "retire" /\ ~Owns(n) /\ ~Holds(n) /\ Retires(n)
  <2> DEFINE n == (<<"retire">> \o Kill \o <<"unlist">>) \o <<"ungate", "sweep">>
  <2>1. Quitting \in Bases(t) /\ Quitting # Bare
    BY <1>5, Kinds, Named DEF Bases, Bare
  <2>0. n = Push("retire", Push("mark", Push("find", Quitting)))
    BY <1>q
  <2> HIDE DEF n
  <2>2. Shaped(t, n) /\ Top(n) = "retire"
    BY <2>0, <2>1, <1>5, Tops DEF Shaped
  <2>3. Known(t, n)
    BY <2>2, ShapeFacts
  <2>4. ~Owns(n) /\ ~Holds(n) /\ Retires(n)
    BY <2>2, <2>3, <1>5, Kinds DEF Known
  <2> QED BY <2>2, <2>4 DEF n
<1>6. ASSUME t = Quitter
      PROVE  LET n == <<>> \o <<"ungate", "sweep">> IN
              Shaped(t, n) /\ Top(n) = "ungate" /\ ~Owns(n) /\ ~Holds(n) /\ ~Retires(n)
  <2>1. <<>> \o <<"ungate", "sweep">> = Ungating
    BY <1>a, <1>t, ConcatEmptySeq, Zenon
  <2> QED BY <1>6, <2>1, Named DEF Shaped
<1> QED BY <1>1, <1>2, <1>3, <1>4, <1>5, <1>6

\* The steps of lease(), by a caller, and what they push.
LEMMA LeaseMoves ==
  ASSUME NEW t \in Threads, NEW s, Shaped(t, s)
  PROVE  /\ Top(s) \in InLease \ {"read"} =>
              /\ \A x \in InLease \ {"read"} : Goes(t, s, <<x>> \o Tail(s), x)
              /\ Goes(t, s, SignalFrom \o Tail(s), "signal")
              /\ Goes(t, s, Kill \o Tail(s), "mark")
         /\ Top(s) = "greet" => LET n == <<"read">> \o Tail(s) IN
              Shaped(t, n) /\ Top(n) = "read"
         /\ Top(s) = "lease" => LET n == <<"use", "end">> \o Tail(s) IN
              Shaped(t, n) /\ Top(n) = "use"
         /\ Top(s) = "read" =>
              /\ Goes(t, s, (Kill \o <<"end">>) \o Tail(s), "mark")
              /\ Goes(t, s, <<"drop", "end">> \o Tail(s), "drop")
              /\ Goes(t, s, <<"end", "pick">> \o Tail(s), "end")
         /\ Top(s) \in {"use", "again"} => Goes(t, s, Kill \o Tail(s), "mark")
         /\ Top(s) = "end" => LET n == <<"settle">> \o Tail(s) IN
              Shaped(t, n) /\ Top(n) = "settle"
         /\ Top(s) = "settle" => Goes(t, s, <<"finish">> \o Tail(s), "finish")
         /\ Top(s) = "wait" => LET n == <<"clear", "unlock">> \o Tail(s) IN
              Shaped(t, n) /\ Top(n) = "clear"
<1>f. Form(t, s)
  BY Forms
<1>n. /\ Bare \in Seq(Steps) /\ Unlock \in Seq(Steps) /\ End \in Seq(Steps) /\ Again \in Seq(Steps)
      /\ Known(t, s)
  BY Named, ShapeFacts
<1>s. /\ "mark" \in Steps /\ "find" \in Steps /\ "signal" \in Steps /\ "owner" \in Steps
      /\ "end" \in Steps /\ "unlock" \in Steps /\ "drop" \in Steps /\ "pick" \in Steps
      /\ "use" \in Steps /\ "clear" \in Steps
  BY StepNames
\* Goes keeps the flags of a caller's stack, which follow from its top.
<1>g. ASSUME t \in Callers, NEW n, Shaped(t, n), Owns(n) <=> Owns(s),
             Top(s) \notin {"idle", "wait"}, Top(n) \notin {"idle", "wait"}
      PROVE  Same(s, n)
  BY <1>g, <1>n, ShapeFacts, Kinds DEF Known, Same
<1>h. ASSUME t \in Callers, NEW r \in {Unlock, End, Again}
      PROVE  /\ Shaped(t, Push("mark", Push("find", r)))
             /\ Shaped(t, Push("signal", Push("owner", r)))
             /\ \A x \in InKill : Shaped(t, Push(x, r)) /\ Top(Push(x, r)) = x
             /\ Top(Push("mark", Push("find", r))) = "mark"
             /\ Top(Push("signal", Push("owner", r))) = "signal"
             /\ \A x \in Steps, y \in Steps : x \notin {"read", "end"} /\ y \notin {"read", "end"}
                  => (Owns(Push(x, Push(y, r))) <=> Owns(r))
             /\ \A x \in Steps : x \notin {"read", "end"} => (Owns(Push(x, r)) <=> Owns(r))
  <2>1. r \in Bases(t) /\ r \in Seq(Steps)
    BY <1>h, <1>n DEF Bases
  <2>2. \A x \in Steps : /\ x \notin {"read", "end"} => (Owns(Push(x, r)) <=> Owns(r))
                         /\ Push(x, r) \in Seq(Steps)
    BY <2>1, PushFacts
  <2>3. ASSUME NEW x \in Steps, NEW y \in Steps, x \notin {"read", "end"}, y \notin {"read", "end"}
        PROVE  Owns(Push(x, Push(y, r))) <=> Owns(r)
    <3> DEFINE m == Push(y, r)
    <3>1. m \in Seq(Steps) /\ (Owns(m) <=> Owns(r))
      BY <2>2, <2>3
    <3> HIDE DEF m
    <3>2. Owns(Push(x, m)) <=> Owns(m)
      BY <3>1, <2>3, PushFacts
    <3> QED BY <3>1, <3>2 DEF m
  <2>4. /\ Shaped(t, Push("mark", Push("find", r)))
        /\ Shaped(t, Push("signal", Push("owner", r)))
        /\ \A x \in InKill : Shaped(t, Push(x, r))
    BY <2>1 DEF Shaped
  <2> QED BY <2>1, <2>2, <2>3, <2>4, Tops
<1>1. ASSUME Top(s) \in InLease \ {"read"}
      PROVE  /\ \A x \in InLease \ {"read"} : Goes(t, s, <<x>> \o Tail(s), x)
             /\ Goes(t, s, SignalFrom \o Tail(s), "signal")
             /\ Goes(t, s, Kill \o Tail(s), "mark")
  <2> DEFINE h == Top(s)
  <2>1. /\ t \in Callers /\ s = Push(h, Unlock) /\ h \in Steps /\ ~Owns(s)
        /\ ~Owns(Unlock) /\ h \notin {"idle", "wait"}
    BY <1>1, <1>f, <1>n, Named, StepNames DEF Form, Known, InLease, InKill
  <2>2. /\ SignalFrom \o Tail(s) = Push("signal", Push("owner", Unlock))
        /\ Kill \o Tail(s) = Push("mark", Push("find", Unlock))
        /\ \A x : <<x>> \o Tail(s) = Push(x, Unlock)
    <3> HIDE DEF h
    <3>1. \A x : <<x>> \o Tail(s) = Push(x, Unlock)
      BY <2>1, <1>n, Pushed
    <3>2. SignalFrom \o Tail(s) = Push("signal", Push("owner", Unlock))
      BY <2>1, <1>n, TwoSteps
    <3>3. Kill \o Tail(s) = Push("mark", Push("find", Unlock))
      BY <2>1, <1>n, TwoSteps
    <3> QED BY <3>1, <3>2, <3>3
  <2>3. ASSUME NEW x \in InLease \ {"read"} PROVE Goes(t, s, <<x>> \o Tail(s), x)
    <3>1. Shaped(t, Push(x, Unlock)) /\ Top(Push(x, Unlock)) = x
      BY <2>1, Tops DEF Shaped
    <3>2. x \in Steps /\ x \notin {"read", "end", "idle", "wait"}
      BY StepNames DEF InLease
    <3>3. ~Owns(Push(x, Unlock))
      BY <2>1, <3>2, <1>h
    <3> QED BY <2>1, <2>2, <3>1, <3>2, <3>3, <1>g DEF Goes
  <2>4. Goes(t, s, SignalFrom \o Tail(s), "signal")
    <3>1. LET n == Push("signal", Push("owner", Unlock)) IN
          Shaped(t, n) /\ Top(n) = "signal" /\ ~Owns(n)
      BY <2>1, <1>s, <1>h
    <3> QED BY <2>1, <2>2, <3>1, <1>g DEF Goes
  <2>5. Goes(t, s, Kill \o Tail(s), "mark")
    <3>1. LET n == Push("mark", Push("find", Unlock)) IN
          Shaped(t, n) /\ Top(n) = "mark" /\ ~Owns(n)
      BY <2>1, <1>s, <1>h
    <3> QED BY <2>1, <2>2, <3>1, <1>g DEF Goes
  <2> QED BY <2>3, <2>4, <2>5
<1>2. ASSUME Top(s) = "greet"
      PROVE  LET n == <<"read">> \o Tail(s) IN Shaped(t, n) /\ Top(n) = "read"
  <2>1. t \in Callers /\ s = Push("greet", Unlock) /\ "greet" \in Steps /\ "read" \in InLease
    BY <1>2, <1>f, StepNames DEF Form, InLease
  <2>2. <<"read">> \o Tail(s) = Push("read", Unlock)
    BY <2>1, <1>n, Pushed
  <2>3. Shaped(t, Push("read", Unlock)) /\ Top(Push("read", Unlock)) = "read"
    BY <2>1, Tops DEF Shaped
  <2> QED BY <2>2, <2>3
<1>3. ASSUME Top(s) = "lease"
      PROVE  LET n == <<"use", "end">> \o Tail(s) IN Shaped(t, n) /\ Top(n) = "use"
  <2>1. t \in Callers /\ s = Push("lease", Unlock) /\ "lease" \in Steps
    BY <1>3, <1>f, StepNames DEF Form, InLease
  <2>2. <<"use", "end">> \o Tail(s) = Push("use", End)
    BY <2>1, <1>n, TwoSteps DEF End
  <2>3. Shaped(t, Push("use", End)) /\ Top(Push("use", End)) = "use"
    BY <2>1, Tops DEF Shaped
  <2> QED BY <2>2, <2>3
<1>4. ASSUME Top(s) = "read"
      PROVE  /\ Goes(t, s, (Kill \o <<"end">>) \o Tail(s), "mark")
             /\ Goes(t, s, <<"drop", "end">> \o Tail(s), "drop")
             /\ Goes(t, s, <<"end", "pick">> \o Tail(s), "end")
  <2>1. t \in Callers /\ s = Push("read", Unlock) /\ "read" \in Steps /\ Owns(s)
    BY <1>4, <1>f, <1>n, StepNames DEF Form, Known, InLease
  <2>2. Owns(End) /\ Owns(Push("end", Again)) /\ Top(Push("end", Again)) = "end"
        /\ Shaped(t, Push("end", Again))
    <3>1. Owns(End) /\ Top(Push("end", Again)) = "end" /\ Shaped(t, Push("end", Again))
      BY <2>1, Named, Tops DEF Shaped
    <3> QED BY <3>1, ShapeFacts DEF Known
  <2>3. /\ (Kill \o <<"end">>) \o Tail(s) = Push("mark", Push("find", End))
        /\ <<"drop", "end">> \o Tail(s) = Push("drop", End)
        /\ <<"end", "pick">> \o Tail(s) = Push("end", Again)
    <3>1. Tail(s) = Unlock
      BY <2>1, <1>n, Pushes, Zenon
    <3>2. (Kill \o <<"end">>) \o Unlock = Kill \o (<<"end">> \o Unlock)
      <4>1. Kill \in Seq(Steps) /\ <<"end">> \in Seq(Steps)
        BY <1>s DEF Kill
      <4> QED BY <4>1, <1>n, ConcatAssociative
    <3>3. <<"end">> \o Unlock = End
      BY DEF End, Push
    <3>4. Kill \o End = Push("mark", Push("find", End))
      <4>1. Kill \o Tail(Push("mark", End)) = Push("mark", Push("find", End))
        BY <1>n, <1>s, TwoSteps
      <4>2. Tail(Push("mark", End)) = End
        BY <1>n, <1>s, Pushes, Zenon
      <4> QED BY <4>1, <4>2
    <3>5. <<"drop", "end">> \o Tail(s) = Push("drop", End)
      BY <2>1, <1>n, TwoSteps DEF End
    <3>6. <<"end", "pick">> \o Tail(s) = Push("end", Again)
      BY <2>1, <1>n, TwoSteps DEF Again
    <3> QED BY <3>1, <3>2, <3>3, <3>4, <3>5, <3>6
  <2>4. LET n == Push("mark", Push("find", End)) IN Shaped(t, n) /\ Top(n) = "mark" /\ Owns(n)
    BY <2>1, <2>2, <1>s, <1>h
  <2>5. LET n == Push("drop", End) IN Shaped(t, n) /\ Top(n) = "drop" /\ Owns(n)
    <3>1. "drop" \in InKill
      BY DEF InKill
    <3> QED BY <3>1, <2>1, <2>2, <1>s, <1>h
  <2>6. Goes(t, s, (Kill \o <<"end">>) \o Tail(s), "mark")
    BY <1>4, <2>1, <2>3, <2>4, <1>g DEF Goes
  <2>7. Goes(t, s, <<"drop", "end">> \o Tail(s), "drop")
    BY <1>4, <2>1, <2>3, <2>5, <1>g DEF Goes
  <2>8. Goes(t, s, <<"end", "pick">> \o Tail(s), "end")
    BY <1>4, <2>1, <2>3, <2>2, <1>g DEF Goes
  <2> QED BY <2>6, <2>7, <2>8
<1>5. ASSUME Top(s) = "use" PROVE Goes(t, s, Kill \o Tail(s), "mark")
  <2>1. t \in Callers /\ s = Push("use", End) /\ Owns(s) /\ Owns(End)
    BY <1>5, <1>f, <1>n, Named DEF Form, Known
  <2>2. Kill \o Tail(s) = Push("mark", Push("find", End))
    BY <2>1, <1>n, <1>s, TwoSteps
  <2>3. LET n == Push("mark", Push("find", End)) IN Shaped(t, n) /\ Top(n) = "mark" /\ Owns(n)
    BY <2>1, <1>s, <1>h
  <2> QED BY <1>5, <2>1, <2>2, <2>3, <1>g DEF Goes
<1>6. ASSUME Top(s) = "again" PROVE Goes(t, s, Kill \o Tail(s), "mark")
  <2>1. t = Reaper /\ s = Push("again", Unlock) /\ "again" \in Steps /\ Unlock \in Bases(t)
    BY <1>6, <1>f, StepNames, Kinds DEF Form, Bases
  <2>2. Kill \o Tail(s) = Push("mark", Push("find", Unlock))
    BY <2>1, <1>n, TwoSteps
  <2> DEFINE n == Push("mark", Push("find", Unlock))
  <2>3. Shaped(t, n) /\ Top(n) = "mark"
    BY <2>1, Tops DEF Shaped
  <2> HIDE DEF n
  <2>4. Same(s, n)
    BY <1>6, <2>1, <2>3, <1>n, ShapeFacts, Kinds DEF Known, Same
  <2> QED BY <2>2, <2>3, <2>4 DEF Goes, n
<1>7. ASSUME Top(s) = "end"
      PROVE  LET n == <<"settle">> \o Tail(s) IN Shaped(t, n) /\ Top(n) = "settle"
  <2>1. PICK r \in {Unlock, Again} : t \in Callers /\ s = Push("end", r)
    BY <1>7, <1>f DEF Form
  <2>2. <<"settle">> \o Tail(s) = Push("settle", r)
    BY <2>1, <1>n, <1>s, Pushed
  <2>3. Shaped(t, Push("settle", r)) /\ Top(Push("settle", r)) = "settle"
    BY <2>1, Tops DEF Shaped
  <2> QED BY <2>2, <2>3
<1>8. ASSUME Top(s) = "settle" PROVE Goes(t, s, <<"finish">> \o Tail(s), "finish")
  <2>1. PICK r \in {Unlock, Again} : t \in Callers /\ s = Push("settle", r) /\ ~Owns(s)
    BY <1>8, <1>f, <1>n DEF Form, Known, InKill
  <2>2. <<"finish">> \o Tail(s) = Push("finish", r)
    BY <2>1, <1>n, StepNames, Pushed
  <2>3. "finish" \in InKill /\ "finish" \in Steps /\ ~Owns(r)
    BY Named, StepNames DEF InKill
  <2>4. Shaped(t, Push("finish", r)) /\ Top(Push("finish", r)) = "finish"
        /\ ~Owns(Push("finish", r))
    BY <2>1, <2>3, <1>h
  <2> QED BY <1>8, <2>1, <2>2, <2>4, <1>g DEF Goes
<1>9. ASSUME Top(s) = "wait"
      PROVE  LET n == <<"clear", "unlock">> \o Tail(s) IN Shaped(t, n) /\ Top(n) = "clear"
  <2>1. t \in Callers /\ s = Push("wait", Bare) /\ "wait" \in Steps /\ "clear" \in InLease
    BY <1>9, <1>f, StepNames DEF Form, InLease
  <2>2. <<"clear", "unlock">> \o Tail(s) = Push("clear", Unlock)
    BY <2>1, <1>n, TwoSteps DEF Unlock
  <2>3. Shaped(t, Push("clear", Unlock)) /\ Top(Push("clear", Unlock)) = "clear"
    BY <2>1, Tops DEF Shaped
  <2> QED BY <2>2, <2>3
<1> QED BY <1>1, <1>2, <1>3, <1>4, <1>5, <1>6, <1>7, <1>8, <1>9

-----------------------------------------------------------------------------
(* Steps that change little besides the stack of their thread.             *)

\* From here on tops are compared, stacks no longer looked into.
LEMMA Turned ==
  ASSUME ShapeInv, NEW t \in Threads, NEW n, Shaped(t, n), todo' = [todo EXCEPT ![t] = n],
         at' \in [Threads -> 0 .. MaxSpawns]
  PROVE  /\ ShapeInv' /\ todo'[t] = n /\ \A u \in Threads \ {t} : todo'[u] = todo[u]
         /\ \A u \in Threads : Known(u, todo[u]) /\ Known(u, todo'[u])
<1>1. n \in Seq(Steps)
  BY ShapeFacts DEF Known
<1>2. /\ todo' \in [Threads -> Seq(Steps)] /\ todo'[t] = n
      /\ \A u \in Threads \ {t} : todo'[u] = todo[u]
  BY <1>1 DEF ShapeInv
<1>3. \A u \in Threads : Shaped(u, todo[u]) /\ Shaped(u, todo'[u])
  BY <1>2 DEF ShapeInv
<1> QED BY <1>2, <1>3, ShapeFacts DEF ShapeInv

\* The pointer shows a child or none, and no child is number 0.
LEMMA TypesOf ==
  ASSUME TypeOK
  PROVE  /\ child \in 0 .. MaxSpawns /\ child \in Children \cup {0} /\ ~(0 \in Children)
         /\ MaxSpawns \in Nat
BY WarmAssumption DEF TypeOK, Children

\* What a quiet step may do: to the tops, and to what they mean.
QuietMove(t, h, n) ==
  \/ /\ h \in {"idle", "wait", "check", "look", "arm", "spawn", "greet", "read", "pick", "use",
               "again", "clear"}
     /\ n \in {"unlock", "look", "pick", "end", "mark", "wait", "idle", "check"}
  \/ h = "await" /\ n = "unlock" /\ ch[at[t]].st = "done" /\ ch[at[t]].proc = "none"
  \/ h = "await" /\ n = "publish" /\ ch[at[t]].st = "done" /\ ch[at[t]].proc # "none"
  \/ h = "publish" /\ n = "signal"
  \/ h = "owner" /\ n = "finish"
  \/ h \in {"owner", "finish"} /\ Foreign(t, at[t])
       /\ n \in {"unlock", "end", "pick", "idle", "unlist"}
  \/ h = "finish" /\ n = "drop" /\ ch[at[t]].settled
  \/ h = "settle" /\ n = "finish" /\ ch[at[t]].signaled
  \/ h = "settle" /\ n \in {"unlock", "pick"} /\ ~ch[at[t]].signaled
  \/ h = "read" /\ n = "drop" /\ ch[at[t]].signaled
  \/ h = "find" /\ n = "pend" /\ child = 0
  \/ h = "pend" /\ n \in {"unlock", "end", "pick", "idle", "unlist"}
  \/ h = "look" /\ n = "arm" /\ child = 0
  \/ h = "mark" /\ n = "find" /\ ours'
  \/ h = "retire" /\ n = "mark" /\ retired'
  \/ h = "ungate" /\ n = "sweep"

\* A step that only turns its thread's stack, as QuietMove allows, keeps the invariant.
LEMMA QuietStep ==
  ASSUME IInv, NEW t \in Threads, NEW s, Shaped(t, s), Same(todo[t], s),
         todo' = [todo EXCEPT ![t] = s], QuietMove(t, Top(todo[t]), Top(s)),
         UNCHANGED <<at, io, child, listed, ch, queue, quit, told, fell, late, torn>>,
         {pending', hooked', ours', retired'} \subseteq BOOLEAN,
         gate' \in Threads \cup {Nobody}, ours => ours', retired => retired'
  PROVE  IInv'
<1> USE DEF IInv
<1>g. UNCHANGED <<at, io, child, listed, ch, queue, quit, told, fell, late, torn>>
  OBVIOUS
<1>s. /\ ShapeInv' /\ todo'[t] = s /\ \A u \in Threads \ {t} : todo'[u] = todo[u]
      /\ \A u \in Threads : Known(u, todo[u]) /\ Known(u, todo'[u])
  BY Turned, <1>g DEF ShapeInv
<1> DEFINE h == Top(todo[t])
           n == Top(s)
<1>t. /\ Top(todo[t]) = h /\ Top(todo'[t]) = n
      /\ Owns(todo'[t]) <=> Owns(todo[t])
      /\ Holds(todo'[t]) <=> Holds(todo[t])
      /\ Retires(todo'[t]) <=> Retires(todo[t])
  BY <1>s DEF Same
<1>c. child \in Children \cup {0} /\ ~(0 \in Children)
  BY TypesOf
<1>q. /\ n \notin {"spawn", "await", "close", "greet", "lease", "settle", "owner", "ungate"}
      /\ h \notin {"signal", "close", "drop"}
      /\ h = "await" => ch[at[t]].st = "done"
      /\ h = "await" /\ n # "publish" => ch[at[t]].proc = "none"
      /\ n = "publish" => h = "await" /\ ch[at[t]].proc # "none"
      /\ n = "signal" => h = "publish"
      /\ h = "publish" => n = "signal"
      /\ n = "finish" => ch[at[t]].signaled \/ h = "owner"
      /\ n = "drop" => ch[at[t]].signaled \/ h = "finish"
      /\ n = "drop" => ch[at[t]].settled \/ h = "read"
      /\ n \in {"finish", "drop"} => h \in {"owner", "settle", "finish", "read"}
      /\ h \in {"owner", "finish", "settle"} /\ ch[at[t]].signaled =>
           n = "finish" \/ (n = "drop" /\ ch[at[t]].settled) \/ Foreign(t, at[t])
      /\ n \in {"arm", "pend"} => child = 0
      /\ n = "find" => ours'
      /\ h = "retire" => retired'
      /\ n = "unlist" => h \in {"owner", "finish", "pend"}
      /\ n = "sweep" => h = "ungate"
      /\ n = "retire" => FALSE
  BY DEF QuietMove
<1> HIDE DEF h, n
<1>1. TypeOK'
  <2>1. \A u \in Threads : ToSet(todo'[u]) \subseteq Steps
    BY <1>s DEF Known, ToSet
  <2> QED BY <1>g, <2>1 DEF TypeOK
<1>2. IoInv'
  BY <1>g, <1>s, <1>t DEF IoInv
<1>3. RequestInv' /\ QueueInv' /\ ProcInv'
  BY <1>g, <1>s, <1>t, <1>q DEF RequestInv, QueueInv, ProcInv, Requests
<1>4. WaitInv'
  BY <1>g, <1>s, <1>t, <1>q DEF WaitInv, At
<1>5. PrivateInv'
  BY <1>g, <1>s, <1>t, <1>q DEF PrivateInv
<1>6. HoldInv'
  BY <1>g, <1>s, <1>t, <1>q DEF HoldInv
<1>7. AtInv'
  BY <1>g, <1>s, <1>t, <1>q DEF AtInv, Known, PrivateInv
<1>8. OwnerInv'
  BY <1>g, <1>s, <1>t DEF OwnerInv
<1>9. LimboInv'
  BY <1>g, <1>s, <1>t, <1>q DEF LimboInv, At, Foreign
<1>10. LateInv'
  BY <1>g, <1>s, <1>t, <1>q DEF LateInv
<1>11. DeathInv'
  BY <1>g, <1>s, <1>t, <1>q, <1>c DEF DeathInv, At, PrivateInv
<1>12. RetireInv'
  <2>1. h \in {"publish", "settle", "read"} => ~Retires(todo[t])
    BY <1>s, <1>t, Kinds DEF Known, InLease
  <2>2. ASSUME NEW u \in Threads, Retires(todo'[u]), Top(todo'[u]) # "retire"
        PROVE  /\ retired'
               /\ Top(todo'[u]) = "pend" => child' = 0
               /\ Top(todo'[u]) = "signal" => child' \in {0, at'[u]}
               /\ Top(todo'[u]) \in {"owner", "finish", "close", "drop", "unlist"} => ~Alive(child)'
    <3>1. CASE u # t
      BY <2>2, <3>1, <1>g, <1>s DEF RetireInv, Alive
    <3>2. CASE u = t
      BY <2>1, <2>2, <3>2, <1>g, <1>t, <1>q, <1>c DEF RetireInv, Alive
    <3> QED BY <3>1, <3>2
  <2>3. (\E u \in Threads : Top(todo'[u]) \in {"ungate", "sweep"}) => ~listed
    BY <1>g, <1>s, <1>t, <1>q DEF RetireInv
  <2>4. /\ quit' = "done" => ~listed'
        /\ ~listed' => retired' /\ ~Alive(child)'
    BY <1>g DEF RetireInv, Alive
  <2> QED BY <2>2, <2>3, <2>4, <1>g DEF RetireInv
<1>13. NoOrphan'
  BY <1>g, <1>s, <1>t, <1>q DEF NoOrphan, Alive, Next_, Top
<1>14. DeathsAreReal'
  BY <1>g DEF DeathsAreReal
<1> QED BY <1>s, <1>1, <1>2, <1>3, <1>4, <1>5, <1>6, <1>7, <1>8, <1>9, <1>10, <1>11, <1>12,
           <1>13, <1>14

\* kill() marks the death as its own.
LEMMA MarkStep ==
  ASSUME IInv, NEW t \in Threads, Mark(t)
  PROVE  IInv'
<1> USE DEF IInv
<1>k. t \in Threads /\ Shaped(t, todo[t]) /\ Top(todo[t]) = "mark"
  BY Kinds DEF Mark, Next_, Top, ShapeInv
<1>1. ASSUME Mark(t) PROVE IInv'
  <2> DEFINE s == <<>> \o Tail(todo[t])
  <2>1. /\ todo' = [todo EXCEPT ![t] = s]
        /\ UNCHANGED <<at, io, child, listed, ch, queue, quit, told, fell, late, torn>>
        /\ pending' = pending
        /\ hooked' = hooked
        /\ ours' = TRUE
        /\ retired' = retired
        /\ gate' = gate
    BY <1>1 DEF Mark, Then, warm, super, ghosts
  <2>2. Shaped(t, s) /\ Same(todo[t], s) /\ Top(s) = "find"
    BY <1>k, Pops DEF Goes, InLease
  <2> HIDE DEF s
  <2>3. QuietMove(t, Top(todo[t]), Top(s))
    BY <1>k, <1>1, <2>1, <2>2 DEF QuietMove
  <2>4. {pending', hooked', ours', retired'} \subseteq BOOLEAN /\ gate' \in Threads \cup {Nobody}
        /\ (ours => ours') /\ (retired => retired')
    BY <2>1 DEF TypeOK
  <2> QED BY <1>k, <2>1, <2>2, <2>3, <2>4, QuietStep
<1> QED BY <1>1

\* kill() found no child: the next publication is refused.
LEMMA PendStep ==
  ASSUME IInv, NEW t \in Threads, Pend(t)
  PROVE  IInv'
<1> USE DEF IInv
<1>k. t \in Threads /\ Shaped(t, todo[t]) /\ Top(todo[t]) = "pend"
  BY Kinds DEF Pend, Next_, Top, ShapeInv
<1>1. ASSUME Pend(t) PROVE IInv'
  <2> DEFINE s == <<>> \o Tail(todo[t])
  <2>1. /\ todo' = [todo EXCEPT ![t] = s]
        /\ UNCHANGED <<at, io, child, listed, ch, queue, quit, told, fell, late, torn>>
        /\ pending' = TRUE
        /\ hooked' = hooked
        /\ ours' = ours
        /\ retired' = retired
        /\ gate' = gate
    BY <1>1 DEF Pend, Then, warm, super, ghosts
  <2>2. Shaped(t, s) /\ Same(todo[t], s) /\ Top(s) \in {"unlock", "end", "pick", "idle", "unlist"}
    BY <1>k, KillMoves DEF Goes, InKill
  <2> HIDE DEF s
  <2>3. QuietMove(t, Top(todo[t]), Top(s))
    BY <1>k, <1>1, <2>1, <2>2 DEF QuietMove
  <2>4. {pending', hooked', ours', retired'} \subseteq BOOLEAN /\ gate' \in Threads \cup {Nobody}
        /\ (ours => ours') /\ (retired => retired')
    BY <2>1 DEF TypeOK
  <2> QED BY <1>k, <2>1, <2>2, <2>3, <2>4, QuietStep
<1> QED BY <1>1

\* A foreign owner settles itself; otherwise the killer does.
LEMMA OwnerStep ==
  ASSUME IInv, NEW t \in Threads, Owner(t)
  PROVE  IInv'
<1> USE DEF IInv
<1>k. t \in Threads /\ Shaped(t, todo[t]) /\ Top(todo[t]) = "owner"
  BY Kinds DEF Owner, Next_, Top, ShapeInv
<1>1. ASSUME Owner(t), Foreign(t, at[t]) PROVE IInv'
  <2> DEFINE s == <<>> \o Tail(todo[t])
  <2>1. /\ todo' = [todo EXCEPT ![t] = s]
        /\ UNCHANGED <<at, io, child, listed, ch, queue, quit, told, fell, late, torn>>
        /\ pending' = pending
        /\ hooked' = hooked
        /\ ours' = ours
        /\ retired' = retired
        /\ gate' = gate
    BY <1>1 DEF Owner, Then, warm, super, ghosts
  <2>2. Shaped(t, s) /\ Same(todo[t], s) /\ Top(s) \in {"unlock", "end", "pick", "idle", "unlist"}
    BY <1>k, KillMoves DEF Goes, InKill
  <2> HIDE DEF s
  <2>3. QuietMove(t, Top(todo[t]), Top(s))
    BY <1>k, <1>1, <2>1, <2>2 DEF QuietMove
  <2>4. {pending', hooked', ours', retired'} \subseteq BOOLEAN /\ gate' \in Threads \cup {Nobody}
        /\ (ours => ours') /\ (retired => retired')
    BY <2>1 DEF TypeOK
  <2> QED BY <1>k, <2>1, <2>2, <2>3, <2>4, QuietStep
<1>2. ASSUME Owner(t), ~Foreign(t, at[t]) PROVE IInv'
  <2> DEFINE s == <<"finish">> \o Tail(todo[t])
  <2>1. /\ todo' = [todo EXCEPT ![t] = s]
        /\ UNCHANGED <<at, io, child, listed, ch, queue, quit, told, fell, late, torn>>
        /\ pending' = pending
        /\ hooked' = hooked
        /\ ours' = ours
        /\ retired' = retired
        /\ gate' = gate
    BY <1>2 DEF Owner, Then, warm, super, ghosts
  <2>2. Shaped(t, s) /\ Same(todo[t], s) /\ Top(s) = "finish"
    BY <1>k, KillMoves DEF Goes, InKill
  <2> HIDE DEF s
  <2>3. QuietMove(t, Top(todo[t]), Top(s))
    BY <1>k, <1>2, <2>1, <2>2 DEF QuietMove
  <2>4. {pending', hooked', ours', retired'} \subseteq BOOLEAN /\ gate' \in Threads \cup {Nobody}
        /\ (ours => ours') /\ (retired => retired')
    BY <2>1 DEF TypeOK
  <2> QED BY <1>k, <2>1, <2>2, <2>3, <2>4, QuietStep
<1> QED BY <1>1, <1>2

\* A caller asks for the lease.
LEMMA AskStep ==
  ASSUME IInv, NEW c \in Callers, Ask(c)
  PROVE  IInv'
<1> USE DEF IInv
<1>k. c \in Threads /\ Shaped(c, todo[c]) /\ Top(todo[c]) = "idle" /\ todo[c] = Bare
  BY Kinds DEF Ask, Next_, Top, ShapeInv, Start, Bare
<1>1. ASSUME Ask(c) PROVE IInv'
  <2> DEFINE s == <<"wait">>
  <2>1. /\ todo' = [todo EXCEPT ![c] = s]
        /\ UNCHANGED <<at, io, child, listed, ch, queue, quit, told, fell, late, torn>>
        /\ pending' = pending
        /\ hooked' = hooked
        /\ ours' = ours
        /\ retired' = retired
        /\ gate' = gate
    BY <1>1 DEF Ask, Start, warm, super, ghosts
  <2>2. Shaped(c, s) /\ Same(todo[c], s) /\ Top(s) = "wait"
    BY <1>k, Starts, Named DEF Same
  <2> HIDE DEF s
  <2>3. QuietMove(c, Top(todo[c]), Top(s))
    BY <1>k, <1>1, <2>1, <2>2 DEF QuietMove
  <2>4. {pending', hooked', ours', retired'} \subseteq BOOLEAN /\ gate' \in Threads \cup {Nobody}
        /\ (ours => ours') /\ (retired => retired')
    BY <2>1 DEF TypeOK
  <2> QED BY <1>k, <2>1, <2>2, <2>3, <2>4, QuietStep
<1> QED BY <1>1

\* A caller gives up waiting.
LEMMA GiveUpStep ==
  ASSUME IInv, NEW c \in Callers, GiveUp(c)
  PROVE  IInv'
<1> USE DEF IInv
<1>k. c \in Threads /\ Shaped(c, todo[c]) /\ Top(todo[c]) = "wait"
  BY Kinds DEF GiveUp, Next_, Top, ShapeInv
<1>1. ASSUME GiveUp(c) PROVE IInv'
  <2> DEFINE s == <<>> \o Tail(todo[c])
  <2>1. /\ todo' = [todo EXCEPT ![c] = s]
        /\ UNCHANGED <<at, io, child, listed, ch, queue, quit, told, fell, late, torn>>
        /\ pending' = pending
        /\ hooked' = hooked
        /\ ours' = ours
        /\ retired' = retired
        /\ gate' = gate
    BY <1>1 DEF GiveUp, Then, warm, super, ghosts
  <2>2. Shaped(c, s) /\ Same(todo[c], s) /\ Top(s) = "idle"
    BY <1>k, Pops DEF Goes, InLease
  <2> HIDE DEF s
  <2>3. QuietMove(c, Top(todo[c]), Top(s))
    BY <1>k, <1>1, <2>1, <2>2 DEF QuietMove
  <2>4. {pending', hooked', ours', retired'} \subseteq BOOLEAN /\ gate' \in Threads \cup {Nobody}
        /\ (ours => ours') /\ (retired => retired')
    BY <2>1 DEF TypeOK
  <2> QED BY <1>k, <2>1, <2>2, <2>3, <2>4, QuietStep
<1> QED BY <1>1

\* A lease forgets the kill() of the one before.
LEMMA ClearPendingStep ==
  ASSUME IInv, NEW c \in Callers, ClearPending(c)
  PROVE  IInv'
<1> USE DEF IInv
<1>k. c \in Threads /\ Shaped(c, todo[c]) /\ Top(todo[c]) = "clear"
  BY Kinds DEF ClearPending, Next_, Top, ShapeInv
<1>1. ASSUME ClearPending(c) PROVE IInv'
  <2> DEFINE s == <<"check">> \o Tail(todo[c])
  <2>1. /\ todo' = [todo EXCEPT ![c] = s]
        /\ UNCHANGED <<at, io, child, listed, ch, queue, quit, told, fell, late, torn>>
        /\ pending' = FALSE
        /\ hooked' = hooked
        /\ ours' = ours
        /\ retired' = retired
        /\ gate' = gate
    BY <1>1 DEF ClearPending, Then, warm, super, ghosts
  <2>2. Shaped(c, s) /\ Same(todo[c], s) /\ Top(s) = "check"
    BY <1>k, LeaseMoves DEF Goes, InLease
  <2> HIDE DEF s
  <2>3. QuietMove(c, Top(todo[c]), Top(s))
    BY <1>k, <1>1, <2>1, <2>2 DEF QuietMove
  <2>4. {pending', hooked', ours', retired'} \subseteq BOOLEAN /\ gate' \in Threads \cup {Nobody}
        /\ (ours => ours') /\ (retired => retired')
    BY <2>1 DEF TypeOK
  <2> QED BY <1>k, <2>1, <2>2, <2>3, <2>4, QuietStep
<1> QED BY <1>1

\* A lease is refused after retire() and shutdown.
LEMMA CheckStep ==
  ASSUME IInv, NEW c \in Callers, Check(c)
  PROVE  IInv'
<1> USE DEF IInv
<1>k. c \in Threads /\ Shaped(c, todo[c]) /\ Top(todo[c]) = "check"
  BY Kinds DEF Check, Next_, Top, ShapeInv
<1>1. ASSUME Check(c), quit # "no" \/ retired PROVE IInv'
  <2> DEFINE s == <<>> \o Tail(todo[c])
  <2>1. /\ todo' = [todo EXCEPT ![c] = s]
        /\ UNCHANGED <<at, io, child, listed, ch, queue, quit, told, fell, late, torn>>
        /\ pending' = pending
        /\ hooked' = hooked
        /\ ours' = ours
        /\ retired' = retired
        /\ gate' = gate
    BY <1>1 DEF Check, Then, warm, super, ghosts
  <2>2. Shaped(c, s) /\ Same(todo[c], s) /\ Top(s) = "unlock"
    BY <1>k, Pops DEF Goes, InLease
  <2> HIDE DEF s
  <2>3. QuietMove(c, Top(todo[c]), Top(s))
    BY <1>k, <1>1, <2>1, <2>2 DEF QuietMove
  <2>4. {pending', hooked', ours', retired'} \subseteq BOOLEAN /\ gate' \in Threads \cup {Nobody}
        /\ (ours => ours') /\ (retired => retired')
    BY <2>1 DEF TypeOK
  <2> QED BY <1>k, <2>1, <2>2, <2>3, <2>4, QuietStep
<1>2. ASSUME Check(c), ~(quit # "no" \/ retired) PROVE IInv'
  <2> DEFINE s == <<"look">> \o Tail(todo[c])
  <2>1. /\ todo' = [todo EXCEPT ![c] = s]
        /\ UNCHANGED <<at, io, child, listed, ch, queue, quit, told, fell, late, torn>>
        /\ pending' = pending
        /\ hooked' = hooked
        /\ ours' = ours
        /\ retired' = retired
        /\ gate' = gate
    BY <1>2 DEF Check, Then, warm, super, ghosts
  <2>2. Shaped(c, s) /\ Same(todo[c], s) /\ Top(s) = "look"
    BY <1>k, LeaseMoves DEF Goes, InLease
  <2> HIDE DEF s
  <2>3. QuietMove(c, Top(todo[c]), Top(s))
    BY <1>k, <1>2, <2>1, <2>2 DEF QuietMove
  <2>4. {pending', hooked', ours', retired'} \subseteq BOOLEAN /\ gate' \in Threads \cup {Nobody}
        /\ (ours => ours') /\ (retired => retired')
    BY <2>1 DEF TypeOK
  <2> QED BY <1>k, <2>1, <2>2, <2>3, <2>4, QuietStep
<1> QED BY <1>1, <1>2

\* No child is spawned.
LEMMA NoSpawnStep ==
  ASSUME IInv, NEW c \in Callers, NoSpawn(c)
  PROVE  IInv'
<1> USE DEF IInv
<1>k. c \in Threads /\ Shaped(c, todo[c]) /\ Top(todo[c]) = "arm"
  BY Kinds DEF NoSpawn, Next_, Top, ShapeInv
<1>1. ASSUME NoSpawn(c) PROVE IInv'
  <2> DEFINE s == <<>> \o Tail(todo[c])
  <2>1. /\ todo' = [todo EXCEPT ![c] = s]
        /\ UNCHANGED <<at, io, child, listed, ch, queue, quit, told, fell, late, torn>>
        /\ pending' = pending
        /\ hooked' = hooked
        /\ ours' = ours
        /\ retired' = retired
        /\ gate' = gate
    BY <1>1 DEF NoSpawn, Then, warm, super, ghosts
  <2>2. Shaped(c, s) /\ Same(todo[c], s) /\ Top(s) = "unlock"
    BY <1>k, Pops DEF Goes, InLease
  <2> HIDE DEF s
  <2>3. QuietMove(c, Top(todo[c]), Top(s))
    BY <1>k, <1>1, <2>1, <2>2 DEF QuietMove
  <2>4. {pending', hooked', ours', retired'} \subseteq BOOLEAN /\ gate' \in Threads \cup {Nobody}
        /\ (ours => ours') /\ (retired => retired')
    BY <2>1 DEF TypeOK
  <2> QED BY <1>k, <2>1, <2>2, <2>3, <2>4, QuietStep
<1> QED BY <1>1

\* The spawner has answered.
LEMMA SpawnedStep ==
  ASSUME IInv, NEW c \in Callers, Spawned(c)
  PROVE  IInv'
<1> USE DEF IInv
<1>k. c \in Threads /\ Shaped(c, todo[c]) /\ Top(todo[c]) = "await"
  BY Kinds DEF Spawned, Next_, Top, ShapeInv
<1>1. ASSUME Spawned(c), ch[at[c]].proc = "none" PROVE IInv'
  <2> DEFINE s == <<>> \o Tail(todo[c])
  <2>1. /\ todo' = [todo EXCEPT ![c] = s]
        /\ UNCHANGED <<at, io, child, listed, ch, queue, quit, told, fell, late, torn>>
        /\ pending' = pending
        /\ hooked' = hooked
        /\ ours' = ours
        /\ retired' = retired
        /\ gate' = gate
    BY <1>1 DEF Spawned, Then, warm, super, ghosts
  <2>2. Shaped(c, s) /\ Same(todo[c], s) /\ Top(s) = "unlock"
    BY <1>k, Pops DEF Goes, InLease
  <2> HIDE DEF s
  <2>3. QuietMove(c, Top(todo[c]), Top(s))
    BY <1>k, <1>1, <2>1, <2>2 DEF QuietMove, Spawned
  <2>4. {pending', hooked', ours', retired'} \subseteq BOOLEAN /\ gate' \in Threads \cup {Nobody}
        /\ (ours => ours') /\ (retired => retired')
    BY <2>1 DEF TypeOK
  <2> QED BY <1>k, <2>1, <2>2, <2>3, <2>4, QuietStep
<1>2. ASSUME Spawned(c), ch[at[c]].proc # "none" PROVE IInv'
  <2> DEFINE s == <<"publish">> \o Tail(todo[c])
  <2>1. /\ todo' = [todo EXCEPT ![c] = s]
        /\ UNCHANGED <<at, io, child, listed, ch, queue, quit, told, fell, late, torn>>
        /\ pending' = pending
        /\ hooked' = hooked
        /\ ours' = ours
        /\ retired' = retired
        /\ gate' = gate
    BY <1>2 DEF Spawned, Then, warm, super, ghosts
  <2>2. Shaped(c, s) /\ Same(todo[c], s) /\ Top(s) = "publish"
    BY <1>k, LeaseMoves DEF Goes, InLease
  <2> HIDE DEF s
  <2>3. QuietMove(c, Top(todo[c]), Top(s))
    BY <1>k, <1>2, <2>1, <2>2 DEF QuietMove, Spawned
  <2>4. {pending', hooked', ours', retired'} \subseteq BOOLEAN /\ gate' \in Threads \cup {Nobody}
        /\ (ours => ours') /\ (retired => retired')
    BY <2>1 DEF TypeOK
  <2> QED BY <1>k, <2>1, <2>2, <2>3, <2>4, QuietStep
<1> QED BY <1>1, <1>2

\* The work with the pipes is over, or kills the child.
LEMMA UseStep ==
  ASSUME IInv, NEW c \in Callers, Use(c)
  PROVE  IInv'
<1> USE DEF IInv
<1>k. c \in Threads /\ Shaped(c, todo[c]) /\ Top(todo[c]) = "use"
  BY Kinds DEF Use, Next_, Top, ShapeInv
<1>1. ASSUME Use(c), todo' = [todo EXCEPT ![c] = <<>> \o Tail(@)] PROVE IInv'
  <2> DEFINE s == <<>> \o Tail(todo[c])
  <2>1. /\ todo' = [todo EXCEPT ![c] = s]
        /\ UNCHANGED <<at, io, child, listed, ch, queue, quit, told, fell, late, torn>>
        /\ pending' = pending
        /\ hooked' = hooked
        /\ ours' = ours
        /\ retired' = retired
        /\ gate' = gate
    BY <1>1 DEF Use, Then, warm, super, ghosts
  <2>2. Shaped(c, s) /\ Same(todo[c], s) /\ Top(s) = "end"
    BY <1>k, Pops DEF Goes, InLease
  <2> HIDE DEF s
  <2>3. QuietMove(c, Top(todo[c]), Top(s))
    BY <1>k, <1>1, <2>1, <2>2 DEF QuietMove
  <2>4. {pending', hooked', ours', retired'} \subseteq BOOLEAN /\ gate' \in Threads \cup {Nobody}
        /\ (ours => ours') /\ (retired => retired')
    BY <2>1 DEF TypeOK
  <2> QED BY <1>k, <2>1, <2>2, <2>3, <2>4, QuietStep
<1>2. ASSUME Use(c), todo' = [todo EXCEPT ![c] = Kill \o Tail(@)] PROVE IInv'
  <2> DEFINE s == Kill \o Tail(todo[c])
  <2>1. /\ todo' = [todo EXCEPT ![c] = s]
        /\ UNCHANGED <<at, io, child, listed, ch, queue, quit, told, fell, late, torn>>
        /\ pending' = pending
        /\ hooked' = hooked
        /\ ours' = ours
        /\ retired' = retired
        /\ gate' = gate
    BY <1>2 DEF Use, Then, warm, super, ghosts
  <2>2. Shaped(c, s) /\ Same(todo[c], s) /\ Top(s) = "mark"
    BY <1>k, LeaseMoves DEF Goes, InLease
  <2> HIDE DEF s
  <2>3. QuietMove(c, Top(todo[c]), Top(s))
    BY <1>k, <1>2, <2>1, <2>2 DEF QuietMove
  <2>4. {pending', hooked', ours', retired'} \subseteq BOOLEAN /\ gate' \in Threads \cup {Nobody}
        /\ (ours => ours') /\ (retired => retired')
    BY <2>1 DEF TypeOK
  <2> QED BY <1>k, <2>1, <2>2, <2>3, <2>4, QuietStep
<1> QED BY <1>1, <1>2 DEF Use, Then

\* The handshake fails, was interrupted by a kill, or is good.
LEMMA ReadReadyStep ==
  ASSUME IInv, NEW c \in Callers, ReadReady(c)
  PROVE  IInv'
<1> USE DEF IInv
<1>k. c \in Threads /\ Shaped(c, todo[c]) /\ Top(todo[c]) = "read"
  BY Kinds DEF ReadReady, Next_, Top, ShapeInv
<1>1. ASSUME ReadReady(c), todo' = [todo EXCEPT ![c] = (Kill \o <<"end">>) \o Tail(@)] PROVE IInv'
  <2> DEFINE s == (Kill \o <<"end">>) \o Tail(todo[c])
  <2>1. /\ todo' = [todo EXCEPT ![c] = s]
        /\ UNCHANGED <<at, io, child, listed, ch, queue, quit, told, fell, late, torn>>
        /\ pending' = pending
        /\ hooked' = hooked
        /\ ours' = ours
        /\ retired' = retired
        /\ gate' = gate
    BY <1>1 DEF ReadReady, Then, warm, super, ghosts
  <2>2. Shaped(c, s) /\ Same(todo[c], s) /\ Top(s) = "mark"
    BY <1>k, LeaseMoves DEF Goes, InLease
  <2> HIDE DEF s
  <2>3. QuietMove(c, Top(todo[c]), Top(s))
    BY <1>k, <1>1, <2>1, <2>2 DEF QuietMove
  <2>4. {pending', hooked', ours', retired'} \subseteq BOOLEAN /\ gate' \in Threads \cup {Nobody}
        /\ (ours => ours') /\ (retired => retired')
    BY <2>1 DEF TypeOK
  <2> QED BY <1>k, <2>1, <2>2, <2>3, <2>4, QuietStep
<1>2. ASSUME ReadReady(c), ch[at[c]].signaled, todo' = [todo EXCEPT ![c] = <<"drop", "end">> \o Tail(@)] PROVE IInv'
  <2> DEFINE s == <<"drop", "end">> \o Tail(todo[c])
  <2>1. /\ todo' = [todo EXCEPT ![c] = s]
        /\ UNCHANGED <<at, io, child, listed, ch, queue, quit, told, fell, late, torn>>
        /\ pending' = pending
        /\ hooked' = hooked
        /\ ours' = ours
        /\ retired' = retired
        /\ gate' = gate
    BY <1>2 DEF ReadReady, Then, warm, super, ghosts
  <2>2. Shaped(c, s) /\ Same(todo[c], s) /\ Top(s) = "drop"
    BY <1>k, LeaseMoves DEF Goes, InLease
  <2> HIDE DEF s
  <2>3. QuietMove(c, Top(todo[c]), Top(s))
    BY <1>k, <1>2, <2>1, <2>2 DEF QuietMove
  <2>4. {pending', hooked', ours', retired'} \subseteq BOOLEAN /\ gate' \in Threads \cup {Nobody}
        /\ (ours => ours') /\ (retired => retired')
    BY <2>1 DEF TypeOK
  <2> QED BY <1>k, <2>1, <2>2, <2>3, <2>4, QuietStep
<1>3. ASSUME ReadReady(c), todo' = [todo EXCEPT ![c] = <<"end", "pick">> \o Tail(@)] PROVE IInv'
  <2> DEFINE s == <<"end", "pick">> \o Tail(todo[c])
  <2>1. /\ todo' = [todo EXCEPT ![c] = s]
        /\ UNCHANGED <<at, io, child, listed, ch, queue, quit, told, fell, late, torn>>
        /\ pending' = pending
        /\ hooked' = hooked
        /\ ours' = ours
        /\ retired' = retired
        /\ gate' = gate
    BY <1>3 DEF ReadReady, Then, warm, super, ghosts
  <2>2. Shaped(c, s) /\ Same(todo[c], s) /\ Top(s) = "end"
    BY <1>k, LeaseMoves DEF Goes, InLease
  <2> HIDE DEF s
  <2>3. QuietMove(c, Top(todo[c]), Top(s))
    BY <1>k, <1>3, <2>1, <2>2 DEF QuietMove
  <2>4. {pending', hooked', ours', retired'} \subseteq BOOLEAN /\ gate' \in Threads \cup {Nobody}
        /\ (ours => ours') /\ (retired => retired')
    BY <2>1 DEF TypeOK
  <2> QED BY <1>k, <2>1, <2>2, <2>3, <2>4, QuietStep
<1> QED BY <1>1, <1>2, <1>3 DEF ReadReady, Then

\* end_io settles a child that was signalled meanwhile.
LEMMA SettleStep ==
  ASSUME IInv, NEW c \in Callers, Settle(c)
  PROVE  IInv'
<1> USE DEF IInv
<1>k. c \in Threads /\ Shaped(c, todo[c]) /\ Top(todo[c]) = "settle"
  BY Kinds DEF Settle, Next_, Top, ShapeInv
<1>1. ASSUME Settle(c), ch[at[c]].signaled PROVE IInv'
  <2> DEFINE s == <<"finish">> \o Tail(todo[c])
  <2>1. /\ todo' = [todo EXCEPT ![c] = s]
        /\ UNCHANGED <<at, io, child, listed, ch, queue, quit, told, fell, late, torn>>
        /\ pending' = pending
        /\ hooked' = hooked
        /\ ours' = ours
        /\ retired' = retired
        /\ gate' = gate
    BY <1>1 DEF Settle, Then, warm, super, ghosts
  <2>2. Shaped(c, s) /\ Same(todo[c], s) /\ Top(s) = "finish"
    BY <1>k, LeaseMoves DEF Goes, InLease
  <2> HIDE DEF s
  <2>3. QuietMove(c, Top(todo[c]), Top(s))
    BY <1>k, <1>1, <2>1, <2>2 DEF QuietMove
  <2>4. {pending', hooked', ours', retired'} \subseteq BOOLEAN /\ gate' \in Threads \cup {Nobody}
        /\ (ours => ours') /\ (retired => retired')
    BY <2>1 DEF TypeOK
  <2> QED BY <1>k, <2>1, <2>2, <2>3, <2>4, QuietStep
<1>2. ASSUME Settle(c), ~ch[at[c]].signaled PROVE IInv'
  <2> DEFINE s == <<>> \o Tail(todo[c])
  <2>1. /\ todo' = [todo EXCEPT ![c] = s]
        /\ UNCHANGED <<at, io, child, listed, ch, queue, quit, told, fell, late, torn>>
        /\ pending' = pending
        /\ hooked' = hooked
        /\ ours' = ours
        /\ retired' = retired
        /\ gate' = gate
    BY <1>2 DEF Settle, Then, warm, super, ghosts
  <2>2. Shaped(c, s) /\ Same(todo[c], s) /\ Top(s) \in {"unlock", "pick"}
    BY <1>k, Pops DEF Goes, InLease
  <2> HIDE DEF s
  <2>3. QuietMove(c, Top(todo[c]), Top(s))
    BY <1>k, <1>2, <2>1, <2>2 DEF QuietMove
  <2>4. {pending', hooked', ours', retired'} \subseteq BOOLEAN /\ gate' \in Threads \cup {Nobody}
        /\ (ours => ours') /\ (retired => retired')
    BY <2>1 DEF TypeOK
  <2> QED BY <1>k, <2>1, <2>2, <2>3, <2>4, QuietStep
<1> QED BY <1>1, <1>2

\* retire() sets its flag.
LEMMA RetireStep ==
  ASSUME IInv, NEW t \in Threads, Retire(t)
  PROVE  IInv'
<1> USE DEF IInv
<1>k. t \in Threads /\ Shaped(t, todo[t]) /\ Top(todo[t]) = "retire"
  BY Kinds DEF Retire, Next_, Top, ShapeInv
<1>1. ASSUME Retire(t) PROVE IInv'
  <2> DEFINE s == <<>> \o Tail(todo[t])
  <2>1. /\ todo' = [todo EXCEPT ![t] = s]
        /\ UNCHANGED <<at, io, child, listed, ch, queue, quit, told, fell, late, torn>>
        /\ pending' = pending
        /\ hooked' = hooked
        /\ ours' = ours
        /\ retired' = TRUE
        /\ gate' = gate
    BY <1>1 DEF Retire, Then, warm, super, ghosts
  <2>2. Shaped(t, s) /\ Same(todo[t], s) /\ Top(s) = "mark"
    BY <1>k, Pops DEF Goes, InLease
  <2> HIDE DEF s
  <2>3. QuietMove(t, Top(todo[t]), Top(s))
    BY <1>k, <1>1, <2>1, <2>2 DEF QuietMove
  <2>4. {pending', hooked', ours', retired'} \subseteq BOOLEAN /\ gate' \in Threads \cup {Nobody}
        /\ (ours => ours') /\ (retired => retired')
    BY <2>1 DEF TypeOK
  <2> QED BY <1>k, <2>1, <2>2, <2>3, <2>4, QuietStep
<1> QED BY <1>1

\* The reaper has the pipe lock and looks again.
LEMMA EvictStep ==
  ASSUME IInv, Evict
  PROVE  IInv'
<1> USE DEF IInv
<1>k. Reaper \in Threads /\ Shaped(Reaper, todo[Reaper]) /\ Top(todo[Reaper]) = "again"
  BY Kinds DEF Evict, Next_, Top, ShapeInv
<1>1. ASSUME Evict, retired \/ ~Alive(child) PROVE IInv'
  <2> DEFINE s == <<>> \o Tail(todo[Reaper])
  <2>1. /\ todo' = [todo EXCEPT ![Reaper] = s]
        /\ UNCHANGED <<at, io, child, listed, ch, queue, quit, told, fell, late, torn>>
        /\ pending' = pending
        /\ hooked' = hooked
        /\ ours' = ours
        /\ retired' = retired
        /\ gate' = gate
    BY <1>1 DEF Evict, Then, warm, super, ghosts
  <2>2. Shaped(Reaper, s) /\ Same(todo[Reaper], s) /\ Top(s) = "unlock"
    BY <1>k, Pops DEF Goes, InLease
  <2> HIDE DEF s
  <2>3. QuietMove(Reaper, Top(todo[Reaper]), Top(s))
    BY <1>k, <1>1, <2>1, <2>2 DEF QuietMove
  <2>4. {pending', hooked', ours', retired'} \subseteq BOOLEAN /\ gate' \in Threads \cup {Nobody}
        /\ (ours => ours') /\ (retired => retired')
    BY <2>1 DEF TypeOK
  <2> QED BY <1>k, <2>1, <2>2, <2>3, <2>4, QuietStep
<1>2. ASSUME Evict, ~(retired \/ ~Alive(child)) PROVE IInv'
  <2> DEFINE s == Kill \o Tail(todo[Reaper])
  <2>1. /\ todo' = [todo EXCEPT ![Reaper] = s]
        /\ UNCHANGED <<at, io, child, listed, ch, queue, quit, told, fell, late, torn>>
        /\ pending' = pending
        /\ hooked' = hooked
        /\ ours' = ours
        /\ retired' = retired
        /\ gate' = gate
    BY <1>2 DEF Evict, Then, warm, super, ghosts
  <2>2. Shaped(Reaper, s) /\ Same(todo[Reaper], s) /\ Top(s) = "mark"
    BY <1>k, LeaseMoves DEF Goes, InLease
  <2> HIDE DEF s
  <2>3. QuietMove(Reaper, Top(todo[Reaper]), Top(s))
    BY <1>k, <1>2, <2>1, <2>2 DEF QuietMove
  <2>4. {pending', hooked', ours', retired'} \subseteq BOOLEAN /\ gate' \in Threads \cup {Nobody}
        /\ (ours => ours') /\ (retired => retired')
    BY <2>1 DEF TypeOK
  <2> QED BY <1>k, <2>1, <2>2, <2>3, <2>4, QuietStep
<1> QED BY <1>1, <1>2

\* shutdown_all lets the spawns go on, to be refused.
LEMMA UngateStep ==
  ASSUME IInv, Ungate
  PROVE  IInv'
<1> USE DEF IInv
<1>k. Quitter \in Threads /\ Shaped(Quitter, todo[Quitter]) /\ Top(todo[Quitter]) = "ungate"
  BY Kinds DEF Ungate, Next_, Top, ShapeInv
<1>1. ASSUME Ungate PROVE IInv'
  <2> DEFINE s == <<>> \o Tail(todo[Quitter])
  <2>1. /\ todo' = [todo EXCEPT ![Quitter] = s]
        /\ UNCHANGED <<at, io, child, listed, ch, queue, quit, told, fell, late, torn>>
        /\ pending' = pending
        /\ hooked' = hooked
        /\ ours' = ours
        /\ retired' = retired
        /\ gate' = Nobody
    BY <1>1 DEF Ungate, Then, warm, super, ghosts
  <2>2. Shaped(Quitter, s) /\ Same(todo[Quitter], s) /\ Top(s) = "sweep"
    BY <1>k, Pops DEF Goes, InLease
  <2> HIDE DEF s
  <2>3. QuietMove(Quitter, Top(todo[Quitter]), Top(s))
    BY <1>k, <1>1, <2>1, <2>2 DEF QuietMove
  <2>4. {pending', hooked', ours', retired'} \subseteq BOOLEAN /\ gate' \in Threads \cup {Nobody}
        /\ (ours => ours') /\ (retired => retired')
    BY <2>1 DEF TypeOK
  <2> QED BY <1>k, <2>1, <2>2, <2>3, <2>4, QuietStep
<1> QED BY <1>1

-----------------------------------------------------------------------------
(* The updates of a child's record, field by field.                        *)

ChildRecs ==
  [st : {"none", "queued", "starting", "started", "failed", "done"},
   left : BOOLEAN, proc : {"none", "alive", "dead"},
   owner : Threads \cup {Nobody}, signaled : BOOLEAN, settled : BOOLEAN,
   once : Threads \cup {Nobody}]

\* The record of every child has its fields.
LEMMA ChildTypes ==
  ASSUME TypeOK
  PROVE  /\ ch \in [Children -> ChildRecs]
         /\ \A k \in Children : ch[k] \in ChildRecs
BY DEF TypeOK, ChildRecs

\* One child's record is replaced, the others stay.
LEMMA Rewritten ==
  ASSUME TypeOK, NEW k \in Children, NEW r \in ChildRecs, ch' = [ch EXCEPT ![k] = r]
  PROVE  /\ ch' \in [Children -> ChildRecs] /\ ch'[k] = r
         /\ \A j \in Children \ {k} : ch'[j] = ch[j]
BY ChildTypes

\* The state of the request.
LEMMA SetSt ==
  ASSUME TypeOK, NEW k \in Children, NEW v \in {"none", "queued", "starting", "started", "failed", "done"}, ch' = [ch EXCEPT ![k].st = v]
  PROVE  /\ ch' \in [Children -> ChildRecs] /\ \A j \in Children \ {k} : ch'[j] = ch[j]
         /\ ch'[k].st = v /\ ch'[k].left = ch[k].left /\ ch'[k].proc = ch[k].proc /\ ch'[k].owner = ch[k].owner
         /\ ch'[k].signaled = ch[k].signaled /\ ch'[k].settled = ch[k].settled /\ ch'[k].once = ch[k].once
<1> DEFINE r == [ch[k] EXCEPT !.st = v]
<1>1. ch' = [ch EXCEPT ![k] = r]
  OBVIOUS
<1>2. ch[k] \in ChildRecs
  BY ChildTypes
<1>3. r \in ChildRecs
  BY <1>2 DEF ChildRecs
<1>4. /\ r.st = v /\ r.left = ch[k].left /\ r.proc = ch[k].proc /\ r.owner = ch[k].owner
      /\ r.signaled = ch[k].signaled /\ r.settled = ch[k].settled /\ r.once = ch[k].once
  BY <1>2 DEF ChildRecs
<1> HIDE DEF r
<1> QED BY <1>1, <1>3, <1>4, Rewritten

\* The waiter leaves.
LEMMA SetLeft ==
  ASSUME TypeOK, NEW k \in Children, ch' = [ch EXCEPT ![k].left = TRUE]
  PROVE  /\ ch' \in [Children -> ChildRecs] /\ \A j \in Children \ {k} : ch'[j] = ch[j]
         /\ ch'[k].st = ch[k].st /\ ch'[k].left = TRUE /\ ch'[k].proc = ch[k].proc /\ ch'[k].owner = ch[k].owner
         /\ ch'[k].signaled = ch[k].signaled /\ ch'[k].settled = ch[k].settled /\ ch'[k].once = ch[k].once
<1> DEFINE r == [ch[k] EXCEPT !.left = TRUE]
<1>1. ch' = [ch EXCEPT ![k] = r]
  OBVIOUS
<1>2. ch[k] \in ChildRecs
  BY ChildTypes
<1>3. r \in ChildRecs
  BY <1>2 DEF ChildRecs
<1>4. /\ r.st = ch[k].st /\ r.left = TRUE /\ r.proc = ch[k].proc /\ r.owner = ch[k].owner
      /\ r.signaled = ch[k].signaled /\ r.settled = ch[k].settled /\ r.once = ch[k].once
  BY <1>2 DEF ChildRecs
<1> HIDE DEF r
<1> QED BY <1>1, <1>3, <1>4, Rewritten

\* The state of the request and the process.
LEMMA SetRun ==
  ASSUME TypeOK, NEW k \in Children, NEW v \in {"none", "queued", "starting", "started", "failed", "done"}, NEW w \in {"none", "alive", "dead"}, ch' = [ch EXCEPT ![k].st = v, ![k].proc = w]
  PROVE  /\ ch' \in [Children -> ChildRecs] /\ \A j \in Children \ {k} : ch'[j] = ch[j]
         /\ ch'[k].st = v /\ ch'[k].left = ch[k].left /\ ch'[k].proc = w /\ ch'[k].owner = ch[k].owner
         /\ ch'[k].signaled = ch[k].signaled /\ ch'[k].settled = ch[k].settled /\ ch'[k].once = ch[k].once
<1> DEFINE r == [ch[k] EXCEPT !.st = v, !.proc = w]
<1>1. ch' = [ch EXCEPT ![k] = r]
  OBVIOUS
<1>2. ch[k] \in ChildRecs
  BY ChildTypes
<1>3. r \in ChildRecs
  BY <1>2 DEF ChildRecs
<1>4. /\ r.st = v /\ r.left = ch[k].left /\ r.proc = w /\ r.owner = ch[k].owner
      /\ r.signaled = ch[k].signaled /\ r.settled = ch[k].settled /\ r.once = ch[k].once
  BY <1>2 DEF ChildRecs
<1> HIDE DEF r
<1> QED BY <1>1, <1>3, <1>4, Rewritten

\* The process dies.
LEMMA SetDead ==
  ASSUME TypeOK, NEW k \in Children, ch' = [ch EXCEPT ![k].proc = "dead"]
  PROVE  /\ ch' \in [Children -> ChildRecs] /\ \A j \in Children \ {k} : ch'[j] = ch[j]
         /\ ch'[k].st = ch[k].st /\ ch'[k].left = ch[k].left /\ ch'[k].proc = "dead" /\ ch'[k].owner = ch[k].owner
         /\ ch'[k].signaled = ch[k].signaled /\ ch'[k].settled = ch[k].settled /\ ch'[k].once = ch[k].once
<1> DEFINE r == [ch[k] EXCEPT !.proc = "dead"]
<1>1. ch' = [ch EXCEPT ![k] = r]
  OBVIOUS
<1>2. ch[k] \in ChildRecs
  BY ChildTypes
<1>3. r \in ChildRecs
  BY <1>2 DEF ChildRecs
<1>4. /\ r.st = ch[k].st /\ r.left = ch[k].left /\ r.proc = "dead" /\ r.owner = ch[k].owner
      /\ r.signaled = ch[k].signaled /\ r.settled = ch[k].settled /\ r.once = ch[k].once
  BY <1>2 DEF ChildRecs
<1> HIDE DEF r
<1> QED BY <1>1, <1>3, <1>4, Rewritten

\* begin_io and end_io.
LEMMA SetOwner ==
  ASSUME TypeOK, NEW k \in Children, NEW v \in Threads \cup {Nobody}, ch' = [ch EXCEPT ![k].owner = v]
  PROVE  /\ ch' \in [Children -> ChildRecs] /\ \A j \in Children \ {k} : ch'[j] = ch[j]
         /\ ch'[k].st = ch[k].st /\ ch'[k].left = ch[k].left /\ ch'[k].proc = ch[k].proc /\ ch'[k].owner = v
         /\ ch'[k].signaled = ch[k].signaled /\ ch'[k].settled = ch[k].settled /\ ch'[k].once = ch[k].once
<1> DEFINE r == [ch[k] EXCEPT !.owner = v]
<1>1. ch' = [ch EXCEPT ![k] = r]
  OBVIOUS
<1>2. ch[k] \in ChildRecs
  BY ChildTypes
<1>3. r \in ChildRecs
  BY <1>2 DEF ChildRecs
<1>4. /\ r.st = ch[k].st /\ r.left = ch[k].left /\ r.proc = ch[k].proc /\ r.owner = v
      /\ r.signaled = ch[k].signaled /\ r.settled = ch[k].settled /\ r.once = ch[k].once
  BY <1>2 DEF ChildRecs
<1> HIDE DEF r
<1> QED BY <1>1, <1>3, <1>4, Rewritten

\* The child is killed.
LEMMA SetSignaled ==
  ASSUME TypeOK, NEW k \in Children, ch' = [ch EXCEPT ![k].signaled = TRUE, ![k].proc = "dead"]
  PROVE  /\ ch' \in [Children -> ChildRecs] /\ \A j \in Children \ {k} : ch'[j] = ch[j]
         /\ ch'[k].st = ch[k].st /\ ch'[k].left = ch[k].left /\ ch'[k].proc = "dead" /\ ch'[k].owner = ch[k].owner
         /\ ch'[k].signaled = TRUE /\ ch'[k].settled = ch[k].settled /\ ch'[k].once = ch[k].once
<1> DEFINE r == [ch[k] EXCEPT !.signaled = TRUE, !.proc = "dead"]
<1>1. ch' = [ch EXCEPT ![k] = r]
  OBVIOUS
<1>2. ch[k] \in ChildRecs
  BY ChildTypes
<1>3. r \in ChildRecs
  BY <1>2 DEF ChildRecs
<1>4. /\ r.st = ch[k].st /\ r.left = ch[k].left /\ r.proc = "dead" /\ r.owner = ch[k].owner
      /\ r.signaled = TRUE /\ r.settled = ch[k].settled /\ r.once = ch[k].once
  BY <1>2 DEF ChildRecs
<1> HIDE DEF r
<1> QED BY <1>1, <1>3, <1>4, Rewritten

\* A thread closes the pipes.
LEMMA SetOnce ==
  ASSUME TypeOK, NEW k \in Children, NEW v \in Threads \cup {Nobody}, ch' = [ch EXCEPT ![k].once = v]
  PROVE  /\ ch' \in [Children -> ChildRecs] /\ \A j \in Children \ {k} : ch'[j] = ch[j]
         /\ ch'[k].st = ch[k].st /\ ch'[k].left = ch[k].left /\ ch'[k].proc = ch[k].proc /\ ch'[k].owner = ch[k].owner
         /\ ch'[k].signaled = ch[k].signaled /\ ch'[k].settled = ch[k].settled /\ ch'[k].once = v
<1> DEFINE r == [ch[k] EXCEPT !.once = v]
<1>1. ch' = [ch EXCEPT ![k] = r]
  OBVIOUS
<1>2. ch[k] \in ChildRecs
  BY ChildTypes
<1>3. r \in ChildRecs
  BY <1>2 DEF ChildRecs
<1>4. /\ r.st = ch[k].st /\ r.left = ch[k].left /\ r.proc = ch[k].proc /\ r.owner = ch[k].owner
      /\ r.signaled = ch[k].signaled /\ r.settled = ch[k].settled /\ r.once = v
  BY <1>2 DEF ChildRecs
<1> HIDE DEF r
<1> QED BY <1>1, <1>3, <1>4, Rewritten

\* The pipes are closed.
LEMMA SetSettled ==
  ASSUME TypeOK, NEW k \in Children, ch' = [ch EXCEPT ![k].settled = TRUE, ![k].once = Nobody]
  PROVE  /\ ch' \in [Children -> ChildRecs] /\ \A j \in Children \ {k} : ch'[j] = ch[j]
         /\ ch'[k].st = ch[k].st /\ ch'[k].left = ch[k].left /\ ch'[k].proc = ch[k].proc /\ ch'[k].owner = ch[k].owner
         /\ ch'[k].signaled = ch[k].signaled /\ ch'[k].settled = TRUE /\ ch'[k].once = Nobody
<1> DEFINE r == [ch[k] EXCEPT !.settled = TRUE, !.once = Nobody]
<1>1. ch' = [ch EXCEPT ![k] = r]
  OBVIOUS
<1>2. ch[k] \in ChildRecs
  BY ChildTypes
<1>3. r \in ChildRecs
  BY <1>2 DEF ChildRecs
<1>4. /\ r.st = ch[k].st /\ r.left = ch[k].left /\ r.proc = ch[k].proc /\ r.owner = ch[k].owner
      /\ r.signaled = ch[k].signaled /\ r.settled = TRUE /\ r.once = Nobody
  BY <1>2 DEF ChildRecs
<1> HIDE DEF r
<1> QED BY <1>1, <1>3, <1>4, Rewritten

\* The last sweep kills whatever is alive.
LEMMA SweepSets ==
  ASSUME TypeOK, Sweep
  PROVE  /\ ch' \in [Children -> ChildRecs]
         /\ \A j \in Children :
              /\ ch'[j].st = ch[j].st /\ ch'[j].left = ch[j].left /\ ch'[j].owner = ch[j].owner
              /\ ch'[j].signaled = ch[j].signaled /\ ch'[j].settled = ch[j].settled
              /\ ch'[j].proc = IF ch[j].proc = "alive" THEN "dead" ELSE ch[j].proc
         /\ Requests' = Requests
<1> DEFINE r(j) == [ch[j] EXCEPT !.proc = IF @ = "alive" THEN "dead" ELSE @]
<1>1. ASSUME NEW j \in Children
      PROVE  /\ r(j) \in ChildRecs
             /\ r(j).st = ch[j].st /\ r(j).left = ch[j].left /\ r(j).owner = ch[j].owner
             /\ r(j).signaled = ch[j].signaled /\ r(j).settled = ch[j].settled
             /\ r(j).proc = IF ch[j].proc = "alive" THEN "dead" ELSE ch[j].proc
  <2>1. ch[j] \in ChildRecs
    BY ChildTypes
  <2> QED BY <2>1 DEF ChildRecs
<1>2. ch' = [j \in Children |-> r(j)]
  BY DEF Sweep
<1> HIDE DEF r
<1>3. /\ ch' \in [Children -> ChildRecs]
      /\ \A j \in Children : ch'[j] = r(j)
  BY <1>1, <1>2
<1>4. \A j \in Children :
        /\ ch'[j].st = ch[j].st /\ ch'[j].left = ch[j].left /\ ch'[j].owner = ch[j].owner
        /\ ch'[j].signaled = ch[j].signaled /\ ch'[j].settled = ch[j].settled
        /\ ch'[j].proc = IF ch[j].proc = "alive" THEN "dead" ELSE ch[j].proc
  BY <1>1, <1>3
<1> QED BY <1>3, <1>4 DEF Requests

-----------------------------------------------------------------------------
(* Steps that change more.                                                 *)

\* The caller that holds the pipe lock is the only one inside a lease.
LEMMA Alone ==
  ASSUME ShapeInv, IoInv, NEW c \in Callers, Holds(todo[c])
  PROVE  \A u \in Threads \ {c} :
           Top(todo[u]) \notin {"arm", "spawn", "await", "publish", "greet", "lease"} /\ ~Owns(todo[u])
<1> TAKE u \in Threads \ {c}
<1>1. ~Holds(todo[u])
  BY Kinds DEF IoInv
<1>2. Known(u, todo[u])
  BY ShapeFacts DEF ShapeInv
<1> QED BY <1>1, <1>2 DEF Known, InLease, InKill

\* kill() found a child.
LEMMA FindChildStep ==
  ASSUME IInv, NEW t \in Threads, Find(t), child # 0
  PROVE  IInv'
<1> USE DEF IInv
<1> DEFINE s == SignalFrom \o Tail(todo[t])
<1>g. /\ Top(todo[t]) = "find"
      /\ child # 0
      /\ at' = [at EXCEPT ![t] = child]
      /\ UNCHANGED <<io, child, pending, retired, listed, ours, hooked, ch, queue, gate, quit, told, fell, late, torn, kills>>
  BY Kinds DEF Find, Next_, Top, Then, warm, super, ghosts
<1>h. Top(todo[t]) = "find"
  BY <1>g
<1>w. todo' = [todo EXCEPT ![t] = s]
  BY <1>g DEF Find, Then
<1>m. Shaped(t, todo[t])
  BY Kinds DEF ShapeInv
<1>n. Shaped(t, s) /\ Top(s) = "signal" /\ Same(todo[t], s)
  BY <1>h, <1>m, Kinds, KillMoves DEF Goes, Same, InLease, InKill
<1> HIDE DEF s
<1>a. at' \in [Threads -> 0 .. MaxSpawns] /\ at'[t] = child /\ \A u \in Threads \ {t} : at'[u] = at[u]
  BY <1>g DEF ShapeInv, TypeOK, Children
<1>s. /\ ShapeInv' /\ todo'[t] = s /\ \A u \in Threads \ {t} : todo'[u] = todo[u]
      /\ \A u \in Threads : Known(u, todo[u]) /\ Known(u, todo'[u])
  BY <1>w, <1>n, <1>a, Kinds, Turned DEF ShapeInv
<1>t. /\ t \in Threads /\ Top(todo[t]) = "find" /\ Top(todo'[t]) = "signal"
      /\ (Owns(todo'[t]) <=> Owns(todo[t]))
      /\ (Holds(todo'[t]) <=> Holds(todo[t]))
      /\ (Retires(todo'[t]) <=> Retires(todo[t]))
  BY <1>g, <1>s, <1>n, Kinds DEF Known, Same, InKill, InLease
<1>d. child \in Children \cup {0} /\ ~(0 \in Children)
  BY TypesOf
<1>1. TypeOK'
  <2>1. \A u \in Threads : ToSet(todo'[u]) \subseteq Steps
    BY <1>s DEF Known, ToSet
  <2>2. child \in 0 .. MaxSpawns /\ 0 \in 0 .. MaxSpawns
    BY TypesOf
  <2> QED BY <1>g, <1>s, <1>t, <1>d, <1>a, <2>1, <2>2 DEF TypeOK, ChildRecs, Children, ShapeInv
<1>2. IoInv'
  BY <1>g, <1>s, <1>t, <1>d, <1>a DEF IoInv
<1>3. RequestInv'
  BY <1>g, <1>s, <1>t, <1>d, <1>a DEF RequestInv, Requests
<1>4. QueueInv'
  BY <1>g, <1>s, <1>t, <1>d, <1>a DEF QueueInv
<1>5. ProcInv'
  BY <1>g, <1>s, <1>t, <1>d, <1>a DEF ProcInv
<1>6. WaitInv'
  BY <1>g, <1>s, <1>t, <1>d, <1>a DEF WaitInv, At
<1>7. PrivateInv'
  BY <1>g, <1>s, <1>t, <1>d, <1>a DEF PrivateInv
<1>8. HoldInv'
  BY <1>g, <1>s, <1>t, <1>d, <1>a DEF HoldInv
<1>9. AtInv'
  BY <1>g, <1>s, <1>t, <1>d, <1>a DEF AtInv, ProcInv, HoldInv
<1>10. OwnerInv'
  BY <1>g, <1>s, <1>t, <1>d, <1>a DEF OwnerInv, HoldInv
<1>11. LimboInv'
  BY <1>g, <1>s, <1>t, <1>d, <1>a DEF LimboInv, At, Foreign
<1>12. LateInv'
  BY <1>g, <1>s, <1>t, <1>d, <1>a DEF LateInv
<1>13. DeathInv'
  BY <1>g, <1>s, <1>t, <1>d, <1>a DEF DeathInv, At
<1>14. RetireInv'
  BY <1>g, <1>s, <1>t, <1>d, <1>a DEF RetireInv, Alive
<1>15. NoOrphan'
  BY <1>g, <1>s, <1>t, <1>d, <1>a DEF NoOrphan, Alive, Next_, Top
<1>16. DeathsAreReal'
  BY <1>g, <1>s, <1>t, <1>d, <1>a DEF DeathsAreReal
<1> QED BY <1>s, <1>1, <1>2, <1>3, <1>4, <1>5, <1>6, <1>7, <1>8, <1>9, <1>10, <1>11, <1>12, <1>13, <1>14, <1>15, <1>16

\* The child is killed and reaped.
LEMMA SignalStep ==
  ASSUME IInv, NEW t \in Threads, Signal(t)
  PROVE  IInv'
<1> USE DEF IInv
<1>k. PICK k \in Children : k = at[t]
  BY DEF AtInv, Signal, Next_, Top
<1> DEFINE s == <<>> \o Tail(todo[t])
<1>g. /\ Top(todo[t]) = "signal"
      /\ UNCHANGED <<at, io, child, pending, retired, listed, ours, hooked, queue, gate, quit, told, fell, late, torn, kills>>
  BY <1>k, Kinds DEF Signal, Next_, Top, Then, warm, super, ghosts
<1>h. Top(todo[t]) = "signal"
  BY <1>g
<1>w. todo' = [todo EXCEPT ![t] = s]
  BY <1>g DEF Signal, Then
<1>m. Shaped(t, todo[t])
  BY Kinds DEF ShapeInv
<1>n. Shaped(t, s) /\ Top(s) = "owner" /\ Same(todo[t], s)
  BY <1>h, <1>m, Kinds, Pops DEF Goes, Same, InLease, InKill
<1> HIDE DEF s
<1>s. /\ ShapeInv' /\ todo'[t] = s /\ \A u \in Threads \ {t} : todo'[u] = todo[u]
      /\ \A u \in Threads : Known(u, todo[u]) /\ Known(u, todo'[u])
  BY <1>w, <1>n, <1>g, Kinds, Turned DEF ShapeInv
<1>t. /\ t \in Threads /\ Top(todo[t]) = "signal" /\ Top(todo'[t]) = "owner"
      /\ (Owns(todo'[t]) <=> Owns(todo[t]))
      /\ (Holds(todo'[t]) <=> Holds(todo[t]))
      /\ (Retires(todo'[t]) <=> Retires(todo[t]))
  BY <1>g, <1>s, <1>n, Kinds DEF Known, Same, InKill, InLease
<1>d. child \in Children \cup {0} /\ ~(0 \in Children)
  BY TypesOf
<1>c. /\ ch' \in [Children -> ChildRecs] /\ \A j \in Children \ {k} : ch'[j] = ch[j]
      /\ ch'[k].st = ch[k].st /\ ch'[k].left = ch[k].left /\ ch'[k].proc = "dead" /\ ch'[k].owner = ch[k].owner
      /\ ch'[k].signaled = TRUE /\ ch'[k].settled = ch[k].settled /\ ch'[k].once = ch[k].once
  BY <1>k, <1>g, SetSignaled DEF Signal
<1>e. /\ \A j \in Children : ch'[j].st = ch[j].st /\ ch'[j].left = ch[j].left /\ ch'[j].owner = ch[j].owner
      /\ \A j \in Children : ch'[j].settled = ch[j].settled /\ ch'[j].once = ch[j].once
      /\ Requests' = Requests
  BY <1>c DEF Requests
<1>1. TypeOK'
  <2>1. \A u \in Threads : ToSet(todo'[u]) \subseteq Steps
    BY <1>s DEF Known, ToSet
  <2>2. child \in 0 .. MaxSpawns /\ 0 \in 0 .. MaxSpawns
    BY TypesOf
  <2> QED BY <1>k, <1>g, <1>s, <1>t, <1>d, <1>c, <1>e, <2>1, <2>2 DEF TypeOK, ChildRecs, Children
<1>2. IoInv'
  BY <1>k, <1>g, <1>s, <1>t, <1>d, <1>c, <1>e DEF IoInv
<1>3. RequestInv'
  BY <1>k, <1>g, <1>s, <1>t, <1>d, <1>c, <1>e DEF RequestInv, Requests, AtInv
<1>4. QueueInv'
  BY <1>k, <1>g, <1>s, <1>t, <1>d, <1>c, <1>e DEF QueueInv
<1>5. ProcInv'
  BY <1>k, <1>g, <1>s, <1>t, <1>d, <1>c, <1>e DEF ProcInv, AtInv
<1>6. WaitInv'
  BY <1>k, <1>g, <1>s, <1>t, <1>d, <1>c, <1>e DEF WaitInv, At
<1>7. PrivateInv'
  BY <1>k, <1>g, <1>s, <1>t, <1>d, <1>c, <1>e DEF PrivateInv
<1>8. HoldInv'
  BY <1>k, <1>g, <1>s, <1>t, <1>d, <1>c, <1>e DEF HoldInv
<1>9. AtInv'
  BY <1>k, <1>g, <1>s, <1>t, <1>d, <1>c, <1>e DEF AtInv
<1>10. OwnerInv'
  BY <1>k, <1>g, <1>s, <1>t, <1>d, <1>c, <1>e DEF OwnerInv
<1>11. LimboInv'
  BY <1>k, <1>g, <1>s, <1>t, <1>d, <1>c, <1>e DEF LimboInv, At, Foreign
<1>12. LateInv'
  BY <1>k, <1>g, <1>s, <1>t, <1>d, <1>c, <1>e DEF LateInv, AtInv
<1>13. DeathInv'
  BY <1>k, <1>g, <1>s, <1>t, <1>d, <1>c, <1>e DEF DeathInv, At
<1>14. RetireInv'
  BY <1>k, <1>g, <1>s, <1>t, <1>d, <1>c, <1>e DEF RetireInv, Alive
<1>15. NoOrphan'
  BY <1>k, <1>g, <1>s, <1>t, <1>d, <1>c, <1>e DEF NoOrphan, Alive, Next_, Top
<1>16. DeathsAreReal'
  BY <1>k, <1>g, <1>s, <1>t, <1>d, <1>c, <1>e DEF DeathsAreReal
<1> QED BY <1>s, <1>1, <1>2, <1>3, <1>4, <1>5, <1>6, <1>7, <1>8, <1>9, <1>10, <1>11, <1>12, <1>13, <1>14, <1>15, <1>16

\* The pipes of the child are this thread's to close.
LEMMA ClaimStep ==
  ASSUME IInv, NEW t \in Threads, Finish(t), ~ch[at[t]].settled, ~Foreign(t, at[t])
  PROVE  IInv'
<1> USE DEF IInv
<1>k. PICK k \in Children : k = at[t]
  BY DEF AtInv, Finish, Next_, Top
<1> DEFINE s == <<"close">> \o Tail(todo[t])
<1>g. /\ Top(todo[t]) = "finish"
      /\ ch[k].owner \in {Nobody, t}
      /\ UNCHANGED <<at, io, child, pending, retired, listed, ours, hooked, queue, gate, quit, told, fell, late, torn, kills>>
  BY <1>k, Kinds DEF Finish, Next_, Top, Then, warm, super, ghosts, Foreign
<1>h. Top(todo[t]) = "finish"
  BY <1>g
<1>w. todo' = [todo EXCEPT ![t] = s]
  BY <1>g DEF Finish, Then, Foreign
<1>m. Shaped(t, todo[t])
  BY Kinds DEF ShapeInv
<1>n. Shaped(t, s) /\ Top(s) = "close" /\ Same(todo[t], s)
  BY <1>h, <1>m, Kinds, KillMoves DEF Goes, Same, InLease, InKill
<1> HIDE DEF s
<1>s. /\ ShapeInv' /\ todo'[t] = s /\ \A u \in Threads \ {t} : todo'[u] = todo[u]
      /\ \A u \in Threads : Known(u, todo[u]) /\ Known(u, todo'[u])
  BY <1>w, <1>n, <1>g, Kinds, Turned DEF ShapeInv
<1>t. /\ t \in Threads /\ Top(todo[t]) = "finish" /\ Top(todo'[t]) = "close"
      /\ (Owns(todo'[t]) <=> Owns(todo[t]))
      /\ (Holds(todo'[t]) <=> Holds(todo[t]))
      /\ (Retires(todo'[t]) <=> Retires(todo[t]))
  BY <1>g, <1>s, <1>n, Kinds DEF Known, Same, InKill, InLease
<1>d. child \in Children \cup {0} /\ ~(0 \in Children)
  BY TypesOf
<1>c. /\ ch' \in [Children -> ChildRecs] /\ \A j \in Children \ {k} : ch'[j] = ch[j]
      /\ ch'[k].st = ch[k].st /\ ch'[k].left = ch[k].left /\ ch'[k].proc = ch[k].proc /\ ch'[k].owner = ch[k].owner
      /\ ch'[k].signaled = ch[k].signaled /\ ch'[k].settled = ch[k].settled /\ ch'[k].once = t
  BY <1>k, <1>g, SetOnce DEF Finish, Foreign
<1>e. /\ \A j \in Children : ch'[j].st = ch[j].st /\ ch'[j].left = ch[j].left /\ ch'[j].proc = ch[j].proc
      /\ \A j \in Children : ch'[j].owner = ch[j].owner /\ ch'[j].signaled = ch[j].signaled /\ ch'[j].settled = ch[j].settled
      /\ Requests' = Requests
  BY <1>c DEF Requests
<1>1. TypeOK'
  <2>1. \A u \in Threads : ToSet(todo'[u]) \subseteq Steps
    BY <1>s DEF Known, ToSet
  <2>2. child \in 0 .. MaxSpawns /\ 0 \in 0 .. MaxSpawns
    BY TypesOf
  <2> QED BY <1>k, <1>g, <1>s, <1>t, <1>d, <1>c, <1>e, <2>1, <2>2 DEF TypeOK, ChildRecs, Children
<1>2. IoInv'
  BY <1>k, <1>g, <1>s, <1>t, <1>d, <1>c, <1>e DEF IoInv
<1>3. RequestInv'
  BY <1>k, <1>g, <1>s, <1>t, <1>d, <1>c, <1>e DEF RequestInv, Requests
<1>4. QueueInv'
  BY <1>k, <1>g, <1>s, <1>t, <1>d, <1>c, <1>e DEF QueueInv
<1>5. ProcInv'
  BY <1>k, <1>g, <1>s, <1>t, <1>d, <1>c, <1>e DEF ProcInv
<1>6. WaitInv'
  BY <1>k, <1>g, <1>s, <1>t, <1>d, <1>c, <1>e DEF WaitInv, At
<1>7. PrivateInv'
  BY <1>k, <1>g, <1>s, <1>t, <1>d, <1>c, <1>e DEF PrivateInv
<1>8. HoldInv'
  BY <1>k, <1>g, <1>s, <1>t, <1>d, <1>c, <1>e DEF HoldInv
<1>9. AtInv'
  BY <1>k, <1>g, <1>s, <1>t, <1>d, <1>c, <1>e DEF AtInv
<1>10. OwnerInv'
  BY <1>k, <1>g, <1>s, <1>t, <1>d, <1>c, <1>e DEF OwnerInv
<1>11. LimboInv'
  BY <1>k, <1>g, <1>s, <1>t, <1>d, <1>c, <1>e DEF LimboInv, At, Foreign
<1>12. LateInv'
  BY <1>k, <1>g, <1>s, <1>t, <1>d, <1>c, <1>e DEF LateInv, AtInv
<1>13. DeathInv'
  BY <1>k, <1>g, <1>s, <1>t, <1>d, <1>c, <1>e DEF DeathInv, At
<1>14. RetireInv'
  BY <1>k, <1>g, <1>s, <1>t, <1>d, <1>c, <1>e DEF RetireInv, Alive
<1>15. NoOrphan'
  BY <1>k, <1>g, <1>s, <1>t, <1>d, <1>c, <1>e DEF NoOrphan, Alive, Next_, Top
<1>16. DeathsAreReal'
  BY <1>k, <1>g, <1>s, <1>t, <1>d, <1>c, <1>e DEF DeathsAreReal
<1> QED BY <1>s, <1>1, <1>2, <1>3, <1>4, <1>5, <1>6, <1>7, <1>8, <1>9, <1>10, <1>11, <1>12, <1>13, <1>14, <1>15, <1>16

\* The pipes are closed.
LEMMA CloseStep ==
  ASSUME IInv, NEW t \in Threads, Close(t)
  PROVE  IInv'
<1> USE DEF IInv
<1>k. PICK k \in Children : k = at[t]
  BY DEF AtInv, Close, Next_, Top
<1> DEFINE s == <<"drop">> \o Tail(todo[t])
<1>g. /\ Top(todo[t]) = "close"
      /\ UNCHANGED <<at, io, child, pending, retired, listed, ours, hooked, queue, gate, quit, told, fell, late, torn, kills>>
  BY <1>k, Kinds DEF Close, Next_, Top, Then, warm, super, ghosts
<1>h. Top(todo[t]) = "close"
  BY <1>g
<1>w. todo' = [todo EXCEPT ![t] = s]
  BY <1>g DEF Close, Then
<1>m. Shaped(t, todo[t])
  BY Kinds DEF ShapeInv
<1>n. Shaped(t, s) /\ Top(s) = "drop" /\ Same(todo[t], s)
  BY <1>h, <1>m, Kinds, KillMoves DEF Goes, Same, InLease, InKill
<1> HIDE DEF s
<1>s. /\ ShapeInv' /\ todo'[t] = s /\ \A u \in Threads \ {t} : todo'[u] = todo[u]
      /\ \A u \in Threads : Known(u, todo[u]) /\ Known(u, todo'[u])
  BY <1>w, <1>n, <1>g, Kinds, Turned DEF ShapeInv
<1>t. /\ t \in Threads /\ Top(todo[t]) = "close" /\ Top(todo'[t]) = "drop"
      /\ (Owns(todo'[t]) <=> Owns(todo[t]))
      /\ (Holds(todo'[t]) <=> Holds(todo[t]))
      /\ (Retires(todo'[t]) <=> Retires(todo[t]))
  BY <1>g, <1>s, <1>n, Kinds DEF Known, Same, InKill, InLease
<1>d. child \in Children \cup {0} /\ ~(0 \in Children)
  BY TypesOf
<1>c. /\ ch' \in [Children -> ChildRecs] /\ \A j \in Children \ {k} : ch'[j] = ch[j]
      /\ ch'[k].st = ch[k].st /\ ch'[k].left = ch[k].left /\ ch'[k].proc = ch[k].proc /\ ch'[k].owner = ch[k].owner
      /\ ch'[k].signaled = ch[k].signaled /\ ch'[k].settled = TRUE /\ ch'[k].once = Nobody
  BY <1>k, <1>g, SetSettled DEF Close
<1>e. /\ \A j \in Children : ch'[j].st = ch[j].st /\ ch'[j].left = ch[j].left /\ ch'[j].proc = ch[j].proc
      /\ \A j \in Children : ch'[j].owner = ch[j].owner /\ ch'[j].signaled = ch[j].signaled
      /\ Requests' = Requests
  BY <1>c DEF Requests
<1>1. TypeOK'
  <2>1. \A u \in Threads : ToSet(todo'[u]) \subseteq Steps
    BY <1>s DEF Known, ToSet
  <2>2. child \in 0 .. MaxSpawns /\ 0 \in 0 .. MaxSpawns
    BY TypesOf
  <2> QED BY <1>k, <1>g, <1>s, <1>t, <1>d, <1>c, <1>e, <2>1, <2>2 DEF TypeOK, ChildRecs, Children
<1>2. IoInv'
  BY <1>k, <1>g, <1>s, <1>t, <1>d, <1>c, <1>e DEF IoInv
<1>3. RequestInv'
  BY <1>k, <1>g, <1>s, <1>t, <1>d, <1>c, <1>e DEF RequestInv, Requests
<1>4. QueueInv'
  BY <1>k, <1>g, <1>s, <1>t, <1>d, <1>c, <1>e DEF QueueInv
<1>5. ProcInv'
  BY <1>k, <1>g, <1>s, <1>t, <1>d, <1>c, <1>e DEF ProcInv, AtInv
<1>6. WaitInv'
  BY <1>k, <1>g, <1>s, <1>t, <1>d, <1>c, <1>e DEF WaitInv, At
<1>7. PrivateInv'
  BY <1>k, <1>g, <1>s, <1>t, <1>d, <1>c, <1>e DEF PrivateInv
<1>8. HoldInv'
  BY <1>k, <1>g, <1>s, <1>t, <1>d, <1>c, <1>e DEF HoldInv
<1>9. AtInv'
  BY <1>k, <1>g, <1>s, <1>t, <1>d, <1>c, <1>e DEF AtInv
<1>10. OwnerInv'
  BY <1>k, <1>g, <1>s, <1>t, <1>d, <1>c, <1>e DEF OwnerInv
<1>11. LimboInv'
  BY <1>k, <1>g, <1>s, <1>t, <1>d, <1>c, <1>e DEF LimboInv, At, Foreign
<1>12. LateInv'
  BY <1>k, <1>g, <1>s, <1>t, <1>d, <1>c, <1>e DEF LateInv, AtInv
<1>13. DeathInv'
  BY <1>k, <1>g, <1>s, <1>t, <1>d, <1>c, <1>e DEF DeathInv, At
<1>14. RetireInv'
  BY <1>k, <1>g, <1>s, <1>t, <1>d, <1>c, <1>e DEF RetireInv, Alive
<1>15. NoOrphan'
  BY <1>k, <1>g, <1>s, <1>t, <1>d, <1>c, <1>e DEF NoOrphan, Alive, Next_, Top
<1>16. DeathsAreReal'
  BY <1>k, <1>g, <1>s, <1>t, <1>d, <1>c, <1>e DEF DeathsAreReal
<1> QED BY <1>s, <1>1, <1>2, <1>3, <1>4, <1>5, <1>6, <1>7, <1>8, <1>9, <1>10, <1>11, <1>12, <1>13, <1>14, <1>15, <1>16

\* The pointer is cleared, if it still shows the child.
LEMMA DropChildStep ==
  ASSUME IInv, NEW t \in Threads, DropChild(t)
  PROVE  IInv'
<1> USE DEF IInv
<1>k. PICK k \in Children : k = at[t]
  BY DEF AtInv, DropChild, Next_, Top
<1> DEFINE s == <<>> \o Tail(todo[t])
<1>g. /\ Top(todo[t]) = "drop"
      /\ child' = IF child = k THEN 0 ELSE child
      /\ UNCHANGED <<at, io, pending, retired, listed, ours, hooked, ch, queue, gate, quit, told, fell, late, torn, kills>>
  BY <1>k, Kinds DEF DropChild, Next_, Top, Then, warm, super, ghosts, Drop
<1>h. Top(todo[t]) = "drop"
  BY <1>g
<1>w. todo' = [todo EXCEPT ![t] = s]
  BY <1>g DEF DropChild, Then, Drop
<1>m. Shaped(t, todo[t])
  BY Kinds DEF ShapeInv
<1>n. Shaped(t, s) /\ Top(s) \in {"unlock", "end", "pick", "idle", "unlist"} /\ Same(todo[t], s)
  BY <1>h, <1>m, Kinds, KillMoves DEF Goes, Same, InLease, InKill
<1> HIDE DEF s
<1>s. /\ ShapeInv' /\ todo'[t] = s /\ \A u \in Threads \ {t} : todo'[u] = todo[u]
      /\ \A u \in Threads : Known(u, todo[u]) /\ Known(u, todo'[u])
  BY <1>w, <1>n, <1>g, Kinds, Turned DEF ShapeInv
<1>t. /\ t \in Threads /\ Top(todo[t]) = "drop" /\ Top(todo'[t]) \in {"unlock", "end", "pick", "idle", "unlist"}
      /\ (Owns(todo'[t]) <=> Owns(todo[t]))
      /\ (Holds(todo'[t]) <=> Holds(todo[t]))
      /\ (Retires(todo'[t]) <=> Retires(todo[t]))
  BY <1>g, <1>s, <1>n, Kinds DEF Known, Same, InKill, InLease
<1>d. child \in Children \cup {0} /\ ~(0 \in Children)
  BY TypesOf
<1>1. TypeOK'
  <2>1. \A u \in Threads : ToSet(todo'[u]) \subseteq Steps
    BY <1>s DEF Known, ToSet
  <2>2. child \in 0 .. MaxSpawns /\ 0 \in 0 .. MaxSpawns
    BY TypesOf
  <2> QED BY <1>k, <1>g, <1>s, <1>t, <1>d, <2>1, <2>2 DEF TypeOK, ChildRecs, Children
<1>2. IoInv'
  BY <1>k, <1>g, <1>s, <1>t, <1>d DEF IoInv
<1>3. RequestInv'
  BY <1>k, <1>g, <1>s, <1>t, <1>d DEF RequestInv, Requests
<1>4. QueueInv'
  BY <1>k, <1>g, <1>s, <1>t, <1>d DEF QueueInv
<1>5. ProcInv'
  BY <1>k, <1>g, <1>s, <1>t, <1>d DEF ProcInv
<1>6. WaitInv'
  BY <1>k, <1>g, <1>s, <1>t, <1>d DEF WaitInv, At
<1>7. PrivateInv'
  BY <1>k, <1>g, <1>s, <1>t, <1>d DEF PrivateInv
<1>8. HoldInv'
  BY <1>k, <1>g, <1>s, <1>t, <1>d DEF HoldInv
<1>9. AtInv'
  BY <1>k, <1>g, <1>s, <1>t, <1>d DEF AtInv
<1>10. OwnerInv'
  BY <1>k, <1>g, <1>s, <1>t, <1>d DEF OwnerInv
<1>11. LimboInv'
  BY <1>k, <1>g, <1>s, <1>t, <1>d DEF LimboInv, At, Foreign
<1>12. LateInv'
  BY <1>k, <1>g, <1>s, <1>t, <1>d DEF LateInv
<1>13. DeathInv'
  BY <1>k, <1>g, <1>s, <1>t, <1>d DEF DeathInv, At
<1>14. RetireInv'
  BY <1>k, <1>g, <1>s, <1>t, <1>d DEF RetireInv, Alive
<1>15. NoOrphan'
  BY <1>k, <1>g, <1>s, <1>t, <1>d DEF NoOrphan, Alive, Next_, Top, ProcInv, AtInv
<1>16. DeathsAreReal'
  BY <1>k, <1>g, <1>s, <1>t, <1>d DEF DeathsAreReal
<1> QED BY <1>s, <1>1, <1>2, <1>3, <1>4, <1>5, <1>6, <1>7, <1>8, <1>9, <1>10, <1>11, <1>12, <1>13, <1>14, <1>15, <1>16

\* end_io gives the pipes back.
LEMMA EndIoStep ==
  ASSUME IInv, NEW c \in Callers, EndIo(c)
  PROVE  IInv'
<1> USE DEF IInv
<1>k. PICK k \in Children : k = at[c] /\ ch[k].owner = c
  BY Kinds, ShapeFacts DEF OwnerInv, ShapeInv, EndIo, Next_, Top, Known
<1> DEFINE s == <<"settle">> \o Tail(todo[c])
<1>g. /\ Top(todo[c]) = "end"
      /\ UNCHANGED <<at, io, child, pending, retired, listed, ours, hooked, queue, gate, quit, told, fell, late, torn, kills>>
  BY <1>k, Kinds DEF EndIo, Next_, Top, Then, warm, super, ghosts
<1>h. Top(todo[c]) = "end"
  BY <1>g
<1>w. todo' = [todo EXCEPT ![c] = s]
  BY <1>g DEF EndIo, Then
<1>m. Shaped(c, todo[c])
  BY Kinds DEF ShapeInv
<1>n. Shaped(c, s) /\ Top(s) = "settle"
  BY <1>h, <1>m, Kinds, LeaseMoves DEF Goes, Same, InLease, InKill
<1> HIDE DEF s
<1>s. /\ ShapeInv' /\ todo'[c] = s /\ \A u \in Threads \ {c} : todo'[u] = todo[u]
      /\ \A u \in Threads : Known(u, todo[u]) /\ Known(u, todo'[u])
  BY <1>w, <1>n, <1>g, Kinds, Turned DEF ShapeInv
<1>t. /\ c \in Threads /\ Top(todo[c]) = "end" /\ Top(todo'[c]) = "settle"
      /\ ~Owns(todo'[c])
      /\ (Holds(todo'[c]) <=> Holds(todo[c]))
      /\ (Retires(todo'[c]) <=> Retires(todo[c]))
      /\ Owns(todo[c])
  BY <1>g, <1>s, <1>n, Kinds DEF Known, Same, InKill, InLease
<1>d. child \in Children \cup {0} /\ ~(0 \in Children)
  BY TypesOf
<1>c. /\ ch' \in [Children -> ChildRecs] /\ \A j \in Children \ {k} : ch'[j] = ch[j]
      /\ ch'[k].st = ch[k].st /\ ch'[k].left = ch[k].left /\ ch'[k].proc = ch[k].proc /\ ch'[k].owner = Nobody
      /\ ch'[k].signaled = ch[k].signaled /\ ch'[k].settled = ch[k].settled /\ ch'[k].once = ch[k].once
  BY <1>k, <1>g, SetOwner DEF EndIo
<1>e. /\ \A j \in Children : ch'[j].st = ch[j].st /\ ch'[j].left = ch[j].left /\ ch'[j].proc = ch[j].proc
      /\ \A j \in Children : ch'[j].signaled = ch[j].signaled /\ ch'[j].settled = ch[j].settled /\ ch'[j].once = ch[j].once
      /\ Requests' = Requests
  BY <1>c DEF Requests
<1>1. TypeOK'
  <2>1. \A u \in Threads : ToSet(todo'[u]) \subseteq Steps
    BY <1>s DEF Known, ToSet
  <2>2. child \in 0 .. MaxSpawns /\ 0 \in 0 .. MaxSpawns
    BY TypesOf
  <2> QED BY <1>k, <1>g, <1>s, <1>t, <1>d, <1>c, <1>e, <2>1, <2>2 DEF TypeOK, ChildRecs, Children
<1>2. IoInv'
  BY <1>k, <1>g, <1>s, <1>t, <1>d, <1>c, <1>e DEF IoInv
<1>3. RequestInv'
  BY <1>k, <1>g, <1>s, <1>t, <1>d, <1>c, <1>e DEF RequestInv, Requests
<1>4. QueueInv'
  BY <1>k, <1>g, <1>s, <1>t, <1>d, <1>c, <1>e DEF QueueInv
<1>5. ProcInv'
  BY <1>k, <1>g, <1>s, <1>t, <1>d, <1>c, <1>e DEF ProcInv
<1>6. WaitInv'
  BY <1>k, <1>g, <1>s, <1>t, <1>d, <1>c, <1>e DEF WaitInv, At
<1>7. PrivateInv'
  BY <1>k, <1>g, <1>s, <1>t, <1>d, <1>c, <1>e DEF PrivateInv
<1>8. HoldInv'
  BY <1>k, <1>g, <1>s, <1>t, <1>d, <1>c, <1>e DEF HoldInv
<1>9. AtInv'
  BY <1>k, <1>g, <1>s, <1>t, <1>d, <1>c, <1>e DEF AtInv
<1>10. OwnerInv'
  BY <1>k, <1>g, <1>s, <1>t, <1>d, <1>c, <1>e DEF OwnerInv
<1>11. LimboInv'
  BY <1>k, <1>g, <1>s, <1>t, <1>d, <1>c, <1>e DEF LimboInv, At, Foreign
<1>12. LateInv'
  BY <1>k, <1>g, <1>s, <1>t, <1>d, <1>c, <1>e DEF LateInv, AtInv
<1>13. DeathInv'
  BY <1>k, <1>g, <1>s, <1>t, <1>d, <1>c, <1>e DEF DeathInv, At
<1>14. RetireInv'
  BY <1>k, <1>g, <1>s, <1>t, <1>d, <1>c, <1>e DEF RetireInv, Alive
<1>15. NoOrphan'
  BY <1>k, <1>g, <1>s, <1>t, <1>d, <1>c, <1>e DEF NoOrphan, Alive, Next_, Top
<1>16. DeathsAreReal'
  BY <1>k, <1>g, <1>s, <1>t, <1>d, <1>c, <1>e DEF DeathsAreReal
<1> QED BY <1>s, <1>1, <1>2, <1>3, <1>4, <1>5, <1>6, <1>7, <1>8, <1>9, <1>10, <1>11, <1>12, <1>13, <1>14, <1>15, <1>16

\* A caller gets the pipe lock.
LEMMA TakeIoStep ==
  ASSUME IInv, NEW c \in Callers, TakeIo(c)
  PROVE  IInv'
<1> USE DEF IInv
<1> DEFINE s == <<"clear", "unlock">> \o Tail(todo[c])
<1>g. /\ Top(todo[c]) = "wait"
      /\ io = Nobody
      /\ io' = c
      /\ Nobody \notin Threads
      /\ UNCHANGED <<at, child, pending, retired, listed, ours, hooked, ch, queue, gate, quit, told, fell, late, torn, kills>>
  BY Kinds DEF TakeIo, Next_, Top, Then, warm, super, ghosts
<1>h. Top(todo[c]) = "wait"
  BY <1>g
<1>w. todo' = [todo EXCEPT ![c] = s]
  BY <1>g DEF TakeIo, Then
<1>m. Shaped(c, todo[c])
  BY Kinds DEF ShapeInv
<1>n. Shaped(c, s) /\ Top(s) = "clear"
  BY <1>h, <1>m, Kinds, LeaseMoves DEF Goes, Same, InLease, InKill
<1> HIDE DEF s
<1>s. /\ ShapeInv' /\ todo'[c] = s /\ \A u \in Threads \ {c} : todo'[u] = todo[u]
      /\ \A u \in Threads : Known(u, todo[u]) /\ Known(u, todo'[u])
  BY <1>w, <1>n, <1>g, Kinds, Turned DEF ShapeInv
<1>t. /\ c \in Threads /\ Top(todo[c]) = "wait" /\ Top(todo'[c]) = "clear"
      /\ ~Owns(todo'[c])
      /\ Holds(todo'[c])
      /\ ~Retires(todo'[c])
      /\ ~Owns(todo[c])
  BY <1>g, <1>s, <1>n, Kinds DEF Known, Same, InKill, InLease
<1>d. child \in Children \cup {0} /\ ~(0 \in Children)
  BY TypesOf
<1>1. TypeOK'
  <2>1. \A u \in Threads : ToSet(todo'[u]) \subseteq Steps
    BY <1>s DEF Known, ToSet
  <2>2. child \in 0 .. MaxSpawns /\ 0 \in 0 .. MaxSpawns
    BY TypesOf
  <2> QED BY <1>g, <1>s, <1>t, <1>d, <2>1, <2>2 DEF TypeOK, ChildRecs, Children
<1>2. IoInv'
  BY <1>g, <1>s, <1>t, <1>d DEF IoInv
<1>3. RequestInv'
  BY <1>g, <1>s, <1>t, <1>d DEF RequestInv, Requests
<1>4. QueueInv'
  BY <1>g, <1>s, <1>t, <1>d DEF QueueInv
<1>5. ProcInv'
  BY <1>g, <1>s, <1>t, <1>d DEF ProcInv
<1>6. WaitInv'
  BY <1>g, <1>s, <1>t, <1>d DEF WaitInv, At
<1>7. PrivateInv'
  BY <1>g, <1>s, <1>t, <1>d DEF PrivateInv
<1>8. HoldInv'
  BY <1>g, <1>s, <1>t, <1>d DEF HoldInv
<1>9. AtInv'
  BY <1>g, <1>s, <1>t, <1>d DEF AtInv
<1>10. OwnerInv'
  BY <1>g, <1>s, <1>t, <1>d DEF OwnerInv
<1>11. LimboInv'
  BY <1>g, <1>s, <1>t, <1>d DEF LimboInv, At, Foreign
<1>12. LateInv'
  BY <1>g, <1>s, <1>t, <1>d DEF LateInv
<1>13. DeathInv'
  BY <1>g, <1>s, <1>t, <1>d DEF DeathInv, At
<1>14. RetireInv'
  BY <1>g, <1>s, <1>t, <1>d DEF RetireInv, Alive
<1>15. NoOrphan'
  BY <1>g, <1>s, <1>t, <1>d DEF NoOrphan, Alive, Next_, Top
<1>16. DeathsAreReal'
  BY <1>g, <1>s, <1>t, <1>d DEF DeathsAreReal
<1> QED BY <1>s, <1>1, <1>2, <1>3, <1>4, <1>5, <1>6, <1>7, <1>8, <1>9, <1>10, <1>11, <1>12, <1>13, <1>14, <1>15, <1>16

\* The pipe lock is given back.
LEMMA ReleaseIoStep ==
  ASSUME IInv, NEW t \in Threads, ReleaseIo(t)
  PROVE  IInv'
<1> USE DEF IInv
<1> DEFINE s == <<>> \o Tail(todo[t])
<1>g. /\ Top(todo[t]) = "unlock"
      /\ io' = Nobody
      /\ at' = [at EXCEPT ![t] = 0]
      /\ Nobody \notin Threads
      /\ UNCHANGED <<child, pending, retired, listed, ours, hooked, ch, queue, gate, quit, told, fell, late, torn, kills>>
  BY Kinds DEF ReleaseIo, Next_, Top, Then, warm, super, ghosts
<1>h. Top(todo[t]) = "unlock"
  BY <1>g
<1>w. todo' = [todo EXCEPT ![t] = s]
  BY <1>g DEF ReleaseIo, Then
<1>m. Shaped(t, todo[t])
  BY Kinds DEF ShapeInv
<1>n. Shaped(t, s) /\ Top(s) = "idle" /\ s = Bare
  BY <1>h, <1>m, Kinds, Pops, Named DEF Shaped, Goes, Same, InLease, InKill
<1> HIDE DEF s
<1>b. todo[t] = Unlock
  BY <1>g, <1>m, Forms DEF Form
<1>a. at' \in [Threads -> 0 .. MaxSpawns] /\ at'[t] = 0 /\ \A u \in Threads \ {t} : at'[u] = at[u]
  BY <1>g, TypesOf DEF ShapeInv, TypeOK, Children
<1>s. /\ ShapeInv' /\ todo'[t] = s /\ \A u \in Threads \ {t} : todo'[u] = todo[u]
      /\ \A u \in Threads : Known(u, todo[u]) /\ Known(u, todo'[u])
  BY <1>w, <1>n, <1>a, Kinds, Turned DEF ShapeInv
<1>t. /\ t \in Threads /\ Top(todo[t]) = "unlock" /\ Top(todo'[t]) = "idle"
      /\ ~Owns(todo'[t])
      /\ ~Holds(todo'[t])
      /\ ~Retires(todo'[t])
      /\ ~Owns(todo[t])
      /\ Holds(todo[t])
  BY <1>g, <1>s, <1>n, Kinds, <1>b, Named DEF Known, Same, InKill, InLease
<1>d. child \in Children \cup {0} /\ ~(0 \in Children)
  BY TypesOf
<1>1. TypeOK'
  <2>1. \A u \in Threads : ToSet(todo'[u]) \subseteq Steps
    BY <1>s DEF Known, ToSet
  <2>2. child \in 0 .. MaxSpawns /\ 0 \in 0 .. MaxSpawns
    BY TypesOf
  <2> QED BY <1>g, <1>s, <1>t, <1>d, <1>a, <2>1, <2>2 DEF TypeOK, ChildRecs, Children, ShapeInv
<1>2. IoInv'
  BY <1>g, <1>s, <1>t, <1>d, <1>a DEF IoInv
<1>3. RequestInv'
  BY <1>g, <1>s, <1>t, <1>d, <1>a DEF RequestInv, Requests
<1>4. QueueInv'
  BY <1>g, <1>s, <1>t, <1>d, <1>a DEF QueueInv
<1>5. ProcInv'
  BY <1>g, <1>s, <1>t, <1>d, <1>a DEF ProcInv
<1>6. WaitInv'
  BY <1>g, <1>s, <1>t, <1>d, <1>a DEF WaitInv, At
<1>7. PrivateInv'
  BY <1>g, <1>s, <1>t, <1>d, <1>a DEF PrivateInv
<1>8. HoldInv'
  BY <1>g, <1>s, <1>t, <1>d, <1>a DEF HoldInv
<1>9. AtInv'
  BY <1>g, <1>s, <1>t, <1>d, <1>a DEF AtInv
<1>10. OwnerInv'
  BY <1>g, <1>s, <1>t, <1>d, <1>a DEF OwnerInv
<1>11. LimboInv'
  BY <1>g, <1>s, <1>t, <1>d, <1>a DEF LimboInv, At, Foreign
<1>12. LateInv'
  BY <1>g, <1>s, <1>t, <1>d, <1>a DEF LateInv
<1>13. DeathInv'
  BY <1>g, <1>s, <1>t, <1>d, <1>a DEF DeathInv, At
<1>14. RetireInv'
  BY <1>g, <1>s, <1>t, <1>d, <1>a DEF RetireInv, Alive
<1>15. NoOrphan'
  BY <1>g, <1>s, <1>t, <1>d, <1>a DEF NoOrphan, Alive, Next_, Top
<1>16. DeathsAreReal'
  BY <1>g, <1>s, <1>t, <1>d, <1>a DEF DeathsAreReal
<1> QED BY <1>s, <1>1, <1>2, <1>3, <1>4, <1>5, <1>6, <1>7, <1>8, <1>9, <1>10, <1>11, <1>12, <1>13, <1>14, <1>15, <1>16

\* A dead child is reported, if nobody killed it, and forgotten.
LEMMA LookDeadStep ==
  ASSUME IInv, NEW c \in Callers, Look(c), child # 0, ~Alive(child)
  PROVE  IInv'
<1> USE DEF IInv
<1> DEFINE s == <<"arm">> \o Tail(todo[c])
<1>g. /\ Top(todo[c]) = "look"
      /\ child # 0
      /\ ~Alive(child)
      /\ child' = 0
      /\ hooked' \in BOOLEAN
      /\ told' = told \/ (~ours /\ told' = told \cup {child})
      /\ UNCHANGED <<at, io, pending, retired, listed, ours, ch, queue, gate, quit, fell, late, torn, kills>>
  BY Kinds DEF Look, Next_, Top, Then, warm, super, ghosts, TypeOK
<1>h. Top(todo[c]) = "look"
  BY <1>g
<1>w. todo' = [todo EXCEPT ![c] = s]
  BY <1>g DEF Look, Then, TypeOK
<1>m. Shaped(c, todo[c])
  BY Kinds DEF ShapeInv
<1>n. Shaped(c, s) /\ Top(s) = "arm" /\ Same(todo[c], s)
  BY <1>h, <1>m, Kinds, LeaseMoves DEF Goes, Same, InLease, InKill
<1> HIDE DEF s
<1>s. /\ ShapeInv' /\ todo'[c] = s /\ \A u \in Threads \ {c} : todo'[u] = todo[u]
      /\ \A u \in Threads : Known(u, todo[u]) /\ Known(u, todo'[u])
  BY <1>w, <1>n, <1>g, Kinds, Turned DEF ShapeInv
<1>t. /\ c \in Threads /\ Top(todo[c]) = "look" /\ Top(todo'[c]) = "arm"
      /\ (Owns(todo'[c]) <=> Owns(todo[c]))
      /\ (Holds(todo'[c]) <=> Holds(todo[c]))
      /\ (Retires(todo'[c]) <=> Retires(todo[c]))
  BY <1>g, <1>s, <1>n, Kinds DEF Known, Same, InKill, InLease
<1>d. child \in Children \cup {0} /\ ~(0 \in Children)
  BY TypesOf
<1>p. child \in Children /\ ch[child].proc = "dead"
  BY <1>g, <1>d, ChildTypes DEF ProcInv, ChildRecs, Alive
<1>1. TypeOK'
  <2>1. \A u \in Threads : ToSet(todo'[u]) \subseteq Steps
    BY <1>s DEF Known, ToSet
  <2>2. child \in 0 .. MaxSpawns /\ 0 \in 0 .. MaxSpawns
    BY TypesOf
  <2> QED BY <1>g, <1>s, <1>t, <1>d, <1>p, <2>1, <2>2 DEF TypeOK, ChildRecs, Children
<1>2. IoInv'
  BY <1>g, <1>s, <1>t, <1>d, <1>p DEF IoInv
<1>3. RequestInv'
  BY <1>g, <1>s, <1>t, <1>d, <1>p DEF RequestInv, Requests
<1>4. QueueInv'
  BY <1>g, <1>s, <1>t, <1>d, <1>p DEF QueueInv
<1>5. ProcInv'
  BY <1>g, <1>s, <1>t, <1>d, <1>p DEF ProcInv
<1>6. WaitInv'
  BY <1>g, <1>s, <1>t, <1>d, <1>p DEF WaitInv, At
<1>7. PrivateInv'
  BY <1>g, <1>s, <1>t, <1>d, <1>p DEF PrivateInv
<1>8. HoldInv'
  BY <1>g, <1>s, <1>t, <1>d, <1>p DEF HoldInv
<1>9. AtInv'
  BY <1>g, <1>s, <1>t, <1>d, <1>p DEF AtInv
<1>10. OwnerInv'
  BY <1>g, <1>s, <1>t, <1>d, <1>p DEF OwnerInv
<1>11. LimboInv'
  BY <1>g, <1>s, <1>t, <1>d, <1>p DEF LimboInv, At, Foreign
<1>12. LateInv'
  BY <1>g, <1>s, <1>t, <1>d, <1>p DEF LateInv
<1>13. DeathInv'
  BY <1>g, <1>s, <1>t, <1>d, <1>p DEF DeathInv, At
<1>14. RetireInv'
  BY <1>g, <1>s, <1>t, <1>d, <1>p DEF RetireInv, Alive
<1>15. NoOrphan'
  BY <1>g, <1>s, <1>t, <1>d, <1>p DEF NoOrphan, Alive, Next_, Top
<1>16. DeathsAreReal'
  BY <1>g, <1>s, <1>t, <1>d, <1>p DEF DeathsAreReal, DeathInv
<1> QED BY <1>s, <1>1, <1>2, <1>3, <1>4, <1>5, <1>6, <1>7, <1>8, <1>9, <1>10, <1>11, <1>12, <1>13, <1>14, <1>15, <1>16

\* The marks of the last child are wiped before the next is spawned.
LEMMA ArmStep ==
  ASSUME IInv, NEW c \in Callers, Arm(c)
  PROVE  IInv'
<1> USE DEF IInv
<1> DEFINE s == <<"spawn">> \o Tail(todo[c])
<1>g. /\ Top(todo[c]) = "arm"
      /\ ours' = FALSE
      /\ hooked' = FALSE
      /\ Requests # Children
      /\ UNCHANGED <<at, io, child, pending, retired, listed, ch, queue, gate, quit, told, fell, late, torn, kills>>
  BY Kinds DEF Arm, Next_, Top, Then, warm, super, ghosts
<1>h. Top(todo[c]) = "arm"
  BY <1>g
<1>w. todo' = [todo EXCEPT ![c] = s]
  BY <1>g DEF Arm, Then
<1>m. Shaped(c, todo[c])
  BY Kinds DEF ShapeInv
<1>n. Shaped(c, s) /\ Top(s) = "spawn" /\ Same(todo[c], s)
  BY <1>h, <1>m, Kinds, LeaseMoves DEF Goes, Same, InLease, InKill
<1> HIDE DEF s
<1>s. /\ ShapeInv' /\ todo'[c] = s /\ \A u \in Threads \ {c} : todo'[u] = todo[u]
      /\ \A u \in Threads : Known(u, todo[u]) /\ Known(u, todo'[u])
  BY <1>w, <1>n, <1>g, Kinds, Turned DEF ShapeInv
<1>t. /\ c \in Threads /\ Top(todo[c]) = "arm" /\ Top(todo'[c]) = "spawn"
      /\ (Owns(todo'[c]) <=> Owns(todo[c]))
      /\ (Holds(todo'[c]) <=> Holds(todo[c]))
      /\ (Retires(todo'[c]) <=> Retires(todo[c]))
  BY <1>g, <1>s, <1>n, Kinds DEF Known, Same, InKill, InLease
<1>d. child \in Children \cup {0} /\ ~(0 \in Children)
  BY TypesOf
<1>1. TypeOK'
  <2>1. \A u \in Threads : ToSet(todo'[u]) \subseteq Steps
    BY <1>s DEF Known, ToSet
  <2>2. child \in 0 .. MaxSpawns /\ 0 \in 0 .. MaxSpawns
    BY TypesOf
  <2> QED BY <1>g, <1>s, <1>t, <1>d, <2>1, <2>2 DEF TypeOK, ChildRecs, Children
<1>2. IoInv'
  BY <1>g, <1>s, <1>t, <1>d DEF IoInv
<1>3. RequestInv'
  BY <1>g, <1>s, <1>t, <1>d DEF RequestInv, Requests
<1>4. QueueInv'
  BY <1>g, <1>s, <1>t, <1>d DEF QueueInv
<1>5. ProcInv'
  BY <1>g, <1>s, <1>t, <1>d DEF ProcInv
<1>6. WaitInv'
  BY <1>g, <1>s, <1>t, <1>d DEF WaitInv, At
<1>7. PrivateInv'
  BY <1>g, <1>s, <1>t, <1>d DEF PrivateInv
<1>8. HoldInv'
  BY <1>g, <1>s, <1>t, <1>d DEF HoldInv
<1>9. AtInv'
  BY <1>g, <1>s, <1>t, <1>d DEF AtInv
<1>10. OwnerInv'
  BY <1>g, <1>s, <1>t, <1>d DEF OwnerInv
<1>11. LimboInv'
  BY <1>g, <1>s, <1>t, <1>d DEF LimboInv, At, Foreign
<1>12. LateInv'
  BY <1>g, <1>s, <1>t, <1>d DEF LateInv
<1>13. DeathInv'
  BY <1>g, <1>s, <1>t, <1>d DEF DeathInv, At, HoldInv
<1>14. RetireInv'
  BY <1>g, <1>s, <1>t, <1>d DEF RetireInv, Alive
<1>15. NoOrphan'
  BY <1>g, <1>s, <1>t, <1>d DEF NoOrphan, Alive, Next_, Top
<1>16. DeathsAreReal'
  BY <1>g, <1>s, <1>t, <1>d DEF DeathsAreReal
<1> QED BY <1>s, <1>1, <1>2, <1>3, <1>4, <1>5, <1>6, <1>7, <1>8, <1>9, <1>10, <1>11, <1>12, <1>13, <1>14, <1>15, <1>16

\* The caller takes the pipes for the handshake.
LEMMA GreetReadStep ==
  ASSUME IInv, NEW c \in Callers, Greet(c), BeginIo(c), todo' = [todo EXCEPT ![c] = <<"read">> \o Tail(@)]
  PROVE  IInv'
<1> USE DEF IInv
<1>k. PICK k \in Children : k = at[c]
  BY Kinds DEF AtInv, Greet, Next_, Top
<1> DEFINE s == <<"read">> \o Tail(todo[c])
<1>g. /\ Top(todo[c]) = "greet"
      /\ late' = IF ch[k].signaled THEN late \cup {k} ELSE late \ {k}
      /\ UNCHANGED <<at, io, child, pending, retired, listed, ours, hooked, queue, gate, quit, told, fell, torn, kills>>
  BY <1>k, Kinds DEF Greet, Next_, Top, Then, warm, super, ghosts, BeginIo
<1>h. Top(todo[c]) = "greet"
  BY <1>g
<1>w. todo' = [todo EXCEPT ![c] = s]
  BY <1>g DEF Greet, Then, BeginIo
<1>m. Shaped(c, todo[c])
  BY Kinds DEF ShapeInv
<1>n. Shaped(c, s) /\ Top(s) = "read"
  BY <1>h, <1>m, Kinds, LeaseMoves DEF Goes, Same, InLease, InKill
<1> HIDE DEF s
<1>s. /\ ShapeInv' /\ todo'[c] = s /\ \A u \in Threads \ {c} : todo'[u] = todo[u]
      /\ \A u \in Threads : Known(u, todo[u]) /\ Known(u, todo'[u])
  BY <1>w, <1>n, <1>g, Kinds, Turned DEF ShapeInv
<1>t. /\ c \in Threads /\ Top(todo[c]) = "greet" /\ Top(todo'[c]) = "read"
      /\ Owns(todo'[c])
      /\ Holds(todo'[c])
      /\ ~Retires(todo'[c])
      /\ ~Owns(todo[c])
      /\ Holds(todo[c])
  BY <1>g, <1>s, <1>n, Kinds DEF Known, Same, InKill, InLease
<1>d. child \in Children \cup {0} /\ ~(0 \in Children)
  BY TypesOf
<1>v. c \in Threads \cup {Nobody} /\ ch' = [ch EXCEPT ![k].owner = c]
  BY <1>k, <1>t DEF BeginIo
<1>c. /\ ch' \in [Children -> ChildRecs] /\ \A j \in Children \ {k} : ch'[j] = ch[j]
      /\ ch'[k].st = ch[k].st /\ ch'[k].left = ch[k].left /\ ch'[k].proc = ch[k].proc /\ ch'[k].owner = c
      /\ ch'[k].signaled = ch[k].signaled /\ ch'[k].settled = ch[k].settled /\ ch'[k].once = ch[k].once
  BY <1>k, <1>g, <1>v, SetOwner DEF BeginIo
<1>e. /\ \A j \in Children : ch'[j].st = ch[j].st /\ ch'[j].left = ch[j].left /\ ch'[j].proc = ch[j].proc
      /\ \A j \in Children : ch'[j].signaled = ch[j].signaled /\ ch'[j].settled = ch[j].settled /\ ch'[j].once = ch[j].once
      /\ Requests' = Requests
  BY <1>c DEF Requests
<1>x. \A u \in Threads \ {c} : Top(todo[u]) \notin {"arm", "spawn", "await", "publish", "greet", "lease"} /\ ~Owns(todo[u])
  BY <1>t, Alone
<1>o. \A j \in Children : ch[j].owner = Nobody
  BY <1>x, <1>t DEF OwnerInv
<1>1. TypeOK'
  <2>1. \A u \in Threads : ToSet(todo'[u]) \subseteq Steps
    BY <1>s DEF Known, ToSet
  <2>2. child \in 0 .. MaxSpawns /\ 0 \in 0 .. MaxSpawns
    BY TypesOf
  <2> QED BY <1>k, <1>g, <1>s, <1>t, <1>d, <1>c, <1>e, <1>x, <1>o, <2>1, <2>2 DEF TypeOK, ChildRecs, Children
<1>2. IoInv'
  BY <1>k, <1>g, <1>s, <1>t, <1>d, <1>c, <1>e, <1>x, <1>o DEF IoInv
<1>3. RequestInv'
  BY <1>k, <1>g, <1>s, <1>t, <1>d, <1>c, <1>e, <1>x, <1>o DEF RequestInv, Requests
<1>4. QueueInv'
  BY <1>k, <1>g, <1>s, <1>t, <1>d, <1>c, <1>e, <1>x, <1>o DEF QueueInv
<1>5. ProcInv'
  BY <1>k, <1>g, <1>s, <1>t, <1>d, <1>c, <1>e, <1>x, <1>o DEF ProcInv, AtInv
<1>6. WaitInv'
  BY <1>k, <1>g, <1>s, <1>t, <1>d, <1>c, <1>e, <1>x, <1>o DEF WaitInv, At
<1>7. PrivateInv'
  BY <1>k, <1>g, <1>s, <1>t, <1>d, <1>c, <1>e, <1>x, <1>o DEF PrivateInv
<1>8. HoldInv'
  BY <1>k, <1>g, <1>s, <1>t, <1>d, <1>c, <1>e, <1>x, <1>o DEF HoldInv
<1>9. AtInv'
  BY <1>k, <1>g, <1>s, <1>t, <1>d, <1>c, <1>e, <1>x, <1>o DEF AtInv
<1>10. OwnerInv'
  BY <1>k, <1>g, <1>s, <1>t, <1>d, <1>c, <1>e, <1>x, <1>o DEF OwnerInv
<1>11. LimboInv'
  BY <1>k, <1>g, <1>s, <1>t, <1>d, <1>c, <1>e, <1>x, <1>o DEF LimboInv, At, Foreign
<1>12. LateInv'
  BY <1>k, <1>g, <1>s, <1>t, <1>d, <1>c, <1>e, <1>x, <1>o DEF LateInv, AtInv
<1>13. DeathInv'
  BY <1>k, <1>g, <1>s, <1>t, <1>d, <1>c, <1>e, <1>x, <1>o DEF DeathInv, At
<1>14. RetireInv'
  BY <1>k, <1>g, <1>s, <1>t, <1>d, <1>c, <1>e, <1>x, <1>o DEF RetireInv, Alive
<1>15. NoOrphan'
  BY <1>k, <1>g, <1>s, <1>t, <1>d, <1>c, <1>e, <1>x, <1>o DEF NoOrphan, Alive, Next_, Top
<1>16. DeathsAreReal'
  BY <1>k, <1>g, <1>s, <1>t, <1>d, <1>c, <1>e, <1>x, <1>o DEF DeathsAreReal
<1> QED BY <1>s, <1>1, <1>2, <1>3, <1>4, <1>5, <1>6, <1>7, <1>8, <1>9, <1>10, <1>11, <1>12, <1>13, <1>14, <1>15, <1>16

\* The caller takes the pipes for the lease.
LEMMA BeginLeaseStep ==
  ASSUME IInv, NEW c \in Callers, Lease(c)
  PROVE  IInv'
<1> USE DEF IInv
<1>k. PICK k \in Children : k = at[c]
  BY Kinds DEF AtInv, Lease, Next_, Top
<1> DEFINE s == <<"use", "end">> \o Tail(todo[c])
<1>g. /\ Top(todo[c]) = "lease"
      /\ late' = IF ch[k].signaled THEN late \cup {k} ELSE late \ {k}
      /\ UNCHANGED <<at, io, child, pending, retired, listed, ours, hooked, queue, gate, quit, told, fell, torn, kills>>
  BY <1>k, Kinds DEF Lease, Next_, Top, Then, warm, super, ghosts, BeginIo
<1>h. Top(todo[c]) = "lease"
  BY <1>g
<1>w. todo' = [todo EXCEPT ![c] = s]
  BY <1>g DEF Lease, Then, BeginIo
<1>m. Shaped(c, todo[c])
  BY Kinds DEF ShapeInv
<1>n. Shaped(c, s) /\ Top(s) = "use"
  BY <1>h, <1>m, Kinds, LeaseMoves DEF Goes, Same, InLease, InKill
<1> HIDE DEF s
<1>s. /\ ShapeInv' /\ todo'[c] = s /\ \A u \in Threads \ {c} : todo'[u] = todo[u]
      /\ \A u \in Threads : Known(u, todo[u]) /\ Known(u, todo'[u])
  BY <1>w, <1>n, <1>g, Kinds, Turned DEF ShapeInv
<1>t. /\ c \in Threads /\ Top(todo[c]) = "lease" /\ Top(todo'[c]) = "use"
      /\ Owns(todo'[c])
      /\ Holds(todo'[c])
      /\ ~Retires(todo'[c])
      /\ ~Owns(todo[c])
      /\ Holds(todo[c])
  BY <1>g, <1>s, <1>n, Kinds DEF Known, Same, InKill, InLease
<1>d. child \in Children \cup {0} /\ ~(0 \in Children)
  BY TypesOf
<1>v. c \in Threads \cup {Nobody} /\ ch' = [ch EXCEPT ![k].owner = c]
  BY <1>k, <1>t DEF Lease, BeginIo
<1>c. /\ ch' \in [Children -> ChildRecs] /\ \A j \in Children \ {k} : ch'[j] = ch[j]
      /\ ch'[k].st = ch[k].st /\ ch'[k].left = ch[k].left /\ ch'[k].proc = ch[k].proc /\ ch'[k].owner = c
      /\ ch'[k].signaled = ch[k].signaled /\ ch'[k].settled = ch[k].settled /\ ch'[k].once = ch[k].once
  BY <1>k, <1>g, <1>v, SetOwner DEF Lease, BeginIo
<1>e. /\ \A j \in Children : ch'[j].st = ch[j].st /\ ch'[j].left = ch[j].left /\ ch'[j].proc = ch[j].proc
      /\ \A j \in Children : ch'[j].signaled = ch[j].signaled /\ ch'[j].settled = ch[j].settled /\ ch'[j].once = ch[j].once
      /\ Requests' = Requests
  BY <1>c DEF Requests
<1>x. \A u \in Threads \ {c} : Top(todo[u]) \notin {"arm", "spawn", "await", "publish", "greet", "lease"} /\ ~Owns(todo[u])
  BY <1>t, Alone
<1>o. \A j \in Children : ch[j].owner = Nobody
  BY <1>x, <1>t DEF OwnerInv
<1>1. TypeOK'
  <2>1. \A u \in Threads : ToSet(todo'[u]) \subseteq Steps
    BY <1>s DEF Known, ToSet
  <2>2. child \in 0 .. MaxSpawns /\ 0 \in 0 .. MaxSpawns
    BY TypesOf
  <2> QED BY <1>k, <1>g, <1>s, <1>t, <1>d, <1>c, <1>e, <1>x, <1>o, <2>1, <2>2 DEF TypeOK, ChildRecs, Children
<1>2. IoInv'
  BY <1>k, <1>g, <1>s, <1>t, <1>d, <1>c, <1>e, <1>x, <1>o DEF IoInv
<1>3. RequestInv'
  BY <1>k, <1>g, <1>s, <1>t, <1>d, <1>c, <1>e, <1>x, <1>o DEF RequestInv, Requests
<1>4. QueueInv'
  BY <1>k, <1>g, <1>s, <1>t, <1>d, <1>c, <1>e, <1>x, <1>o DEF QueueInv
<1>5. ProcInv'
  BY <1>k, <1>g, <1>s, <1>t, <1>d, <1>c, <1>e, <1>x, <1>o DEF ProcInv, AtInv
<1>6. WaitInv'
  BY <1>k, <1>g, <1>s, <1>t, <1>d, <1>c, <1>e, <1>x, <1>o DEF WaitInv, At
<1>7. PrivateInv'
  BY <1>k, <1>g, <1>s, <1>t, <1>d, <1>c, <1>e, <1>x, <1>o DEF PrivateInv
<1>8. HoldInv'
  BY <1>k, <1>g, <1>s, <1>t, <1>d, <1>c, <1>e, <1>x, <1>o DEF HoldInv
<1>9. AtInv'
  BY <1>k, <1>g, <1>s, <1>t, <1>d, <1>c, <1>e, <1>x, <1>o DEF AtInv
<1>10. OwnerInv'
  BY <1>k, <1>g, <1>s, <1>t, <1>d, <1>c, <1>e, <1>x, <1>o DEF OwnerInv
<1>11. LimboInv'
  BY <1>k, <1>g, <1>s, <1>t, <1>d, <1>c, <1>e, <1>x, <1>o DEF LimboInv, At, Foreign
<1>12. LateInv'
  BY <1>k, <1>g, <1>s, <1>t, <1>d, <1>c, <1>e, <1>x, <1>o DEF LateInv, AtInv
<1>13. DeathInv'
  BY <1>k, <1>g, <1>s, <1>t, <1>d, <1>c, <1>e, <1>x, <1>o DEF DeathInv, At
<1>14. RetireInv'
  BY <1>k, <1>g, <1>s, <1>t, <1>d, <1>c, <1>e, <1>x, <1>o DEF RetireInv, Alive
<1>15. NoOrphan'
  BY <1>k, <1>g, <1>s, <1>t, <1>d, <1>c, <1>e, <1>x, <1>o DEF NoOrphan, Alive, Next_, Top
<1>16. DeathsAreReal'
  BY <1>k, <1>g, <1>s, <1>t, <1>d, <1>c, <1>e, <1>x, <1>o DEF DeathsAreReal
<1> QED BY <1>s, <1>1, <1>2, <1>3, <1>4, <1>5, <1>6, <1>7, <1>8, <1>9, <1>10, <1>11, <1>12, <1>13, <1>14, <1>15, <1>16

\* The lease is of the published child.
LEMMA PickChildStep ==
  ASSUME IInv, NEW c \in Callers, Pick(c), child # 0
  PROVE  IInv'
<1> USE DEF IInv
<1> DEFINE s == <<"lease">> \o Tail(todo[c])
<1>g. /\ Top(todo[c]) = "pick"
      /\ child # 0
      /\ at' = [at EXCEPT ![c] = child]
      /\ UNCHANGED <<io, child, pending, retired, listed, ours, hooked, ch, queue, gate, quit, told, fell, late, torn, kills>>
  BY Kinds DEF Pick, Next_, Top, Then, warm, super, ghosts
<1>h. Top(todo[c]) = "pick"
  BY <1>g
<1>w. todo' = [todo EXCEPT ![c] = s]
  BY <1>g DEF Pick, Then
<1>m. Shaped(c, todo[c])
  BY Kinds DEF ShapeInv
<1>n. Shaped(c, s) /\ Top(s) = "lease" /\ Same(todo[c], s)
  BY <1>h, <1>m, Kinds, LeaseMoves DEF Goes, Same, InLease, InKill
<1> HIDE DEF s
<1>a. at' \in [Threads -> 0 .. MaxSpawns] /\ at'[c] = child /\ \A u \in Threads \ {c} : at'[u] = at[u]
  BY <1>g, Kinds DEF ShapeInv, TypeOK, Children
<1>s. /\ ShapeInv' /\ todo'[c] = s /\ \A u \in Threads \ {c} : todo'[u] = todo[u]
      /\ \A u \in Threads : Known(u, todo[u]) /\ Known(u, todo'[u])
  BY <1>w, <1>n, <1>a, Kinds, Turned DEF ShapeInv
<1>t. /\ c \in Threads /\ Top(todo[c]) = "pick" /\ Top(todo'[c]) = "lease"
      /\ (Owns(todo'[c]) <=> Owns(todo[c]))
      /\ (Holds(todo'[c]) <=> Holds(todo[c]))
      /\ (Retires(todo'[c]) <=> Retires(todo[c]))
      /\ ~Owns(todo[c])
  BY <1>g, <1>s, <1>n, Kinds DEF Known, Same, InKill, InLease
<1>d. child \in Children \cup {0} /\ ~(0 \in Children)
  BY TypesOf
<1>1. TypeOK'
  <2>1. \A u \in Threads : ToSet(todo'[u]) \subseteq Steps
    BY <1>s DEF Known, ToSet
  <2>2. child \in 0 .. MaxSpawns /\ 0 \in 0 .. MaxSpawns
    BY TypesOf
  <2> QED BY <1>g, <1>s, <1>t, <1>d, <1>a, <2>1, <2>2 DEF TypeOK, ChildRecs, Children, ShapeInv
<1>2. IoInv'
  BY <1>g, <1>s, <1>t, <1>d, <1>a DEF IoInv
<1>3. RequestInv'
  BY <1>g, <1>s, <1>t, <1>d, <1>a DEF RequestInv, Requests
<1>4. QueueInv'
  BY <1>g, <1>s, <1>t, <1>d, <1>a DEF QueueInv
<1>5. ProcInv'
  BY <1>g, <1>s, <1>t, <1>d, <1>a DEF ProcInv
<1>6. WaitInv'
  BY <1>g, <1>s, <1>t, <1>d, <1>a DEF WaitInv, At
<1>7. PrivateInv'
  BY <1>g, <1>s, <1>t, <1>d, <1>a DEF PrivateInv
<1>8. HoldInv'
  BY <1>g, <1>s, <1>t, <1>d, <1>a DEF HoldInv
<1>9. AtInv'
  BY <1>g, <1>s, <1>t, <1>d, <1>a DEF AtInv, ProcInv
<1>10. OwnerInv'
  BY <1>g, <1>s, <1>t, <1>d, <1>a DEF OwnerInv
<1>11. LimboInv'
  BY <1>g, <1>s, <1>t, <1>d, <1>a DEF LimboInv, At, Foreign
<1>12. LateInv'
  BY <1>g, <1>s, <1>t, <1>d, <1>a DEF LateInv
<1>13. DeathInv'
  BY <1>g, <1>s, <1>t, <1>d, <1>a DEF DeathInv, At
<1>14. RetireInv'
  BY <1>g, <1>s, <1>t, <1>d, <1>a DEF RetireInv, Alive
<1>15. NoOrphan'
  BY <1>g, <1>s, <1>t, <1>d, <1>a DEF NoOrphan, Alive, Next_, Top
<1>16. DeathsAreReal'
  BY <1>g, <1>s, <1>t, <1>d, <1>a DEF DeathsAreReal
<1> QED BY <1>s, <1>1, <1>2, <1>3, <1>4, <1>5, <1>6, <1>7, <1>8, <1>9, <1>10, <1>11, <1>12, <1>13, <1>14, <1>15, <1>16

\* The caller gives up a request in progress.
LEMMA AbandonStep ==
  ASSUME IInv, NEW c \in Callers, Abandon(c)
  PROVE  IInv'
<1> USE DEF IInv
<1>k. PICK k \in Children : k = at[c]
  BY Kinds DEF PrivateInv, Abandon, Next_, Top
<1> DEFINE s == <<>> \o Tail(todo[c])
<1>g. /\ Top(todo[c]) = "await"
      /\ ch[k].st # "done"
      /\ UNCHANGED <<at, io, child, pending, retired, listed, ours, hooked, queue, gate, quit, told, fell, late, torn, kills>>
  BY <1>k, Kinds DEF Abandon, Next_, Top, Then, warm, super, ghosts
<1>h. Top(todo[c]) = "await"
  BY <1>g
<1>w. todo' = [todo EXCEPT ![c] = s]
  BY <1>g DEF Abandon, Then
<1>m. Shaped(c, todo[c])
  BY Kinds DEF ShapeInv
<1>n. Shaped(c, s) /\ Top(s) = "unlock" /\ Same(todo[c], s)
  BY <1>h, <1>m, Kinds, Pops DEF Goes, Same, InLease, InKill
<1> HIDE DEF s
<1>s. /\ ShapeInv' /\ todo'[c] = s /\ \A u \in Threads \ {c} : todo'[u] = todo[u]
      /\ \A u \in Threads : Known(u, todo[u]) /\ Known(u, todo'[u])
  BY <1>w, <1>n, <1>g, Kinds, Turned DEF ShapeInv
<1>t. /\ c \in Threads /\ Top(todo[c]) = "await" /\ Top(todo'[c]) = "unlock"
      /\ (Owns(todo'[c]) <=> Owns(todo[c]))
      /\ (Holds(todo'[c]) <=> Holds(todo[c]))
      /\ (Retires(todo'[c]) <=> Retires(todo[c]))
      /\ ~Owns(todo[c])
  BY <1>g, <1>s, <1>n, Kinds DEF Known, Same, InKill, InLease
<1>d. child \in Children \cup {0} /\ ~(0 \in Children)
  BY TypesOf
<1>c. /\ ch' \in [Children -> ChildRecs] /\ \A j \in Children \ {k} : ch'[j] = ch[j]
      /\ ch'[k].st = ch[k].st /\ ch'[k].left = TRUE /\ ch'[k].proc = ch[k].proc /\ ch'[k].owner = ch[k].owner
      /\ ch'[k].signaled = ch[k].signaled /\ ch'[k].settled = ch[k].settled /\ ch'[k].once = ch[k].once
  BY <1>k, <1>g, SetLeft DEF Abandon
<1>e. /\ \A j \in Children : ch'[j].st = ch[j].st /\ ch'[j].proc = ch[j].proc /\ ch'[j].owner = ch[j].owner
      /\ \A j \in Children : ch'[j].signaled = ch[j].signaled /\ ch'[j].settled = ch[j].settled /\ ch'[j].once = ch[j].once
      /\ Requests' = Requests
  BY <1>c DEF Requests
<1>1. TypeOK'
  <2>1. \A u \in Threads : ToSet(todo'[u]) \subseteq Steps
    BY <1>s DEF Known, ToSet
  <2>2. child \in 0 .. MaxSpawns /\ 0 \in 0 .. MaxSpawns
    BY TypesOf
  <2> QED BY <1>k, <1>g, <1>s, <1>t, <1>d, <1>c, <1>e, <2>1, <2>2 DEF TypeOK, ChildRecs, Children
<1>2. IoInv'
  BY <1>k, <1>g, <1>s, <1>t, <1>d, <1>c, <1>e DEF IoInv
<1>3. RequestInv'
  BY <1>k, <1>g, <1>s, <1>t, <1>d, <1>c, <1>e DEF RequestInv, Requests, PrivateInv
<1>4. QueueInv'
  BY <1>k, <1>g, <1>s, <1>t, <1>d, <1>c, <1>e DEF QueueInv
<1>5. ProcInv'
  BY <1>k, <1>g, <1>s, <1>t, <1>d, <1>c, <1>e DEF ProcInv
<1>6. WaitInv'
  BY <1>k, <1>g, <1>s, <1>t, <1>d, <1>c, <1>e DEF WaitInv, At
<1>7. PrivateInv'
  BY <1>k, <1>g, <1>s, <1>t, <1>d, <1>c, <1>e DEF PrivateInv
<1>8. HoldInv'
  BY <1>k, <1>g, <1>s, <1>t, <1>d, <1>c, <1>e DEF HoldInv
<1>9. AtInv'
  BY <1>k, <1>g, <1>s, <1>t, <1>d, <1>c, <1>e DEF AtInv
<1>10. OwnerInv'
  BY <1>k, <1>g, <1>s, <1>t, <1>d, <1>c, <1>e DEF OwnerInv
<1>11. LimboInv'
  BY <1>k, <1>g, <1>s, <1>t, <1>d, <1>c, <1>e DEF LimboInv, At, Foreign
<1>12. LateInv'
  BY <1>k, <1>g, <1>s, <1>t, <1>d, <1>c, <1>e DEF LateInv, AtInv
<1>13. DeathInv'
  BY <1>k, <1>g, <1>s, <1>t, <1>d, <1>c, <1>e DEF DeathInv, At
<1>14. RetireInv'
  BY <1>k, <1>g, <1>s, <1>t, <1>d, <1>c, <1>e DEF RetireInv, Alive
<1>15. NoOrphan'
  BY <1>k, <1>g, <1>s, <1>t, <1>d, <1>c, <1>e DEF NoOrphan, Alive, Next_, Top, ProcInv
<1>16. DeathsAreReal'
  BY <1>k, <1>g, <1>s, <1>t, <1>d, <1>c, <1>e DEF DeathsAreReal
<1> QED BY <1>s, <1>1, <1>2, <1>3, <1>4, <1>5, <1>6, <1>7, <1>8, <1>9, <1>10, <1>11, <1>12, <1>13, <1>14, <1>15, <1>16

\* The child is published.
LEMMA PublishOkStep ==
  ASSUME IInv, NEW c \in Callers, Publish(c), ~Refused
  PROVE  IInv'
<1> USE DEF IInv
<1>k. PICK k \in Children : k = at[c]
  BY Kinds DEF PrivateInv, Publish, Next_, Top
<1> DEFINE s == <<"greet">> \o Tail(todo[c])
<1>g. /\ Top(todo[c]) = "publish"
      /\ ~retired
      /\ quit = "no"
      /\ child = 0
      /\ child' = k
      /\ torn \subseteq torn'
      /\ torn' \subseteq torn \cup {k}
      /\ k \in torn' \/ \A u \in Threads : Top(todo[u]) # "find"
      /\ UNCHANGED <<at, io, pending, retired, listed, ours, hooked, ch, queue, gate, quit, told, fell, late, kills>>
  BY <1>k, Kinds DEF Publish, Next_, Top, Then, warm, super, ghosts, Refused
<1>h. Top(todo[c]) = "publish"
  BY <1>g
<1>w. todo' = [todo EXCEPT ![c] = s]
  BY <1>g DEF Publish, Then, Refused
<1>m. Shaped(c, todo[c])
  BY Kinds DEF ShapeInv
<1>n. Shaped(c, s) /\ Top(s) = "greet" /\ Same(todo[c], s)
  BY <1>h, <1>m, Kinds, LeaseMoves DEF Goes, Same, InLease, InKill
<1> HIDE DEF s
<1>s. /\ ShapeInv' /\ todo'[c] = s /\ \A u \in Threads \ {c} : todo'[u] = todo[u]
      /\ \A u \in Threads : Known(u, todo[u]) /\ Known(u, todo'[u])
  BY <1>w, <1>n, <1>g, Kinds, Turned DEF ShapeInv
<1>t. /\ c \in Threads /\ Top(todo[c]) = "publish" /\ Top(todo'[c]) = "greet"
      /\ (Owns(todo'[c]) <=> Owns(todo[c]))
      /\ (Holds(todo'[c]) <=> Holds(todo[c]))
      /\ (Retires(todo'[c]) <=> Retires(todo[c]))
      /\ ~Owns(todo[c])
      /\ Holds(todo[c])
  BY <1>g, <1>s, <1>n, Kinds DEF Known, Same, InKill, InLease
<1>d. child \in Children \cup {0} /\ ~(0 \in Children)
  BY TypesOf
<1>x. \A u \in Threads \ {c} : Top(todo[u]) \notin {"arm", "spawn", "await", "publish", "greet", "lease"} /\ ~Owns(todo[u])
  BY <1>t, Alone
<1>1. TypeOK'
  <2>1. \A u \in Threads : ToSet(todo'[u]) \subseteq Steps
    BY <1>s DEF Known, ToSet
  <2>2. child \in 0 .. MaxSpawns /\ 0 \in 0 .. MaxSpawns
    BY TypesOf
  <2> QED BY <1>k, <1>g, <1>s, <1>t, <1>d, <1>x, <2>1, <2>2 DEF TypeOK, ChildRecs, Children
<1>2. IoInv'
  BY <1>k, <1>g, <1>s, <1>t, <1>d, <1>x DEF IoInv
<1>3. RequestInv'
  BY <1>k, <1>g, <1>s, <1>t, <1>d, <1>x DEF RequestInv, Requests, PrivateInv
<1>4. QueueInv'
  BY <1>k, <1>g, <1>s, <1>t, <1>d, <1>x DEF QueueInv
<1>5. ProcInv'
  BY <1>k, <1>g, <1>s, <1>t, <1>d, <1>x DEF ProcInv, PrivateInv
<1>6. WaitInv'
  BY <1>k, <1>g, <1>s, <1>t, <1>d, <1>x DEF WaitInv, At
<1>7. PrivateInv'
  BY <1>k, <1>g, <1>s, <1>t, <1>d, <1>x DEF PrivateInv
<1>8. HoldInv'
  BY <1>k, <1>g, <1>s, <1>t, <1>d, <1>x DEF HoldInv
<1>9. AtInv'
  BY <1>k, <1>g, <1>s, <1>t, <1>d, <1>x DEF AtInv, PrivateInv
<1>10. OwnerInv'
  BY <1>k, <1>g, <1>s, <1>t, <1>d, <1>x DEF OwnerInv
<1>11. LimboInv'
  BY <1>k, <1>g, <1>s, <1>t, <1>d, <1>x DEF LimboInv, At, Foreign, PrivateInv
<1>12. LateInv'
  BY <1>k, <1>g, <1>s, <1>t, <1>d, <1>x DEF LateInv
<1>13. DeathInv'
  BY <1>k, <1>g, <1>s, <1>t, <1>d, <1>x DEF DeathInv, At, PrivateInv
<1>14. RetireInv'
  BY <1>k, <1>g, <1>s, <1>t, <1>d, <1>x DEF RetireInv, Alive
<1>15. NoOrphan'
  BY <1>k, <1>g, <1>s, <1>t, <1>d, <1>x DEF NoOrphan, Alive, Next_, Top
<1>16. DeathsAreReal'
  BY <1>k, <1>g, <1>s, <1>t, <1>d, <1>x DEF DeathsAreReal
<1> QED BY <1>s, <1>1, <1>2, <1>3, <1>4, <1>5, <1>6, <1>7, <1>8, <1>9, <1>10, <1>11, <1>12, <1>13, <1>14, <1>15, <1>16

\* A call of kill().
LEMMA StopStep ==
  ASSUME IInv, NEW u0 \in Stoppers, Stop(u0)
  PROVE  IInv'
<1> USE DEF IInv
<1> DEFINE s == Kill
<1>g. /\ Top(todo[u0]) = "idle"
      /\ at' = [at EXCEPT ![u0] = 0]
      /\ UNCHANGED <<io, child, pending, retired, listed, ours, hooked, ch, queue, gate, quit, told, fell, late, torn>>
  BY Kinds DEF Stop, Next_, Top, Start, Bare, warm, super, ghosts
<1>h. Top(todo[u0]) = "idle"
  BY <1>g
<1>w. todo' = [todo EXCEPT ![u0] = s]
  BY <1>g DEF Stop, Start
<1>m. Shaped(u0, todo[u0])
  BY Kinds DEF ShapeInv
<1>n. Shaped(u0, s) /\ Top(s) = "mark" /\ ~Retires(s)
  BY <1>h, <1>m, Kinds, Starts DEF Goes, Same, InLease, InKill
<1> HIDE DEF s
<1>a. at' \in [Threads -> 0 .. MaxSpawns] /\ at'[u0] = 0 /\ \A u \in Threads \ {u0} : at'[u] = at[u]
  BY <1>g, Kinds, TypesOf DEF ShapeInv, TypeOK, Children
<1>s. /\ ShapeInv' /\ todo'[u0] = s /\ \A u \in Threads \ {u0} : todo'[u] = todo[u]
      /\ \A u \in Threads : Known(u, todo[u]) /\ Known(u, todo'[u])
  BY <1>w, <1>n, <1>a, Kinds, Turned DEF ShapeInv
<1>t. /\ u0 \in Threads /\ Top(todo[u0]) = "idle" /\ Top(todo'[u0]) = "mark"
      /\ ~Owns(todo'[u0])
      /\ ~Holds(todo'[u0])
      /\ ~Retires(todo'[u0])
      /\ ~Owns(todo[u0])
      /\ ~Holds(todo[u0])
  BY <1>g, <1>s, <1>n, Kinds DEF Known, Same, InKill, InLease
<1>d. child \in Children \cup {0} /\ ~(0 \in Children)
  BY TypesOf
<1>1. TypeOK'
  <2>1. \A u \in Threads : ToSet(todo'[u]) \subseteq Steps
    BY <1>s DEF Known, ToSet
  <2>2. child \in 0 .. MaxSpawns /\ 0 \in 0 .. MaxSpawns
    BY TypesOf
  <2> QED BY <1>g, <1>s, <1>t, <1>d, <1>a, <2>1, <2>2 DEF TypeOK, ChildRecs, Children, ShapeInv
<1>2. IoInv'
  BY <1>g, <1>s, <1>t, <1>d, <1>a DEF IoInv
<1>3. RequestInv'
  BY <1>g, <1>s, <1>t, <1>d, <1>a DEF RequestInv, Requests
<1>4. QueueInv'
  BY <1>g, <1>s, <1>t, <1>d, <1>a DEF QueueInv
<1>5. ProcInv'
  BY <1>g, <1>s, <1>t, <1>d, <1>a DEF ProcInv
<1>6. WaitInv'
  BY <1>g, <1>s, <1>t, <1>d, <1>a DEF WaitInv, At
<1>7. PrivateInv'
  BY <1>g, <1>s, <1>t, <1>d, <1>a DEF PrivateInv
<1>8. HoldInv'
  BY <1>g, <1>s, <1>t, <1>d, <1>a DEF HoldInv
<1>9. AtInv'
  BY <1>g, <1>s, <1>t, <1>d, <1>a DEF AtInv
<1>10. OwnerInv'
  BY <1>g, <1>s, <1>t, <1>d, <1>a DEF OwnerInv
<1>11. LimboInv'
  BY <1>g, <1>s, <1>t, <1>d, <1>a DEF LimboInv, At, Foreign
<1>12. LateInv'
  BY <1>g, <1>s, <1>t, <1>d, <1>a DEF LateInv
<1>13. DeathInv'
  BY <1>g, <1>s, <1>t, <1>d, <1>a DEF DeathInv, At
<1>14. RetireInv'
  BY <1>g, <1>s, <1>t, <1>d, <1>a DEF RetireInv, Alive
<1>15. NoOrphan'
  BY <1>g, <1>s, <1>t, <1>d, <1>a DEF NoOrphan, Alive, Next_, Top
<1>16. DeathsAreReal'
  BY <1>g, <1>s, <1>t, <1>d, <1>a DEF DeathsAreReal
<1> QED BY <1>s, <1>1, <1>2, <1>3, <1>4, <1>5, <1>6, <1>7, <1>8, <1>9, <1>10, <1>11, <1>12, <1>13, <1>14, <1>15, <1>16

\* A call of retire().
LEMMA StopForGoodStep ==
  ASSUME IInv, NEW u0 \in Stoppers, StopForGood(u0)
  PROVE  IInv'
<1> USE DEF IInv
<1> DEFINE s == <<"retire">> \o Kill \o <<"unlist">>
<1>g. /\ Top(todo[u0]) = "idle"
      /\ at' = [at EXCEPT ![u0] = 0]
      /\ UNCHANGED <<io, child, pending, retired, listed, ours, hooked, ch, queue, gate, quit, told, fell, late, torn>>
  BY Kinds DEF StopForGood, Next_, Top, Start, Bare, warm, super, ghosts
<1>h. Top(todo[u0]) = "idle"
  BY <1>g
<1>w. todo' = [todo EXCEPT ![u0] = s]
  BY <1>g DEF StopForGood, Start
<1>m. Shaped(u0, todo[u0])
  BY Kinds DEF ShapeInv
<1>n. Shaped(u0, s) /\ Top(s) = "retire"
  BY <1>h, <1>m, Kinds, Starts DEF Goes, Same, InLease, InKill
<1> HIDE DEF s
<1>a. at' \in [Threads -> 0 .. MaxSpawns] /\ at'[u0] = 0 /\ \A u \in Threads \ {u0} : at'[u] = at[u]
  BY <1>g, Kinds, TypesOf DEF ShapeInv, TypeOK, Children
<1>s. /\ ShapeInv' /\ todo'[u0] = s /\ \A u \in Threads \ {u0} : todo'[u] = todo[u]
      /\ \A u \in Threads : Known(u, todo[u]) /\ Known(u, todo'[u])
  BY <1>w, <1>n, <1>a, Kinds, Turned DEF ShapeInv
<1>t. /\ u0 \in Threads /\ Top(todo[u0]) = "idle" /\ Top(todo'[u0]) = "retire"
      /\ ~Owns(todo'[u0])
      /\ ~Holds(todo'[u0])
      /\ Retires(todo'[u0])
      /\ ~Owns(todo[u0])
      /\ ~Holds(todo[u0])
  BY <1>g, <1>s, <1>n, Kinds DEF Known, Same, InKill, InLease
<1>d. child \in Children \cup {0} /\ ~(0 \in Children)
  BY TypesOf
<1>1. TypeOK'
  <2>1. \A u \in Threads : ToSet(todo'[u]) \subseteq Steps
    BY <1>s DEF Known, ToSet
  <2>2. child \in 0 .. MaxSpawns /\ 0 \in 0 .. MaxSpawns
    BY TypesOf
  <2> QED BY <1>g, <1>s, <1>t, <1>d, <1>a, <2>1, <2>2 DEF TypeOK, ChildRecs, Children, ShapeInv
<1>2. IoInv'
  BY <1>g, <1>s, <1>t, <1>d, <1>a DEF IoInv
<1>3. RequestInv'
  BY <1>g, <1>s, <1>t, <1>d, <1>a DEF RequestInv, Requests
<1>4. QueueInv'
  BY <1>g, <1>s, <1>t, <1>d, <1>a DEF QueueInv
<1>5. ProcInv'
  BY <1>g, <1>s, <1>t, <1>d, <1>a DEF ProcInv
<1>6. WaitInv'
  BY <1>g, <1>s, <1>t, <1>d, <1>a DEF WaitInv, At
<1>7. PrivateInv'
  BY <1>g, <1>s, <1>t, <1>d, <1>a DEF PrivateInv
<1>8. HoldInv'
  BY <1>g, <1>s, <1>t, <1>d, <1>a DEF HoldInv
<1>9. AtInv'
  BY <1>g, <1>s, <1>t, <1>d, <1>a DEF AtInv
<1>10. OwnerInv'
  BY <1>g, <1>s, <1>t, <1>d, <1>a DEF OwnerInv
<1>11. LimboInv'
  BY <1>g, <1>s, <1>t, <1>d, <1>a DEF LimboInv, At, Foreign
<1>12. LateInv'
  BY <1>g, <1>s, <1>t, <1>d, <1>a DEF LateInv
<1>13. DeathInv'
  BY <1>g, <1>s, <1>t, <1>d, <1>a DEF DeathInv, At
<1>14. RetireInv'
  BY <1>g, <1>s, <1>t, <1>d, <1>a DEF RetireInv, Alive
<1>15. NoOrphan'
  BY <1>g, <1>s, <1>t, <1>d, <1>a DEF NoOrphan, Alive, Next_, Top
<1>16. DeathsAreReal'
  BY <1>g, <1>s, <1>t, <1>d, <1>a DEF DeathsAreReal
<1> QED BY <1>s, <1>1, <1>2, <1>3, <1>4, <1>5, <1>6, <1>7, <1>8, <1>9, <1>10, <1>11, <1>12, <1>13, <1>14, <1>15, <1>16

\* The reaper tries the pipe lock.
LEMMA TryEvictStep ==
  ASSUME IInv, TryEvict
  PROVE  IInv'
<1> USE DEF IInv
<1> DEFINE s == <<"again", "unlock">>
<1>g. /\ Top(todo[Reaper]) = "idle"
      /\ io = Nobody
      /\ io' = Reaper
      /\ Nobody \notin Threads
      /\ UNCHANGED <<at, child, pending, retired, listed, ours, hooked, ch, queue, gate, quit, told, fell, late, torn>>
  BY Kinds DEF TryEvict, Next_, Top, Start, Bare, warm, super, ghosts
<1>h. Top(todo[Reaper]) = "idle"
  BY <1>g
<1>w. todo' = [todo EXCEPT ![Reaper] = s]
  BY <1>g DEF TryEvict, Start
<1>m. Shaped(Reaper, todo[Reaper])
  BY Kinds DEF ShapeInv
<1>n. Shaped(Reaper, s) /\ Top(s) = "again"
  BY <1>h, <1>m, Kinds, Starts DEF Goes, Same, InLease, InKill
<1> HIDE DEF s
<1>s. /\ ShapeInv' /\ todo'[Reaper] = s /\ \A u \in Threads \ {Reaper} : todo'[u] = todo[u]
      /\ \A u \in Threads : Known(u, todo[u]) /\ Known(u, todo'[u])
  BY <1>w, <1>n, <1>g, Kinds, Turned DEF ShapeInv
<1>t. /\ Reaper \in Threads /\ Top(todo[Reaper]) = "idle" /\ Top(todo'[Reaper]) = "again"
      /\ ~Owns(todo'[Reaper])
      /\ Holds(todo'[Reaper])
      /\ ~Retires(todo'[Reaper])
      /\ ~Owns(todo[Reaper])
      /\ ~Holds(todo[Reaper])
  BY <1>g, <1>s, <1>n, Kinds DEF Known, Same, InKill, InLease
<1>d. child \in Children \cup {0} /\ ~(0 \in Children)
  BY TypesOf
<1>1. TypeOK'
  <2>1. \A u \in Threads : ToSet(todo'[u]) \subseteq Steps
    BY <1>s DEF Known, ToSet
  <2>2. child \in 0 .. MaxSpawns /\ 0 \in 0 .. MaxSpawns
    BY TypesOf
  <2> QED BY <1>g, <1>s, <1>t, <1>d, <2>1, <2>2 DEF TypeOK, ChildRecs, Children
<1>2. IoInv'
  BY <1>g, <1>s, <1>t, <1>d DEF IoInv
<1>3. RequestInv'
  BY <1>g, <1>s, <1>t, <1>d DEF RequestInv, Requests
<1>4. QueueInv'
  BY <1>g, <1>s, <1>t, <1>d DEF QueueInv
<1>5. ProcInv'
  BY <1>g, <1>s, <1>t, <1>d DEF ProcInv
<1>6. WaitInv'
  BY <1>g, <1>s, <1>t, <1>d DEF WaitInv, At
<1>7. PrivateInv'
  BY <1>g, <1>s, <1>t, <1>d DEF PrivateInv
<1>8. HoldInv'
  BY <1>g, <1>s, <1>t, <1>d DEF HoldInv
<1>9. AtInv'
  BY <1>g, <1>s, <1>t, <1>d DEF AtInv
<1>10. OwnerInv'
  BY <1>g, <1>s, <1>t, <1>d DEF OwnerInv
<1>11. LimboInv'
  BY <1>g, <1>s, <1>t, <1>d DEF LimboInv, At, Foreign
<1>12. LateInv'
  BY <1>g, <1>s, <1>t, <1>d DEF LateInv
<1>13. DeathInv'
  BY <1>g, <1>s, <1>t, <1>d DEF DeathInv, At
<1>14. RetireInv'
  BY <1>g, <1>s, <1>t, <1>d DEF RetireInv, Alive
<1>15. NoOrphan'
  BY <1>g, <1>s, <1>t, <1>d DEF NoOrphan, Alive, Next_, Top
<1>16. DeathsAreReal'
  BY <1>g, <1>s, <1>t, <1>d DEF DeathsAreReal
<1> QED BY <1>s, <1>1, <1>2, <1>3, <1>4, <1>5, <1>6, <1>7, <1>8, <1>9, <1>10, <1>11, <1>12, <1>13, <1>14, <1>15, <1>16

\* The warm child is out of the registry.
LEMMA UnlistStep ==
  ASSUME IInv, NEW t \in Threads, Unlist(t)
  PROVE  IInv'
<1> USE DEF IInv
<1> DEFINE s == <<>> \o Tail(todo[t])
<1>g. /\ Top(todo[t]) = "unlist"
      /\ listed' = FALSE
      /\ UNCHANGED <<at, io, child, pending, retired, ours, hooked, ch, queue, gate, quit, told, fell, late, torn, kills>>
  BY Kinds DEF Unlist, Next_, Top, Then, warm, super, ghosts
<1>h. Top(todo[t]) = "unlist"
  BY <1>g
<1>w. todo' = [todo EXCEPT ![t] = s]
  BY <1>g DEF Unlist, Then
<1>m. Shaped(t, todo[t])
  BY Kinds DEF ShapeInv
<1>u. s = Bare \/ (t = Quitter /\ s = Ungating)
  BY <1>g, <1>m, Pops
<1>n. Shaped(t, s) /\ Top(s) \in {"idle", "ungate"} /\ ~Owns(s) /\ ~Holds(s) /\ ~Retires(s)
  BY <1>h, <1>m, Kinds, <1>u, Named DEF Shaped, Goes, Same, InLease, InKill
<1> HIDE DEF s
<1>s. /\ ShapeInv' /\ todo'[t] = s /\ \A u \in Threads \ {t} : todo'[u] = todo[u]
      /\ \A u \in Threads : Known(u, todo[u]) /\ Known(u, todo'[u])
  BY <1>w, <1>n, <1>g, Kinds, Turned DEF ShapeInv
<1>t. /\ t \in Threads /\ Top(todo[t]) = "unlist" /\ Top(todo'[t]) \in {"idle", "ungate"}
      /\ ~Owns(todo'[t])
      /\ ~Holds(todo'[t])
      /\ ~Retires(todo'[t])
      /\ ~Owns(todo[t])
      /\ ~Holds(todo[t])
      /\ Retires(todo[t])
  BY <1>g, <1>s, <1>n, Kinds DEF Known, Same, InKill, InLease
<1>d. child \in Children \cup {0} /\ ~(0 \in Children)
  BY TypesOf
<1>1. TypeOK'
  <2>1. \A u \in Threads : ToSet(todo'[u]) \subseteq Steps
    BY <1>s DEF Known, ToSet
  <2>2. child \in 0 .. MaxSpawns /\ 0 \in 0 .. MaxSpawns
    BY TypesOf
  <2> QED BY <1>g, <1>s, <1>t, <1>d, <2>1, <2>2 DEF TypeOK, ChildRecs, Children
<1>2. IoInv'
  BY <1>g, <1>s, <1>t, <1>d DEF IoInv
<1>3. RequestInv'
  BY <1>g, <1>s, <1>t, <1>d DEF RequestInv, Requests
<1>4. QueueInv'
  BY <1>g, <1>s, <1>t, <1>d DEF QueueInv
<1>5. ProcInv'
  BY <1>g, <1>s, <1>t, <1>d DEF ProcInv
<1>6. WaitInv'
  BY <1>g, <1>s, <1>t, <1>d DEF WaitInv, At
<1>7. PrivateInv'
  BY <1>g, <1>s, <1>t, <1>d DEF PrivateInv
<1>8. HoldInv'
  BY <1>g, <1>s, <1>t, <1>d DEF HoldInv
<1>9. AtInv'
  BY <1>g, <1>s, <1>t, <1>d DEF AtInv
<1>10. OwnerInv'
  BY <1>g, <1>s, <1>t, <1>d DEF OwnerInv
<1>11. LimboInv'
  BY <1>g, <1>s, <1>t, <1>d DEF LimboInv, At, Foreign
<1>12. LateInv'
  BY <1>g, <1>s, <1>t, <1>d DEF LateInv
<1>13. DeathInv'
  BY <1>g, <1>s, <1>t, <1>d DEF DeathInv, At
<1>14. RetireInv'
  BY <1>g, <1>s, <1>t, <1>d DEF RetireInv, Alive
<1>15. NoOrphan'
  BY <1>g, <1>s, <1>t, <1>d DEF NoOrphan, Alive, Next_, Top
<1>16. DeathsAreReal'
  BY <1>g, <1>s, <1>t, <1>d DEF DeathsAreReal
<1> QED BY <1>s, <1>1, <1>2, <1>3, <1>4, <1>5, <1>6, <1>7, <1>8, <1>9, <1>10, <1>11, <1>12, <1>13, <1>14, <1>15, <1>16

\* The next request is the one after the last.
LEMMA Fresh ==
  ASSUME RequestInv, Requests # Children
  PROVE  \E k \in Children : /\ k = Cardinality(Requests) + 1 /\ ch[k].st = "none"
                             /\ \E n \in Nat : Requests \cup {k} = 1 .. n
<1>1. PICK n \in Nat : Requests = 1 .. n
  BY DEF RequestInv
<1>2. Cardinality(Requests) = n
  <2>1. 1 \in Int /\ n \in Int
    OBVIOUS
  <2>2. Cardinality(1 .. n) = IF 1 > n THEN 0 ELSE n - 1 + 1
    BY <2>1, FS_Interval
  <2> QED BY <1>1, <2>2
<1>3. MaxSpawns \in Nat \ {0} /\ Children = 1 .. MaxSpawns /\ 1 .. n \subseteq 1 .. MaxSpawns
      /\ 1 .. n # 1 .. MaxSpawns
  BY <1>1, WarmAssumption DEF Children, Requests
<1>4. n < MaxSpawns
  <2>1. n \in 1 .. n \/ n = 0
    OBVIOUS
  <2> QED BY <2>1, <1>3
<1>5. n + 1 \in Children /\ n + 1 \notin Requests /\ Requests \cup {n + 1} = 1 .. (n + 1)
  BY <1>1, <1>3, <1>4
<1>6. ch[n + 1].st = "none" /\ n + 1 \in Nat
  BY <1>5 DEF Requests
<1> QED BY <1>2, <1>5, <1>6

\* The elements of a sequence over a set are in the set.
LEMMA SeqSet ==
  ASSUME NEW X, NEW q \in Seq(X)
  PROVE  ToSet(q) \subseteq X
BY DEF ToSet

\* What is queued is queued once.
LEMMA Queued ==
  ASSUME QueueInv, NEW k \in 0 .. MaxSpawns, ~Contains(queue, k), queue' = Append(queue, k)
  PROVE  /\ queue' \in Seq(0 .. MaxSpawns) /\ IsDistinct(queue')
         /\ \A x : Contains(queue', x) <=> Contains(queue, x) \/ x = k
<1> DEFINE X == 0 .. MaxSpawns
<1>1. k \in X /\ queue \in Seq(X) /\ IsDistinct(queue)
  BY DEF QueueInv
<1> HIDE DEF X
<1>2. queue' \in Seq(X) /\ IsDistinct(queue')
      /\ \A x : Contains(queue', x) <=> Contains(queue, x) \/ x = k
  BY <1>1, AppendContains
<1> QED BY <1>2 DEF X

\* The request is queued.
LEMMA EnqueueOkStep ==
  ASSUME IInv, NEW c \in Callers, Enqueue(c), quit = "no"
  PROVE  IInv'
<1> USE DEF IInv
<1>k. PICK k \in Children : k = Cardinality(Requests) + 1 /\ ch[k].st = "none"
        /\ \E n \in Nat : Requests \cup {k} = 1 .. n
  BY Fresh, Kinds DEF RequestInv, Enqueue, Next_, Top
<1> DEFINE s == <<"await">> \o Tail(todo[c])
<1>g. /\ Top(todo[c]) = "spawn"
      /\ quit = "no"
      /\ at' = [at EXCEPT ![c] = k]
      /\ queue' = Append(queue, k)
      /\ ch[k].st = "none"
      /\ UNCHANGED <<io, child, pending, retired, listed, ours, hooked, gate, quit, told, fell, late, torn, kills>>
  BY <1>k, Kinds DEF Enqueue, Next_, Top, Then, warm, super, ghosts
<1>h. Top(todo[c]) = "spawn"
  BY <1>g
<1>w. todo' = [todo EXCEPT ![c] = s]
  BY <1>g DEF Enqueue, Then
<1>m. Shaped(c, todo[c])
  BY Kinds DEF ShapeInv
<1>n. Shaped(c, s) /\ Top(s) = "await" /\ Same(todo[c], s)
  BY <1>h, <1>m, Kinds, LeaseMoves DEF Goes, Same, InLease, InKill
<1> HIDE DEF s
<1>a. at' \in [Threads -> 0 .. MaxSpawns] /\ at'[c] = k /\ \A u \in Threads \ {c} : at'[u] = at[u]
  BY <1>g, <1>k, Kinds DEF ShapeInv, TypeOK, Children
<1>s. /\ ShapeInv' /\ todo'[c] = s /\ \A u \in Threads \ {c} : todo'[u] = todo[u]
      /\ \A u \in Threads : Known(u, todo[u]) /\ Known(u, todo'[u])
  BY <1>w, <1>n, <1>a, Kinds, Turned DEF ShapeInv
<1>t. /\ c \in Threads /\ Top(todo[c]) = "spawn" /\ Top(todo'[c]) = "await"
      /\ (Owns(todo'[c]) <=> Owns(todo[c]))
      /\ (Holds(todo'[c]) <=> Holds(todo[c]))
      /\ (Retires(todo'[c]) <=> Retires(todo[c]))
      /\ ~Owns(todo[c])
      /\ Holds(todo[c])
  BY <1>g, <1>s, <1>n, Kinds DEF Known, Same, InKill, InLease
<1>d. child \in Children \cup {0} /\ ~(0 \in Children)
  BY TypesOf
<1>c. /\ ch' \in [Children -> ChildRecs] /\ \A j \in Children \ {k} : ch'[j] = ch[j]
      /\ ch'[k].st = "queued" /\ ch'[k].left = ch[k].left /\ ch'[k].proc = ch[k].proc /\ ch'[k].owner = ch[k].owner
      /\ ch'[k].signaled = ch[k].signaled /\ ch'[k].settled = ch[k].settled /\ ch'[k].once = ch[k].once
  BY <1>k, <1>g, SetSt DEF Enqueue
<1>e. /\ \A j \in Children : ch'[j].left = ch[j].left /\ ch'[j].proc = ch[j].proc /\ ch'[j].owner = ch[j].owner
      /\ \A j \in Children : ch'[j].signaled = ch[j].signaled /\ ch'[j].settled = ch[j].settled /\ ch'[j].once = ch[j].once
  BY <1>c DEF Requests
<1>x. \A u \in Threads \ {c} : Top(todo[u]) \notin {"arm", "spawn", "await", "publish", "greet", "lease"} /\ ~Owns(todo[u])
  BY <1>t, Alone
<1>f. ~Contains(queue, k) /\ k \in 0 .. MaxSpawns
  BY <1>g, <1>d, TypesOf, <1>k DEF QueueInv, Children
<1>j. queue' = Append(queue, k)
  BY <1>g
<1>q. /\ queue' \in Seq(0 .. MaxSpawns) /\ IsDistinct(queue')
      /\ \A x : Contains(queue', x) <=> Contains(queue, x) \/ x = k
  BY <1>f, <1>j, Queued
<1>y. ToSet(queue') \subseteq 0 .. MaxSpawns
  BY <1>q, SeqSet
<1>r. Requests' = Requests \cup {k}
  BY <1>k, <1>c DEF Requests
<1>1. TypeOK'
  <2>1. \A u \in Threads : ToSet(todo'[u]) \subseteq Steps
    BY <1>s DEF Known, ToSet
  <2>2. child \in 0 .. MaxSpawns /\ 0 \in 0 .. MaxSpawns
    BY TypesOf
  <2> QED BY <1>k, <1>g, <1>s, <1>t, <1>d, <1>a, <1>c, <1>e, <1>x, <1>y, <2>1, <2>2 DEF TypeOK, ChildRecs, Children, ShapeInv
<1>2. IoInv'
  BY <1>k, <1>g, <1>s, <1>t, <1>d, <1>a, <1>c, <1>e, <1>x DEF IoInv
<1>3. RequestInv'
  <2>1. \E n \in Nat : Requests' = 1 .. n
    BY <1>k, <1>r
  <2>2. ASSUME NEW j \in Children, ch'[j].st = "none"
        PROVE  child' # j /\ ch'[j].proc = "none" /\ ~ch'[j].left /\ \A u \in Threads : at'[u] # j
    <3>1. j # k /\ ch[j].st = "none"
      BY <2>2, <1>c
    <3> QED BY <3>1, <1>g, <1>a, <1>e DEF RequestInv
  <2>3. \A u \in Threads : Top(todo'[u]) # "spawn"
    BY <1>s, <1>t, <1>x
  <2> QED BY <2>1, <2>2, <2>3 DEF RequestInv
<1>4. QueueInv'
  BY <1>k, <1>g, <1>s, <1>t, <1>d, <1>a, <1>c, <1>e, <1>x, <1>q DEF QueueInv
<1>5. ProcInv'
  BY <1>k, <1>g, <1>s, <1>t, <1>d, <1>a, <1>c, <1>e, <1>x DEF ProcInv
<1>6. WaitInv'
  BY <1>k, <1>g, <1>s, <1>t, <1>d, <1>a, <1>c, <1>e, <1>x DEF WaitInv, At, RequestInv
<1>7. PrivateInv'
  BY <1>k, <1>g, <1>s, <1>t, <1>d, <1>a, <1>c, <1>e, <1>x DEF PrivateInv, RequestInv, ProcInv
<1>8. HoldInv'
  BY <1>k, <1>g, <1>s, <1>t, <1>d, <1>a, <1>c, <1>e, <1>x DEF HoldInv
<1>9. AtInv'
  BY <1>k, <1>g, <1>s, <1>t, <1>d, <1>a, <1>c, <1>e, <1>x DEF AtInv, RequestInv
<1>10. OwnerInv'
  BY <1>k, <1>g, <1>s, <1>t, <1>d, <1>a, <1>c, <1>e, <1>x DEF OwnerInv, RequestInv
<1>11. LimboInv'
  BY <1>k, <1>g, <1>s, <1>t, <1>d, <1>a, <1>c, <1>e, <1>x DEF LimboInv, At, Foreign, ProcInv
<1>12. LateInv'
  BY <1>k, <1>g, <1>s, <1>t, <1>d, <1>a, <1>c, <1>e, <1>x DEF LateInv, AtInv, RequestInv
<1>13. DeathInv'
  BY <1>k, <1>g, <1>s, <1>t, <1>d, <1>a, <1>c, <1>e, <1>x DEF DeathInv, At
<1>14. RetireInv'
  BY <1>k, <1>g, <1>s, <1>t, <1>d, <1>a, <1>c, <1>e, <1>x DEF RetireInv, Alive
<1>15. NoOrphan'
  BY <1>k, <1>g, <1>s, <1>t, <1>d, <1>a, <1>c, <1>e, <1>x DEF NoOrphan, Alive, Next_, Top, ProcInv
<1>16. DeathsAreReal'
  BY <1>k, <1>g, <1>s, <1>t, <1>d, <1>a, <1>c, <1>e, <1>x DEF DeathsAreReal
<1> QED BY <1>s, <1>1, <1>2, <1>3, <1>4, <1>5, <1>6, <1>7, <1>8, <1>9, <1>10, <1>11, <1>12, <1>13, <1>14, <1>15, <1>16

\* shutdown_all retires the listed child.
LEMMA ShutDownListedStep ==
  ASSUME IInv, ShutDown, listed
  PROVE  IInv'
<1> USE DEF IInv
<1> DEFINE s == (<<"retire">> \o Kill \o <<"unlist">>) \o <<"ungate", "sweep">>
<1>g. /\ Top(todo[Quitter]) = "idle"
      /\ listed
      /\ quit = "no"
      /\ quit' = "on"
      /\ gate' = Quitter
      /\ queue' = Append(queue, 0)
      /\ UNCHANGED <<at, io, child, pending, retired, listed, ours, hooked, ch, told, fell, late, torn, kills>>
  BY Kinds DEF ShutDown, Next_, Top, Start, Bare, warm, super, ghosts
<1>h. Top(todo[Quitter]) = "idle"
  BY <1>g
<1>w. todo' = [todo EXCEPT ![Quitter] = s]
  BY <1>g DEF ShutDown, Start
<1>m. Shaped(Quitter, todo[Quitter])
  BY Kinds DEF ShapeInv
<1>n. Shaped(Quitter, s) /\ Top(s) = "retire"
  BY <1>h, <1>m, Kinds, Starts DEF Goes, Same, InLease, InKill
<1> HIDE DEF s
<1>s. /\ ShapeInv' /\ todo'[Quitter] = s /\ \A u \in Threads \ {Quitter} : todo'[u] = todo[u]
      /\ \A u \in Threads : Known(u, todo[u]) /\ Known(u, todo'[u])
  BY <1>w, <1>n, <1>g, Kinds, Turned DEF ShapeInv
<1>t. /\ Quitter \in Threads /\ Top(todo[Quitter]) = "idle" /\ Top(todo'[Quitter]) = "retire"
      /\ ~Owns(todo'[Quitter])
      /\ ~Holds(todo'[Quitter])
      /\ Retires(todo'[Quitter])
      /\ ~Owns(todo[Quitter])
      /\ ~Holds(todo[Quitter])
  BY <1>g, <1>s, <1>n, Kinds DEF Known, Same, InKill, InLease
<1>d. child \in Children \cup {0} /\ ~(0 \in Children)
  BY TypesOf
<1>f. ~Contains(queue, 0) /\ 0 \in 0 .. MaxSpawns
  BY <1>g, <1>d, TypesOf DEF QueueInv, Children
<1>j. queue' = Append(queue, 0)
  BY <1>g
<1>q. /\ queue' \in Seq(0 .. MaxSpawns) /\ IsDistinct(queue')
      /\ \A x : Contains(queue', x) <=> Contains(queue, x) \/ x = 0
  BY <1>f, <1>j, Queued
<1>y. ToSet(queue') \subseteq 0 .. MaxSpawns
  BY <1>q, SeqSet
<1>1. TypeOK'
  <2>1. \A u \in Threads : ToSet(todo'[u]) \subseteq Steps
    BY <1>s DEF Known, ToSet
  <2>2. child \in 0 .. MaxSpawns /\ 0 \in 0 .. MaxSpawns
    BY TypesOf
  <2> QED BY <1>g, <1>s, <1>t, <1>d, <1>y, <2>1, <2>2 DEF TypeOK, ChildRecs, Children
<1>2. IoInv'
  BY <1>g, <1>s, <1>t, <1>d DEF IoInv
<1>3. RequestInv'
  BY <1>g, <1>s, <1>t, <1>d DEF RequestInv, Requests
<1>4. QueueInv'
  BY <1>g, <1>s, <1>t, <1>d, <1>q DEF QueueInv
<1>5. ProcInv'
  BY <1>g, <1>s, <1>t, <1>d DEF ProcInv
<1>6. WaitInv'
  BY <1>g, <1>s, <1>t, <1>d DEF WaitInv, At
<1>7. PrivateInv'
  BY <1>g, <1>s, <1>t, <1>d DEF PrivateInv
<1>8. HoldInv'
  BY <1>g, <1>s, <1>t, <1>d DEF HoldInv
<1>9. AtInv'
  BY <1>g, <1>s, <1>t, <1>d DEF AtInv
<1>10. OwnerInv'
  BY <1>g, <1>s, <1>t, <1>d DEF OwnerInv
<1>11. LimboInv'
  BY <1>g, <1>s, <1>t, <1>d DEF LimboInv, At, Foreign
<1>12. LateInv'
  BY <1>g, <1>s, <1>t, <1>d DEF LateInv
<1>13. DeathInv'
  BY <1>g, <1>s, <1>t, <1>d DEF DeathInv, At
<1>14. RetireInv'
  BY <1>g, <1>s, <1>t, <1>d DEF RetireInv, Alive
<1>15. NoOrphan'
  BY <1>g, <1>s, <1>t, <1>d DEF NoOrphan, Alive, Next_, Top
<1>16. DeathsAreReal'
  BY <1>g, <1>s, <1>t, <1>d DEF DeathsAreReal
<1> QED BY <1>s, <1>1, <1>2, <1>3, <1>4, <1>5, <1>6, <1>7, <1>8, <1>9, <1>10, <1>11, <1>12, <1>13, <1>14, <1>15, <1>16

\* shutdown_all finds nothing listed.
LEMMA ShutDownEmptyStep ==
  ASSUME IInv, ShutDown, ~listed
  PROVE  IInv'
<1> USE DEF IInv
<1> DEFINE s == <<>> \o <<"ungate", "sweep">>
<1>g. /\ Top(todo[Quitter]) = "idle"
      /\ ~listed
      /\ quit = "no"
      /\ quit' = "on"
      /\ gate' = Quitter
      /\ queue' = Append(queue, 0)
      /\ UNCHANGED <<at, io, child, pending, retired, listed, ours, hooked, ch, told, fell, late, torn, kills>>
  BY Kinds DEF ShutDown, Next_, Top, Start, Bare, warm, super, ghosts
<1>h. Top(todo[Quitter]) = "idle"
  BY <1>g
<1>w. todo' = [todo EXCEPT ![Quitter] = s]
  BY <1>g DEF ShutDown, Start
<1>m. Shaped(Quitter, todo[Quitter])
  BY Kinds DEF ShapeInv
<1>n. Shaped(Quitter, s) /\ Top(s) = "ungate"
  BY <1>h, <1>m, Kinds, Starts DEF Goes, Same, InLease, InKill
<1> HIDE DEF s
<1>s. /\ ShapeInv' /\ todo'[Quitter] = s /\ \A u \in Threads \ {Quitter} : todo'[u] = todo[u]
      /\ \A u \in Threads : Known(u, todo[u]) /\ Known(u, todo'[u])
  BY <1>w, <1>n, <1>g, Kinds, Turned DEF ShapeInv
<1>t. /\ Quitter \in Threads /\ Top(todo[Quitter]) = "idle" /\ Top(todo'[Quitter]) = "ungate"
      /\ ~Owns(todo'[Quitter])
      /\ ~Holds(todo'[Quitter])
      /\ ~Retires(todo'[Quitter])
      /\ ~Owns(todo[Quitter])
      /\ ~Holds(todo[Quitter])
  BY <1>g, <1>s, <1>n, Kinds DEF Known, Same, InKill, InLease
<1>d. child \in Children \cup {0} /\ ~(0 \in Children)
  BY TypesOf
<1>f. ~Contains(queue, 0) /\ 0 \in 0 .. MaxSpawns
  BY <1>g, <1>d, TypesOf DEF QueueInv, Children
<1>j. queue' = Append(queue, 0)
  BY <1>g
<1>q. /\ queue' \in Seq(0 .. MaxSpawns) /\ IsDistinct(queue')
      /\ \A x : Contains(queue', x) <=> Contains(queue, x) \/ x = 0
  BY <1>f, <1>j, Queued
<1>y. ToSet(queue') \subseteq 0 .. MaxSpawns
  BY <1>q, SeqSet
<1>1. TypeOK'
  <2>1. \A u \in Threads : ToSet(todo'[u]) \subseteq Steps
    BY <1>s DEF Known, ToSet
  <2>2. child \in 0 .. MaxSpawns /\ 0 \in 0 .. MaxSpawns
    BY TypesOf
  <2> QED BY <1>g, <1>s, <1>t, <1>d, <1>y, <2>1, <2>2 DEF TypeOK, ChildRecs, Children
<1>2. IoInv'
  BY <1>g, <1>s, <1>t, <1>d DEF IoInv
<1>3. RequestInv'
  BY <1>g, <1>s, <1>t, <1>d DEF RequestInv, Requests
<1>4. QueueInv'
  BY <1>g, <1>s, <1>t, <1>d, <1>q DEF QueueInv
<1>5. ProcInv'
  BY <1>g, <1>s, <1>t, <1>d DEF ProcInv
<1>6. WaitInv'
  BY <1>g, <1>s, <1>t, <1>d DEF WaitInv, At
<1>7. PrivateInv'
  BY <1>g, <1>s, <1>t, <1>d DEF PrivateInv
<1>8. HoldInv'
  BY <1>g, <1>s, <1>t, <1>d DEF HoldInv
<1>9. AtInv'
  BY <1>g, <1>s, <1>t, <1>d DEF AtInv
<1>10. OwnerInv'
  BY <1>g, <1>s, <1>t, <1>d DEF OwnerInv
<1>11. LimboInv'
  BY <1>g, <1>s, <1>t, <1>d DEF LimboInv, At, Foreign
<1>12. LateInv'
  BY <1>g, <1>s, <1>t, <1>d DEF LateInv
<1>13. DeathInv'
  BY <1>g, <1>s, <1>t, <1>d DEF DeathInv, At
<1>14. RetireInv'
  BY <1>g, <1>s, <1>t, <1>d DEF RetireInv, Alive
<1>15. NoOrphan'
  BY <1>g, <1>s, <1>t, <1>d DEF NoOrphan, Alive, Next_, Top
<1>16. DeathsAreReal'
  BY <1>g, <1>s, <1>t, <1>d DEF DeathsAreReal
<1> QED BY <1>s, <1>1, <1>2, <1>3, <1>4, <1>5, <1>6, <1>7, <1>8, <1>9, <1>10, <1>11, <1>12, <1>13, <1>14, <1>15, <1>16

\* managed_subprocess kills what is left.
LEMMA SweepStep ==
  ASSUME IInv, Sweep
  PROVE  IInv'
<1> USE DEF IInv
<1> DEFINE s == <<>> \o Tail(todo[Quitter])
<1>g. /\ Top(todo[Quitter]) = "sweep"
      /\ quit' = "done"
      /\ UNCHANGED <<at, io, child, pending, retired, listed, ours, hooked, queue, gate, told, fell, late, torn, kills>>
  BY Kinds DEF Sweep, Next_, Top, Then, warm, super, ghosts
<1>h. Top(todo[Quitter]) = "sweep"
  BY <1>g
<1>w. todo' = [todo EXCEPT ![Quitter] = s]
  BY <1>g DEF Sweep, Then
<1>m. Shaped(Quitter, todo[Quitter])
  BY Kinds DEF ShapeInv
<1>n. Shaped(Quitter, s) /\ Top(s) = "idle" /\ Same(todo[Quitter], s)
  BY <1>h, <1>m, Kinds, Pops DEF Goes, Same, InLease, InKill
<1> HIDE DEF s
<1>s. /\ ShapeInv' /\ todo'[Quitter] = s /\ \A u \in Threads \ {Quitter} : todo'[u] = todo[u]
      /\ \A u \in Threads : Known(u, todo[u]) /\ Known(u, todo'[u])
  BY <1>w, <1>n, <1>g, Kinds, Turned DEF ShapeInv
<1>t. /\ Quitter \in Threads /\ Top(todo[Quitter]) = "sweep" /\ Top(todo'[Quitter]) = "idle"
      /\ (Owns(todo'[Quitter]) <=> Owns(todo[Quitter]))
      /\ (Holds(todo'[Quitter]) <=> Holds(todo[Quitter]))
      /\ (Retires(todo'[Quitter]) <=> Retires(todo[Quitter]))
      /\ ~Owns(todo[Quitter])
  BY <1>g, <1>s, <1>n, Kinds DEF Known, Same, InKill, InLease
<1>d. child \in Children \cup {0} /\ ~(0 \in Children)
  BY TypesOf
<1>c. /\ ch' \in [Children -> ChildRecs]
      /\ \A j \in Children : /\ ch'[j].st = ch[j].st /\ ch'[j].left = ch[j].left /\ ch'[j].owner = ch[j].owner
                             /\ ch'[j].signaled = ch[j].signaled /\ ch'[j].settled = ch[j].settled
                             /\ ch'[j].proc = IF ch[j].proc = "alive" THEN "dead" ELSE ch[j].proc
      /\ Requests' = Requests
  BY SweepSets DEF Sweep
<1>1. TypeOK'
  <2>1. \A u \in Threads : ToSet(todo'[u]) \subseteq Steps
    BY <1>s DEF Known, ToSet
  <2>2. child \in 0 .. MaxSpawns /\ 0 \in 0 .. MaxSpawns
    BY TypesOf
  <2> QED BY <1>g, <1>s, <1>t, <1>d, <1>c, <2>1, <2>2 DEF TypeOK, ChildRecs, Children
<1>2. IoInv'
  BY <1>g, <1>s, <1>t, <1>d, <1>c DEF IoInv
<1>3. RequestInv'
  BY <1>g, <1>s, <1>t, <1>d, <1>c DEF RequestInv, Requests
<1>4. QueueInv'
  BY <1>g, <1>s, <1>t, <1>d, <1>c DEF QueueInv
<1>5. ProcInv'
  BY <1>g, <1>s, <1>t, <1>d, <1>c DEF ProcInv
<1>6. WaitInv'
  BY <1>g, <1>s, <1>t, <1>d, <1>c DEF WaitInv, At
<1>7. PrivateInv'
  BY <1>g, <1>s, <1>t, <1>d, <1>c DEF PrivateInv
<1>8. HoldInv'
  BY <1>g, <1>s, <1>t, <1>d, <1>c DEF HoldInv
<1>9. AtInv'
  BY <1>g, <1>s, <1>t, <1>d, <1>c DEF AtInv
<1>10. OwnerInv'
  BY <1>g, <1>s, <1>t, <1>d, <1>c DEF OwnerInv
<1>11. LimboInv'
  BY <1>g, <1>s, <1>t, <1>d, <1>c DEF LimboInv, At, Foreign
<1>12. LateInv'
  BY <1>g, <1>s, <1>t, <1>d, <1>c DEF LateInv, AtInv
<1>13. DeathInv'
  BY <1>g, <1>s, <1>t, <1>d, <1>c DEF DeathInv, At, RetireInv, Alive
<1>14. RetireInv'
  BY <1>g, <1>s, <1>t, <1>d, <1>c DEF RetireInv, Alive
<1>15. NoOrphan'
  BY <1>g, <1>s, <1>t, <1>d, <1>c DEF NoOrphan, Alive, Next_, Top
<1>16. DeathsAreReal'
  BY <1>g, <1>s, <1>t, <1>d, <1>c DEF DeathsAreReal
<1> QED BY <1>s, <1>1, <1>2, <1>3, <1>4, <1>5, <1>6, <1>7, <1>8, <1>9, <1>10, <1>11, <1>12, <1>13, <1>14, <1>15, <1>16

\* The spawner takes the next request, unless its waiter has left.
LEMMA TakeRequestStep ==
  ASSUME IInv, TakeRequest
  PROVE  IInv'
<1> USE DEF IInv
<1>k. PICK k \in Children : k = Head(queue) /\ ch[k].st = "queued" /\ Contains(queue, k)
  BY TailContains, TypesOf DEF QueueInv, TakeRequest, Children
<1>g. /\ queue # <<>>
      /\ queue' = Tail(queue)
      /\ UNCHANGED <<todo, at, io, child, pending, retired, listed, ours, hooked, gate, quit, told, fell, late, torn, kills>>
  BY <1>k, Kinds DEF TakeRequest, Next_, Top, Then, warm, super, ghosts
<1>s. /\ ShapeInv' /\ \A u \in Threads : Known(u, todo[u])
  BY <1>g, ShapeFacts DEF ShapeInv
<1>t. todo' = todo
  BY <1>g
<1>d. child \in Children \cup {0} /\ ~(0 \in Children)
  BY TypesOf
<1>v. PICK v \in {"done", "starting"} : v = IF ch[k].left THEN "done" ELSE "starting"
  OBVIOUS
<1>c. /\ ch' \in [Children -> ChildRecs] /\ \A j \in Children \ {k} : ch'[j] = ch[j]
      /\ ch'[k].st = v /\ ch'[k].left = ch[k].left /\ ch'[k].proc = ch[k].proc /\ ch'[k].owner = ch[k].owner
      /\ ch'[k].signaled = ch[k].signaled /\ ch'[k].settled = ch[k].settled /\ ch'[k].once = ch[k].once
  BY <1>k, <1>g, <1>v, SetSt DEF TakeRequest
<1>e. /\ \A j \in Children : ch'[j].left = ch[j].left /\ ch'[j].proc = ch[j].proc /\ ch'[j].owner = ch[j].owner
      /\ \A j \in Children : ch'[j].signaled = ch[j].signaled /\ ch'[j].settled = ch[j].settled /\ ch'[j].once = ch[j].once
  BY <1>c DEF Requests
<1>r. Requests' = Requests /\ \A j \in Children : ch'[j].st = "none" => ch[j].st = "none"
  BY <1>k, <1>v, <1>c DEF Requests
<1>q. /\ queue' \in Seq(0 .. MaxSpawns) /\ (IsDistinct(queue) => IsDistinct(queue') /\ ~Contains(queue', k))
      /\ \A x : Contains(queue, x) <=> Contains(queue', x) \/ x = k
  BY <1>k, <1>g, TailContains DEF QueueInv
<1>y. ToSet(queue') \subseteq 0 .. MaxSpawns
  BY <1>q, SeqSet
<1>1. TypeOK'
  <2>1. \A u \in Threads : ToSet(todo'[u]) \subseteq Steps
    BY <1>s, <1>t DEF Known, ToSet
  <2>2. child \in 0 .. MaxSpawns /\ 0 \in 0 .. MaxSpawns
    BY TypesOf
  <2> QED BY <1>k, <1>g, <1>s, <1>t, <1>d, <1>v, <1>c, <1>e, <1>y, <2>1, <2>2 DEF TypeOK, ChildRecs, Children
<1>2. IoInv'
  BY <1>k, <1>g, <1>s, <1>t, <1>d, <1>v, <1>c, <1>e DEF IoInv
<1>3. RequestInv'
  BY <1>g, <1>t, <1>e, <1>r DEF RequestInv
<1>4. QueueInv'
  BY <1>k, <1>g, <1>s, <1>t, <1>d, <1>v, <1>c, <1>e, <1>q DEF QueueInv
<1>5. ProcInv'
  BY <1>k, <1>g, <1>s, <1>t, <1>d, <1>v, <1>c, <1>e DEF ProcInv
<1>6. WaitInv'
  BY <1>k, <1>g, <1>s, <1>t, <1>d, <1>v, <1>c, <1>e DEF WaitInv, At
<1>7. PrivateInv'
  BY <1>k, <1>g, <1>s, <1>t, <1>d, <1>v, <1>c, <1>e DEF PrivateInv
<1>8. HoldInv'
  BY <1>k, <1>g, <1>s, <1>t, <1>d, <1>v, <1>c, <1>e DEF HoldInv
<1>9. AtInv'
  BY <1>k, <1>g, <1>s, <1>t, <1>d, <1>v, <1>c, <1>e DEF AtInv
<1>10. OwnerInv'
  BY <1>k, <1>g, <1>s, <1>t, <1>d, <1>v, <1>c, <1>e DEF OwnerInv
<1>11. LimboInv'
  BY <1>k, <1>g, <1>s, <1>t, <1>d, <1>v, <1>c, <1>e DEF LimboInv, At, Foreign
<1>12. LateInv'
  BY <1>k, <1>g, <1>s, <1>t, <1>d, <1>v, <1>c, <1>e DEF LateInv, AtInv
<1>13. DeathInv'
  BY <1>k, <1>g, <1>s, <1>t, <1>d, <1>v, <1>c, <1>e DEF DeathInv, At
<1>14. RetireInv'
  BY <1>k, <1>g, <1>s, <1>t, <1>d, <1>v, <1>c, <1>e DEF RetireInv, Alive
<1>15. NoOrphan'
  BY <1>k, <1>g, <1>s, <1>t, <1>d, <1>v, <1>c, <1>e DEF NoOrphan, Alive, Next_, Top, ProcInv
<1>16. DeathsAreReal'
  BY <1>k, <1>g, <1>s, <1>t, <1>d, <1>v, <1>c, <1>e DEF DeathsAreReal
<1> QED BY <1>s, <1>1, <1>2, <1>3, <1>4, <1>5, <1>6, <1>7, <1>8, <1>9, <1>10, <1>11, <1>12, <1>13, <1>14, <1>15, <1>16

\* The process starts.
LEMMA StartOkStep ==
  ASSUME IInv, NEW k \in Children, StartOk(k)
  PROVE  IInv'
<1> USE DEF IInv
<1>g. /\ ch[k].st = "starting"
      /\ UNCHANGED <<todo, at, io, child, pending, retired, listed, ours, hooked, queue, gate, quit, told, fell, late, torn, kills>>
  BY Kinds DEF StartOk, Next_, Top, Then, warm, super, ghosts
<1>s. /\ ShapeInv' /\ \A u \in Threads : Known(u, todo[u])
  BY <1>g, ShapeFacts DEF ShapeInv
<1>t. todo' = todo
  BY <1>g
<1>d. child \in Children \cup {0} /\ ~(0 \in Children)
  BY TypesOf
<1>c. /\ ch' \in [Children -> ChildRecs] /\ \A j \in Children \ {k} : ch'[j] = ch[j]
      /\ ch'[k].st = "started" /\ ch'[k].left = ch[k].left /\ ch'[k].proc = "alive" /\ ch'[k].owner = ch[k].owner
      /\ ch'[k].signaled = ch[k].signaled /\ ch'[k].settled = ch[k].settled /\ ch'[k].once = ch[k].once
  BY <1>g, SetRun DEF StartOk
<1>e. /\ \A j \in Children : ch'[j].left = ch[j].left /\ ch'[j].owner = ch[j].owner /\ ch'[j].signaled = ch[j].signaled
      /\ \A j \in Children : ch'[j].settled = ch[j].settled /\ ch'[j].once = ch[j].once
  BY <1>c DEF Requests
<1>r. Requests' = Requests
  BY <1>g, <1>c DEF Requests
<1>1. TypeOK'
  <2>1. \A u \in Threads : ToSet(todo'[u]) \subseteq Steps
    BY <1>s, <1>t DEF Known, ToSet
  <2>2. child \in 0 .. MaxSpawns /\ 0 \in 0 .. MaxSpawns
    BY TypesOf
  <2> QED BY <1>g, <1>s, <1>t, <1>d, <1>c, <1>e, <1>r, <2>1, <2>2 DEF TypeOK, ChildRecs, Children
<1>2. IoInv'
  BY <1>g, <1>s, <1>t, <1>d, <1>c, <1>e, <1>r DEF IoInv
<1>3. RequestInv'
  BY <1>g, <1>s, <1>t, <1>d, <1>c, <1>e, <1>r DEF RequestInv, Requests
<1>4. QueueInv'
  BY <1>g, <1>s, <1>t, <1>d, <1>c, <1>e, <1>r DEF QueueInv
<1>5. ProcInv'
  BY <1>g, <1>s, <1>t, <1>d, <1>c, <1>e, <1>r DEF ProcInv
<1>6. WaitInv'
  BY <1>g, <1>s, <1>t, <1>d, <1>c, <1>e, <1>r DEF WaitInv, At
<1>7. PrivateInv'
  BY <1>g, <1>s, <1>t, <1>d, <1>c, <1>e, <1>r DEF PrivateInv
<1>8. HoldInv'
  BY <1>g, <1>s, <1>t, <1>d, <1>c, <1>e, <1>r DEF HoldInv
<1>9. AtInv'
  BY <1>g, <1>s, <1>t, <1>d, <1>c, <1>e, <1>r DEF AtInv
<1>10. OwnerInv'
  BY <1>g, <1>s, <1>t, <1>d, <1>c, <1>e, <1>r DEF OwnerInv
<1>11. LimboInv'
  BY <1>g, <1>s, <1>t, <1>d, <1>c, <1>e, <1>r DEF LimboInv, At, Foreign
<1>12. LateInv'
  BY <1>g, <1>s, <1>t, <1>d, <1>c, <1>e, <1>r DEF LateInv, AtInv
<1>13. DeathInv'
  BY <1>g, <1>s, <1>t, <1>d, <1>c, <1>e, <1>r DEF DeathInv, At, ProcInv
<1>14. RetireInv'
  BY <1>g, <1>s, <1>t, <1>d, <1>c, <1>e, <1>r DEF RetireInv, Alive, ProcInv
<1>15. NoOrphan'
  BY <1>g, <1>s, <1>t, <1>d, <1>c, <1>e, <1>r DEF NoOrphan, Alive, Next_, Top
<1>16. DeathsAreReal'
  BY <1>g, <1>s, <1>t, <1>d, <1>c, <1>e, <1>r DEF DeathsAreReal
<1> QED BY <1>s, <1>1, <1>2, <1>3, <1>4, <1>5, <1>6, <1>7, <1>8, <1>9, <1>10, <1>11, <1>12, <1>13, <1>14, <1>15, <1>16

\* The process does not start.
LEMMA StartFailsStep ==
  ASSUME IInv, NEW k \in Children, StartFails(k)
  PROVE  IInv'
<1> USE DEF IInv
<1>g. /\ ch[k].st = "starting"
      /\ UNCHANGED <<todo, at, io, child, pending, retired, listed, ours, hooked, queue, gate, quit, told, fell, late, torn, kills>>
  BY Kinds DEF StartFails, Next_, Top, Then, warm, super, ghosts
<1>s. /\ ShapeInv' /\ \A u \in Threads : Known(u, todo[u])
  BY <1>g, ShapeFacts DEF ShapeInv
<1>t. todo' = todo
  BY <1>g
<1>d. child \in Children \cup {0} /\ ~(0 \in Children)
  BY TypesOf
<1>c. /\ ch' \in [Children -> ChildRecs] /\ \A j \in Children \ {k} : ch'[j] = ch[j]
      /\ ch'[k].st = "failed" /\ ch'[k].left = ch[k].left /\ ch'[k].proc = ch[k].proc /\ ch'[k].owner = ch[k].owner
      /\ ch'[k].signaled = ch[k].signaled /\ ch'[k].settled = ch[k].settled /\ ch'[k].once = ch[k].once
  BY <1>g, SetSt DEF StartFails
<1>e. /\ \A j \in Children : ch'[j].left = ch[j].left /\ ch'[j].proc = ch[j].proc /\ ch'[j].owner = ch[j].owner
      /\ \A j \in Children : ch'[j].signaled = ch[j].signaled /\ ch'[j].settled = ch[j].settled /\ ch'[j].once = ch[j].once
  BY <1>c DEF Requests
<1>r. Requests' = Requests
  BY <1>g, <1>c DEF Requests
<1>1. TypeOK'
  <2>1. \A u \in Threads : ToSet(todo'[u]) \subseteq Steps
    BY <1>s, <1>t DEF Known, ToSet
  <2>2. child \in 0 .. MaxSpawns /\ 0 \in 0 .. MaxSpawns
    BY TypesOf
  <2> QED BY <1>g, <1>s, <1>t, <1>d, <1>c, <1>e, <1>r, <2>1, <2>2 DEF TypeOK, ChildRecs, Children
<1>2. IoInv'
  BY <1>g, <1>s, <1>t, <1>d, <1>c, <1>e, <1>r DEF IoInv
<1>3. RequestInv'
  BY <1>g, <1>s, <1>t, <1>d, <1>c, <1>e, <1>r DEF RequestInv, Requests
<1>4. QueueInv'
  BY <1>g, <1>s, <1>t, <1>d, <1>c, <1>e, <1>r DEF QueueInv
<1>5. ProcInv'
  BY <1>g, <1>s, <1>t, <1>d, <1>c, <1>e, <1>r DEF ProcInv
<1>6. WaitInv'
  BY <1>g, <1>s, <1>t, <1>d, <1>c, <1>e, <1>r DEF WaitInv, At
<1>7. PrivateInv'
  BY <1>g, <1>s, <1>t, <1>d, <1>c, <1>e, <1>r DEF PrivateInv
<1>8. HoldInv'
  BY <1>g, <1>s, <1>t, <1>d, <1>c, <1>e, <1>r DEF HoldInv
<1>9. AtInv'
  BY <1>g, <1>s, <1>t, <1>d, <1>c, <1>e, <1>r DEF AtInv
<1>10. OwnerInv'
  BY <1>g, <1>s, <1>t, <1>d, <1>c, <1>e, <1>r DEF OwnerInv
<1>11. LimboInv'
  BY <1>g, <1>s, <1>t, <1>d, <1>c, <1>e, <1>r DEF LimboInv, At, Foreign
<1>12. LateInv'
  BY <1>g, <1>s, <1>t, <1>d, <1>c, <1>e, <1>r DEF LateInv, AtInv
<1>13. DeathInv'
  BY <1>g, <1>s, <1>t, <1>d, <1>c, <1>e, <1>r DEF DeathInv, At
<1>14. RetireInv'
  BY <1>g, <1>s, <1>t, <1>d, <1>c, <1>e, <1>r DEF RetireInv, Alive
<1>15. NoOrphan'
  BY <1>g, <1>s, <1>t, <1>d, <1>c, <1>e, <1>r DEF NoOrphan, Alive, Next_, Top, ProcInv
<1>16. DeathsAreReal'
  BY <1>g, <1>s, <1>t, <1>d, <1>c, <1>e, <1>r DEF DeathsAreReal
<1> QED BY <1>s, <1>1, <1>2, <1>3, <1>4, <1>5, <1>6, <1>7, <1>8, <1>9, <1>10, <1>11, <1>12, <1>13, <1>14, <1>15, <1>16

\* The spawner is done, and kills what its waiter has left.
LEMMA FinishSpawnStep ==
  ASSUME IInv, NEW k \in Children, FinishSpawn(k)
  PROVE  IInv'
<1> USE DEF IInv
<1>g. /\ ch[k].st \in {"started", "failed"}
      /\ UNCHANGED <<todo, at, io, child, pending, retired, listed, ours, hooked, queue, gate, quit, told, fell, late, torn, kills>>
  BY Kinds DEF FinishSpawn, Next_, Top, Then, warm, super, ghosts
<1>s. /\ ShapeInv' /\ \A u \in Threads : Known(u, todo[u])
  BY <1>g, ShapeFacts DEF ShapeInv
<1>t. todo' = todo
  BY <1>g
<1>d. child \in Children \cup {0} /\ ~(0 \in Children)
  BY TypesOf
<1>v. PICK v \in {"none", "alive", "dead"} : v = IF ch[k].left /\ ch[k].proc = "alive" THEN "dead" ELSE ch[k].proc
  BY ChildTypes DEF ChildRecs
<1>c. /\ ch' \in [Children -> ChildRecs] /\ \A j \in Children \ {k} : ch'[j] = ch[j]
      /\ ch'[k].st = "done" /\ ch'[k].left = ch[k].left /\ ch'[k].proc = v /\ ch'[k].owner = ch[k].owner
      /\ ch'[k].signaled = ch[k].signaled /\ ch'[k].settled = ch[k].settled /\ ch'[k].once = ch[k].once
  BY <1>g, <1>v, SetRun DEF FinishSpawn
<1>e. /\ \A j \in Children : ch'[j].left = ch[j].left /\ ch'[j].owner = ch[j].owner /\ ch'[j].signaled = ch[j].signaled
      /\ \A j \in Children : ch'[j].settled = ch[j].settled /\ ch'[j].once = ch[j].once
  BY <1>c DEF Requests
<1>r. Requests' = Requests
  BY <1>g, <1>c DEF Requests
<1>1. TypeOK'
  <2>1. \A u \in Threads : ToSet(todo'[u]) \subseteq Steps
    BY <1>s, <1>t DEF Known, ToSet
  <2>2. child \in 0 .. MaxSpawns /\ 0 \in 0 .. MaxSpawns
    BY TypesOf
  <2> QED BY <1>g, <1>s, <1>t, <1>d, <1>v, <1>c, <1>e, <1>r, <2>1, <2>2 DEF TypeOK, ChildRecs, Children
<1>2. IoInv'
  BY <1>g, <1>s, <1>t, <1>d, <1>v, <1>c, <1>e, <1>r DEF IoInv
<1>3. RequestInv'
  BY <1>g, <1>s, <1>t, <1>d, <1>v, <1>c, <1>e, <1>r DEF RequestInv, Requests
<1>4. QueueInv'
  BY <1>g, <1>s, <1>t, <1>d, <1>v, <1>c, <1>e, <1>r DEF QueueInv
<1>5. ProcInv'
  BY <1>g, <1>s, <1>t, <1>d, <1>v, <1>c, <1>e, <1>r DEF ProcInv
<1>6. WaitInv'
  BY <1>g, <1>s, <1>t, <1>d, <1>v, <1>c, <1>e, <1>r DEF WaitInv, At
<1>7. PrivateInv'
  BY <1>g, <1>s, <1>t, <1>d, <1>v, <1>c, <1>e, <1>r DEF PrivateInv
<1>8. HoldInv'
  BY <1>g, <1>s, <1>t, <1>d, <1>v, <1>c, <1>e, <1>r DEF HoldInv
<1>9. AtInv'
  BY <1>g, <1>s, <1>t, <1>d, <1>v, <1>c, <1>e, <1>r DEF AtInv
<1>10. OwnerInv'
  BY <1>g, <1>s, <1>t, <1>d, <1>v, <1>c, <1>e, <1>r DEF OwnerInv
<1>11. LimboInv'
  BY <1>g, <1>s, <1>t, <1>d, <1>v, <1>c, <1>e, <1>r DEF LimboInv, At, Foreign
<1>12. LateInv'
  BY <1>g, <1>s, <1>t, <1>d, <1>v, <1>c, <1>e, <1>r DEF LateInv, AtInv
<1>13. DeathInv'
  BY <1>g, <1>s, <1>t, <1>d, <1>v, <1>c, <1>e, <1>r DEF DeathInv, At, ProcInv
<1>14. RetireInv'
  BY <1>g, <1>s, <1>t, <1>d, <1>v, <1>c, <1>e, <1>r DEF RetireInv, Alive, ProcInv
<1>15. NoOrphan'
  BY <1>g, <1>s, <1>t, <1>d, <1>v, <1>c, <1>e, <1>r DEF NoOrphan, Alive, Next_, Top, WaitInv, At
<1>16. DeathsAreReal'
  BY <1>g, <1>s, <1>t, <1>d, <1>v, <1>c, <1>e, <1>r DEF DeathsAreReal
<1> QED BY <1>s, <1>1, <1>2, <1>3, <1>4, <1>5, <1>6, <1>7, <1>8, <1>9, <1>10, <1>11, <1>12, <1>13, <1>14, <1>15, <1>16

\* A process dies unasked.
LEMMA CrashStep ==
  ASSUME IInv, NEW k \in Children, Crash(k)
  PROVE  IInv'
<1> USE DEF IInv
<1>g. /\ ch[k].proc = "alive"
      /\ fell' = fell \cup {k}
      /\ UNCHANGED <<todo, at, io, child, pending, retired, listed, ours, hooked, queue, gate, quit, told, late, torn, kills>>
  BY Kinds DEF Crash, Next_, Top, Then, warm, super, ghosts, Alive
<1>s. /\ ShapeInv' /\ \A u \in Threads : Known(u, todo[u])
  BY <1>g, ShapeFacts DEF ShapeInv
<1>t. todo' = todo
  BY <1>g
<1>d. child \in Children \cup {0} /\ ~(0 \in Children)
  BY TypesOf
<1>c. /\ ch' \in [Children -> ChildRecs] /\ \A j \in Children \ {k} : ch'[j] = ch[j]
      /\ ch'[k].st = ch[k].st /\ ch'[k].left = ch[k].left /\ ch'[k].proc = "dead" /\ ch'[k].owner = ch[k].owner
      /\ ch'[k].signaled = ch[k].signaled /\ ch'[k].settled = ch[k].settled /\ ch'[k].once = ch[k].once
  BY <1>g, SetDead DEF Crash, Alive
<1>e. /\ \A j \in Children : ch'[j].st = ch[j].st /\ ch'[j].left = ch[j].left /\ ch'[j].owner = ch[j].owner
      /\ \A j \in Children : ch'[j].signaled = ch[j].signaled /\ ch'[j].settled = ch[j].settled /\ ch'[j].once = ch[j].once
      /\ Requests' = Requests
  BY <1>c DEF Requests
<1>1. TypeOK'
  <2>1. \A u \in Threads : ToSet(todo'[u]) \subseteq Steps
    BY <1>s, <1>t DEF Known, ToSet
  <2>2. child \in 0 .. MaxSpawns /\ 0 \in 0 .. MaxSpawns
    BY TypesOf
  <2> QED BY <1>g, <1>s, <1>t, <1>d, <1>c, <1>e, <2>1, <2>2 DEF TypeOK, ChildRecs, Children
<1>2. IoInv'
  BY <1>g, <1>s, <1>t, <1>d, <1>c, <1>e DEF IoInv
<1>3. RequestInv'
  BY <1>g, <1>s, <1>t, <1>d, <1>c, <1>e DEF RequestInv, Requests
<1>4. QueueInv'
  BY <1>g, <1>s, <1>t, <1>d, <1>c, <1>e DEF QueueInv
<1>5. ProcInv'
  BY <1>g, <1>s, <1>t, <1>d, <1>c, <1>e DEF ProcInv
<1>6. WaitInv'
  BY <1>g, <1>s, <1>t, <1>d, <1>c, <1>e DEF WaitInv, At
<1>7. PrivateInv'
  BY <1>g, <1>s, <1>t, <1>d, <1>c, <1>e DEF PrivateInv
<1>8. HoldInv'
  BY <1>g, <1>s, <1>t, <1>d, <1>c, <1>e DEF HoldInv
<1>9. AtInv'
  BY <1>g, <1>s, <1>t, <1>d, <1>c, <1>e DEF AtInv
<1>10. OwnerInv'
  BY <1>g, <1>s, <1>t, <1>d, <1>c, <1>e DEF OwnerInv
<1>11. LimboInv'
  BY <1>g, <1>s, <1>t, <1>d, <1>c, <1>e DEF LimboInv, At, Foreign
<1>12. LateInv'
  BY <1>g, <1>s, <1>t, <1>d, <1>c, <1>e DEF LateInv, AtInv
<1>13. DeathInv'
  BY <1>g, <1>s, <1>t, <1>d, <1>c, <1>e DEF DeathInv, At
<1>14. RetireInv'
  BY <1>g, <1>s, <1>t, <1>d, <1>c, <1>e DEF RetireInv, Alive
<1>15. NoOrphan'
  BY <1>g, <1>s, <1>t, <1>d, <1>c, <1>e DEF NoOrphan, Alive, Next_, Top
<1>16. DeathsAreReal'
  BY <1>g, <1>s, <1>t, <1>d, <1>c, <1>e DEF DeathsAreReal
<1> QED BY <1>s, <1>1, <1>2, <1>3, <1>4, <1>5, <1>6, <1>7, <1>8, <1>9, <1>10, <1>11, <1>12, <1>13, <1>14, <1>15, <1>16

-----------------------------------------------------------------------------
(* The steps with a quiet case, and Next.                                  *)

\* kill() looks for the child.
LEMMA FindStep ==
  ASSUME IInv, NEW t \in Threads, Find(t)
  PROVE  IInv'
<1> USE DEF IInv
<1>k. t \in Threads /\ Shaped(t, todo[t]) /\ Top(todo[t]) = "find"
  BY Kinds DEF Find, Next_, Top, ShapeInv
<1>1. ASSUME Find(t), child = 0 PROVE IInv'
  <2> DEFINE s == <<"pend">> \o Tail(todo[t])
  <2>1. /\ todo' = [todo EXCEPT ![t] = s]
        /\ UNCHANGED <<at, io, child, listed, ch, queue, quit, told, fell, late, torn>>
        /\ pending' = pending
        /\ hooked' = hooked
        /\ ours' = ours
        /\ retired' = retired
        /\ gate' = gate
    BY <1>1 DEF Find, Then, warm, super, ghosts
  <2>2. Shaped(t, s) /\ Same(todo[t], s) /\ Top(s) = "pend"
    BY <1>k, KillMoves DEF Goes, InKill
  <2> HIDE DEF s
  <2>3. QuietMove(t, Top(todo[t]), Top(s))
    BY <1>k, <1>1, <2>1, <2>2 DEF QuietMove
  <2>4. {pending', hooked', ours', retired'} \subseteq BOOLEAN /\ gate' \in Threads \cup {Nobody}
        /\ (ours => ours') /\ (retired => retired')
    BY <2>1 DEF TypeOK
  <2> QED BY <1>k, <2>1, <2>2, <2>3, <2>4, QuietStep
<1> QED BY <1>1, FindChildStep

\* The pipes of a signalled child are closed once, and not under their user.
LEMMA FinishStep ==
  ASSUME IInv, NEW t \in Threads, Finish(t)
  PROVE  IInv'
<1> USE DEF IInv
<1>k. t \in Threads /\ Shaped(t, todo[t]) /\ Top(todo[t]) = "finish"
  BY Kinds DEF Finish, Next_, Top, ShapeInv
<1>1. ASSUME Finish(t), ch[at[t]].settled PROVE IInv'
  <2> DEFINE s == <<"drop">> \o Tail(todo[t])
  <2>1. /\ todo' = [todo EXCEPT ![t] = s]
        /\ UNCHANGED <<at, io, child, listed, ch, queue, quit, told, fell, late, torn>>
        /\ pending' = pending
        /\ hooked' = hooked
        /\ ours' = ours
        /\ retired' = retired
        /\ gate' = gate
    BY <1>1 DEF Finish, Then, warm, super, ghosts
  <2>2. Shaped(t, s) /\ Same(todo[t], s) /\ Top(s) = "drop"
    BY <1>k, KillMoves DEF Goes, InKill
  <2> HIDE DEF s
  <2>3. QuietMove(t, Top(todo[t]), Top(s))
    BY <1>k, <1>1, <2>1, <2>2 DEF QuietMove
  <2>4. {pending', hooked', ours', retired'} \subseteq BOOLEAN /\ gate' \in Threads \cup {Nobody}
        /\ (ours => ours') /\ (retired => retired')
    BY <2>1 DEF TypeOK
  <2> QED BY <1>k, <2>1, <2>2, <2>3, <2>4, QuietStep
<1>2. ASSUME Finish(t), ~ch[at[t]].settled, Foreign(t, at[t]) PROVE IInv'
  <2> DEFINE s == <<>> \o Tail(todo[t])
  <2>1. /\ todo' = [todo EXCEPT ![t] = s]
        /\ UNCHANGED <<at, io, child, listed, ch, queue, quit, told, fell, late, torn>>
        /\ pending' = pending
        /\ hooked' = hooked
        /\ ours' = ours
        /\ retired' = retired
        /\ gate' = gate
    BY <1>2 DEF Finish, Then, warm, super, ghosts
  <2>2. Shaped(t, s) /\ Same(todo[t], s) /\ Top(s) \in {"unlock", "end", "pick", "idle", "unlist"}
    BY <1>k, KillMoves DEF Goes, InKill
  <2> HIDE DEF s
  <2>3. QuietMove(t, Top(todo[t]), Top(s))
    BY <1>k, <1>2, <2>1, <2>2 DEF QuietMove
  <2>4. {pending', hooked', ours', retired'} \subseteq BOOLEAN /\ gate' \in Threads \cup {Nobody}
        /\ (ours => ours') /\ (retired => retired')
    BY <2>1 DEF TypeOK
  <2> QED BY <1>k, <2>1, <2>2, <2>3, <2>4, QuietStep
<1> QED BY <1>1, <1>2, ClaimStep

\* A lease looks for the published child.
LEMMA LookStep ==
  ASSUME IInv, NEW c \in Callers, Look(c)
  PROVE  IInv'
<1> USE DEF IInv
<1>k. c \in Threads /\ Shaped(c, todo[c]) /\ Top(todo[c]) = "look"
  BY Kinds DEF Look, Next_, Top, ShapeInv
<1>1. ASSUME Look(c), child = 0 PROVE IInv'
  <2> DEFINE s == <<"arm">> \o Tail(todo[c])
  <2>1. /\ todo' = [todo EXCEPT ![c] = s]
        /\ UNCHANGED <<at, io, child, listed, ch, queue, quit, told, fell, late, torn>>
        /\ pending' = pending
        /\ hooked' = hooked
        /\ ours' = ours
        /\ retired' = retired
        /\ gate' = gate
    BY <1>1 DEF Look, Alive, Then, warm, super, ghosts
  <2>2. Shaped(c, s) /\ Same(todo[c], s) /\ Top(s) = "arm"
    BY <1>k, LeaseMoves DEF Goes, InLease
  <2> HIDE DEF s
  <2>3. QuietMove(c, Top(todo[c]), Top(s))
    BY <1>k, <1>1, <2>1, <2>2 DEF QuietMove
  <2>4. {pending', hooked', ours', retired'} \subseteq BOOLEAN /\ gate' \in Threads \cup {Nobody}
        /\ (ours => ours') /\ (retired => retired')
    BY <2>1 DEF TypeOK
  <2> QED BY <1>k, <2>1, <2>2, <2>3, <2>4, QuietStep
<1>2. ASSUME Look(c), child # 0, Alive(child) PROVE IInv'
  <2> DEFINE s == <<"pick">> \o Tail(todo[c])
  <2>1. /\ todo' = [todo EXCEPT ![c] = s]
        /\ UNCHANGED <<at, io, child, listed, ch, queue, quit, told, fell, late, torn>>
        /\ pending' = pending
        /\ hooked' = hooked
        /\ ours' = ours
        /\ retired' = retired
        /\ gate' = gate
    BY <1>2 DEF Look, Alive, Then, warm, super, ghosts
  <2>2. Shaped(c, s) /\ Same(todo[c], s) /\ Top(s) = "pick"
    BY <1>k, LeaseMoves DEF Goes, InLease
  <2> HIDE DEF s
  <2>3. QuietMove(c, Top(todo[c]), Top(s))
    BY <1>k, <1>2, <2>1, <2>2 DEF QuietMove
  <2>4. {pending', hooked', ours', retired'} \subseteq BOOLEAN /\ gate' \in Threads \cup {Nobody}
        /\ (ours => ours') /\ (retired => retired')
    BY <2>1 DEF TypeOK
  <2> QED BY <1>k, <2>1, <2>2, <2>3, <2>4, QuietStep
<1> QED BY <1>1, <1>2, LookDeadStep

\* A request is queued, or refused after shutdown.
LEMMA EnqueueStep ==
  ASSUME IInv, NEW c \in Callers, Enqueue(c)
  PROVE  IInv'
<1> USE DEF IInv
<1>k. c \in Threads /\ Shaped(c, todo[c]) /\ Top(todo[c]) = "spawn"
  BY Kinds DEF Enqueue, Next_, Top, ShapeInv
<1>1. ASSUME Enqueue(c), quit # "no" PROVE IInv'
  <2> DEFINE s == <<>> \o Tail(todo[c])
  <2>1. /\ todo' = [todo EXCEPT ![c] = s]
        /\ UNCHANGED <<at, io, child, listed, ch, queue, quit, told, fell, late, torn>>
        /\ pending' = pending
        /\ hooked' = hooked
        /\ ours' = ours
        /\ retired' = retired
        /\ gate' = gate
    BY <1>1 DEF Enqueue, Then, warm, super, ghosts
  <2>2. Shaped(c, s) /\ Same(todo[c], s) /\ Top(s) = "unlock"
    BY <1>k, Pops DEF Goes, InLease
  <2> HIDE DEF s
  <2>3. QuietMove(c, Top(todo[c]), Top(s))
    BY <1>k, <1>1, <2>1, <2>2 DEF QuietMove
  <2>4. {pending', hooked', ours', retired'} \subseteq BOOLEAN /\ gate' \in Threads \cup {Nobody}
        /\ (ours => ours') /\ (retired => retired')
    BY <2>1 DEF TypeOK
  <2> QED BY <1>k, <2>1, <2>2, <2>3, <2>4, QuietStep
<1> QED BY <1>1, EnqueueOkStep

\* A child is published, or killed.
LEMMA PublishStep ==
  ASSUME IInv, NEW c \in Callers, Publish(c)
  PROVE  IInv'
<1> USE DEF IInv
<1>k. c \in Threads /\ Shaped(c, todo[c]) /\ Top(todo[c]) = "publish"
  BY Kinds DEF Publish, Next_, Top, ShapeInv
<1>1. ASSUME Publish(c), Refused PROVE IInv'
  <2> DEFINE s == SignalFrom \o Tail(todo[c])
  <2>1. /\ todo' = [todo EXCEPT ![c] = s]
        /\ UNCHANGED <<at, io, child, listed, ch, queue, quit, told, fell, late, torn>>
        /\ pending' = pending
        /\ hooked' = hooked
        /\ ours' = ours
        /\ retired' = retired
        /\ gate' = gate
    BY <1>1 DEF Publish, Then, warm, super, ghosts
  <2>2. Shaped(c, s) /\ Same(todo[c], s) /\ Top(s) = "signal"
    BY <1>k, LeaseMoves DEF Goes, InLease
  <2> HIDE DEF s
  <2>3. QuietMove(c, Top(todo[c]), Top(s))
    BY <1>k, <1>1, <2>1, <2>2 DEF QuietMove
  <2>4. {pending', hooked', ours', retired'} \subseteq BOOLEAN /\ gate' \in Threads \cup {Nobody}
        /\ (ours => ours') /\ (retired => retired')
    BY <2>1 DEF TypeOK
  <2> QED BY <1>k, <2>1, <2>2, <2>3, <2>4, QuietStep
<1> QED BY <1>1, PublishOkStep

\* The new child is greeted, or killed when no time is left.
LEMMA GreetStep ==
  ASSUME IInv, NEW c \in Callers, Greet(c)
  PROVE  IInv'
<1> USE DEF IInv
<1>k. c \in Threads /\ Shaped(c, todo[c]) /\ Top(todo[c]) = "greet"
  BY Kinds DEF Greet, Next_, Top, ShapeInv
<1>1. ASSUME Greet(c), todo' = [todo EXCEPT ![c] = Kill \o Tail(@)], UNCHANGED <<ch, late>> PROVE IInv'
  <2> DEFINE s == Kill \o Tail(todo[c])
  <2>1. /\ todo' = [todo EXCEPT ![c] = s]
        /\ UNCHANGED <<at, io, child, listed, ch, queue, quit, told, fell, late, torn>>
        /\ pending' = pending
        /\ hooked' = hooked
        /\ ours' = ours
        /\ retired' = retired
        /\ gate' = gate
    BY <1>1 DEF Greet, Then, warm, super, ghosts
  <2>2. Shaped(c, s) /\ Same(todo[c], s) /\ Top(s) = "mark"
    BY <1>k, LeaseMoves DEF Goes, InLease
  <2> HIDE DEF s
  <2>3. QuietMove(c, Top(todo[c]), Top(s))
    BY <1>k, <1>1, <2>1, <2>2 DEF QuietMove
  <2>4. {pending', hooked', ours', retired'} \subseteq BOOLEAN /\ gate' \in Threads \cup {Nobody}
        /\ (ours => ours') /\ (retired => retired')
    BY <2>1 DEF TypeOK
  <2> QED BY <1>k, <2>1, <2>2, <2>3, <2>4, QuietStep
<1> QED BY <1>1, GreetReadStep DEF Greet, Then

\* The lease is of the published child, if there is one.
LEMMA PickStep ==
  ASSUME IInv, NEW c \in Callers, Pick(c)
  PROVE  IInv'
<1> USE DEF IInv
<1>k. c \in Threads /\ Shaped(c, todo[c]) /\ Top(todo[c]) = "pick"
  BY Kinds DEF Pick, Next_, Top, ShapeInv
<1>1. ASSUME Pick(c), child = 0 PROVE IInv'
  <2> DEFINE s == <<>> \o Tail(todo[c])
  <2>1. /\ todo' = [todo EXCEPT ![c] = s]
        /\ UNCHANGED <<at, io, child, listed, ch, queue, quit, told, fell, late, torn>>
        /\ pending' = pending
        /\ hooked' = hooked
        /\ ours' = ours
        /\ retired' = retired
        /\ gate' = gate
    BY <1>1 DEF Pick, Then, warm, super, ghosts
  <2>2. Shaped(c, s) /\ Same(todo[c], s) /\ Top(s) = "unlock"
    BY <1>k, Pops DEF Goes, InLease
  <2> HIDE DEF s
  <2>3. QuietMove(c, Top(todo[c]), Top(s))
    BY <1>k, <1>1, <2>1, <2>2 DEF QuietMove
  <2>4. {pending', hooked', ours', retired'} \subseteq BOOLEAN /\ gate' \in Threads \cup {Nobody}
        /\ (ours => ours') /\ (retired => retired')
    BY <2>1 DEF TypeOK
  <2> QED BY <1>k, <2>1, <2>2, <2>3, <2>4, QuietStep
<1> QED BY <1>1, PickChildStep

\* No step of kill() breaks the invariant.
LEMMA KillSteps ==
  ASSUME IInv, NEW t \in Threads, KillStep(t)
  PROVE  IInv'
<1>1. CASE Mark(t)
  BY <1>1, MarkStep
<1>2. CASE Find(t)
  BY <1>2, FindStep
<1>3. CASE Pend(t)
  BY <1>3, PendStep
<1>4. CASE Signal(t)
  BY <1>4, SignalStep
<1>5. CASE Owner(t)
  BY <1>5, OwnerStep
<1>6. CASE Finish(t)
  BY <1>6, FinishStep
<1>7. CASE Close(t)
  BY <1>7, CloseStep
<1>8. CASE DropChild(t)
  BY <1>8, DropChildStep
<1> QED BY <1>1, <1>2, <1>3, <1>4, <1>5, <1>6, <1>7, <1>8 DEF KillStep

\* No step of a lease does.
LEMMA LeaseSteps ==
  ASSUME IInv, NEW c \in Callers, Ask(c) \/ Waiting(c) \/ LeaseStep(c)
  PROVE  IInv'
<1> c \in Threads
  BY Kinds
<1>1. CASE Ask(c)
  BY <1>1, AskStep
<1>2. CASE GiveUp(c)
  BY <1>2, GiveUpStep
<1>3. CASE TakeIo(c)
  BY <1>3, TakeIoStep
<1>4. CASE ReleaseIo(c)
  BY <1>4, ReleaseIoStep
<1>5. CASE ClearPending(c)
  BY <1>5, ClearPendingStep
<1>6. CASE Check(c)
  BY <1>6, CheckStep
<1>7. CASE Look(c)
  BY <1>7, LookStep
<1>8. CASE NoSpawn(c)
  BY <1>8, NoSpawnStep
<1>9. CASE Arm(c)
  BY <1>9, ArmStep
<1>10. CASE Enqueue(c)
  BY <1>10, EnqueueStep
<1>11. CASE Spawned(c)
  BY <1>11, SpawnedStep
<1>12. CASE Abandon(c)
  BY <1>12, AbandonStep
<1>13. CASE Publish(c)
  BY <1>13, PublishStep
<1>14. CASE Greet(c)
  BY <1>14, GreetStep
<1>15. CASE ReadReady(c)
  BY <1>15, ReadReadyStep
<1>16. CASE Pick(c)
  BY <1>16, PickStep
<1>17. CASE Lease(c)
  BY <1>17, BeginLeaseStep
<1>18. CASE Use(c)
  BY <1>18, UseStep
<1>19. CASE EndIo(c)
  BY <1>19, EndIoStep
<1>20. CASE Settle(c)
  BY <1>20, SettleStep
<1> QED BY <1>1, <1>2, <1>3, <1>4, <1>5, <1>6, <1>7, <1>8, <1>9, <1>10, <1>11, <1>12, <1>13, <1>14, <1>15, <1>16, <1>17, <1>18, <1>19, <1>20
           DEF Waiting, LeaseStep

\* No other step does.
LEMMA OtherSteps ==
  ASSUME IInv,
         \/ \E s \in Stoppers : Stop(s) \/ StopForGood(s) \/ Retire(s) \/ Unlist(s)
         \/ TryEvict \/ Evict \/ ReleaseIo(Reaper)
         \/ SpawnerStep \/ \E k \in Children : StartOk(k) \/ StartFails(k) \/ Crash(k)
         \/ ShutDown \/ QuitStep
  PROVE  IInv'
<1>1. CASE \E s \in Stoppers : Stop(s) \/ StopForGood(s) \/ Retire(s) \/ Unlist(s)
  <2> PICK s \in Stoppers : Stop(s) \/ StopForGood(s) \/ Retire(s) \/ Unlist(s)
    BY <1>1
  <2> s \in Threads
    BY Kinds
  <2>1. CASE Stop(s)
    BY <2>1, StopStep
  <2>2. CASE StopForGood(s)
    BY <2>2, StopForGoodStep
  <2>3. CASE Retire(s)
    BY <2>3, RetireStep
  <2>4. CASE Unlist(s)
    BY <2>4, UnlistStep
  <2> QED BY <2>1, <2>2, <2>3, <2>4
<1>2. CASE TryEvict
  BY <1>2, TryEvictStep
<1>3. CASE Evict
  BY <1>3, EvictStep
<1>4. CASE ReleaseIo(Reaper)
  BY <1>4, ReleaseIoStep, Kinds
<1>5. CASE SpawnerStep
  <2>1. CASE TakeRequest
    BY <2>1, TakeRequestStep
  <2>2. ASSUME NEW k \in Children, FinishSpawn(k) PROVE IInv'
    BY <2>2, FinishSpawnStep
  <2> QED BY <1>5, <2>1, <2>2 DEF SpawnerStep
<1>6. ASSUME NEW k \in Children, StartOk(k) \/ StartFails(k) \/ Crash(k) PROVE IInv'
  <2>1. CASE StartOk(k)
    BY <2>1, StartOkStep
  <2>2. CASE StartFails(k)
    BY <2>2, StartFailsStep
  <2>3. CASE Crash(k)
    BY <2>3, CrashStep
  <2> QED BY <1>6, <2>1, <2>2, <2>3
<1>7. CASE ShutDown
  BY <1>7, ShutDownListedStep, ShutDownEmptyStep
<1>8. CASE QuitStep
  <2> Quitter \in Threads
    BY Kinds
  <2>1. CASE Retire(Quitter)
    BY <2>1, RetireStep
  <2>2. CASE Unlist(Quitter)
    BY <2>2, UnlistStep
  <2>3. CASE Ungate
    BY <2>3, UngateStep
  <2>4. CASE Sweep
    BY <2>4, SweepStep
  <2> QED BY <1>8, <2>1, <2>2, <2>3, <2>4 DEF QuitStep
<1> QED BY <1>1, <1>2, <1>3, <1>4, <1>5, <1>6, <1>7, <1>8

\* Every step keeps the invariant.
LEMMA NextKeeps ==
  ASSUME IInv, [Next]_vars
  PROVE  IInv'
<1>1. CASE UNCHANGED vars
  BY <1>1 DEF vars, warm, super, ghosts, IInv, TypeOK, ShapeInv, Shaped, Bases, IoInv, RequestInv, Requests,
       QueueInv, ProcInv, WaitInv, At, PrivateInv, HoldInv, AtInv, OwnerInv, LimboInv, LateInv,
       DeathInv, RetireInv, NoOrphan, Alive, Next_, DeathsAreReal
<1>2. ASSUME NEW t \in Threads, KillStep(t) PROVE IInv'
  BY <1>2, KillSteps
<1>3. ASSUME NEW c \in Callers, Ask(c) \/ Waiting(c) \/ LeaseStep(c) PROVE IInv'
  BY <1>3, LeaseSteps
<1> QED BY <1>1, <1>2, <1>3, OtherSteps DEF Next

\* The invariant holds at the start.
LEMMA InitHolds == Init => IInv
<1> SUFFICES ASSUME Init PROVE IInv
  OBVIOUS
<1> USE DEF Init
<1>1. /\ \A t \in Threads : todo[t] = Bare /\ at[t] = 0
      /\ ~Owns(Bare) /\ ~Holds(Bare) /\ ~Retires(Bare) /\ Top(Bare) = "idle" /\ ToSet(Bare) = {}
      /\ Bare \in Seq(Steps)
  BY Named, EmptySeq DEF Bare, ToSet
<1>2. /\ ch \in [Children -> ChildRecs]
      /\ \A k \in Children :
           /\ ch[k].st = "none" /\ ch[k].left = FALSE /\ ch[k].proc = "none" /\ ch[k].owner = Nobody
           /\ ch[k].signaled = FALSE /\ ch[k].settled = FALSE /\ ch[k].once = Nobody
  BY DEF NewChild, ChildRecs
<1>3. /\ MaxSpawns \in Nat /\ ~(0 \in Children) /\ 0 \in 0 .. MaxSpawns /\ Nobody \notin Threads
      /\ Requests = 1 .. 0 /\ Children # {} /\ 0 \in Nat
  <2>1. Requests = {}
    BY <1>2 DEF Requests
  <2>2. 1 .. 0 = {} /\ 1 \in 1 .. MaxSpawns
    BY WarmAssumption
  <2> QED BY <2>1, <2>2, WarmAssumption DEF Children
<1>4. /\ queue \in Seq(0 .. MaxSpawns) /\ IsDistinct(queue) /\ \A x : ~Contains(queue, x)
      /\ ToSet(queue) = {}
  BY EmptyContains, EmptySeq DEF ToSet
<1> HIDE DEF Init
<1>g. /\ io = Nobody /\ child = 0 /\ pending = FALSE /\ retired = FALSE /\ listed = TRUE
      /\ ours = FALSE /\ hooked = FALSE /\ gate = Nobody /\ quit = "no"
      /\ told = {} /\ fell = {} /\ late = {} /\ torn = {}
  BY DEF Init
<1>5. TypeOK
  BY <1>1, <1>2, <1>3, <1>4, <1>g DEF TypeOK, ChildRecs
<1>6. ShapeInv
  <2>1. todo \in [Threads -> Seq(Steps)] /\ at \in [Threads -> 0 .. MaxSpawns]
    BY <1>1, <1>3 DEF Init, Bare
  <2> QED BY <1>1, <2>1 DEF ShapeInv, Shaped
<1>7. IoInv
  BY <1>1, <1>3, <1>g DEF IoInv
<1>8. RequestInv
  BY <1>1, <1>2, <1>3, <1>g DEF RequestInv
<1>9. QueueInv
  BY <1>4 DEF QueueInv
<1>10. ProcInv /\ WaitInv /\ PrivateInv /\ HoldInv /\ AtInv
  BY <1>1, <1>2, <1>3, <1>g DEF ProcInv, WaitInv, PrivateInv, HoldInv, AtInv
<1>11. OwnerInv /\ LimboInv /\ LateInv /\ DeathInv
  BY <1>1, <1>2, <1>3, <1>g DEF OwnerInv, LimboInv, LateInv, DeathInv
<1>12. RetireInv
  BY <1>1, <1>g DEF RetireInv
<1>13. NoOrphan /\ DeathsAreReal
  BY <1>2, <1>g DEF NoOrphan, Alive, DeathsAreReal
<1> QED BY <1>5, <1>6, <1>7, <1>8, <1>9, <1>10, <1>11, <1>12, <1>13 DEF IInv

-----------------------------------------------------------------------------
(* What it is for.                                                         *)

\* The invariant holds in every state of every behaviour of the warm child.
THEOREM Invariance == Spec => []IInv
<1>1. IInv /\ [Next]_vars => IInv'
  BY NextKeeps
<1> QED BY InitHolds, <1>1, PTL DEF Spec

\* A signalled child that is not settled has its killer or its owner on the way.
LEMMA Unfinished == IInv => NoLimbo
<1> SUFFICES ASSUME IInv, NEW k \in Children, ch[k].signaled, ~ch[k].settled
             PROVE  \/ \E t \in Threads : at[t] = k /\ Next_(t) \in {"owner", "finish", "close", "settle"}
                    \/ \E c \in Callers : ch[k].owner = c /\ at[c] = k
                         /\ ToSet(todo[c]) \cap {"read", "end"} # {}
  BY DEF NoLimbo
<1>1. CASE ch[k].owner # Nobody
  <2>1. PICK t \in Threads : t = ch[k].owner /\ Owns(todo[t]) /\ at[t] = k
    BY <1>1 DEF IInv, OwnerInv
  <2>2. t \in Callers
    BY <2>1, ShapeFacts DEF IInv, ShapeInv, Known
  <2> QED BY <2>1, <2>2 DEF Owns
<1>2. CASE ch[k].owner = Nobody
  BY <1>2 DEF IInv, LimboInv, At, Next_, Top
<1> QED BY <1>1, <1>2

\* When no thread has a step left, nobody is left to clear the pointer: it is clean.
LEMMA AtRest == IInv => NoStalePointer
<1> SUFFICES ASSUME IInv, \A t \in Threads : todo[t] = <<>>, child # 0, ch[child].signaled
             PROVE  FALSE
  BY DEF NoStalePointer
<1>1. child \in Children
  BY TypesOf DEF IInv
<1>2. \A t \in Threads : Top(todo[t]) = "idle" /\ ~Owns(todo[t])
  BY Named DEF Bare
<1> QED BY <1>1, <1>2 DEF IInv, LimboInv, At, OwnerInv

\* The life of a child under lease, kill, retire, reaper and shutdown: every
\* live process is in somebody's hands, a signalled one is reaped and its pipes
\* closed, the pointer shows none at rest, and on_death tells the truth.
THEOREM Lives == Spec => []ChildInv
<1>1. IInv => ChildInv
  BY Unfinished, AtRest DEF IInv, ChildInv
<1> QED BY Invariance, <1>1, PTL

\* After retire() and after shutdown_all() no live child is published.
THEOREM RetiredForGood == Spec => []NothingOutlivesRetire
<1>1. IInv => NothingOutlivesRetire
  BY DEF IInv, RetireInv, NothingOutlivesRetire
<1> QED BY Invariance, <1>1, PTL

-----------------------------------------------------------------------------
(* Who closes the pipes.                                                   *)

Unsettled(k) == ch'[k].settled = ch[k].settled

\* Updates of the other fields leave that one alone.
LEMMA OtherFields ==
  ASSUME TypeOK, NEW k \in Children
  PROVE  /\ ch' = ch => Unsettled(k)
         /\ \A x, v : ch' = [ch EXCEPT ![x].st = v] => Unsettled(k)
         /\ \A x, v : ch' = [ch EXCEPT ![x].left = v] => Unsettled(k)
         /\ \A x, v : ch' = [ch EXCEPT ![x].proc = v] => Unsettled(k)
         /\ \A x, v : ch' = [ch EXCEPT ![x].owner = v] => Unsettled(k)
         /\ \A x, v : ch' = [ch EXCEPT ![x].once = v] => Unsettled(k)
         /\ \A x, v, w : ch' = [ch EXCEPT ![x].signaled = v, ![x].proc = w] => Unsettled(k)
         /\ \A x, v, w : ch' = [ch EXCEPT ![x].st = v, ![x].proc = w] => Unsettled(k)
<1>1. ch \in [Children -> ChildRecs] /\ ch[k] \in ChildRecs
  BY ChildTypes
<1> QED BY <1>1 DEF Unsettled, ChildRecs

\* Nobody but Close settles.
LEMMA OnlyClose ==
  ASSUME IInv, [Next]_vars, NEW k \in Children, ~Unsettled(k)
  PROVE  \E t \in Threads : Close(t) /\ k = at[t]
<1> TypeOK
  BY DEF IInv
<1>1. CASE UNCHANGED vars
  BY <1>1, OtherFields DEF vars
<1>2. ASSUME NEW t \in Threads, KillStep(t) PROVE Close(t)
  <2>1. ~Mark(t) /\ ~Find(t) /\ ~Pend(t) /\ ~Owner(t) /\ ~DropChild(t)
    BY OtherFields DEF Mark, Find, Pend, Owner, DropChild
  <2>2. ~Signal(t)
    BY OtherFields DEF Signal
  <2>3. ~Finish(t)
    BY OtherFields DEF Finish
  <2> QED BY <1>2, <2>1, <2>2, <2>3 DEF KillStep
<1>3. ASSUME NEW t \in Threads, Close(t) PROVE k = at[t]
  <2>1. ch \in [Children -> ChildRecs]
    BY ChildTypes
  <2> QED BY <1>3, <2>1 DEF Close, Unsettled
<1>4. ASSUME NEW c \in Callers, Ask(c) \/ Waiting(c) \/ LeaseStep(c) PROVE FALSE
  <2>1. /\ ~Ask(c) /\ ~GiveUp(c) /\ ~TakeIo(c) /\ ~ReleaseIo(c) /\ ~ClearPending(c) /\ ~Check(c)
        /\ ~Look(c) /\ ~NoSpawn(c) /\ ~Arm(c) /\ ~Spawned(c) /\ ~Publish(c) /\ ~ReadReady(c)
        /\ ~Pick(c) /\ ~Use(c) /\ ~Settle(c)
    BY OtherFields DEF Ask, GiveUp, TakeIo, ReleaseIo, ClearPending, Check, Look, NoSpawn, Arm, Spawned,
         Publish, ReadReady, Pick, Use, Settle
  <2>2. ~Enqueue(c)
    BY OtherFields DEF Enqueue
  <2>3. ~Abandon(c) /\ ~EndIo(c)
    BY OtherFields DEF Abandon, EndIo
  <2>4. ~Greet(c) /\ ~Lease(c)
    BY OtherFields DEF Greet, Lease, BeginIo
  <2> QED BY <1>4, <2>1, <2>2, <2>3, <2>4 DEF Waiting, LeaseStep
<1>5. /\ ~\E s \in Stoppers : Stop(s) \/ StopForGood(s) \/ Retire(s) \/ Unlist(s)
      /\ ~TryEvict /\ ~Evict /\ ~ReleaseIo(Reaper) /\ ~ShutDown
  BY OtherFields DEF Stop, StopForGood, Retire, Unlist, TryEvict, Evict, ReleaseIo, ShutDown
<1>6. ~SpawnerStep
  <2>1. ~TakeRequest
    BY OtherFields DEF TakeRequest
  <2>2. ASSUME NEW j \in Children, FinishSpawn(j) PROVE FALSE
    <3>1. ch' = [ch EXCEPT ![j].st = "done",
                   ![j].proc = IF ch[j].left /\ ch[j].proc = "alive" THEN "dead" ELSE ch[j].proc]
      BY <2>2 DEF FinishSpawn
    <3> QED BY <3>1, OtherFields
  <2> QED BY <2>1, <2>2 DEF SpawnerStep
<1>7. ~\E j \in Children : StartOk(j) \/ StartFails(j) \/ Crash(j)
  <2>1. ASSUME NEW j \in Children PROVE ~StartOk(j)
    BY OtherFields DEF StartOk
  <2>2. ASSUME NEW j \in Children PROVE ~StartFails(j) /\ ~Crash(j)
    BY OtherFields DEF StartFails, Crash
  <2> QED BY <2>1, <2>2
<1>8. ~QuitStep
  <2>1. ~Retire(Quitter) /\ ~Unlist(Quitter) /\ ~Ungate
    BY OtherFields DEF Retire, Unlist, Ungate
  <2>2. ~Sweep
    BY SweepSets DEF Unsettled
  <2> QED BY <2>1, <2>2 DEF QuitStep
<1> QED BY <1>1, <1>2, <1>3, <1>4, <1>5, <1>6, <1>7, <1>8 DEF Next

\* Pipes are closed under the thread using them by that thread only, unless the
\* child had been signalled before the thread took them.
THEOREM PipesApart == Spec => PipesHeld
<1> DEFINE Held == \A k \in Children : ch'[k].settled /\ ~ch[k].settled =>
                     \/ ch[k].owner = Nobody \/ k \in late
                     \/ todo'[ch[k].owner] # todo[ch[k].owner]
<1>1. ASSUME IInv, [Next]_vars PROVE Held
  <2> SUFFICES ASSUME NEW k \in Children, ch'[k].settled, ~ch[k].settled
               PROVE  \/ ch[k].owner = Nobody \/ k \in late
                      \/ todo'[ch[k].owner] # todo[ch[k].owner]
    OBVIOUS
  <2>1. PICK t \in Threads : Close(t) /\ k = at[t]
    BY <1>1, OnlyClose DEF Unsettled
  <2>2. Top(todo[t]) = "close" /\ Shaped(t, todo[t])
    BY <1>1, <2>1 DEF Close, Next_, Top, IInv, ShapeInv
  <2>3. ch[k].owner \in {Nobody, t} \/ k \in late
    BY <1>1, <2>1, <2>2 DEF IInv, LateInv
  <2> DEFINE s == <<"drop">> \o Tail(todo[t])
  <2>4. todo'[t] = s
    BY <1>1, <2>1 DEF Close, Then, IInv, ShapeInv
  <2>5. Top(s) = "drop"
    BY <2>2, KillMoves DEF Goes, InKill
  <2> HIDE DEF s
  <2> QED BY <2>2, <2>3, <2>4, <2>5
<1>2. IInv /\ [Next]_vars => [Held]_vars
  BY <1>1
<1> QED BY Invariance, <1>2, PTL DEF Spec, PipesHeld
=============================================================================
