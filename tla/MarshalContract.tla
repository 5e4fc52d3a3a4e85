-------------------------- MODULE MarshalContract --------------------------
(***************************************************************************)
(* What the marshal promises, without queues, locks, notifications or      *)
(* timeouts: every job runs at most once, from start to end, on the main   *)
(* thread; what a caller is told never has to be taken back; and a stopped *)
(* send starts nothing more, except what had passed its last check.        *)
(* MainThread implements this module (see Contract there).                 *)
(***************************************************************************)
CONSTANTS Jobs, Scopes, ScopeOf

VARIABLES
  life,     \* new, waiting, running, ran or dead (will never run)
  answer,   \* what the caller was told
  stopped,  \* scopes whose Stop was pressed
  barred    \* jobs that must not start any more

cvars == <<life, answer, stopped, barred>>

Errors == {"TimeoutError", "SendCancelled", "RuntimeError"}

Init ==
  /\ life = [j \in Jobs |-> "new"]
  /\ answer = [j \in Jobs |-> "none"]
  /\ stopped = {} /\ barred = {}

\* A job is accepted: it will run unless it is given up.
Accept(j) ==
  /\ life[j] = "new" /\ life' = [life EXCEPT ![j] = "waiting"]
  /\ UNCHANGED <<answer, stopped, barred>>

Start(j) ==
  /\ life[j] = "waiting" /\ answer[j] = "none"
  /\ j \notin barred
  /\ life' = [life EXCEPT ![j] = "running"]
  /\ UNCHANGED <<answer, stopped, barred>>

Finish(j) ==
  /\ life[j] = "running" /\ life' = [life EXCEPT ![j] = "ran"]
  /\ UNCHANGED <<answer, stopped, barred>>

\* Some waiting jobs are given up together.
GiveUp(J) ==
  /\ J # {} /\ \A j \in J : life[j] = "waiting"
  /\ life' = [j \in Jobs |-> IF j \in J THEN "dead" ELSE life[j]]
  /\ UNCHANGED <<answer, stopped, barred>>

TellResult(j) ==
  /\ life[j] = "ran" /\ answer[j] = "none"
  /\ answer' = [answer EXCEPT ![j] = "result"]
  /\ UNCHANGED <<life, stopped, barred>>

\* An error is told about a job that will never run: it is dead already, or
\* the error gives it up.
TellError(j) ==
  /\ life[j] \in {"new", "waiting", "dead"} /\ answer[j] = "none"
  /\ \E e \in Errors : answer' = [answer EXCEPT ![j] = e]
  /\ life' = [life EXCEPT ![j] = "dead"]
  /\ UNCHANGED <<stopped, barred>>

\* Stop bars every job of its scope that has not started, but for one that
\* may be past its last check at that moment.
Stop(s) ==
  /\ s \notin stopped /\ stopped' = stopped \cup {s}
  /\ LET waiting == {j \in Jobs : ScopeOf[j] = s /\ life[j] = "waiting"}
         unborn == {j \in Jobs : ScopeOf[j] = s /\ life[j] = "new"}
     IN \E J \in SUBSET waiting :
          (\A j, k \in J : j = k) /\ barred' = barred \cup unborn \cup (waiting \ J)
  /\ UNCHANGED <<life, answer>>

Next ==
  \/ \E j \in Jobs : \/ Accept(j) \/ Start(j) \/ Finish(j)
                     \/ TellResult(j) \/ TellError(j)
  \/ \E J \in SUBSET Jobs : GiveUp(J)
  \/ \E s \in Scopes : Stop(s)

Spec == Init /\ [][Next]_cvars
=============================================================================
