------------------------------ MODULE McpCalls ------------------------------
(***************************************************************************)
(* tools/call in the MCP server (plugin/mcp/mcp_protocol.py,               *)
(* plugin/mcp/document_mutation_gate.py).  Each request runs on its own    *)
(* HTTP thread: it registers a cancellation scope, takes the one permit to *)
(* have its tool looked up on the main thread, gives the permit back,      *)
(* takes the gate of its document if the tool edits, and runs the body on  *)
(* the main thread under the permit, or, for an async tool, off it and     *)
(* without a permit.  Cancel notifications arrive on threads of their own. *)
(*                                                                         *)
(* The main thread is a queue of items, as MainThread has it.  Deadlines   *)
(* are choices: whatever a timeout can end may be ended at any time.       *)
(***************************************************************************)
EXTENDS Naturals, Sequences, FiniteSets, SequencesExt, SequenceFilters

CONSTANTS
  Requests,  \* tools/call requests, one HTTP thread each
  Notices,   \* notifications/cancelled, one HTTP thread each
  Keys,      \* (session, request id); a client may use one twice
  Docs,      \* document keys
  Nobody

ASSUME McpAssumption == Nobody \notin Requests

VARIABLES
  req,      \* each request and its thread
  permit,   \* holder of _tool_semaphore
  gate,     \* holder of each document's gate
  scopes,   \* _request_scopes
  queue,    \* items posted to the main thread, not claimed
  running,  \* the item the main thread is in
  notice    \* each notification and its thread

vars == <<req, permit, gate, scopes, queue, running, notice>>

-----------------------------------------------------------------------------
(* "edit" and "read" run on the main thread, "agent" and "research" are    *)
(* async; "none" until prepared.  "refused" is an error from preparation.  *)
Tools == {"edit", "read", "agent", "research", "refused"}
Async == {"agent", "research"}
NeedsGate == {"edit", "agent"}

New == [pc |-> "new", key |-> Nobody, doc |-> Nobody, tool |-> "none",
        stopped |-> FALSE,   \* its scope is cancelled
        began |-> FALSE,     \* its tool's execute was entered
        alive |-> FALSE,     \* that execute has not returned
        asked |-> FALSE,     \* its async body has been to the main thread
        answer |-> "none"]

Item(r, part) == [req |-> r, part |-> part]
Idle == Item(Nobody, "none")
OnMain(r, part) == Contains(queue, Item(r, part)) \/ running = Item(r, part)

To(r, pc) == req' = [req EXCEPT ![r].pc = pc]
Over(r, answer) == req' = [req EXCEPT ![r].pc = "over", ![r].answer = answer]

Init ==
  /\ req = [r \in Requests |-> New]
  /\ permit = Nobody
  /\ gate = [d \in Docs |-> Nobody]
  /\ scopes = [k \in Keys |-> {}]
  /\ queue = <<>> /\ running = Idle
  /\ notice = [n \in Notices |-> [pc |-> "new", todo |-> {}, at |-> Nobody]]

-----------------------------------------------------------------------------
(* The request's thread.                                                   *)

\* The scope is registered under the lock before anything can block.
Arrive(r) ==
  /\ req[r].pc = "new"
  /\ \E k \in Keys :
       /\ req' = [req EXCEPT ![r].pc = "permit", ![r].key = k]
       /\ scopes' = [scopes EXCEPT ![k] = @ \cup {r}]
  /\ UNCHANGED <<permit, gate, queue, running, notice>>

\* _permit, then the call: preparation the first time, the body the second.
TakePermit(r) ==
  /\ req[r].pc \in {"permit", "again"} /\ permit = Nobody
  /\ permit' = r
  /\ LET part == IF req[r].pc = "permit" THEN "prepare" ELSE "body"
     IN  To(r, part) /\ queue' = Append(queue, Item(r, part))
  /\ UNCHANGED <<gate, scopes, running, notice>>
\* A tool the exposure mode hides is refused before any permit.
RefuseEarly(r) ==
  /\ req[r].pc = "permit"
  /\ Over(r, "error")
  /\ UNCHANGED <<permit, gate, scopes, queue, running, notice>>
PermitTimeout(r) ==
  /\ req[r].pc \in {"permit", "again"}
  /\ Over(r, "busy")
  /\ UNCHANGED <<permit, gate, scopes, queue, running, notice>>

\* Only an item the main thread has not claimed can be given up.
GiveUpClaimed(r) == OnMain(r, req[r].pc)  \* mutant
MayGiveUp(r) == Contains(queue, Item(r, req[r].pc))
GiveUp(r) ==
  /\ req[r].pc \in {"prepare", "body"} /\ MayGiveUp(r)
  /\ Over(r, "timeout")
  /\ queue' = Without(queue, {Item(r, req[r].pc)})
  /\ UNCHANGED <<permit, gate, scopes, running, notice>>

\* The permit of the preparation is given back before anything else.
AfterPrepareUngated(r) ==  \* mutant
  CASE req[r].tool = "refused" -> "over"
    [] req[r].tool = "edit"    -> "gate"
    [] req[r].tool \in Async   -> "start"
    [] OTHER                   -> "again"
AfterPrepare(r) ==
  CASE req[r].tool = "refused"   -> "over"
    [] req[r].tool \in NeedsGate -> "gate"
    [] req[r].tool = "research"  -> "start"
    [] OTHER                     -> "again"
PutPermitBackLate(r) ==  \* mutant
  /\ req[r].pc \in {"prepared", "over"} /\ permit = r
  /\ permit' = IF req[r].pc = "over" THEN Nobody ELSE permit
  /\ To(r, IF req[r].pc = "prepared" THEN AfterPrepare(r) ELSE "over")
  /\ UNCHANGED <<gate, scopes, queue, running, notice>>
PutPermitBack(r) ==
  /\ req[r].pc \in {"prepared", "over"} /\ permit = r
  /\ permit' = Nobody
  /\ To(r, IF req[r].pc = "prepared" THEN AfterPrepare(r) ELSE "over")
  /\ UNCHANGED <<gate, scopes, queue, running, notice>>

TakeGate(r) ==
  /\ req[r].pc = "gate" /\ gate[req[r].doc] = Nobody
  /\ gate' = [gate EXCEPT ![req[r].doc] = r]
  /\ To(r, IF req[r].tool \in Async THEN "start" ELSE "again")
  /\ UNCHANGED <<permit, scopes, queue, running, notice>>
GateTimeout(r) ==
  /\ req[r].pc = "gate"
  /\ Over(r, "busy")
  /\ UNCHANGED <<permit, gate, scopes, queue, running, notice>>

\* _invoke_prepared_mcp_tool: the scope is looked at, and then, in a step of its
\* own, the tool is entered.
RefusesNever(r) == FALSE  \* mutant
Refuses(r) == req[r].stopped
CheckAgent(r) ==
  /\ req[r].pc = "start"
  /\ IF Refuses(r) THEN Over(r, "stopped") ELSE To(r, "enter")
  /\ UNCHANGED <<permit, gate, scopes, queue, running, notice>>
EnterAgent(r) ==
  /\ req[r].pc = "enter"
  /\ req' = [req EXCEPT ![r].pc = "agent", ![r].began = TRUE, ![r].alive = TRUE]
  /\ UNCHANGED <<permit, gate, scopes, queue, running, notice>>

\* _execute_with_timeout answers for the body and leaves it running.
AgentTimeout(r) ==
  /\ req[r].pc = "agent"
  /\ Over(r, "error")
  /\ UNCHANGED <<permit, gate, scopes, queue, running, notice>>

\* Unwinding: the permit first, then the gate, then the scope and the answer.
PutGateBack(r) ==
  /\ req[r].pc = "over" /\ permit # r
  /\ \E d \in Docs : gate[d] = r /\ gate' = [gate EXCEPT ![d] = Nobody]
  /\ UNCHANGED <<req, permit, scopes, queue, running, notice>>
\* What is left of a call: its answer, and a body its deadline abandoned.
Answered(c) ==
  [New EXCEPT !.pc = "done", !.answer = c.answer, !.began = c.began, !.alive = c.alive,
              !.tool = IF c.alive THEN c.tool ELSE "none",
              !.doc = IF c.alive THEN c.doc ELSE Nobody, !.asked = c.alive /\ c.asked]
UnregisteredAll(r) == [scopes EXCEPT ![req[r].key] = {}]  \* mutant
Unregistered(r) == [scopes EXCEPT ![req[r].key] = @ \ {r}]
Reply(r) ==
  /\ req[r].pc = "over" /\ permit # r /\ \A d \in Docs : gate[d] # r
  /\ scopes' = Unregistered(r)
  /\ req' = [req EXCEPT ![r] = Answered(@)]
  /\ UNCHANGED <<permit, gate, queue, running, notice>>

-----------------------------------------------------------------------------
(* The thread of an async body, which may outlive its request.             *)
AskMain(r) ==
  /\ req[r].tool \in Async /\ req[r].alive /\ ~req[r].asked
  /\ req' = [req EXCEPT ![r].asked = TRUE]
  /\ queue' = Append(queue, Item(r, "uno"))
  /\ UNCHANGED <<permit, gate, scopes, running, notice>>
AgentEnds(r) ==
  /\ req[r].tool \in Async /\ req[r].alive /\ ~OnMain(r, "uno")
  /\ req' = [req EXCEPT ![r].alive = FALSE,
                        ![r].pc = IF @ = "agent" THEN "over" ELSE @,
                        ![r].answer = IF req[r].pc = "agent" THEN "ok" ELSE @]
  /\ UNCHANGED <<permit, gate, scopes, queue, running, notice>>

-----------------------------------------------------------------------------
(* The main thread.                                                        *)

\* process_queue: a cancelled preparation is dropped, its waiter woken.  The
\* body carries no scope; its own check comes first, the entry after it.
Claim ==
  /\ running = Idle /\ queue # <<>>
  /\ queue' = Tail(queue)
  /\ LET i == Head(queue)
     IN  \/ /\ i.part = "prepare" /\ req[i.req].stopped
            /\ Over(i.req, "error") /\ UNCHANGED running
         \/ /\ i.part = "body" /\ Refuses(i.req)
            /\ Over(i.req, "stopped") /\ UNCHANGED running
         \/ /\ CASE i.part = "prepare" -> ~req[i.req].stopped
                 [] i.part = "body"    -> ~Refuses(i.req)
                 [] OTHER              -> TRUE
            /\ running' = i /\ UNCHANGED req
  /\ UNCHANGED <<permit, gate, scopes, notice>>
EnterBody ==
  /\ running.part = "body" /\ ~req[running.req].began
  /\ req' = [req EXCEPT ![running.req].began = TRUE, ![running.req].alive = TRUE]
  /\ UNCHANGED <<permit, gate, scopes, queue, running, notice>>

\* _prepare_mcp_execution finds the tool and the document, or an error.  The
\* document matters where its gate does.
FinishPrepare ==
  /\ running.part = "prepare"
  /\ \E t \in Tools : \E d \in IF t \in NeedsGate THEN Docs ELSE {Nobody} :
       req' = [req EXCEPT ![running.req].pc = "prepared",
                          ![running.req].tool = t, ![running.req].doc = d,
                          ![running.req].answer = IF t = "refused" THEN "error" ELSE @]
  /\ running' = Idle
  /\ UNCHANGED <<permit, gate, scopes, queue, notice>>
FinishBody ==
  /\ running.part = "body" /\ req[running.req].began
  /\ req' = [req EXCEPT ![running.req].pc = "over", ![running.req].answer = "ok",
                        ![running.req].alive = FALSE]
  /\ running' = Idle
  /\ UNCHANGED <<permit, gate, scopes, queue, notice>>
FinishUno ==
  /\ running.part = "uno"
  /\ running' = Idle
  /\ UNCHANGED <<req, permit, gate, scopes, queue, notice>>

-----------------------------------------------------------------------------
(* A notification's thread: a copy of the bucket, then one scope after the *)
(* other, each flagged before its queued work is swept.                    *)
Notify(n) ==
  /\ notice[n].pc = "new"
  /\ \E k \in Keys :
       notice' = [notice EXCEPT ![n] = [pc |-> "cancel", todo |-> scopes[k], at |-> Nobody]]
  /\ UNCHANGED <<req, permit, gate, scopes, queue, running>>
Flag(n) ==
  /\ notice[n].pc = "cancel" /\ notice[n].at = Nobody
  /\ \E r \in notice[n].todo :
       /\ req' = [req EXCEPT ![r].stopped = TRUE]
       /\ notice' = [notice EXCEPT ![n].todo = @ \ {r},
                                   ![n].at = IF req[r].stopped THEN Nobody ELSE r]
  /\ UNCHANGED <<permit, gate, scopes, queue, running>>
Swept(r) == Without(queue, {Item(r, "prepare")})
Sweep(n) ==
  /\ notice[n].at # Nobody
  /\ LET r == notice[n].at
     IN  /\ queue' = Swept(r)
         /\ req' = IF Contains(queue, Item(r, "prepare"))
                   THEN [req EXCEPT ![r].pc = "over", ![r].answer = "error"]
                   ELSE req
  /\ notice' = [notice EXCEPT ![n].at = Nobody]
  /\ UNCHANGED <<permit, gate, scopes, running>>
NoticeDone(n) ==
  /\ notice[n].pc = "cancel" /\ notice[n].todo = {} /\ notice[n].at = Nobody
  /\ notice' = [notice EXCEPT ![n].pc = "done"]
  /\ UNCHANGED <<req, permit, gate, scopes, queue, running>>

-----------------------------------------------------------------------------
Work(r) == \/ TakePermit(r) \/ PutPermitBack(r) \/ TakeGate(r) \/ CheckAgent(r)
           \/ EnterAgent(r) \/ PutGateBack(r) \/ Reply(r)
Timeout(r) == PermitTimeout(r) \/ GiveUp(r) \/ GateTimeout(r) \/ AgentTimeout(r)
Main == Claim \/ FinishPrepare \/ EnterBody \/ FinishBody \/ FinishUno
Cancel(n) == Notify(n) \/ Flag(n) \/ Sweep(n) \/ NoticeDone(n)

Next ==
  \/ \E r \in Requests : \/ Arrive(r) \/ RefuseEarly(r) \/ Work(r) \/ Timeout(r)
                         \/ AskMain(r) \/ AgentEnds(r)
  \/ Main
  \/ \E n \in Notices : Cancel(n)

Spec == Init /\ [][Next]_vars

(* Threads run, the main loop runs, a tool's body returns.  No deadline is *)
(* relied on: every call is answered even if no timeout ever fires.        *)
FairSpec ==
  /\ Spec
  /\ WF_vars(Main)
  /\ \A r \in Requests : WF_vars(Work(r)) /\ WF_vars(AgentEnds(r))
-----------------------------------------------------------------------------
InFlight(r) == req[r].pc \notin {"new", "done"}

Calls ==
  [pc : {"new", "permit", "prepare", "prepared", "gate", "again", "start", "enter",
         "body", "agent", "over", "done"},
   key : Keys \cup {Nobody}, doc : Docs \cup {Nobody}, tool : Tools \cup {"none"},
   stopped : BOOLEAN, began : BOOLEAN, alive : BOOLEAN, asked : BOOLEAN,
   answer : {"none", "ok", "error", "stopped", "busy", "timeout"}]

TypeOK ==
  /\ req \in [Requests -> Calls]
  /\ permit \in Requests \cup {Nobody}
  /\ gate \in [Docs -> Requests \cup {Nobody}]
  /\ scopes \in [Keys -> SUBSET Requests]
  /\ running.req \in Requests \cup {Nobody}

\* A body that edits, whoever waits for it, and one its deadline has abandoned:
\* it runs on without the gate, its client being told an error.
Editing(r) == req[r].alive /\ req[r].tool \in NeedsGate
Abandoned(r) ==
  req[r].pc \in {"over", "done"} /\ req[r].tool \in Async /\ req[r].answer = "error"

\* The gate keeps the edits of one document apart, on the main thread, off it and
\* across the two, but only as long as a client waits for them: of two that do
\* overlap at least one has been abandoned at its own deadline (tool.py:899), and
\* its client is told so.  docs/mcp-protocol.md:373 ("prevents overlapping
\* mutating MCP tool runs on the same file") and docs/framework/threading.md:65
\* make no such exception; the code does.
EditsApart ==
  \A r, q \in Requests :
    r # q /\ Editing(r) /\ Editing(q) /\ req[r].doc = req[q].doc
      => Abandoned(r) \/ Abandoned(q)

\* 429 and 504 invite a retry: a call answered so has not run its tool, and
\* never will, whoever wins the race between the deadline and the main thread.
RefusedDidNothing ==
  \A r \in Requests : req[r].answer \in {"busy", "timeout"} => ~req[r].began

\* One fast tool at a time (docs/mcp-protocol.md:368): an item posted under
\* the permit is off the main thread before the permit is back.
OneFastTool ==
  \A r \in Requests :
    OnMain(r, "prepare") \/ OnMain(r, "body") => permit = r

\* A notification finds exactly the calls of its key that are in flight, also
\* when a client has used the id twice and one of them ends first.
ScopesMatch ==
  \A k \in Keys : scopes[k] = {r \in Requests : InFlight(r) /\ req[r].key = k}

\* What the server keeps about calls is about the calls under way: the permit
\* while the main thread has one, the scope while it can be cancelled.
CallInv == TypeOK /\ OneFastTool /\ ScopesMatch

\* A call is past its last look at the scope, or its tool has begun.
Passed(r) == req[r].began \/ req[r].pc = "enter" \/ running = Item(r, "body")

\* Once a call is cancelled it does not get past that look any more, wherever the
\* notification finds it: at the permit, queued, at the gate or prepared.  A call
\* cancelled between the look and the entry runs its tool.
StopBeforeStart ==
  [][\A r \in Requests : req[r].stopped /\ ~Passed(r) => ~Passed(r)']_vars

\* Permit, gate, permit again, and agents that need the main thread while they
\* hold a gate: every call is answered although no deadline ever fires.
AllAnswered == \A r \in Requests : req[r].pc = "permit" ~> req[r].pc = "done"
=============================================================================
