------------------------------ MODULE ToolHost ------------------------------
(***************************************************************************)
(* Who calls a tool, and in which context (agent/tooling.py).  The run on  *)
(* the event loop calls a plain tool in line and blocks the loop until it  *)
(* returns; a subagent's calls go to executor threads, beside it.  A tool  *)
(* finds its workspace and its call id in context variables, which a       *)
(* subagent's task copies when it is spawned.  The store modules say what  *)
(* each tool does between the start of a call and its reply.               *)
(***************************************************************************)
EXTENDS Naturals, Sequences, FiniteSets

CONSTANTS Main,       \* the agent's run
          Workers,    \* subagents
          Threads,    \* conversations
          None,
          MaxFaults   \* bound: crashes, user cancels and failed file operations

Actors == {Main} \cup Workers

ASSUME HostAssumption ==
  /\ Main \notin Workers
  /\ None \notin Threads \cup Actors
  /\ MaxFaults \in Nat

VARIABLES
  job,        \* the tool call an actor is in
  ctx,        \* _current_workspace in the actor's context
  callId,     \* _active_tool_call_id in the actor's context
  owner,      \* the thread on whose behalf the actor works
  answered,   \* writes whose caller was told that they were done
  disturbed,  \* stores in which two calls overlapped or one was cut short
  faults

host == <<job, ctx, callId, owner, answered, disturbed, faults>>

Replies == {"done", "already", "refused", "masked", "raised"}

Job(op, at, got, reply) == [op |-> op, at |-> at, got |-> got, reply |-> reply]

Idle == Job(None, "idle", None, "done")

HostInit ==
  /\ job = [a \in Actors |-> Idle]
  /\ ctx = [a \in Actors |-> None]
  /\ callId = [a \in Actors |-> None]
  /\ owner = [a \in Actors |-> None]
  /\ answered = {} /\ disturbed = {} /\ faults = 0

\* Actor a is at a point of a call to a tool of the store.
In(a, store, at) == job[a].op # None /\ job[a].op.store = store /\ job[a].at = at

InCall(a)  == job[a].at \notin {"idle", "replied"}
Busy(a, s) == InCall(a) /\ job[a].op.store = s

Begin(a, op) ==
  /\ job[a].at = "idle"
  /\ job' = [job EXCEPT ![a] = Job(op, "start", None, "done")]
  /\ disturbed' = IF \E b \in Actors \ {a} : Busy(b, op.store)
                  THEN disturbed \cup {op.store} ELSE disturbed

\* The call goes on from another point with what it has read.
Goes(a, at, got) == job' = [job EXCEPT ![a] = Job(@.op, at, got, @.reply)]

\* The tool returns a text, or raises and execute_tool makes a text of it.
Reply(a, r) == job' = [job EXCEPT ![a] = Job(@.op, "replied", None, r)]

Told(a, what) == answered' = answered \cup {[call |-> callId[a], op |-> job[a].op, what |-> what]}

\* "Error: ...", "... not found" and what execute_tool caught count as failures.
\* "Error managing tasks: ..." and "Error writing ...: ..." do not.
ToolSuccess(r) == r \notin {"refused", "raised"}

\* An operation on a file raises.
FileFault == faults < MaxFaults /\ faults' = faults + 1

\* The subagent's task starts with a copy of the context it is spawned in.
Spawned(w, id) ==
  /\ ctx' = [ctx EXCEPT ![w] = ctx[Main]]
  /\ owner' = [owner EXCEPT ![w] = owner[Main]]
  /\ callId' = [callId EXCEPT ![w] = id]

\* The process dies: a file that is being written stays as it is.
HostCrash ==
  /\ FileFault
  /\ job' = [a \in Actors |-> Idle]
  /\ ctx' = [a \in Actors |-> None]
  /\ callId' = [a \in Actors |-> None]
  /\ owner' = [a \in Actors |-> None]
  /\ disturbed' = disturbed \cup { job[a].op.store : a \in { b \in Actors : InCall(b) } }
  /\ UNCHANGED answered
=============================================================================
