------------------------------ MODULE RunTrace ------------------------------
(***************************************************************************)
(* The events of one run (agent/loop.py, agent/trace.py): agent_loop from  *)
(* the prompt to its result, the provider call with its retries and its    *)
(* stream, every tool outcome, the sandbox that is released whatever       *)
(* happens.  AgentLoop has the commits and what they protect; here a       *)
(* commit is the checkpoint_saved event, and the list of events is the     *)
(* state.  An action goes from one point where the run is suspended, or    *)
(* chooses, to the next.                                                   *)
(***************************************************************************)
EXTENDS Naturals, Sequences, FiniteSets

CONSTANTS MaxTurns,     \* _MAX_REACT_TURNS
          RepeatLimit,  \* _REPEATED_TOOL_CALL_LIMIT
          MaxRetries,   \* _MAX_RETRIES
          MaxChunks,    \* bound: chunks of a streamed answer
          MaxCalls,     \* bound: calls in a batch
          CallBudget    \* bound: calls in a process or in a task

ASSUME TraceAssumption ==
  /\ MaxTurns \in Nat \ {0}
  /\ RepeatLimit \in Nat \ {0}
  /\ {MaxRetries, MaxChunks, MaxCalls, CallBudget} \subseteq Nat

VARIABLES
  pc,        \* where the run is
  stream,    \* stream_llm
  outcome,   \* how the run is leaving or has left
  turn,
  attempt,   \* of the provider call
  chunks,    \* text chunks of this attempt
  batch,     \* raw_tool_calls
  k,         \* call_index, from 1
  boxed,     \* sandbox_acquired
  blocked,   \* blocked_batch
  finishing, \* next_action is FINISH
  lastBatch, \* repeated_tool_signature
  repeats,   \* repeated_tool_count
  spent,     \* calls requested so far
  events,    \* TraceCollector._events; the place in it is the sequence number
  did        \* what really happened in this run, counted beside the events

locals == <<attempt, chunks, batch, k, boxed, blocked, finishing, lastBatch, repeats, spent>>
run    == <<pc, stream, outcome, turn, locals, events, did>>

Nothing == [turns |-> 0, answers |-> 0, calls |-> 0, errors |-> 0, retries |-> 0]

LocalsReset ==
  /\ attempt' = 0 /\ chunks' = 0 /\ batch' = <<>> /\ k' = 0
  /\ boxed' = FALSE /\ blocked' = FALSE /\ finishing' = FALSE
  /\ lastBatch' = <<>> /\ repeats' = 0

RunInit ==
  /\ pc = "idle" /\ outcome = "none" /\ turn = 0
  /\ attempt = 0 /\ chunks = 0 /\ batch = <<>> /\ k = 0
  /\ boxed = FALSE /\ blocked = FALSE /\ finishing = FALSE
  /\ lastBatch = <<>> /\ repeats = 0 /\ spent = 0
  /\ events = <<>> /\ did = Nothing

-----------------------------------------------------------------------------
(***************************************************************************)
(* Events.                                                                 *)
(***************************************************************************)

EventOf(e, t) == [event |-> e, turn |-> t, n |-> 0, name |-> "", ok |-> TRUE]

Event(e)      == EventOf(e, turn)
Attempted(e)  == [Event(e) EXCEPT !.n = attempt]
OfCall(e, i, ok) == [event |-> e, turn |-> turn, n |-> i, name |-> batch[i], ok |-> ok]

Emit(es) == events' = events \o es

End == IF outcome' = "ended" THEN <<Event("end")>> ELSE <<>>

\* The finally clause: a sandbox is released first; "end" is for a run that
\* neither waits nor raises.
Leave(es, how) ==
  /\ outcome' = how
  /\ pc' = IF boxed THEN "releasing" ELSE "over"
  /\ events' = events \o es \o IF boxed THEN <<>> ELSE End
  /\ UNCHANGED <<stream, turn, locals>>

Fail(es) == Leave(es \o <<Event("checkpoint_saved"), Event("error")>>, "raised")

-----------------------------------------------------------------------------
(***************************************************************************)
(* A turn: context and the provider.                                       *)
(***************************************************************************)

StartRun ==
  /\ pc = "idle"
  /\ pc' = "turn" /\ outcome' = "none" /\ turn' = 0
  /\ LocalsReset
  /\ events' = <<>> /\ did' = Nothing
  /\ UNCHANGED <<stream, spent>>

BeginTurn ==
  /\ pc = "turn"
  /\ pc' = "context"
  /\ turn' = turn + 1
  /\ Emit(<<EventOf("turn_start", turn')>>)
  /\ did' = [did EXCEPT !.turns = @ + 1]
  /\ UNCHANGED <<stream, outcome, locals>>

ContextLoaded ==
  /\ pc = "context"
  /\ pc' = "calling"
  /\ attempt' = 1 /\ chunks' = 0
  /\ Emit(<<Event("context_loaded"), Event("llm_start")>>)
  /\ UNCHANGED <<stream, outcome, turn, batch, k, boxed, blocked, finishing, lastBatch, repeats,
                 spent, did>>

\* The context raises: an upload that cannot be written.
ContextFails ==
  /\ pc = "context"
  /\ Fail(<<>>)
  /\ UNCHANGED did

Chunk ==
  /\ pc = "calling" /\ stream /\ chunks < MaxChunks
  /\ chunks' = chunks + 1
  /\ Emit(<<Attempted("llm_token")>>)
  /\ UNCHANGED <<pc, stream, outcome, turn, attempt, batch, k, boxed, blocked, finishing,
                 lastBatch, repeats, spent, did>>

\* Mutant: a stream is retried wherever it breaks.
RetriesLeft == attempt <= MaxRetries

\* Both retry loops; a stream that has begun is not tried again.
MayRetry == attempt <= MaxRetries /\ ~ (stream /\ chunks > 0)

Retry ==
  /\ pc = "calling" /\ MayRetry
  /\ pc' = "backoff"
  /\ Emit(<<Attempted("llm_retry")>>)
  /\ did' = [did EXCEPT !.retries = @ + 1]
  /\ UNCHANGED <<stream, outcome, turn, locals>>

RetryDelayOver ==
  /\ pc = "backoff"
  /\ pc' = "calling" /\ attempt' = attempt + 1 /\ chunks' = 0
  /\ UNCHANGED <<stream, outcome, turn, batch, k, boxed, blocked, finishing, lastBatch,
                 repeats, spent, events, did>>

\* An error that is not retryable, or no retry is left.
GiveUp ==
  /\ pc = "calling"
  /\ Fail(<<>>)
  /\ UNCHANGED did

\* The answer asks for calls b: to be run, but for a single wait call with a
\* question and a batch repeated too often.  The same names may come with other
\* arguments.
Answer(b) ==
  /\ pc = "calling"
  /\ spent + Len(b) <= CallBudget
  /\ batch' = b /\ k' = 1 /\ blocked' = FALSE
  /\ spent' = spent + Len(b)
  /\ finishing' = (b = <<>>)
  /\ lastBatch' = b
  /\ repeats' \in IF b = lastBatch THEN {1, repeats + 1} ELSE {1}
  /\ pc' \in IF b = <<>> THEN {"endturn"}
             ELSE {IF repeats' >= RepeatLimit THEN "repeated" ELSE "tool"}
                  \cup (IF b = <<"wait">> THEN {"wait"} ELSE {})
  /\ Emit(<<Attempted("llm_end"), Event("checkpoint_saved"), Event("assistant_response")>>)
  /\ did' = [did EXCEPT !.answers = @ + 1, !.calls = @ + Len(b)]
  /\ UNCHANGED <<stream, outcome, turn, attempt, chunks, boxed>>

-----------------------------------------------------------------------------
(***************************************************************************)
(* A batch of calls.                                                       *)
(***************************************************************************)

Result(i, ok) == <<Event("checkpoint_saved"), OfCall("tool_result", i, ok)>>

Pause ==
  /\ pc = "wait"
  /\ Leave(<<OfCall("tool_call", 1, TRUE)>> \o Result(1, TRUE) \o <<Event("wait")>>, "waiting")
  /\ UNCHANGED did

Skipped(i) == <<OfCall("tool_call", i, TRUE)>> \o Result(i, FALSE)

\* Three events of each of the first n calls, one call after the other.
AllSkipped(n) == [p \in 1..(3 * n) |-> Skipped((p + 2) \div 3)[1 + ((p - 1) % 3)]]

\* Every call is answered without being run.
RepeatStop ==
  /\ pc = "repeated"
  /\ pc' = "endturn" /\ finishing' = TRUE
  /\ Emit(AllSkipped(Len(batch)) \o <<Event("checkpoint_saved"), Event("tool_repeat_guard")>>)
  /\ did' = [did EXCEPT !.errors = @ + Len(batch)]
  /\ UNCHANGED <<stream, outcome, turn, attempt, chunks, batch, k, boxed, blocked,
                 lastBatch, repeats, spent>>

\* After its result the next call, or the end of the turn.
NextCall(es, ok) ==
  /\ Emit(es \o Result(k, ok))
  /\ k' = k + 1
  /\ pc' = IF k < Len(batch) THEN "tool" ELSE "endturn"
  /\ did' = [did EXCEPT !.errors = IF ok THEN @ ELSE @ + 1]
  /\ UNCHANGED <<stream, outcome, turn, attempt, chunks, batch, lastBatch, repeats, spent>>

CallMade == <<OfCall("tool_call", k, TRUE)>>

\* Skipped after a blocked call, a wait among others, no coordinator.
CallRefused ==
  /\ pc = "tool"
  /\ blocked \/ batch[k] \in {"wait", "spawn"}
  /\ NextCall(CallMade, FALSE)
  /\ UNCHANGED <<boxed, blocked, finishing>>

\* Mutant: a blocked call is reported as blocked and has no result.
BlockedNoResult == events' = events \o CallMade \o <<Event("checkpoint_saved"), OfCall("tool_blocked", k, FALSE)>>

BlockedEvents == events' = events \o CallMade \o <<Event("checkpoint_saved"),
                             OfCall("tool_blocked", k, FALSE), OfCall("tool_result", k, FALSE)>>

CallBlocked ==
  /\ pc = "tool" /\ ~ blocked /\ batch[k] = "bash"
  /\ BlockedEvents
  /\ blocked' = TRUE /\ finishing' = TRUE
  /\ k' = k + 1
  /\ pc' = IF k < Len(batch) THEN "tool" ELSE "endturn"
  /\ did' = [did EXCEPT !.errors = @ + 1]
  /\ UNCHANGED <<stream, outcome, turn, attempt, chunks, batch, boxed, lastBatch, repeats, spent>>

\* bash_safe itself raises, of a command that is no text: before execute_tool's try.
CallRaises ==
  /\ pc = "tool" /\ ~ blocked /\ batch[k] = "bash"
  /\ Fail(CallMade)
  /\ UNCHANGED did

\* prepare_tool_backend acquires a sandbox once in a run.
CallBash ==
  /\ pc = "tool" /\ ~ blocked /\ batch[k] = "bash"
  /\ pc' = IF boxed THEN "running" ELSE "acquiring"
  /\ Emit(CallMade)
  /\ UNCHANGED <<stream, outcome, turn, locals, did>>

Acquired ==
  /\ pc = "acquiring"
  /\ pc' = "running" /\ boxed' = TRUE
  /\ Emit(<<Event("sandbox_acquired")>>)
  /\ UNCHANGED <<stream, outcome, turn, attempt, chunks, batch, k, blocked, finishing,
                 lastBatch, repeats, spent, did>>

\* "Error executing bash": the acquire raised, or the command did.
BashReturns(ok) ==
  /\ pc = "running" \/ (pc = "acquiring" /\ ~ ok)
  /\ NextCall(<<>>, ok)
  /\ UNCHANGED <<boxed, blocked, finishing>>

\* An asynchronous tool that has done its work when it is first resumed.
CallSpawn ==
  /\ pc = "tool" /\ ~ blocked /\ batch[k] = "spawn"
  /\ NextCall(CallMade, TRUE)
  /\ UNCHANGED <<boxed, blocked, finishing>>

\* A plain tool: it works while the event loop waits for it.
CallTool ==
  /\ pc = "tool" /\ ~ blocked /\ batch[k] \notin {"wait", "bash", "spawn"}
  /\ pc' = "job"
  /\ Emit(CallMade)
  /\ UNCHANGED <<stream, outcome, turn, locals, did>>

ToolReturns(ok) ==
  /\ pc = "job"
  /\ NextCall(<<>>, ok)
  /\ UNCHANGED <<boxed, blocked, finishing>>

-----------------------------------------------------------------------------
(***************************************************************************)
(* End of a turn, end of a run.                                            *)
(***************************************************************************)

\* The commit at the limit is handed the wrong object and raises.
TurnLimit ==
  /\ pc = "endturn" /\ ~ finishing /\ turn >= MaxTurns
  /\ Fail(<<>>)
  /\ UNCHANGED did

NextTurn ==
  /\ pc = "endturn" /\ ~ finishing /\ turn < MaxTurns
  /\ pc' = "turn"
  /\ Emit(<<Event("checkpoint_saved")>>)
  /\ UNCHANGED <<stream, outcome, turn, locals, did>>

Finish ==
  /\ pc = "endturn" /\ finishing
  /\ Leave(<<Event("checkpoint_saved")>>, "ended")
  /\ UNCHANGED did

Release ==
  /\ pc = "releasing"
  /\ pc' = "over"
  /\ UNCHANGED outcome
  /\ Emit(<<Event("sandbox_released")>> \o End)
  /\ UNCHANGED <<stream, turn, locals, did>>

ReleaseFails ==
  /\ pc = "releasing"
  /\ pc' = "over" /\ outcome' = "raised"
  /\ UNCHANGED <<stream, turn, locals, events, did>>

\* task.cancel() where the run is suspended; a release that is cancelled ends
\* like one that raises.
Cancel ==
  \/ /\ pc \in {"calling", "backoff", "acquiring", "running"}
     /\ Leave(<<Event("checkpoint_saved"), Event("cancelled")>>, "raised")
     /\ UNCHANGED did
  \/ ReleaseFails

RunCrash ==
  /\ pc' = "idle" /\ outcome' = "none" /\ turn' = 0
  /\ LocalsReset
  /\ events' = <<>> /\ did' = Nothing
  /\ UNCHANGED <<stream, spent>>

\* The run is over and its caller has its result.
RunTaken ==
  /\ pc = "over"
  /\ pc' = "idle" /\ turn' = 0 /\ outcome' = "none"
  /\ LocalsReset
  /\ events' = <<>> /\ did' = Nothing
  /\ UNCHANGED <<stream, spent>>

\* The tokens a client was shown before an answer all come from the attempt
\* that gave the answer: no text of a broken stream precedes it (loop.py,
\* _astream_with_retry).
ShownIsAnswer ==
  \A i, j \in DOMAIN events :
     events[i].event = "llm_token" /\ events[j].event = "llm_end" /\ events[i].turn = events[j].turn
       => i < j /\ events[i].n = events[j].n
=============================================================================
