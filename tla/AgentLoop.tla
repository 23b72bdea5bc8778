----------------------------- MODULE AgentLoop ------------------------------
(***************************************************************************)
(* One thread of NanoDeer: NanoAgent accepts a prompt (agent/agent.py),    *)
(* agent_loop runs the turns (agent/loop.py), commit_state makes every     *)
(* fact durable before the next one (agent/checkpoint/commit.py) in the    *)
(* SQLite checkpointer (agent/checkpoint/sqlite.py).  The process may crash *)
(* and restart anywhere; a run may be cancelled where it is suspended; a   *)
(* save may fail before its first write, or break off after it and leave   *)
(* its transaction open.                                                   *)
(***************************************************************************)
EXTENDS Transcript

CONSTANTS WaitWork,     \* the work of a call to the "wait" tool
          MaxCalls,     \* calls in a batch
          MaxTurns,     \* _MAX_REACT_TURNS
          RepeatLimit,  \* _REPEATED_TOOL_CALL_LIMIT
          UniqueIds,    \* the provider gives every call an id of its own
          MaxPrompts,   \* bound: prompts submitted
          MaxQueued,    \* bound: prompts waiting for the execution lock
          MaxFaults     \* bound: crashes, cancels, failed commits, errors

ASSUME LoopAssumption ==
  /\ WaitWork \in Works
  /\ MaxCalls \in Nat
  /\ MaxTurns \in Nat \ {0}
  /\ RepeatLimit \in Nat \ {0}
  /\ UniqueIds \in BOOLEAN
  /\ MaxPrompts \in Nat
  /\ MaxQueued \in Nat
  /\ MaxFaults \in Nat

VARIABLES
  disk,      \* the thread's AgentState in the database file
  conn,      \* the same as the checkpointer's one connection reads it
  dangling,  \* a save that raised left its transaction open on it
  torn,      \* what disk holds is part of a save that raised
  mem,       \* NanoAgent.state
  loaded,    \* NanoAgent.state is not None
  pc,        \* what the run does next; "idle" when the execution lock is free
  cont,      \* what it does after the commit in flight
  turn,      \* local of agent_loop
  at,        \* entry of the batch in progress (raw_tool_calls)
  idx,       \* call_index, from 1
  blocked,   \* blocked_batch
  lastSig,   \* repeated_tool_signature
  repeats,   \* repeated_tool_count
  inbox,     \* prompts waiting for the lock: had the user seen the question?
  effects,   \* calls that were started, as pairs (entry, index), but for those
             \* whose request part of a save that raised has replaced
  shown,     \* entries whose fact an event or a result has announced
  asked,     \* the unknown-effect question was delivered to the user
  submitted, faults

store  == <<disk, conn, dangling, torn>>
state  == <<store, mem, loaded>>
control == <<pc, cont>>
locals == <<turn, at, idx, blocked, lastSig, repeats>>
user   == <<inbox, asked, submitted>>
world  == <<effects, shown>>
vars   == <<state, control, locals, user, world, faults>>

Fresh == [log |-> <<>>, next |-> "none", wait |-> "none",
          finish |-> "running", rev |-> 0]

State == [log : Seq(Entry),
          next : {"none", "wait", "finish"},
          wait : {"none", "external_input", "unknown_tool_effect"},
          finish : {"running", "completed", "wait", "repeated_tool_calls",
                    "bash_blocked", "max_turns", "cancelled", "error",
                    "unknown_tool_effect"},
          rev : Nat]

\* After a commit the run goes on at one of these.
Continuations == {"report_wait", "turn_start", "responded", "pause", "tool_saved",
                  "skip_saved", "turn_check", "turn_saved", "end_cancelled",
                  "end_failed"}

Init ==
  /\ disk = Fresh /\ mem = Fresh /\ loaded = FALSE
  /\ conn = Fresh /\ dangling = FALSE /\ torn = FALSE
  /\ pc = "idle" /\ cont = "turn_start"
  /\ turn = 0 /\ at = 0 /\ idx = 0 /\ blocked = FALSE
  /\ lastSig = <<>> /\ repeats = 0
  /\ inbox = <<>> /\ asked = FALSE /\ submitted = 0
  /\ effects = {} /\ shown = 0 /\ faults = 0

-----------------------------------------------------------------------------
(***************************************************************************)
(* Commit barriers.                                                        *)
(***************************************************************************)

SaveThen(next) == pc' = "commit" /\ cont' = next

\* The run is over; the lock is free and agent_loop's locals are gone.
EndRun ==
  /\ pc' = "idle" /\ cont' = "turn_start"
  /\ turn' = 0 /\ at' = 0 /\ idx' = 0 /\ blocked' = FALSE
  /\ lastSig' = <<>> /\ repeats' = 0

\* Mutant: the exception keeps the uncommitted state.
UnwindKeepsState == EndRun /\ UNCHANGED <<mem, loaded>>

\* An exception leaves run(): _discard_uncommitted_state.
Unwind ==
  /\ EndRun
  /\ mem' = Fresh /\ loaded' = FALSE

\* Mutant: a failed save rolls the revision back once too often.
CommittedTwiceRolledBack == [mem EXCEPT !.rev = @ - 1]

Committed == [mem EXCEPT !.rev = @ + 1]

\* Once part of a save has replaced the transcript, nothing is said of a call
\* whose request is not in it.
Forget(log) ==
  /\ effects' = effects \cap Occurrences(log)
  /\ shown' = IF shown <= Len(log) THEN shown ELSE Len(log)

\* conn.commit(): the file has what the connection has, the rest of a broken
\* save with it.
Stored ==
  /\ disk' = Committed /\ conn' = Committed
  /\ dangling' = FALSE /\ torn' = FALSE
  /\ IF dangling THEN Forget(mem.log) ELSE UNCHANGED world

CommitOk ==
  /\ pc = "commit"
  /\ Stored /\ mem' = Committed
  /\ pc' = cont
  /\ UNCHANGED <<loaded, cont, locals, user, faults>>

\* What was not committed is gone.
RolledBack == conn' = disk /\ dangling' = FALSE /\ UNCHANGED <<disk, torn>>

\* CommitError before the first write, or with an error on which SQLite itself
\* rolls the transaction back; the code never does.
CommitFails ==
  /\ pc = "commit" /\ faults < MaxFaults
  /\ faults' = faults + 1
  /\ UNCHANGED store \/ RolledBack
  /\ Unwind
  /\ UNCHANGED <<user, world>>

\* CommitError after the first write: the row is replaced, the messages are
\* deleted and the first n inserted, and the transaction stays open.
SaveBreaks ==
  /\ pc = "commit" /\ faults < MaxFaults
  /\ faults' = faults + 1
  /\ \E n \in 0 .. Len(mem.log) :
        conn' = [Committed EXCEPT !.log = SubSeq(mem.log, 1, n)]
  /\ dangling' = TRUE
  /\ Unwind
  /\ UNCHANGED <<disk, torn, user, world>>

\* CommitCancelled, with a checkpointer that suspends: the write may have
\* reached the store or not.
CommitCancelled ==
  /\ pc = "commit" /\ faults < MaxFaults
  /\ faults' = faults + 1
  /\ Stored \/ UNCHANGED <<store, world>>
  /\ Unwind
  /\ UNCHANGED user

\* The save of another thread commits the open transaction with its own, or
\* fails and has SQLite roll it back.  Nothing suspends between this thread's
\* load and its first save, so it happens between runs.
OthersSave ==
  /\ pc = "idle" /\ dangling
  /\ \/ /\ disk' = conn /\ torn' = TRUE
        /\ conn' = conn /\ dangling' = FALSE
        /\ Forget(conn.log)
     \/ RolledBack /\ UNCHANGED world
  /\ UNCHANGED <<mem, loaded, control, locals, user, faults>>

-----------------------------------------------------------------------------
(***************************************************************************)
(* NanoAgent.run and _accept_input.                                        *)
(***************************************************************************)

\* A client calls run() or run_streaming(); the call queues on the lock.
Submit ==
  /\ submitted < MaxPrompts /\ Len(inbox) < MaxQueued
  /\ submitted' = submitted + 1
  /\ inbox' = Append(inbox, asked)
  /\ UNCHANGED <<state, control, locals, world, asked, faults>>

Current == IF loaded THEN mem ELSE conn

\* Calls without a result and no question about them yet: the prompt is not
\* consumed, the thread waits for the user to verify.
AcceptUnknown ==
  /\ pc = "idle" /\ inbox # <<>>
  /\ UnresolvedIds(Current.log) # {}
  /\ Current.wait # "unknown_tool_effect"
  /\ mem' = [Current EXCEPT !.wait = "unknown_tool_effect", !.next = "wait",
                            !.finish = "unknown_tool_effect"]
  /\ loaded' = TRUE
  /\ inbox' = Tail(inbox)
  /\ SaveThen("report_wait")
  /\ UNCHANGED <<store, locals, asked, submitted, world, faults>>

\* Mutants: nobody was asked; a thread that waits for input takes no prompt.
TakesAnything == TRUE
TakesNothingWaiting == Current.wait = "none"

MayContinue == UnresolvedIds(Current.log) = {} \/ Current.wait = "unknown_tool_effect"

\* Mutant: the unresolved calls get no result.
ContinuedUnanswered == Append(Current.log, Human)

\* The calls the user was asked about get a result before the prompt.
Continued ==
  LET open == UnresolvedIds(Current.log)
  IN IF open = {} THEN Append(Current.log, Human)
                  ELSE Current.log \o <<Results(open), Human>>

\* The prompt becomes a durable fact.
AcceptPrompt ==
  /\ pc = "idle" /\ inbox # <<>>
  /\ MayContinue
  /\ mem' = [Current EXCEPT !.log = Continued, !.next = "none", !.wait = "none",
                            !.finish = "running"]
  /\ loaded' = TRUE
  /\ inbox' = Tail(inbox)
  /\ asked' = FALSE
  /\ SaveThen("turn_start")
  /\ UNCHANGED <<store, locals, submitted, world, faults>>

\* Mutant: the early return leaves the lock held.
ReportWaitKeepsLock ==
  /\ pc = "report_wait" /\ ~ asked
  /\ asked' = TRUE
  /\ UNCHANGED <<state, control, locals, inbox, submitted, world, faults>>

\* agent_loop is called with a waiting state: it reports and returns.
ReportWait ==
  /\ pc = "report_wait"
  /\ asked' = TRUE
  /\ EndRun
  /\ UNCHANGED <<state, inbox, submitted, world, faults>>

-----------------------------------------------------------------------------
(***************************************************************************)
(* agent_loop, one turn.                                                   *)
(***************************************************************************)

StartTurn ==
  /\ pc = "turn_start"
  /\ turn' = turn + 1
  /\ pc' = "infer"
  /\ UNCHANGED <<state, cont, at, idx, blocked, lastSig, repeats, user, world, faults>>

Batches == UNION { [1..n -> Works] : n \in 0..MaxCalls }

\* normalize_tool_calls: the provider's id, else call_{turn}_{index}.  A unique
\* id is named after the entry it will have in the transcript.
CallNumber == IF UniqueIds THEN Len(mem.log) + 1 ELSE turn

\* Mutant: no barrier.
NoAssistantBarrier == pc' = "responded" /\ UNCHANGED cont

\* The assistant message is saved before anything is made of it.
AssistantBarrier == SaveThen("responded")

Infer ==
  /\ pc = "infer"
  /\ \E b \in Batches :
       LET calls == [k \in DOMAIN b |-> [work |-> b[k], id |-> <<CallNumber, k>>]]
       IN mem' = [mem EXCEPT !.log = Append(@, Assistant(calls)),
                             !.finish = IF b = <<>> THEN "completed" ELSE @,
                             !.next = IF b = <<>> THEN "finish" ELSE @]
  /\ at' = Len(mem.log) + 1
  /\ AssistantBarrier
  /\ UNCHANGED <<store, loaded, turn, idx, blocked, lastSig, repeats, user, world, faults>>

Calls == mem.log[at].calls

\* assistant_response announces the committed message.  No calls: the turn is over.
RespondFinal ==
  /\ pc = "responded" /\ Calls = <<>>
  /\ shown' = Len(mem.log)
  /\ pc' = "turn_check"
  /\ UNCHANGED <<state, cont, locals, user, effects, faults>>

\* Mutant: the wait call gets no result.
PausedUnanswered == mem.log

Paused == Append(mem.log, Results({Calls[1].id}))

\* A single wait call with a question: its result and the WAIT are one commit.
RespondWait ==
  /\ pc = "responded" /\ Signature(Calls) = <<WaitWork>>
  /\ shown' = Len(mem.log)
  /\ mem' = [mem EXCEPT !.log = Paused, !.wait = "external_input", !.next = "wait",
                        !.finish = "wait"]
  /\ SaveThen("pause")
  /\ UNCHANGED <<store, loaded, locals, user, effects, faults>>

\* Mutant: one batch too many.
RepeatedOnceMore(n) == n > RepeatLimit

Repeated(n) == n >= RepeatLimit

\* Any other batch runs, unless it is the same one for the RepeatLimit-th time.
RespondCalls ==
  /\ pc = "responded" /\ Calls # <<>>
  /\ shown' = Len(mem.log)
  /\ lastSig' = Signature(Calls)
  /\ repeats' = IF Signature(Calls) = lastSig THEN repeats + 1 ELSE 1
  /\ pc' = IF Repeated(repeats') THEN "skip" ELSE "tool"
  /\ idx' = 1
  /\ blocked' = FALSE
  /\ UNCHANGED <<state, cont, turn, at, user, effects, faults>>

\* The wait event; agent_loop returns from inside the turn.
Pause ==
  /\ pc = "pause"
  /\ shown' = Len(mem.log)
  /\ EndRun
  /\ UNCHANGED <<state, user, effects, faults>>

-----------------------------------------------------------------------------
(***************************************************************************)
(* The tool loop.                                                          *)
(***************************************************************************)

Answering == [mem EXCEPT !.log = Append(@, Results({Calls[idx].id}))]

\* execute_tool starts the call: from here on its effect may have happened.
StartTool ==
  /\ pc = "tool" /\ ~ blocked
  /\ Calls[idx].work # WaitWork
  /\ effects' = effects \cup {<<at, idx>>}
  /\ pc' = "executing"
  /\ UNCHANGED <<state, cont, locals, user, shown, faults>>

\* Mutants: the result is not saved before the next call; a call that failed is
\* tried again.
NoResultBarrier == mem' = Answering /\ pc' = "tool_saved" /\ UNCHANGED cont
RetriedResult   == \/ mem' = Answering /\ SaveThen("tool_saved")
                   \/ pc' = "tool" /\ UNCHANGED <<mem, cont>>

\* The result is saved before the next call, the next inference and its event.
ResultBarrier == mem' = Answering /\ SaveThen("tool_saved")

\* The call returns or raises; either way it has a result.
ToolReturns ==
  /\ pc = "executing"
  /\ ResultBarrier
  /\ UNCHANGED <<store, loaded, locals, user, world, faults>>

\* A result without an effect: a misplaced wait, an unknown tool, no backend, or
\* a call skipped because one before it was blocked.
RefuseTool ==
  /\ pc = "tool"
  /\ ResultBarrier
  /\ UNCHANGED <<store, loaded, locals, user, world, faults>>

\* bash_safe says no: the run ends after this batch.
BlockTool ==
  /\ pc = "tool" /\ ~ blocked
  /\ Calls[idx].work # WaitWork
  /\ mem' = [Answering EXCEPT !.finish = "bash_blocked", !.next = "finish"]
  /\ blocked' = TRUE
  /\ SaveThen("tool_saved")
  /\ UNCHANGED <<store, loaded, turn, at, idx, lastSig, repeats, user, world, faults>>

\* tool_result, then the next call of the batch.
ToolSaved ==
  /\ pc = "tool_saved"
  /\ shown' = Len(mem.log)
  /\ idx' = idx + 1
  /\ pc' = IF idx < Len(Calls) THEN "tool" ELSE "turn_check"
  /\ UNCHANGED <<state, cont, turn, at, blocked, lastSig, repeats, user, effects, faults>>

\* The repeated batch is answered call by call without running it.
SkipCall ==
  /\ pc = "skip" /\ idx <= Len(Calls)
  /\ mem' = Answering
  /\ SaveThen("skip_saved")
  /\ UNCHANGED <<store, loaded, locals, user, world, faults>>

SkipSaved ==
  /\ pc = "skip_saved"
  /\ shown' = Len(mem.log)
  /\ idx' = idx + 1
  /\ pc' = "skip"
  /\ UNCHANGED <<state, cont, turn, at, blocked, lastSig, repeats, user, effects, faults>>

RepeatStop ==
  /\ pc = "skip" /\ idx > Len(Calls)
  /\ mem' = [mem EXCEPT !.log = Append(@, Assistant(<<>>)), !.next = "finish",
                        !.finish = "repeated_tool_calls"]
  /\ SaveThen("turn_check")
  /\ UNCHANGED <<store, loaded, locals, user, world, faults>>

-----------------------------------------------------------------------------
(***************************************************************************)
(* End of a turn, end of a run.                                            *)
(***************************************************************************)

AtLimit == mem.next # "finish" /\ turn >= MaxTurns

\* The limit's final message; the commit is then called with the resources
\* instead of the state.
TurnLimit ==
  /\ pc = "turn_check" /\ AtLimit
  /\ mem' = [mem EXCEPT !.log = Append(@, Assistant(<<>>)), !.next = "finish",
                        !.finish = "max_turns"]
  /\ pc' = "limit_save"
  /\ UNCHANGED <<store, loaded, cont, locals, user, world, faults>>

\* ExecutionResources has no revision: commit_state raises AttributeError.
LimitSave ==
  /\ pc = "limit_save"
  /\ mem' = [mem EXCEPT !.next = "finish", !.finish = "error"]
  /\ SaveThen("end_failed")
  /\ UNCHANGED <<store, loaded, locals, user, world, faults>>

EndTurn ==
  /\ pc = "turn_check" /\ ~ AtLimit
  /\ SaveThen("turn_saved")
  /\ UNCHANGED <<state, locals, user, world, faults>>

NextTurn ==
  /\ pc = "turn_saved" /\ mem.next # "finish"
  /\ pc' = "turn_start"
  /\ UNCHANGED <<state, cont, locals, user, world, faults>>

Finish ==
  /\ pc = "turn_saved" /\ mem.next = "finish"
  /\ EndRun
  /\ UNCHANGED <<state, user, world, faults>>

\* The context or the provider raises, retries exhausted; or bash_safe does, on
\* a command it cannot read: it runs outside execute_tool's try.
Fail ==
  /\ \/ pc \in {"turn_start", "infer"}
     \/ pc = "tool" /\ ~ blocked /\ Calls[idx].work # WaitWork
  /\ faults < MaxFaults
  /\ faults' = faults + 1
  /\ mem' = [mem EXCEPT !.next = "finish", !.finish = "error"]
  /\ SaveThen("end_failed")
  /\ UNCHANGED <<store, loaded, locals, user, world>>

\* task.cancel() while the run is suspended: in the context, at the provider,
\* in the sandbox's acquire or in a tool.
Cancel ==
  /\ pc \in {"turn_start", "infer", "tool", "executing"} /\ faults < MaxFaults
  /\ faults' = faults + 1
  /\ mem' = [mem EXCEPT !.next = "finish", !.finish = "cancelled"]
  /\ SaveThen("end_cancelled")
  /\ UNCHANGED <<store, loaded, locals, user, world>>

\* The error or cancelled event; the exception goes on to the caller.
Raise ==
  /\ pc \in {"end_cancelled", "end_failed"}
  /\ Unwind
  /\ UNCHANGED <<store, user, world, faults>>

\* The process dies; the checkpointer survives and the user's memory does.
Crash ==
  /\ faults < MaxFaults
  /\ faults' = faults + 1
  /\ RolledBack
  /\ Unwind
  /\ inbox' = <<>>
  /\ UNCHANGED <<asked, submitted, world>>

-----------------------------------------------------------------------------
Accept   == AcceptUnknown \/ AcceptPrompt
Respond  == RespondFinal \/ RespondWait \/ RespondCalls
ToolStep == StartTool \/ ToolReturns \/ RefuseTool \/ BlockTool \/ ToolSaved
SkipStep == SkipCall \/ SkipSaved \/ RepeatStop
TurnStep == StartTurn \/ Infer \/ TurnLimit \/ LimitSave \/ EndTurn \/ NextTurn

RunStep ==
  \/ CommitOk
  \/ ReportWait \/ Respond \/ Pause \/ ToolStep \/ SkipStep \/ TurnStep
  \/ Finish \/ Raise

Fault == CommitFails \/ CommitCancelled \/ Fail \/ Cancel \/ Crash

\* Everything but what opens a transaction and leaves it, and what ends it.
Quiet == Submit \/ Accept \/ RunStep \/ Fault

Next == Quiet \/ SaveBreaks \/ OthersSave

Spec == Init /\ [][Next]_vars

\* The event loop resumes a run that can go on and hands the lock to the next
\* in line.  Provider calls, tools and commits return; nobody has to submit,
\* cancel or fail.
FairSpec == Spec /\ WF_vars(RunStep) /\ WF_vars(Accept)

-----------------------------------------------------------------------------
(***************************************************************************)
(* Properties.                                                             *)
(***************************************************************************)

\* Every variable has its type: the states that commit_state writes and
\* _load_state reads, the locals of agent_loop, the observations.
TypeOK ==
  /\ disk \in State /\ conn \in State /\ mem \in State
  /\ dangling \in BOOLEAN /\ torn \in BOOLEAN /\ loaded \in BOOLEAN
  /\ pc \in {"idle", "commit", "infer", "tool", "executing", "skip", "limit_save"}
            \cup Continuations
  /\ cont \in Continuations
  /\ turn \in Nat /\ at \in Nat /\ idx \in Nat /\ repeats \in Nat
  /\ blocked \in BOOLEAN
  /\ lastSig \in Seq(Works)
  /\ inbox \in Seq(BOOLEAN) /\ asked \in BOOLEAN
  /\ submitted \in Nat /\ faults \in Nat /\ shown \in Nat
  /\ effects \in SUBSET (Nat \X Nat)

\* A tool is never started for a call the checkpointer does not hold: the
\* assistant message's barrier comes before any effect (loop.py).
IntentBeforeEffect ==
  \A e \in effects : e \in Occurrences(disk.log)

\* Before the next inference and before the next tool, the outcome of every
\* call ever started, in this process or in one that crashed, is durable: a
\* result, or the note that it is unknown.
Unanswered == { e \in effects : ~ Answered(disk.log, e[1], e[2]) }

ResultBeforeNextStep ==
  /\ pc \in {"turn_start", "infer", "tool", "skip"} => Unanswered = {}
  /\ pc = "executing" => Unanswered = {<<at, idx>>}

\* A call is not started a second time, by the run that started it or by a
\* later one.
NoReplay == (pc = "tool" /\ ~ blocked) => <<at, idx>> \notin effects

\* The durable transcript is one a provider accepts, after any sequence of
\* crashes, cancels and failed commits: every requested call has its result
\* before the next human or assistant message.
TranscriptAnswered == WellFormed(disk.log)

\* No event or result tells of a fact that a crash could still lose.
ShownIsDurable == shown <= Len(disk.log)

\* Unless a save that raised left its transaction open, what the next run
\* starts from, the agent's memory or else what the connection reads, is what
\* the file holds: a fact whose barrier failed is not committed by a later run.
IdleMemoryIsDurable == (pc = "idle" /\ ~ dangling) => Current = disk

\* The third identical batch in a row is never started.
ThirdBatchNotRun == \A e \in effects : ~ ThirdInARow(disk.log, e[1])

\* A thread that durably says it completed, waits for input or stopped
\* repeating owes no result; a row that is part of a save may say so too early.
SettledMeansAnswered ==
  (~ torn /\ disk.finish \in {"completed", "wait", "repeated_tool_calls"})
     => Open(disk.log) = {}

\* The durable state is a history of the thread protocol.
Protocol == INSTANCE ThreadProtocol
              WITH log <- disk.log, wait <- disk.wait, rev <- disk.rev,
                   broken <- dangling

ThreadProtocolSpec == Protocol!Spec

\* A run that holds the lock ends: a turn limit stops what the model does not,
\* and each turn gets through its barriers.
RunsEnd == (pc # "idle") ~> (pc = "idle")

\* A prompt that waits for the lock gets it.
PromptsTaken == (inbox # <<>>) ~> (inbox = <<>>)

\* The messages are replaced atomically (sqlite.py): the durable transcript is
\* never left with fewer than it had.
ReplacedAtomically ==
  [][ /\ Len(disk.log) <= Len(disk'.log)
      /\ \A i \in DOMAIN disk.log : disk'.log[i] = disk.log[i] ]_vars

\* A prompt taken as the answer to the unknown-effect question was written by
\* a user who had seen the question.
ConfirmationIsInformed ==
  [][(pc = "idle" /\ pc' = "commit" /\ Current.wait = "unknown_tool_effect")
        => Head(inbox)]_vars
=============================================================================
