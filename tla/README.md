# NanoDeer in TLA+

A formal model of [NanoDeer](../src/README.md), an agent runtime: a person's
prompt starts a run, the run alternates model calls and tool calls until it
finishes or waits, and every fact is made durable before the next one. The
modules here are translated from the Python sources under `src/src/nanodeer`
and, for the evaluation harness, `src/evaluation`;
`PROJECT.json` maps each definition to the lines it stands for.

- [The system](#the-system) – components, state, interaction, what is hard
- [The modules](#the-modules) – what models what
- [The runs](#the-runs) – what TLC checks, bounds, fairness
- [The proofs](#the-proofs) – what TLAPS proves, and from what
- [Where the code and its documentation differ](#where-the-code-and-its-documentation-differ)
- [What is not modelled](#what-is-not-modelled) and [the plan](#the-plan)

## The system

| component | sources | state it keeps | operations |
|---|---|---|---|
| agent loop | `agent/loop.py` | locals of one run: turn, batch, index, repeat counter, sandbox flag | infer, run a batch, pause, stop at a limit, finish, fail, cancel |
| commit barrier | `agent/checkpoint/commit.py` | – | save with a new revision, roll the revision back on failure |
| agent | `agent/agent.py` | `state` of one thread, execution lock, current task, set of run tasks | accept input, run, stream, cancel, set title, discard |
| engine | `engine.py` | registry of agents by thread id | get, forget, cancel, stream, generate a title |
| HTTP API | `cli/api.py` | – | chat, cancel, rename, archive, delete, read |
| checkpointer | `agent/checkpoint/sqlite.py` | one row and its messages per thread | save, load, update title or status, delete |
| sandbox | `sandbox/docker.py`, `runtime.py`, `__init__.py` | handle by thread id; the daemon's containers | acquire, run, release |
| subagents | `subagent/coordinator.py` | semaphore, `_pending`, `_active`, `_completed` | spawn, run, stop, collect |
| plans | `plan/`, `tools/create_plan.py`, `tools/plan_step.py` | a JSON file per plan, an index | create, add a step, update a step |
| task list | `tools/tasks.py` | one JSON file and a lock | add, update, complete, delete, list |
| memory | `agent/memory/storage.py`, `tools/save_memory.py` | `MEMORY.md`, `USER.md` | append, replace, read for the prompt |
| workspace | `workspace.py`, `tools/write_file.py`, `tools/edit_file.py`, `agent/context.py` | three directories per thread; the workspace bound in a context | bind, resolve, write, edit, save uploads |
| tool execution | `agent/tooling.py` | the call id in a context variable | refuse, block, call, turn an exception into a text, tell success from failure |
| provider boundary | `agent/provider.py`, retry functions of `agent/loop.py` | attempt counter | call, stream, retry, name the calls |
| trace | `agent/trace.py`, `engine.py` | the events of a run | emit, count metrics |
| evaluation harness | `evaluation/runner.py`, `judges.py` | results of a task's prompts | run a task, time out, combine, judge |

How they interact. `POST /api/chat` asks the engine for the thread's agent and
iterates over `run_streaming`. That starts a task which takes the agent's
execution lock, commits the prompt and enters `agent_loop`; the response only
subscribes to a queue the task fills, so a client that leaves does not end the
run. The loop calls the provider, then `execute_tool` call by call; the first
`bash` call leases a container, and the loop's `finally` gives it back. When a
stream ends, the engine may start a task that asks the model for a title and
writes it under the same lock. Rename, archive and delete write the row of the
checkpointer directly, beside the agent. Plans, tasks and memory are files that
all runs of a process share; a plain tool blocks the event loop while it works
on them, a subagent's tools work in executor threads beside it. The harness
drives the same engine, one prompt after another, and reads its events.

Everything runs on one event loop, so the interleavings are those of its
suspension points: the lock, a provider call, a tool, a call to the Docker
daemon in an executor thread. The SQLite checkpointer never suspends; other
implementations of the interface may. Commits can fail. The process can die
anywhere, and what survives is the checkpointer, the files and the containers.

The engine has one checkpointer with one connection, which all its agents share;
every request to a handler makes its own (`_make_checkpointer`, `cli/api.py:49`).
A save replaces the row, deletes the messages and inserts them again, then commits
(`sqlite.py:178-208`), and nothing rolls it back when it raises. After the first
write the connection then stays inside a transaction: loads read the aborted save,
the next save of any thread commits it, and the handlers' writes are refused with
"database is locked". Even a first write that fails leaves the transaction
begun: once a load has read in it, a handler's write outdates its snapshot, and
every save of the engine fails from then on.

What is hard, and which property is about it:

| behaviour | properties |
|---|---|
| a crash between a tool's effect and its durable result | `IntentBeforeEffect`, `ResultBeforeNextStep`, `NoReplay`, `TranscriptAnswered` |
| a barrier that fails, or is interrupted and may have written | `IdleMemoryIsDurable`, `ThreadProtocolSpec` |
| a save that breaks off inside its transaction | `ReplacedAtomically`, `MemoryCurrent`, `ThreadProtocolSpec` |
| events that announce what is not durable | `ShownIsDurable` |
| a batch cut short by a blocked call, a pause or the repeat guard | `SettledMeansAnswered`, `ThirdBatchNotRun` |
| runs, titles, cancels and deletions on one thread id | `OneRun`, `RunsReachable`, `MemoryCurrent`, `TitleSetOnce` |
| metadata written beside the agent | `ArchiveKept` |
| a lock that is not handed on, a run that does not end | `LockPassesOn`, `RunsReport`, `RunsEnd`, `PromptsTaken` |
| a container created, stopped or killed while the run is elsewhere | `ExecOnLive`, `NoStray`, `HandleFresh`, `LeaseEnds` |
| two tool calls on one file, a file operation that fails, a crash in it | `AnsweredWritesKept`, `TaskListSpec`, `PlanStatusFollows` |
| a subagent that outlives the run it was spawned in | `FilesStayHome` |
| a provider stream that breaks and is retried | `ShownIsAnswer` |
| calls blocked, skipped or refused, seen from the trace | `TraceContract` |
| an evaluation whose prompts hang, fail or wait | `VerdictsTrue`, `EvaluationEnds` |
| workers stopped, cancelled or failing while they queue or run | `SlotsConserved`, `NeverUnknown`, `ResultIsFinal`, `HandlesReturned`, `EveryoneFinishes` |

`PROJECT.json` lists every hazard at its line, those no property covers too.

## The modules

| module | models | extends |
|---|---|---|
| `Transcript` | messages of a thread; requested, resolved and unresolved calls | |
| `ThreadProtocol` | what a checkpointed thread promises (abstract) | `Transcript` |
| `AgentLoop` | one thread: input, turns, tools, barriers, faults | `Transcript` |
| `AgentLoopInv` | the inductive invariant of `AgentLoop` | `AgentLoop`, `TranscriptProof` |
| `TranscriptProof` | lemmas about transcripts | `Transcript` |
| `AgentLoopProof` | theorems about `AgentLoop` | `AgentLoopInv` |
| `ThreadOwner` | registry, agents, lock, streams, titles, row | |
| `SandboxLease` | container, handle, lease, run after run | |
| `SubagentCoordinator` | semaphore, workers and the coordinator's tables | |
| `ToolHost` | who calls a tool, and in which context | |
| `TaskStore`, `PlanStore`, `MemoryStore`, `WorkspaceFiles` | what the tools do to the files | `ToolHost` |
| `TaskList` | what the tasks tool promises (abstract) | |
| `Lists` | lemmas about lines of tasks, counting in joined lists, folds and `FlattenSeq` | |
| `ThreadOwnerProof` | theorems about `ThreadOwner` | `ThreadOwner`, `Lists` |
| `SandboxLeaseProof` | theorems about `SandboxLease` | `SandboxLease` |
| `SubagentCoordinatorProof` | theorems about `SubagentCoordinator` | `SubagentCoordinator`, `Lists` |
| `StoreProofs` | each store on its own, and what its callers are told | the stores |
| `RunTrace` | one run as the list of its events | |
| `Evaluation` | results, metrics, assertions, the harness | `RunTrace` |
| `AgentProcess` | one process: a run, its subagents, the stores, a server or the harness | `Evaluation`, the stores |
| `AgentProcessProof` | theorems about the process | `AgentProcess`, `StoreProofs`, `Lists` |
| `MC...` | the module each configuration instantiates | |

**Transcript.** A message is a record: a human prompt, an assistant message
with its calls, or results with the ids they answer. Of a call only the work
(name and arguments, what `_tool_calls_signature` compares) and the id matter.
`UnresolvedIds` is `_unresolved_tool_calls`, which looks at ids only. `Answered`
is the reference: a call at a *position* is answered by a result that follows
it in its own stretch of the conversation. The two agree when ids are unique.
When a run confirms several lost calls the code appends one message for each;
the model appends one entry with all the ids, because nothing can come between.

**AgentLoop.** `disk` is the thread's state in the database file, `conn` the same
as the engine's connection reads it, `mem` the agent's, `pc` the point where the
run is suspended or about to act. A barrier is two steps: `SaveThen` names where
the run goes on, `CommitOk`, `CommitFails`, `SaveBreaks` or `CommitCancelled`
decides. `CommitFails` is an error before the first write, or one on which SQLite
itself rolls back. `SaveBreaks` is an error after it: the row is replaced and a
prefix of the messages is there, for the connection only, and the transaction
stays open (`dangling`). The agent discards its state and loads again through the
same connection, so the next run starts from what was never committed. Three
things end it: this thread's next save; another thread's (`OthersSave`), which
makes part of a save durable (`torn`); or a rollback, by SQLite or by a crash.
When requests are replaced by part of a save, what was started for them is
forgotten (`Forget`): no later transcript names them, and `NoReplay` and
`IntentBeforeEffect` say nothing of them any more. That messages can be lost so is
what `ReplacedAtomically` denies and its run shows. Between two barriers one action does what the code
does there, including the announcement of the fact just saved (`shown`).
`effects` collects calls handed to a tool: from then on the effect may have
happened, whatever becomes of the process. `inbox` holds the prompts that wait
for the execution lock; each remembers whether its author had been asked about
a lost effect. Cancellation reaches a run where it is suspended: in the
context, at the provider, in a tool, in a commit.

| code | action |
|---|---|
| `run`, `_accept_input` | `Submit`, `AcceptUnknown`, `AcceptPrompt`, `ReportWait` |
| turn, provider, assistant barrier | `StartTurn`, `Infer`, `RespondFinal`, `RespondWait`, `RespondCalls`, `Pause` |
| tool batch, result barrier | `StartTool`, `ToolReturns`, `RefuseTool`, `BlockTool`, `ToolSaved` |
| repeat guard | `SkipCall`, `SkipSaved`, `RepeatStop` |
| turn limit | `TurnLimit`, `LimitSave` |
| end of turn and run | `EndTurn`, `NextTurn`, `Finish` |
| `except` branches, discard | `Fail` (at the tool too, where `bash_safe` raises outside the `try`), `Cancel`, `Raise` |
| `commit_state`, `_sync_save` | `CommitOk`, `CommitFails`, `SaveBreaks`, `CommitCancelled`, `OthersSave` |

**ThreadProtocol** is the abstract specification: a log, what the thread waits
for, a revision. Five actions: a prompt, an answer, one result, the question
about a lost call, a status. A save that breaks off suspends the protocol
(`Break`) until it is undone (`Undo`) or kept (`Keep`), and then the log is
another one, which a provider would still accept. `AgentLoop` implements it with
the mapping `log <- disk.log, wait <- disk.wait, rev <- disk.rev,
broken <- dangling`.

**ThreadOwner.** Above `AgentLoop`: here a run is one holder of the lock and a
commit is a new revision of the row. What the code does between two
suspensions is one action: a free lock is taken, the prompt committed and the
run suspended in the loop in one step. The lock is `asyncio.Lock`: waiters are
served in order, and a newcomer does not overtake them. `titling` follows
`_generate_and_save_title`; `told` is the end marker in a subscriber's queue.
`txn` is the transaction that failed saves, of this or another conversation, have
left open on the engine's connection: none, one that has only read, one whose
snapshot a handler has outdated (`Written`), or one that has written, which makes
handlers' writes raise. `broken` marks that a save of this thread broke off and
none has succeeded since; memory may then be what only the connection reads.
`MemoryCurrent` says that it is the row again after the next save, which a run
that holds the lock has behind it.

**SandboxLease.** One container name, one handle, many runs. A call to the
daemon happens in an executor thread, so cancelling its caller abandons the
answer and not the call (`late`). `cut` marks that an acquire or a release was
interrupted and may have left a container; the properties say what holds
without such an interruption, and `NoStray` also says when a later run makes up
for it. A container can be created and its start fail (`StartFails`, `halfMade`):
it keeps the name until the next `Look` removes it, with whatever else was left
behind. `OneRun` of `ThreadOwner` justifies that runs follow one another.

**SubagentCoordinator.** Each worker is a task with a place in the semaphore's
line; `pending`, `active` and `record` are the coordinator's tables, edited by
the task and by `stop()` independently. Two entry points: `spawn` (background)
and `run` (awaited, which leaves nothing in the tables if it is cancelled). A
spawned task is `new` until its first step; one that is cancelled before it never
enters the `try` of `_schedule` (`CancelNew`, as when the loop shuts down): it has
no result and stays in `_pending`. `ResultIsFinal` is about the others.

**ToolHost** and the stores. `job` is the tool call an actor (the run or a
subagent) is in: its operation, the point it has reached, what it has read and
its reply. Each store module moves a call from point to point, and a point is a
place where another thread may come in, a file operation may fail, or the
process may die.

| code | actions |
|---|---|
| `tasks` under `_LOCK` | `TaskRefused`, `TaskLoad`, `TaskLoadFails`, `TaskReplace`, `TaskSaveFails` |
| `create_plan`, `add_step`, `update_step` | `NewPlan`, `LoadPlan`, `PlanNotFound` |
| `PlanStore.save` | `OpenPlan`, `WritePlan`, `PlanFileFails`, `ReadIndex`, `IndexUnreadable`, `ReplaceIndex`, `ReplaceFails`, `IndexFileFails` |
| `save_memory` | `MergeFacts`, `MemoryUnreadable`, `OpenMemory`, `WriteMemory`, `MemoryFileFails` |
| `write_file`, `edit_file` | `FileResolved`, `FileUnreadable`, `FileRefused`, `FileWritten`, `FileFails` |
| `open`, `activate_workspace`, `reset_workspace`, `save_uploaded_files` | `BindWorkspace`, `UnbindWorkspace`, `UploadsSaved` |

The task file is replaced by a rename under a lock, so a call is two steps and
the file is one atomic list: `TaskStore` implements `TaskList` with the mapping
`list <- tasks`. Plans and memory are written over in place, without a lock. A
file just opened for writing is empty; what two writers leave may be either
text, or the shorter one with the rest of the longer, which is the `garbled`
file of `WritePlan`. So `AnsweredWritesKept` has two halves. The task list keeps
what a caller was told under every interleaving and failure (`TasksKept`). Plans
and memory keep it while no two calls overlap, none is cut short and no file
operation fails (`PlansKept`, `MemoryKept`), and `disturbed` remembers where that
happened. That a plan becomes unreadable or drops out of the index, or that an
append wipes memory, the model does as the code does, and no property calls it
wrong: neither code nor docs promise more. A call that finds its id in the task
file answers `already` and changes nothing, a subagent's second add under the id
it inherited too, and no property objects. Whatever happened,
`PlanStatusFollows` holds of a plan that can be read. A reply is `done`,
`already`, `refused`, `raised`, or `masked`: an error text that `tool_success`
takes for a success, as "Error managing tasks: ..." is.

A path stands for its canonical spelling and is reduced to its mount:
`_match_mount` compares the text of a path with the mounts
(`workspace.py:157-179`), and what `bash` does inside the container is not
modelled. `FilesStayHome` is a statement about `write_file` and `edit_file`
within that reading.

**RunTrace.** The other view of `agent_loop`: commits are single events here,
and the list of events is the state, with all that `AgentLoop` leaves out: the
stream and its retries, the sandbox and its release, every outcome of a call.
`did` counts what happened, beside the events, so that `VerdictsTrue` can
compare. Arguments are not modelled: a batch with the names of the one before
may or may not have its signature.

**Evaluation.** `Metrics` and `RunResult` are the engine's, `CombineResults`,
`Holds` and `TaskResult` the runner's and the judges'. `run_task` asks
`RuntimeFeatures` for a field it does not have
([below](#where-the-code-and-its-documentation-differ)); `fits` is FALSE in this
version, and then an evaluation does nothing (`FeaturesRefused`). The rest of
the module is what the harness does with an engine that has the field, which is
the engine it was written for: nothing else of it depends on the field. So
`VerdictsTrue` says nothing of this commit's evaluations, which have no verdict.
In it, `next_action_is` and `trace_has` compare what the judge looks at with
itself; the other assertions are held against `did` and the events.

**AgentProcess** composes them: the run calls tools of the stores, subagents
inherit its workspace and its call id, a prompt ends by its run, a timeout or a
failure, and a crash takes the process but not the files. `asyncio.wait_for`
cancels a run once and then waits for its release (`Expired`, `TimesOut`).

## The runs

| run | kind | what it shows |
|---|---|---|
| `agent_recovery` | pass | barriers, recovery, protocol: 3 prompts, 2 faults (a save that breaks off among them), batches of 2 |
| `agent_progress` | pass | repeat guard over 3 turns; runs end, prompts are taken; the inductive invariant of the proofs |
| `thread_owner` | pass | 2 streams with titles against cancel, rename, archive, delete, failure, a transaction left open |
| `sandbox_lease` | pass | 3 runs, 2 calls each, 2 cancels, 2 faults on one container name |
| `subagents` | pass | 3 workers, 1 slot, stops, 1 cancel |
| `agent_process` | pass | 2 prompts served or 2 tasks of up to 2 prompts evaluated, 1 subagent with 2 calls, 1 fault |
| `agent_fallback_ids`, `agent_queued_prompt`, `agent_torn_save`, `thread_owner_sole`, `thread_owner_cancel`, `sandbox_leak` | violation | see [below](#where-the-code-and-its-documentation-differ) |

*Why the bounds are enough.* Losing a call takes one fault; asking about it a
second prompt; answering it a third; the second fault can hit any of these
steps, the recovery included. Batches of two calls have a first, a next and a
last call. `agent_recovery` runs single turns with a repeat limit of two,
because its questions are about barriers; `agent_progress` has the code's
repeat limit of three and three turns, so the guard and the turn limit meet in
the same run. `Works` has the wait tool and one other: the repeat guard only
asks whether two signatures are equal, and a batch of one and a batch of two
differ. In `thread_owner` two streams give a holder and a waiter, two titles and
two owners after a deletion; without the liveness properties three streams were
checked too. In `sandbox_lease` two runs are enough for one to inherit from the
other, the third sees what a recovery left. Two workers compete for the one
slot of `subagents`, the third waits behind a worker that is cancelled or
stopped. In `agent_process` an agent has the tools of one of five scenes, `bash`
and `wait` or one store and `spawn`: the stores share no state with each other,
so what matters is two actors on one of them. With a store the provider neither
streams nor fails, which the scene without one has; the server has one run at a
time, and each prompt or task a thread of its own, so a subagent of the first
run works while the second is bound to another workspace. Two calls in a process
or task are enough for a first and a repeated batch and for a call in each of
two runs. Plans have none or two steps, so that the last step and the one before
differ. The provider sends no call ids: the fallback repeats in the second run,
the worse case for a tool that relies on it. One fault can hit any file
operation, be a cancel or a crash. The harness never has a coordinator, so it
has no subagents. `MCAssertions` has each kind of assertion that is modelled but
`tool_sequence`: the engine reports the calls of the whole thread with every
run, so a task of two prompts counts those of the first twice and a sequence may
be found that was never called. The reports of the kinds that only ask for
presence are not affected. Runs set `CHECK_DEADLOCK FALSE` because all these systems may stop:
when clients have asked for what the bound allows nothing has to happen.

*Fairness.* `AgentLoop`: weak fairness of the run's own steps (the event loop
resumes a task whose await has returned; provider, tools and commits return)
and of accepting the next prompt (the lock is fair). `ThreadOwner`: weak
fairness of each stream's task, of delivering what its queue holds and of its
title. `SandboxLease`: of the run, of the daemon stopping what it was told to
stop, of a late create. `SubagentCoordinator`: of each worker's task. `AgentProcess`: of what the event
loop can go on with, of a plain tool's file operations (they return or raise),
of a sandbox release, and of the harness's timeout. A provider, a container or a
command may hang, and `EvaluationEnds` holds all the same: the evaluation ends,
with every task judged or with the exception of this commit's runner. That a
release returns or raises is an assumption: the harness does not bound it, only
the Docker client's own timeout does. No
fairness is assumed of clients, cancels or faults. That a hanging provider
keeps its run is a real limit of the code (nothing sets a timeout on a worker,
for one) and stays outside these properties.

Every property of a passing run has a mutant in `PROJECT.json`: a plausible bug
in one mapped definition with which TLC finds that property violated. The
mutated forms stand before the definitions they replace.

## The proofs

Every safety property of a passing run, and every refinement, is a theorem for
every value of the constants, within the assumptions listed with it. Each proof rests on an inductive invariant
that TLC checked on the run's instance before it was proved.

### One thread: `AgentLoopProof`

For every set of works, batch size, turn and repeat limit and every number of
prompts and faults:

| theorem | property |
|---|---|
| `Inductive` | `LoopInv` |
| `TypeCorrect` | `TypeOK` |
| `IntentDurable` | `IntentBeforeEffect` |
| `OutcomeDurable` | `ResultBeforeNextStep` |
| `NeverReplayed` | `NoReplay` |
| `TranscriptAccepted` | `TranscriptAnswered` |
| `OnlyDurableShown` | `ShownIsDurable` |
| `MemoryIsDurable` | `IdleMemoryIsDurable` |
| `SettledOwesNothing` | `SettledMeansAnswered` |
| `ThirdNeverStarted` | `ThirdBatchNotRun`, for `RepeatLimit <= 3` |
| `ImplementsProtocol` | `ThreadProtocolSpec` |

*Assumptions.* `LoopAssumption` (the types of the constants) and `UniqueIds`:
the provider gives every call an id of its own. Without it the theorems are
false, and `agent_fallback_ids` is the counterexample: the code recovers by
ids, so a repeated id makes it forget a call. `ThirdNeverStarted` also assumes
that the limit is at most three, the one `agent_loop` has; with a higher limit
the third batch would be run.

*The argument.* None of the properties is inductive. `NoReplay`, for one, speaks
of the call the run is about to start; that this call was not started before
follows from its being unresolved in the durable transcript while every other
started call is resolved there, which depends on what the commit in flight will
write. `IInv` says it all: the durable transcript is `Good` (well formed, ids
unique); every started call is in it; `AtRest` says for each point of a run how
far the batch is answered and which started calls have no durable result yet
(none, except the one that is executing); `Saving` says for each commit in
flight what memory has that the store has not. Unanswered calls can only exist
in the last batch, `Pending(log, i, k)`: calls from `k` on of the batch at `i`.
`TranscriptProof` has what appending a message does to these notions, and that
`UnresolvedIds`, which is what the code computes, is the set of calls that are
really open. Steps are grouped as in `Next`; types are proved first, so that
the steps of `IInv` can use them in both states.

`LoopInv` adds the transaction. While none is open, `IInv` holds and the
connection reads what the file has. While one is (`OpenInv`), the run is between
runs or is saving its input, and of what the connection reads enough is known to
come back to `IInv` with the next save: a prefix of a good transcript is good,
its revision is above the file's, and what memory is about to save is an input on
top of it. Nothing is started or announced until then, which is why the
properties about effects and announcements need no exception; two properties of
the row have one, `~ dangling` in `IdleMemoryIsDurable` and `~ torn` in
`SettledMeansAnswered`.

The refinement follows from `LoopInv` by cases on what a step does to the store:
nothing, one commit, which `Saving` says is one of the protocol's actions, or the
opening or the end of a broken save's transaction.

Two properties have an invariant of their own beside `IInv`. `EndingInv` says
for each stage which finish status the thread may have: a run that goes on has
not ended, except after a blocked command, whose batch is still being answered;
so a status that owes nothing is only written where `IInv` has no pending call.
`RepeatInv` says that the run's locals still know the last batch, as long as
nothing but results followed it, and whether that batch was itself a repetition;
a batch that is being run is not the third in a row. Logs only grow, so what was
said of a batch stays true.

### The thread's owner: `ThreadOwnerProof`

For any number of streams, agents, renames, archive flips, deletions and faults
(`OwnerAssumption`: they are numbers, and `Nobody` is no stream):

| theorem | property |
|---|---|
| `OwnerInductive` | `OwnerInv` |
| `OwnerTyped` | `TypeOK` |
| `UnfinishedReachable` | `RunsReachable` |
| `AtMostOneRun` | `OneRun` |
| `MemoryFollowsRow` | `MemoryCurrent` |
| `ArchiveFlagKept` | `ArchiveKept` |
| `FirstTitleStays` | `TitleSetOnce` |

`OneRun` needs two things: an agent's lock has one holder, and the runs of a
thread share an agent. `HolderOk` is the first: a run is running exactly while it
holds the lock of its agent, and the line (`LineOk`) has the waiting runs and
titles, each once, so the lock is handed to a run that has not got it already.
The second is `RunsReachable`: the agent of an unfinished run is the registered
one, so the engine makes no other. `RegistryOk` adds that the engine knows the last
agent or none, and that before the first deletion there is at most one; the
properties about the row are about that one, and `MemoryOk` ties its loaded state
to the row, or to the connection while the thread's
last save is a broken one. The two action properties follow from `OwnerInv` step by step.
`Lists` has the lemmas about lines that this proof shares with that of the
subagents.

### The sandbox: `SandboxLeaseProof`

For any number of runs, `bash` calls, cancels and faults (`LeaseAssumption`):

| theorem | property |
|---|---|
| `LeaseInductive` | `LeaseInv` |
| `LeaseTyped` | `TypeOK` |
| `HandlesForgotten` | `HandleFresh` |
| `BashOnLive` | `ExecOnLive` |
| `NothingLeftBehind` | `NoStray` |

`HandleOk` relates the run's lease and the context at each point of the run.
`ContainerOk` speaks of histories in which nothing was cut short: there is no
container without a lease, and with one it is the leased one, alive until the
run stops it. `HalfOk`: a container that was never started is not the leased one.
`BudgetOk` is for the numbering alone: a `bash` call creates at
most one container, those of abandoned calls included, so `Ids` suffices.

### Subagents: `SubagentCoordinatorProof`

For any finite set of workers, any number of slots, iterations and cancels
(`CoordinatorAssumption`):

| theorem | property |
|---|---|
| `CoordinatorInductive` | `CoordinatorInv` |
| `CoordinatorTyped` | `TypeOK` |
| `SlotsAlwaysConserved` | `SlotsConserved` |
| `SpawnedIsKnown` | `NeverUnknown` |
| `HandlesAlwaysReturned` | `HandlesReturned` |
| `ResultsAreFinal` | `ResultIsFinal` |

The invariant adds to the properties that the semaphore's line has the queued
workers, each once (`LineOk`); that a worker in `_active` has a slot, whatever
`stop()` did to the tables (`ActiveOk`); and that a worker that is giving its
sandbox back has a final status or was cancelled (`StatusOk`). Counting slots is
cardinality: the workers that hold one and the value of the semaphore make
`MaxConcurrent`.

### The stores: `StoreProofs`

Three stores have a specification of their own, in which anyone calls them with
any operation at any time: any number of actors, call ids and threads, every
overlap, failed operation and crash.

| theorem | property | from |
|---|---|---|
| `PlanSpecStatusFollows` | `PlanSpec => []PlanStatusFollows` | `PlanAssumption` |
| `TaskSpecImplementsList` | `TaskSpec => TaskListSpec` | `HostAssumption`, `TaskAssumption` |
| `FilesSpecStayHome` | `FilesSpec => []FilesStayHome` | `HostAssumption` |
| `TaskSpecKeeps` | `TaskSpec => []TasksKept` | `HostAssumption`, `TaskAssumption` |
| `PlanSpecKeeps` | `PlanSpec => []PlansKept` | `PlanAssumption` |

*Plans.* The property is not inductive: a file may be about to be written from a
call's memory. `PlanInv` says the same of every document a call holds between
its load and its write (`JobOk`), and that a file which can be read was written
by a call (`DocOk`). The lemmas `CreatedSound`, `StepAddedSound` and
`StepUpdatedSound` are the status rule of `plan_step.py`. They are where the
rule's order matters: a failed step wins over the rest, and pending work revives
a completed plan but never a failed one.

*Task list.* `SaveOk` says that a list about to be saved is the file with one
request applied to it, and that its caller has the lock. The file does not change
in between because of the lock, and the request is one of the abstract list
because ids are never given out twice and an add looks for its call id first.
The refinement maps `os.replace` to the request and every other step, a crash
included, to a stutter.

*Workspaces.* `Bound` says that the workspace bound in an actor's context is the
one of the thread it works for, `CallOk` that a call about to write has resolved
its path there and under a mount that is writable. A run is unbound only between
its calls, which is what blocking the event loop amounts to; a subagent keeps
its copy of the context.

*What callers are told* (`ToldInv`, for the last two theorems and for
`AnswersKept` below).
`SaveMeans`: what a task call is about to save contains what its caller will be
told, and nothing is lost with it; the lock does the rest. Of plans and memory
something is said only while the store is undisturbed; then one actor at most
calls it (`Alone`). Every plan that was told of is indexed with its status, but
for the one being saved, and the index a call is about to save has all of them
and its own. Every fact that was told of is in its file, but for the file being
written, and a call that appends has read all of them.

### The process: `AgentProcessProof`

| theorem | property |
|---|---|
| `ProcessInductive` | `ProcessInv` |
| `TracesKeepContract` | `TraceContract` |
| `ShownAnswers` | `ShownIsAnswer` |
| `PlansFollowInProcess` | `PlanStatusFollows` |
| `FilesStayInProcess` | `FilesStayHome` |
| `ProcessImplementsList` | `TaskListSpec` |
| `AnswersKept` | `AnsweredWritesKept` |
| `VerdictsAreTrue` | `VerdictsTrue`, with no assertion of the type `tool_sequence` |
| `MissedSequencesAreTrue` | `SequencesMissed`: of that type, what fails is false |
| `ResultsAreTrue` | `ResultsInv` |
| `OrderIsFound` | the judge's `InOrder` is the order it looks for, of any two lists |

The process takes the actions of the stores in the order the loop gives them,
shares them with subagents, and starts over after a crash, or with the next task
of the harness. The theorems hold for any number of subagents, threads, prompts,
turns, calls, retries and faults, and any sets of tools an agent may have. The
assumptions are those of the modules (`HostAssumption`, `TaskAssumption`,
`PlanAssumption`, `TraceAssumption`, `EvaluationAssumption`) and
`ProcessAssumption`: tools are ones the model knows, the fallback's call ids are
call ids, there is a thread for each prompt and task, and an assertion is of a
type that is modelled. Call ids need not be unique.

`ProcessInv` has four parts. `RunInv` is about the run and its events: no event
is ahead of its turn (`Timely`), a turn asks once and is answered once before
anything else happens in it (`Questions`), the tokens of the turn that asks are
those of the attempt under way (`Tokens`), every call but the one being made has
its result (`Calls`), and a sandbox is released before the run is over (`Boxes`).
`TraceContract` only speaks of runs that are over; the invariant says what leads
there at every point. `ActorsInv` and `SceneInv` are what the composition adds: a run
waits for the tool it called, a run under way is bound to a thread, a subagent
has the id it was spawned under. `StoresInv` is the stores' own invariant; the
lemmas of `StoreProofs` are about actions, so they serve both specifications.

`AnswersKept` needs more (`KeptInv`): `ToldInv`, that an agent calls the tools it
has (`BatchOk`), and that the harness is alone (`HarnessAlone`). A task of an
evaluation gets new stores, and overlaps of earlier tasks are forgotten with
them; that is sound only because the harness has no subagent that could still be
calling.

*Verdicts.* `VerdictsTrue` compares what the harness adds up from events with
`did`, which counts as things happen. The argument has three steps.

- *Within a run* (`TallyInv`): as long as a run has not raised, its metrics are
  `did`, but for the calls of the batch under way that have no event yet
  (`Owed`); only a run that ended has an `end` event; only what was asked is
  answered. A run that raises stands aside: its result is never built.
- *From run to run* (`ResultsInv`): the metrics of a task are the sum of its
  results' (`CombineMetrics`), the joined events are `Closed`, there is an `end`
  among them exactly if a run ended, and the joined calls have the names that
  were requested. Turn numbers and call indexes start over with every run, so
  the joined list has the same key many times; `ClosedJoined` says why the
  contract, which compares numbers and sets of keys, survives that.
- *The judges* (`HoldsIsTruth`): each kind of assertion against what it is meant
  to say. For an order of events this is `OrderIsFound`: the cursor that moves
  over the events is at the end of the expected names exactly if they can be
  found at increasing places.

Folds and `FlattenSeq` are recursive, so this takes induction over data. The
library's induction theorems have an operator as a parameter, which no installed
prover can instantiate; `Lists` states induction of a *set* of numbers instead
(`NatInduct`, from the theorems on well-founded relations), and each use gives it
the set of numbers of which the statement holds.

`tool_sequence` is left out of `VerdictsTrue`, in the theorem and in the run: the
engine lists the calls of the whole thread with every result, so a task of two
prompts has the calls of the first twice, and a sequence may be found that was
never called. What holds is one direction, `MissedSequencesAreTrue`: an
assertion that fails is false.

### What is only model-checked

Liveness under fairness is out of the prover's reach: `RunsEnd`, `PromptsTaken`,
`RunsReport`, `LockPassesOn`, `LeaseEnds`, `EveryoneFinishes`, `EvaluationEnds`.
The six runs that expect a violation
are counterexamples, which one instance is enough for.

## Where the code and its documentation differ

- **Fallback ids** (`AgentFallbackIds.cfg`). `call_{turn}_{index}` starts over
  with every run (`provider.py:86`), so recovery by id takes a lost call of a
  later run for an answered one.
- **Queued prompt** (`AgentQueuedPrompt.cfg`). A prompt that was queued before
  the question about a lost effect was shown is taken as its answer.
- **Sole owner** (`ThreadOwnerSole.cfg`). A title task outlives the deletion of
  its conversation and writes it back through a forgotten agent.
- **Cancelled in the queue** (`ThreadOwnerCancel.cfg`). A request cancelled
  before it has the lock never ends for its client (`agent.py:195`).
- **Cancelled in acquire** (`SandboxLeak.cfg`). The container that was being
  created stays.
- **Torn save** (`AgentTornSave.cfg`). `sqlite.py:197` says "Replace all messages
  atomically", and `commit.py:11` that after a failed barrier "in-memory mutations
  must not be recommitted". A save that raises after its first write leaves its
  transaction open on the engine's connection; the next save of any thread commits
  it, with the messages it had deleted and not inserted again missing.
- **Sandbox after WAIT** (`SandboxLease.cfg`, where `HandleFresh` holds).
  `runtime.py:45` says that the handle "survives WAIT across turns", and
  `docs/runtime_architecture.md:458` that the next turn may so reuse the sandbox.
  The `finally` of `agent_loop` releases it and clears the handle on WAIT as on any
  other end, as `docs/harness_architecture.md:276-277` says; no run ever finds the
  handle of the one before it.

Seen while reading, without a run of their own:

- **Turn limit.** The commit at the limit is handed the execution resources, not
  the state (`loop.py:1078`). It raises, and a run that should end as `turn_limit`
  (`docs/loop_design.md:211-215`) ends as `error`: `LimitSave`.
- **The harness does not start.** `run_task` gives `RuntimeFeatures` a
  `compression` (`evaluation/runner.py:172`) that the class does not have
  (`engine.py:31-36`). The `TypeError` comes before the `try`, so an evaluation
  ends without a result or a report. `evaluation/tasks/README.md:61` says to run
  it; `README.md:300` calls it archived.
- **Isolation.** `configure_isolated_runtime` says it "cannot pollute user
  state" (`runner.py:134`), but `NANODEER_TASKS_PATH` is not among what it
  redirects: `TaskStarts` keeps the task list.
- **Calls counted again.** `RunResult.tool_calls` holds the calls of the whole
  thread (`engine.py:330-340`), and `_combine_results` concatenates them.
- **A subagent's second task.** A worker inherits the call id of the `spawn`
  call, so its second `add` is "already added" and dropped (`tasks.py:122`).
- **Errors that pass for success.** "Error managing tasks: ...", "Error writing
  ..." and an index that cannot be saved (`plan/storage.py:55`) are reported as
  done; a memory whose text has " not found" in front is reported as failed.
- **Memory lost by appending.** `load_memory` returns "" for a file it cannot
  read (`memory/storage.py:61`), and the append writes that over the file.

## What is not modelled

Texts and their assembly: prompts, context, skills, profiles, tool arguments and
results, payloads and redaction of events, the chunks of a streamed argument.
Configuration, the command line, the web demo, and the tools for web, git and
office files: read once, clients of what is modelled, or single operations
outside the process. The local sandbox is an opt-in replacement without shared
state. Of the sandbox, the copying of outputs and the stale cleanup (which
raises and is swallowed, `docker.py:86`) are left out. The wiki and the memory
layers are not reached from any code of the program: `workspace_summary`
(`cli/api.py:219-226`) calls methods of theirs that `MemoryStore` does not have.
Paths stand for their mount: traversal and symlink checks are string and
file-system work. Assertions on output text and on files, the selection of tasks
and the reports of the harness are left out. Two processes on one home
directory are not modelled either: `_LOCK` is no help there, and a task can be
lost. `AgentLoop` and `RunTrace` are two views of one loop and are not composed:
a property that relates commits to events is `ShownIsDurable`. A run through
`NanoAgent.run` is in these two; `ThreadOwner` has streams only, which is what
the HTTP API uses.

## The plan

Done: the thread (`Transcript`, `ThreadProtocol`, `AgentLoop`), its owner, the
sandbox, the subagents; the process with its stores, traces and harness; the
proofs about all of them. Left, in this order:

1. An abstract lock-and-row specification that `ThreadOwner` implements, and the
   proof that it does.
2. What callers of plans and memory are told when calls overlap or fail.
