---------------------------- MODULE AgentProcess ----------------------------
(***************************************************************************)
(* One NanoDeer process: a run, the subagents it spawned, the stores their *)
(* tools share, and either a server that takes prompts for its threads or  *)
(* the evaluation harness.                                                 *)
(***************************************************************************)
EXTENDS TaskStore, PlanStore, MemoryStore, WorkspaceFiles, Evaluation

CONSTANTS ToolSets,   \* the tools an agent may be built with
          Statuses,   \* bound: what a step's status is set to
          MaxServed,  \* bound: prompts the server takes
          MaxWork     \* bound: calls of a subagent

StoreTools == {"tasks", "plans", "memory", "files"}

ASSUME ProcessAssumption ==
  /\ UNION ToolSets \subseteq StoreTools \cup {"bash", "wait", "spawn"}
  /\ IsFiniteSet(Threads)
  /\ MaxServed \in 0..Cardinality(Threads) /\ NumTasks \in 0..Cardinality(Threads)
  /\ MaxWork \in Nat
  /\ (1..MaxTurns) \X (1..MaxCalls) \subseteq CallIds

VARIABLES
  harness,  \* the process evaluates; else it serves
  tools,    \* the agent's tools
  uploads,  \* the prompt came with files
  served, work

stores == <<taskStore, planStore, memoryStore, tree>>
scene  == <<harness, tools, uploads, served, work>>
vars   == <<host, stores, run, harnessVars, scene>>

OpsOf(tool) ==
  CASE tool = "tasks"  -> { op \in TaskOps : op.id <= nextTask }
    [] tool = "plans"  -> { op \in PlanOps :
                              /\ op.kind = "update" => op.status \in Statuses
                              /\ op.kind = "add" => Len(doc[op.plan].steps) < MaxSteps
                              /\ op.kind = "create" => nextPlan \in Plans /\ op.step \in {0, MaxSteps} }
    [] tool = "memory" -> MemoryOps
    [] tool = "files"  -> FileOps

\* Bound: the provider of an agent with a store does not fail, and only an agent
\* without one is streamed.
StoreScene == tools \cap StoreTools # {}

\* Bound: a task, and a prompt to the server, has a thread of its own.
ThreadOf == CHOOSE f \in [1..Cardinality(Threads) -> Threads] :
              \A i, j \in DOMAIN f : i # j => f[i] # f[j]

Init ==
  /\ HostInit /\ TaskInit /\ PlanInit /\ MemoryInit /\ FilesInit
  /\ RunInit /\ EvaluationInit
  /\ harness \in BOOLEAN
  /\ tools \in ToolSets
  /\ harness => "spawn" \notin tools
  /\ ~ harness => fits
  /\ stream = (~ harness /\ ~ StoreScene)
  /\ uploads = FALSE /\ served = 0
  /\ work = [w \in Workers |-> 0]

-----------------------------------------------------------------------------
(***************************************************************************)
(* The run.                                                                *)
(***************************************************************************)

\* The workspace is unbound when the run is left.
Unbind == IF pc' = "over" THEN UnbindWorkspace ELSE UNCHANGED <<ctx, owner>>

HostQuiet == UNCHANGED <<job, callId, answered, disturbed>>

Serve ==
  /\ ~ harness /\ served < MaxServed
  /\ StartRun
  /\ BindWorkspace(ThreadOf[served + 1])
  /\ served' = served + 1
  /\ uploads' \in IF "files" \in tools THEN BOOLEAN ELSE {FALSE}
  /\ HostQuiet
  /\ UNCHANGED <<stores, harnessVars, faults, harness, tools, work>>

Prepare ==
  /\ ContextLoaded
  /\ tree' = UploadsSaved(ctx[Main], uploads)
  /\ HostQuiet
  /\ UNCHANGED <<taskStore, planStore, memoryStore, harnessVars, scene, ctx, owner, faults>>

Think ==
  /\ \E b \in BoundedSeq(tools, MaxCalls) :
       /\ Answer(b)
       /\ requested' = IF harness THEN requested \o b ELSE requested
  /\ HostQuiet
  /\ UNCHANGED <<stores, scene, ctx, owner, faults, fits, stage, taskNo, prompts, results, raised,
                 total, used>>

\* Bound: no more subagents than Workers; the next one is refused.
NoneToSpawn == blocked \/ batch[k] # "spawn" \/ \A w \in Workers : ctx[w] # None

\* Steps of the run that touch neither a store nor the harness.
RunStep ==
  /\ \/ BeginTurn \/ Chunk \/ RetryDelayOver
     \/ Pause \/ RepeatStop \/ (CallRefused /\ NoneToSpawn) \/ CallBlocked \/ CallRaises
     \/ CallBash \/ Acquired
     \/ \E ok \in BOOLEAN : BashReturns(ok)
     \/ TurnLimit \/ NextTurn \/ Finish \/ Release
  /\ Unbind
  /\ HostQuiet
  /\ UNCHANGED <<stores, harnessVars, scene, faults>>

RunGoesWrong ==
  /\ \/ (Retry \/ GiveUp) /\ ~ StoreScene /\ UNCHANGED faults
     \/ (ContextFails \/ ReleaseFails) /\ FileFault
  /\ Unbind
  /\ HostQuiet
  /\ UNCHANGED <<stores, harnessVars, scene>>

\* The user cancels.
UserCancels ==
  /\ ~ harness /\ FileFault
  /\ Cancel
  /\ Unbind
  /\ HostQuiet
  /\ UNCHANGED <<stores, harnessVars, scene>>

\* A provider without call ids: they start over in every run.
Id == <<turn, k>>

UseTool ==
  /\ CallTool
  /\ \E op \in OpsOf(batch[k]) : Begin(Main, op)
  /\ callId' = [callId EXCEPT ![Main] = Id]
  /\ UNCHANGED <<stores, harnessVars, scene, ctx, owner, answered, faults>>

ToolDone ==
  /\ job[Main].at = "replied"
  /\ ToolReturns(ToolSuccess(job[Main].reply))
  /\ job' = [job EXCEPT ![Main] = Idle]
  /\ callId' = [callId EXCEPT ![Main] = None]
  /\ UNCHANGED <<stores, harnessVars, scene, ctx, owner, answered, disturbed, faults>>

Spawn(w) ==
  /\ CallSpawn
  /\ ctx[w] = None
  /\ Spawned(w, Id)
  /\ UNCHANGED <<stores, harnessVars, scene, job, answered, disturbed, faults>>

\* The server is done with the run.
Delivered ==
  /\ ~ harness
  /\ RunTaken
  /\ UNCHANGED <<host, stores, harnessVars, scene>>

-----------------------------------------------------------------------------
(***************************************************************************)
(* Subagents: their tools work in executor threads, their own steps need   *)
(* the event loop.                                                         *)
(***************************************************************************)

LoopFree == pc # "job"

WorkerCalls(w) ==
  /\ LoopFree /\ ctx[w] # None /\ work[w] < MaxWork
  /\ \E tool \in tools \cap StoreTools : \E op \in OpsOf(tool) : Begin(w, op)
  /\ work' = [work EXCEPT ![w] = @ + 1]
  /\ UNCHANGED <<ctx, callId, owner, answered, faults, stores, run, harnessVars, harness, tools,
                 uploads, served>>

WorkerTold(w) ==
  /\ LoopFree /\ job[w].at = "replied"
  /\ job' = [job EXCEPT ![w] = Idle]
  /\ UNCHANGED <<ctx, callId, owner, answered, disturbed, faults, stores, run, harnessVars, scene>>

StoreStep(a) ==
  /\ \/ TaskStep(a)   /\ UNCHANGED <<planStore, memoryStore, tree>>
     \/ PlanStep(a)   /\ UNCHANGED <<taskStore, memoryStore, tree>>
     \/ MemoryStep(a) /\ UNCHANGED <<taskStore, planStore, tree>>
     \/ FileStep(a)   /\ UNCHANGED <<taskStore, planStore, memoryStore>>
  /\ UNCHANGED <<run, harnessVars, scene>>

Crash ==
  /\ ~ harness
  /\ HostCrash /\ TaskCrash /\ RunCrash
  /\ UNCHANGED <<planStore, memoryStore, tree, harnessVars, scene>>

-----------------------------------------------------------------------------
(***************************************************************************)
(* The harness.                                                            *)
(***************************************************************************)

\* configure_isolated_runtime gives a task its own plans and memory, and a
\* thread of its own; the task list stays the user's.
TaskStarts ==
  /\ harness
  /\ StartTask
  /\ UNCHANGED <<pc, stream, outcome, turn, attempt, chunks, batch, k, boxed, blocked, finishing,
                 lastBatch, repeats, events, did>>
  /\ doc' = [p \in Plans |-> Unreadable("none")] /\ planIndex' = {} /\ nextPlan' = 1
  /\ memory' = [f \in {"MEMORY", "USER"} |-> {}]
  /\ answered' = { w \in answered : w.op.store = "tasks" }
  /\ disturbed' = disturbed \cap {"tasks"}
  /\ UNCHANGED <<taskStore, nextFact, tree, scene, job, ctx, callId, owner, faults>>

TaskPrompt ==
  /\ harness /\ Prompted
  /\ StartRun
  /\ BindWorkspace(ThreadOf[taskNo])
  /\ HostQuiet
  /\ UNCHANGED <<stores, harnessVars, scene, faults>>

HarnessStep ==
  /\ harness
  /\ CollectResult \/ RunFailed \/ ((Judge \/ FeaturesRefused) /\ UNCHANGED run)
  /\ UNCHANGED <<host, stores, scene>>

\* asyncio.wait_for has fired: it waits for the release it interrupted.
Expired == pc = "releasing" /\ Last(events).event = "cancelled"

\* Mutant: no timeout.
NeverTimesOut == harness /\ Cancel /\ ~ Expired /\ pc # "calling"

\* asyncio.wait_for cancels the run of a prompt, once.
TimesOut == harness /\ Cancel /\ ~ Expired

Timeout ==
  /\ TimesOut
  /\ Unbind
  /\ HostQuiet
  /\ UNCHANGED <<stores, harnessVars, scene, faults>>

-----------------------------------------------------------------------------
Progress == Prepare \/ UseTool \/ ToolDone \/ TaskStarts \/ TaskPrompt \/ HarnessStep \/ Delivered

Next ==
  \/ Serve \/ Progress \/ Think \/ RunStep \/ RunGoesWrong \/ UserCancels \/ Timeout \/ Crash
  \/ \E w \in Workers : Spawn(w) \/ WorkerCalls(w) \/ WorkerTold(w)
  \/ \E a \in Actors : StoreStep(a)

Spec == Init /\ [][Next]_vars

\* The event loop runs what can go on, a plain tool returns, the timeout of the
\* harness fires, and a release returns or raises: nothing in the harness bounds
\* it, the Docker client's own timeout does.  Providers, and sandboxes at their
\* other calls, may never answer.
Loop == Progress \/ (RunStep /\ pc \notin {"calling", "acquiring", "running"})

FairSpec == Spec /\ WF_vars(Loop) /\ WF_vars(Timeout) /\ WF_vars(StoreStep(Main))

-----------------------------------------------------------------------------
(***************************************************************************)
(* Properties.                                                             *)
(***************************************************************************)

\* What a caller was told is done stays done.  The task list keeps this under
\* any interleaving and through a crash; plans and memory only as long as no
\* two calls overlapped, none was cut short and no file operation failed.
AnsweredWritesKept == TasksKept /\ PlansKept /\ MemoryKept

\* An evaluation ends, whatever providers and tools do, provided that a sandbox
\* release returns: a run that hangs is cut off, once, by the timeout of its
\* prompt.  It ends with every task judged, or with the exception that this
\* commit's runner meets (runner.py, run_evaluation).
EvaluationEnds ==
  harness => <>(stage = "dead" \/ (stage = "between" /\ taskNo = NumTasks))
=============================================================================
