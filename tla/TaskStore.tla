----------------------------- MODULE TaskStore ------------------------------
(***************************************************************************)
(* The personal task list (tools/tasks.py): one JSON file for the whole    *)
(* process, read, changed and replaced under one lock.                     *)
(***************************************************************************)
EXTENDS ToolHost

CONSTANTS MaxTasks,  \* bound: tasks added
          CallIds

ASSUME TaskAssumption == MaxTasks \in Nat

VARIABLES
  tasks,     \* the items in tasks.json
  taskLock,  \* who holds _LOCK
  nextTask   \* the next id: uuid4, never given out twice

taskStore == <<tasks, taskLock, nextTask>>

TaskIds == 1..MaxTasks

TaskOps ==
  [store : {"tasks"}, kind : {"add"}, id : {0}, due : {"valid", "bad"}] \cup
  [store : {"tasks"}, kind : {"update"}, id : TaskIds, due : {"valid", "bad"}] \cup
  [store : {"tasks"}, kind : {"complete", "delete"}, id : TaskIds, due : {"valid"}]

TaskInit == tasks = {} /\ taskLock = None /\ nextTask = 1

\* Mutant: no lock.
LockIgnored(a) == UNCHANGED taskLock

LockTasks(a) == taskLock = None /\ taskLock' = a

Unlock == taskLock' = None

\* Mutant: a call id seen before is not looked for.
NeverAdded(a) == FALSE

\* An item made under this call id is taken for the same request.
AlreadyAdded(a) == job[a].op.kind = "add" /\ \E t \in tasks : t.by = callId[a]

Missing(a) == job[a].op.kind # "add" /\ \A t \in tasks : t.id # job[a].op.id

NewTask(a) == [id |-> nextTask, by |-> callId[a], done |-> FALSE, edited |-> FALSE]

Listed(a) == CHOOSE t \in tasks : t.id = job[a].op.id

\* What becomes of an item.
Outcome(kind, t) ==
  IF kind = "delete" THEN {}
  ELSE IF kind = "complete" THEN {[t EXCEPT !.done = TRUE]}
  ELSE {[t EXCEPT !.edited = TRUE]}

\* The list as the tool is going to save it.
Changed(a) ==
  IF job[a].op.kind = "add" THEN tasks \cup {NewTask(a)}
  ELSE (tasks \ {Listed(a)}) \cup Outcome(job[a].op.kind, Listed(a))

\* "Task already added" tells of a success, the other texts of a failure.
TaskRefused(a) ==
  /\ In(a, "tasks", "start") /\ taskLock = None
  /\ \/ AlreadyAdded(a) /\ Reply(a, "already")
     \/ Missing(a) /\ Reply(a, "refused")
     \/ ~ AlreadyAdded(a) /\ ~ Missing(a) /\ job[a].op.due = "bad" /\ Reply(a, "masked")
  /\ UNCHANGED <<tasks, taskLock, nextTask, ctx, callId, owner, answered, disturbed, faults>>

TaskLoad(a) ==
  /\ In(a, "tasks", "start")
  /\ LockTasks(a)
  /\ ~ AlreadyAdded(a) /\ ~ Missing(a) /\ job[a].op.due # "bad"
  /\ job[a].op.kind = "add" => nextTask \in TaskIds
  /\ Goes(a, "save", [items |-> Changed(a), id |-> IF job[a].op.kind = "add" THEN nextTask ELSE job[a].op.id])
  /\ nextTask' = IF job[a].op.kind = "add" THEN nextTask + 1 ELSE nextTask
  /\ UNCHANGED <<tasks, ctx, callId, owner, answered, disturbed, faults>>

\* OSError: the list cannot be read.
TaskLoadFails(a) ==
  /\ In(a, "tasks", "start") /\ taskLock = None
  /\ FileFault
  /\ Reply(a, "masked")
  /\ UNCHANGED <<tasks, taskLock, nextTask, ctx, callId, owner, answered, disturbed>>

\* os.replace
TaskReplace(a) ==
  /\ In(a, "tasks", "save")
  /\ tasks' = job[a].got.items
  /\ Told(a, job[a].got.id)
  /\ Reply(a, "done")
  /\ Unlock
  /\ UNCHANGED <<nextTask, ctx, callId, owner, disturbed, faults>>

\* OSError: the temporary file is removed.
TaskSaveFails(a) ==
  /\ In(a, "tasks", "save")
  /\ FileFault
  /\ Reply(a, "masked")
  /\ Unlock
  /\ UNCHANGED <<tasks, nextTask, ctx, callId, owner, answered, disturbed>>

TaskStep(a) ==
  TaskRefused(a) \/ TaskLoad(a) \/ TaskLoadFails(a) \/ TaskReplace(a) \/ TaskSaveFails(a)

TaskCrash == taskLock' = None /\ UNCHANGED <<tasks, nextTask>>

-----------------------------------------------------------------------------
(***************************************************************************)
(* The list by itself, called by anyone at any time under any call id.     *)
(***************************************************************************)

TaskCall(a) ==
  /\ \E op \in TaskOps : Begin(a, op)
  /\ \E c \in CallIds : callId' = [callId EXCEPT ![a] = c]
  /\ UNCHANGED taskStore /\ UNCHANGED <<ctx, owner, answered, faults>>

TaskReturn(a) ==
  /\ job[a].at = "replied"
  /\ job' = [job EXCEPT ![a] = Idle]
  /\ UNCHANGED taskStore /\ UNCHANGED <<ctx, callId, owner, answered, disturbed, faults>>

TaskNext ==
  \/ HostCrash /\ TaskCrash
  \/ \E a \in Actors : TaskCall(a) \/ TaskStep(a) \/ TaskReturn(a)

TaskSpec == HostInit /\ TaskInit /\ [][TaskNext]_<<host, taskStore>>

\* The file behind the tool is one list on which each request acts at once,
\* although a run and its subagents work on it from different threads, and a
\* request repeated under its call id adds one task (tools/tasks.py, tasks).
List == INSTANCE TaskList WITH list <- tasks, Ids <- TaskIds, Calls <- CallIds

TaskListSpec == List!Spec

Deleted(id) == \E d \in answered : d.op.store = "tasks" /\ d.op.kind = "delete" /\ d.what = id

\* A change of the list that a caller was told of is there, until a caller is
\* told that the task is deleted (tools/tasks.py, tasks).
TasksKept ==
  \A w \in answered : w.op.store = "tasks" /\ w.op.kind # "delete" /\ ~ Deleted(w.what) =>
    \E t \in tasks : /\ t.id = w.what
                     /\ w.op.kind = "complete" => t.done
                     /\ w.op.kind = "update" => t.edited
=============================================================================
