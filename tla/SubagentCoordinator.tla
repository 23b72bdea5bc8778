------------------------ MODULE SubagentCoordinator -------------------------
(***************************************************************************)
(* Background workers (subagent/coordinator.py): spawn and run queue on a  *)
(* semaphore, a worker leases a sandbox, asks its model, releases, and     *)
(* leaves a result that get_subagent_results shows                         *)
(* (tools/spawn_subagent.py).  stop() edits the coordinator's tables       *)
(* beside the worker's task; a task itself is cancelled by its caller or   *)
(* when the event loop closes.                                             *)
(***************************************************************************)
EXTENDS Naturals, SequencesExt

CONSTANTS Workers,
          MaxConcurrent,  \* max_concurrent
          MaxIterations,  \* WorkerSpec.max_iterations
          MaxCancels      \* bound: tasks cancelled

ASSUME CoordinatorAssumption ==
  /\ IsFiniteSet(Workers)
  /\ MaxConcurrent \in Nat
  /\ MaxIterations \in Nat \ {0}
  /\ MaxCancels \in Nat

VARIABLES
  pc,         \* the worker's task
  spawned,    \* workers started by spawn(); the others by run()
  line,       \* tasks waiting for the semaphore, in order
  free,       \* the semaphore's value
  status,     \* WorkerTask.status
  iteration,  \* of _run_worker's loop
  pending, active,
  record,     \* _completed[w]: none, the worker itself, or stop()'s stand-in
  leased,     \* workers with an entry in _sandbox_context
  stopped,    \* workers for which stop() has returned True
  cancelled,  \* workers whose task was cancelled
  cut,        \* workers cancelled inside the release
  cancels

tables == <<pending, active, record>>
vars   == <<pc, spawned, line, free, status, iteration, tables, leased,
            stopped, cancelled, cut, cancels>>

Final == {"completed", "failed", "timeout", "cancelled"}

Holding == { w \in Workers : pc[w] \in {"acquiring", "thinking", "releasing"} }

Init ==
  /\ pc = [w \in Workers |-> "none"]
  /\ spawned = {} /\ line = <<>> /\ free = MaxConcurrent
  /\ status = [w \in Workers |-> "pending"]
  /\ iteration = [w \in Workers |-> 0]
  /\ pending = {} /\ active = {}
  /\ record = [w \in Workers |-> "none"]
  /\ leased = {} /\ stopped = {} /\ cancelled = {} /\ cut = {} /\ cancels = 0

-----------------------------------------------------------------------------
\* create_task: _schedule has yet to take its first step.
Spawn(w) ==
  /\ pc[w] = "none"
  /\ pc' = [pc EXCEPT ![w] = "new"]
  /\ spawned' = spawned \cup {w}
  /\ pending' = pending \cup {w}
  /\ UNCHANGED <<line, free, status, iteration, active, record, leased,
                 stopped, cancelled, cut, cancels>>

\* _schedule enters its try and asks for the semaphore; run() does so at once,
\* awaited by its caller (a legacy call).
Enqueue(w) ==
  /\ pc' = [pc EXCEPT ![w] = "queued"]
  /\ line' = Append(line, w)
  /\ UNCHANGED <<spawned, free, status, iteration, tables, leased,
                 stopped, cancelled, cut, cancels>>

Enter(w) == pc[w] = "new" /\ Enqueue(w)

Run(w) == pc[w] = "none" /\ Enqueue(w)

\* The semaphore is granted in order.  The worker stays in _pending.
Start(w) ==
  /\ line # <<>> /\ Head(line) = w /\ free > 0
  /\ line' = Tail(line)
  /\ free' = free - 1
  /\ pc' = [pc EXCEPT ![w] = "acquiring"]
  /\ status' = [status EXCEPT ![w] = IF w \in spawned THEN "running" ELSE @]
  /\ active' = active \cup ({w} \cap spawned)
  /\ UNCHANGED <<spawned, iteration, pending, record, leased,
                 stopped, cancelled, cut, cancels>>

\* Mutant: the slot of a cancelled worker is not given back.
SlotKept(w) == IF w \in cancelled' THEN free ELSE free + 1

SlotBack(w) == free + 1

\* Mutant: a worker that was cancelled leaves no result.
KeepsSuccess(w) == w \notin cancelled'

\* A spawned worker leaves its result however it ends, a run() only if it returns.
Keeps(w) == w \in spawned \/ w \notin cancelled'

\* The end of _schedule or run: the slot, the tables.
Settle(w, s) ==
  /\ pc' = [pc EXCEPT ![w] = "done"]
  /\ free' = SlotBack(w)
  /\ status' = [status EXCEPT ![w] = IF Keeps(w) THEN s ELSE @]
  /\ record' = [record EXCEPT ![w] = IF Keeps(w) THEN "own" ELSE @]
  /\ active' = active \ {w}
  /\ UNCHANGED <<spawned, line, iteration, pending, stopped>>

Acquired(w) ==
  /\ pc[w] = "acquiring"
  /\ pc' = [pc EXCEPT ![w] = "thinking"]
  /\ leased' = leased \cup {w}
  /\ UNCHANGED <<spawned, line, free, status, iteration, tables,
                 stopped, cancelled, cut, cancels>>

AcquireFails(w) ==
  /\ pc[w] = "acquiring"
  /\ UNCHANGED <<leased, cancelled, cut, cancels>>
  /\ \E s \in {"failed", "timeout"} : Settle(w, s)

\* The finally of _run_worker gives the sandbox back.
Conclude(w, s) ==
  /\ pc' = [pc EXCEPT ![w] = "releasing"]
  /\ status' = [status EXCEPT ![w] = s]
  /\ UNCHANGED <<spawned, line, free, tables, leased, stopped, cut>>

\* Mutant: the iterations are counted from zero.
LastIterationLate(w) == iteration[w] >= MaxIterations

LastIteration(w) == iteration[w] + 1 >= MaxIterations

\* The model answers, or raises.
Think(w) ==
  /\ pc[w] = "thinking"
  /\ \E s \in {"completed", "failed", "timeout"} : Conclude(w, s)
  /\ UNCHANGED <<iteration, cancelled, cancels>>

\* The model asks for tools, whose errors are results; the last iteration fails.
UseTools(w) ==
  /\ pc[w] = "thinking"
  /\ iteration' = [iteration EXCEPT ![w] = @ + 1]
  /\ \/ LastIteration(w) /\ Conclude(w, "failed")
     \/ ~ LastIteration(w) /\ UNCHANGED <<pc, spawned, line, free, status, tables,
                                          leased, stopped, cut>>
  /\ UNCHANGED <<cancelled, cancels>>

\* Mutant: the handle is cleared only when the worker succeeded.
ClearOnSuccess(w) == leased' = IF status[w] = "completed" THEN leased \ {w} ELSE leased

\* release() has returned or failed; either way the handle is cleared.
Clear(w) == leased' = leased \ {w}

Release(w) ==
  /\ pc[w] = "releasing"
  /\ UNCHANGED <<cancelled, cut, cancels>>
  /\ Clear(w)
  /\ Settle(w, IF w \in cancelled THEN "cancelled" ELSE status[w])

-----------------------------------------------------------------------------
\* Mutant: a stopped worker leaves no entry.
NoStandIn(w) == UNCHANGED record

StandIn(w) == record' = [record EXCEPT ![w] = "stand_in"]

\* stop(): _pending is looked at first, and every worker is in it until then.
Stop(w) ==
  /\ \/ /\ w \in pending
        /\ pending' = pending \ {w}
        /\ StandIn(w)
        /\ UNCHANGED status
     \/ /\ w \notin pending /\ w \in active
        /\ status' = [status EXCEPT ![w] = "cancelled"]
        /\ UNCHANGED <<pending, record>>
  /\ stopped' = stopped \cup {w}
  /\ UNCHANGED <<pc, spawned, line, free, iteration, active, leased,
                 cancelled, cut, cancels>>

\* A task that is cancelled before its first step never enters the try: no result,
\* and it stays in _pending.
CancelNew(w) ==
  /\ pc[w] = "new"
  /\ pc' = [pc EXCEPT ![w] = "never"]
  /\ UNCHANGED <<spawned, line, free, status, iteration, tables, leased, stopped, cut>>

\* CancelledError while waiting for the semaphore: no slot to give back.
CancelQueued(w) ==
  /\ pc[w] = "queued"
  /\ pc' = [pc EXCEPT ![w] = "done"]
  /\ \E i \in DOMAIN line : line[i] = w /\ line' = RemoveAt(line, i)
  /\ status' = [status EXCEPT ![w] = IF w \in spawned THEN "cancelled" ELSE @]
  /\ record' = [record EXCEPT ![w] = IF w \in spawned THEN "own" ELSE @]
  /\ UNCHANGED <<spawned, free, iteration, pending, active, leased, stopped, cut>>

\* No sandbox yet: what the provider was doing is SandboxLease's subject.
CancelAcquire(w) ==
  /\ pc[w] = "acquiring"
  /\ Settle(w, "cancelled")
  /\ UNCHANGED <<leased, cut>>

CancelThinking(w) ==
  /\ pc[w] = "thinking"
  /\ Conclude(w, status[w])
  /\ UNCHANGED iteration

\* Not an Exception: clear_sandbox is skipped.
CancelRelease(w) ==
  /\ pc[w] = "releasing"
  /\ Settle(w, "cancelled")
  /\ cut' = cut \cup {w}
  /\ UNCHANGED leased

CancelTask(w) ==
  /\ cancels < MaxCancels /\ cancels' = cancels + 1
  /\ cancelled' = cancelled \cup {w}
  /\ CancelNew(w) \/ CancelQueued(w) \/ CancelAcquire(w) \/ CancelThinking(w) \/ CancelRelease(w)

-----------------------------------------------------------------------------
TaskStep(w) ==
  Enter(w) \/ Start(w) \/ Acquired(w) \/ AcquireFails(w) \/ Think(w) \/ UseTools(w) \/ Release(w)

Next == \E w \in Workers :
          Spawn(w) \/ Run(w) \/ TaskStep(w) \/ Stop(w) \/ CancelTask(w)

Spec == Init /\ [][Next]_vars

\* The event loop resumes every worker; its provider, model and tools return.
FairSpec == Spec /\ \A w \in Workers : WF_vars(TaskStep(w))

-----------------------------------------------------------------------------
(***************************************************************************)
(* Properties.                                                             *)
(***************************************************************************)

\* Every variable has its type: the tasks, the semaphore, the three tables.
TypeOK ==
  /\ pc \in [Workers -> {"none", "new", "never", "queued", "acquiring", "thinking",
                     "releasing", "done"}]
  /\ line \in Seq(Workers)
  /\ free \in 0 .. MaxConcurrent
  /\ status \in [Workers -> {"pending", "running"} \cup Final]
  /\ iteration \in [Workers -> 0 .. MaxIterations]
  /\ record \in [Workers -> {"none", "own", "stand_in"}]
  /\ {spawned, pending, active, leased, stopped, cancelled, cut} \subseteq SUBSET Workers
  /\ cancels \in 0 .. MaxCancels

\* No slot is lost or made up, however workers fail, are stopped or cancelled;
\* so at most max_concurrent workers run.
SlotsConserved == free + Cardinality(Holding) = MaxConcurrent

\* get_subagent_results never says "not found" for a worker that was spawned.
NeverUnknown ==
  \A w \in spawned : record[w] = "none" => w \in pending \cup active

\* A finished worker has left its sandbox, unless the release was cut short.
HandlesReturned ==
  \A w \in leased : pc[w] \in {"thinking", "releasing"} \/ w \in cut

\* The result of a worker that got to run and is finished is final and its own, if
\* nobody stopped it; a task cancelled before its first step has none.
ResultIsFinal ==
  \A w \in spawned \ stopped :
     pc[w] = "done" => record[w] = "own" /\ status[w] \in Final /\ w \notin active

\* Every worker that was started is done in the end: a slot is found for it,
\* unless its task is cancelled before its first step.
EveryoneFinishes ==
  \A w \in Workers : (pc[w] \in {"new", "queued"}) ~> (pc[w] \in {"done", "never"})
=============================================================================
