---------------------------- MODULE SandboxLease ----------------------------
(***************************************************************************)
(* The sandbox of one thread id, run after run: agent_loop acquires it     *)
(* before the first bash call and releases it in its finally               *)
(* (agent/loop.py), SandboxManager keeps the handle (sandbox/runtime.py),  *)
(* DockerSandboxProvider talks to the daemon in executor threads           *)
(* (sandbox/docker.py).  Cancelling a task abandons the executor's answer, *)
(* not what the daemon does.  The runs of a thread follow one another      *)
(* (ThreadOwner's OneRun).                                                 *)
(***************************************************************************)
EXTENDS Naturals

CONSTANTS MaxRuns,    \* bound: runs of the thread
          MaxCalls,   \* bound: bash calls in a run
          MaxCancels, \* bound: cancel requests
          MaxFaults   \* bound: daemon errors, containers killed, crashes

ASSUME LeaseAssumption == {MaxRuns, MaxCalls, MaxCancels, MaxFaults} \subseteq Nat

VARIABLES
  container,  \* the daemon's container with the thread's name, 0 for none
  stopping,   \* it has been told to stop; its status still is "running"
  halfMade,   \* it was created and never started
  made,       \* containers created so far: ids
  late,       \* abandoned containers.run calls that have yet to take effect
  context,    \* _sandbox_context[thread_id], 0 for none
  pc,         \* the run
  lease,      \* resources.sandbox
  acquired,   \* sandbox_acquired of agent_loop
  cut,        \* an acquire or a release was cut short and may have left a container
  killed,     \* the container of this lease died by itself
  runs, calls, cancels, faults

box    == <<container, stopping, halfMade>>
daemon == <<box, made, late>>
locals == <<lease, acquired>>
bounds == <<runs, calls, cancels, faults>>
vars   == <<daemon, context, pc, locals, cut, killed, bounds>>

Ids == 1 .. MaxRuns * MaxCalls + MaxCancels + MaxFaults

Init ==
  /\ container = 0 /\ stopping = FALSE /\ halfMade = FALSE /\ made = 0 /\ late = 0
  /\ context = 0
  /\ pc = "idle" /\ lease = 0 /\ acquired = FALSE
  /\ cut = FALSE /\ killed = FALSE
  /\ runs = 0 /\ calls = 0 /\ cancels = 0 /\ faults = 0

-----------------------------------------------------------------------------
(***************************************************************************)
(* The Docker daemon and the executor threads.                             *)
(***************************************************************************)

\* auto_remove: a container that has stopped is gone.
Gone == container' = 0 /\ stopping' = FALSE /\ halfMade' = FALSE

DaemonStops ==
  /\ container # 0 /\ stopping
  /\ Gone
  /\ UNCHANGED <<made, late, context, pc, locals, cut, killed, bounds>>

\* Out of memory, or removed by hand.
ContainerDies ==
  /\ container # 0 /\ faults < MaxFaults
  /\ faults' = faults + 1
  /\ Gone
  /\ killed' = TRUE
  /\ UNCHANGED <<made, late, context, pc, locals, cut, runs, calls, cancels>>

\* containers.run with the thread's name, one container per name: it creates the
\* container, then starts it.
Made(half) ==
  /\ container = 0
  /\ made' = made + 1
  /\ container' = made + 1
  /\ stopping' = FALSE /\ halfMade' = half

Created == Made(FALSE)

\* The start fails and the daemon keeps the container.
NeverStarted ==
  /\ faults < MaxFaults /\ faults' = faults + 1
  /\ Made(TRUE)

\* A create call that nobody waits for takes effect, whole or half, or meets the
\* name in use.
LateCreate ==
  /\ late > 0
  /\ late' = late - 1
  /\ \/ Created /\ UNCHANGED faults
     \/ NeverStarted
     \/ container # 0 /\ UNCHANGED <<box, made, faults>>
  /\ UNCHANGED <<context, pc, locals, cut, killed, runs, calls, cancels>>

-----------------------------------------------------------------------------
(***************************************************************************)
(* A run and its bash calls.                                               *)
(***************************************************************************)

StartRun ==
  /\ pc = "idle" /\ runs < MaxRuns
  /\ pc' = "working"
  /\ runs' = runs + 1 /\ calls' = 0
  /\ lease' = 0 /\ acquired' = FALSE /\ killed' = FALSE
  /\ UNCHANGED <<daemon, context, cut, cancels, faults>>

\* SandboxManager.acquire has a container: the lease and the context name it.
Lease(c) ==
  /\ lease' = c /\ context' = c /\ acquired' = TRUE
  /\ pc' = "executing"

\* execute_tool of a bash call, prepare_tool_backend first.
Bash ==
  /\ pc = "working" /\ calls < MaxCalls
  /\ calls' = calls + 1
  /\ \/ /\ acquired
        /\ pc' = "executing"
        /\ UNCHANGED <<context, locals>>
     \/ /\ ~ acquired /\ context # 0
        /\ Lease(context)
     \/ /\ ~ acquired /\ context = 0
        /\ pc' = "looking"
        /\ UNCHANGED <<context, locals>>
  /\ UNCHANGED <<daemon, cut, killed, runs, cancels, faults>>

\* Mutant: the name is enough, whatever the container's status.
AnyStatus == container # 0

Running == container # 0 /\ ~ halfMade

\* _get_existing: the named container if its status is "running", which it still
\* is while it stops; one in another status is removed.  With it goes whatever an
\* earlier run left behind, unless a create is still late.
Look ==
  /\ pc = "looking"
  /\ \/ Running /\ Lease(container) /\ UNCHANGED <<box, cut>>
     \/ /\ ~ Running
        /\ Gone
        /\ pc' = "creating"
        /\ cut' = (cut /\ late > 0)
        /\ UNCHANGED <<context, locals>>
  /\ UNCHANGED <<made, late, killed, bounds>>

Create ==
  /\ pc = "creating"
  /\ \/ /\ Created
        /\ Lease(made + 1)
     \/ /\ container # 0
        /\ pc' = "working"
        /\ UNCHANGED <<box, made, context, locals>>
  /\ UNCHANGED <<late, cut, killed, bounds>>

\* The create call goes on although nobody waits for its answer.
Abandon == late' = late + 1 /\ cut' = TRUE

\* The daemon fails, or its answer is lost: an exception, the call's result.
AcquireFails ==
  /\ pc \in {"looking", "creating"} /\ faults < MaxFaults
  /\ faults' = faults + 1
  /\ pc' = "working"
  /\ UNCHANGED <<late, cut>> \/ (pc = "creating" /\ Abandon)
  /\ UNCHANGED <<box, made, context, locals, killed, runs, calls, cancels>>

\* The container is created and its start fails: an exception too, and the next
\* acquire finds it.
StartFails ==
  /\ pc = "creating"
  /\ NeverStarted
  /\ pc' = "working"
  /\ cut' = TRUE
  /\ UNCHANGED <<late, context, locals, killed, runs, calls, cancels>>

\* SandboxToolWrapper.ainvoke returns: output, error, timeout or "not found".
Return ==
  /\ pc = "executing"
  /\ pc' = "working"
  /\ UNCHANGED <<daemon, context, locals, cut, killed, bounds>>

-----------------------------------------------------------------------------
(***************************************************************************)
(* The finally of agent_loop.                                              *)
(***************************************************************************)

\* Mutant: a cancelled tool call leaves without the finally.
LeavingAtOnce == pc' = IF acquired /\ pc = "working" THEN "releasing" ELSE "idle"

Leaving == pc' = IF acquired THEN "releasing" ELSE "idle"

\* FINISH, WAIT or an error.
End ==
  /\ pc = "working"
  /\ Leaving
  /\ UNCHANGED <<daemon, context, locals, cut, killed, bounds>>

\* Mutant: the stop is sent without looking whether the container is there.
ToldBlindly == TRUE

Told == stopping \/ container = lease

\* provider.release looks the container up and tells it to stop.
Stop ==
  /\ pc = "releasing"
  /\ stopping' = Told
  /\ pc' = "stopping"
  /\ UNCHANGED <<container, halfMade, made, late, context, locals, cut, killed, bounds>>

\* Mutant: the handle stays in the context.
ForgetNothing == UNCHANGED <<context, lease>>

\* SandboxManager.release's finally.
Forget == context' = 0 /\ lease' = 0

\* Mutant: container.stop is not awaited.
StopNotAwaited == TRUE

Stopped == container # lease

\* The stop has come back, or there was nothing to stop.  What an earlier run
\* left behind had the same name: it is gone too, unless a create is still late.
Released ==
  /\ pc = "stopping" /\ Stopped
  /\ Forget
  /\ pc' = "idle"
  /\ cut' = (cut /\ (late > 0 \/ container # 0))
  /\ UNCHANGED <<daemon, acquired, killed, bounds>>

\* An API error other than NotFound is logged; the container stays.
ReleaseFails ==
  /\ pc \in {"releasing", "stopping"} /\ faults < MaxFaults
  /\ faults' = faults + 1
  /\ Forget
  /\ pc' = "idle"
  /\ cut' = (cut \/ container = lease)
  /\ UNCHANGED <<daemon, acquired, killed, runs, calls, cancels>>

-----------------------------------------------------------------------------
(***************************************************************************)
(* Cancel and crash.                                                       *)
(***************************************************************************)

\* CancelledError at the await the run is suspended in.
CancelWork ==
  /\ pc \in {"working", "executing"} /\ cancels < MaxCancels
  /\ cancels' = cancels + 1
  /\ Leaving
  /\ UNCHANGED <<daemon, context, locals, cut, killed, runs, calls, faults>>

\* resources.sandbox is still None: nothing is released.  The executor's create
\* call goes on unless its thread had not begun.
CancelAcquire ==
  /\ pc \in {"looking", "creating"} /\ cancels < MaxCancels
  /\ cancels' = cancels + 1
  /\ pc' = "idle"
  /\ UNCHANGED <<late, cut>> \/ (pc = "creating" /\ Abandon)
  /\ UNCHANGED <<box, made, context, locals, killed, runs, calls, faults>>

\* A second cancel, inside the release: not an Exception, but the finally runs.
CancelRelease ==
  /\ pc \in {"releasing", "stopping"} /\ cancels < MaxCancels
  /\ cancels' = cancels + 1
  /\ Forget
  /\ pc' = "idle"
  /\ cut' = (cut \/ container = lease)
  /\ UNCHANGED <<daemon, acquired, killed, runs, calls, faults>>

\* The process dies; the daemon does not.
Crash ==
  /\ pc # "idle" /\ faults < MaxFaults
  /\ faults' = faults + 1
  /\ pc' = "idle"
  /\ context' = 0 /\ lease' = 0 /\ acquired' = FALSE
  /\ late' \in {late, late + 1} /\ (late' # late => pc = "creating")
  /\ cut' = (cut \/ acquired \/ late' # late)
  /\ UNCHANGED <<box, made, killed, runs, calls, cancels>>

-----------------------------------------------------------------------------
RunStep ==
  \/ Bash \/ Look \/ Create \/ AcquireFails \/ StartFails \/ Return
  \/ End \/ Stop \/ Released \/ ReleaseFails

Next ==
  \/ StartRun \/ RunStep
  \/ DaemonStops \/ LateCreate \/ ContainerDies
  \/ CancelWork \/ CancelAcquire \/ CancelRelease \/ Crash

Spec == Init /\ [][Next]_vars

\* The daemon carries out what it was told; a run goes on and ends.
FairSpec == Spec /\ WF_vars(RunStep) /\ WF_vars(DaemonStops) /\ WF_vars(LateCreate)

-----------------------------------------------------------------------------
(***************************************************************************)
(* Properties.                                                             *)
(***************************************************************************)

\* Every variable has its type: the daemon's container, the handles, the run.
TypeOK ==
  /\ {container, made, context, lease} \subseteq {0} \cup Ids
  /\ {late, runs, calls, cancels, faults} \subseteq Nat
  /\ {stopping, halfMade, acquired, cut, killed} \subseteq BOOLEAN
  /\ pc \in {"idle", "working", "looking", "creating", "executing",
            "releasing", "stopping"}
  /\ stopping => container # 0

\* No run inherits a handle: whatever happened to the run before, failed
\* release and second cancel included, _sandbox_context is empty between runs.
\* The finally of agent_loop makes no difference between WAIT and other ends: the
\* handle does not survive WAIT, although sandbox/runtime.py:45 says so.
HandleFresh == pc = "idle" => context = 0 /\ lease = 0

\* A bash call runs in a container that lives, is not being stopped by an
\* earlier run's release, and is the one the run will release, unless it was
\* killed or an earlier acquire or release was cut short; and even then it never
\* runs in a container that was not started.
ExecOnLive ==
  pc = "executing" =>
    /\ ~ (halfMade /\ container = lease)
    /\ ~ cut /\ ~ killed => container = lease /\ context = lease /\ ~ stopping

\* Between runs no container is left, however the run ended, unless an acquire
\* or a release was cut short; a later run that releases what was left behind
\* makes up for it.
NoStray == (pc = "idle" /\ ~ cut) => container = 0 /\ late = 0

\* A leased container is stopped in the end, unless its release is cut short.
LeaseEnds == \A c \in Ids : (lease = c) ~> (container # c \/ cut)

\* A cancelled run has its sandbox released.
CancelReleases == (container # 0 /\ pc = "idle") ~> (container = 0 \/ pc # "idle")
=============================================================================
