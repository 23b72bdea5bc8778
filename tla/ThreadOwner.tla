---------------------------- MODULE ThreadOwner -----------------------------
(***************************************************************************)
(* Who advances one thread id: NanoEngine's registry of agents             *)
(* (engine.py), each agent's execution lock, streams and cancel            *)
(* (agent/agent.py), the generated title, and the HTTP handlers that       *)
(* rename, archive and delete the stored conversation (cli/api.py) beside  *)
(* the agent.  A stream is one chat request; what its run does to the      *)
(* transcript is AgentLoop's subject, here a commit is a new revision.     *)
(* The SQLite checkpointer never suspends, so whatever the code does       *)
(* between two suspensions is one action.  All agents of the engine share  *)
(* one connection; every request to a handler opens its own.               *)
(***************************************************************************)
EXTENDS Naturals, SequencesExt

CONSTANTS Streams,     \* chat requests for this thread id
          Nobody,
          MaxOwners,   \* bound: agents created
          MaxRenames,  \* bound: renames
          MaxFlips,    \* bound: archive and unarchive requests
          MaxDeletes,  \* bound: deletions
          MaxFaults    \* bound: failed commits and failed runs

ASSUME OwnerAssumption ==
  /\ Nobody \notin Streams
  /\ {MaxOwners, MaxRenames, MaxFlips, MaxDeletes, MaxFaults} \subseteq Nat

VARIABLES
  disk,        \* the row of the thread in the database file
  conn,        \* the same as the engine's connection reads it
  txn,         \* the transaction that failed saves have left open on it:
               \* none; one that has written nothing; one whose snapshot is
               \* outdated; one that has written
  broken,      \* a save of this thread broke off, and none has succeeded since
  registered,  \* NanoEngine._agents[thread_id]: an owner, 0 for none
  created,     \* owners created
  mem,         \* NanoAgent.state of each owner
  wasNew,      \* NanoAgent.last_run_was_new of each owner
  holder,      \* NanoAgent._current_task of each owner
  queue,       \* waiters of each owner's execution lock, in order
  of,          \* the owner a stream runs on
  phase,       \* the stream's drive() task
  cancelled,   \* streams whose task was cancelled
  sub,         \* the stream's subscriber, the HTTP response
  told,        \* streams whose queue holds "done" or "error"
  titling,     \* _generate_and_save_title started by the end of the stream
  renames, flips, deletes, faults

store  == <<disk, conn, txn, broken>>
engine == <<registered, created>>
agents == <<mem, wasNew, holder, queue>>
tasks  == <<of, phase, cancelled>>
client == <<sub, told, titling>>
bounds == <<renames, flips, deletes, faults>>
vars   == <<store, engine, agents, tasks, client, bounds>>

Owners == 1 .. MaxOwners

\* A title is none, the user's, or the one generated after a stream.
Titles == {"none", "user"} \cup Streams

Row == [live : BOOLEAN, rev : Nat, title : Titles, archived : BOOLEAN]
Memory == [loaded : BOOLEAN, rev : Nat, title : Titles]

NoRow    == [live |-> FALSE, rev |-> 0, title |-> "none", archived |-> FALSE]
Unloaded == [loaded |-> FALSE, rev |-> 0, title |-> "none"]

Run(t)   == <<"run", t>>
Title(t) == <<"title", t>>

Init ==
  /\ disk = NoRow /\ conn = NoRow /\ txn = "none" /\ broken = FALSE
  /\ registered = 0 /\ created = 0
  /\ mem = [o \in Owners |-> Unloaded]
  /\ wasNew = [o \in Owners |-> FALSE]
  /\ holder = [o \in Owners |-> Nobody]
  /\ queue = [o \in Owners |-> <<>>]
  /\ of = [t \in Streams |-> 0]
  /\ phase = [t \in Streams |-> "none"]
  /\ cancelled = {}
  /\ sub = [t \in Streams |-> "none"]
  /\ told = {}
  /\ titling = [t \in Streams |-> "none"]
  /\ renames = 0 /\ flips = 0 /\ deletes = 0 /\ faults = 0

-----------------------------------------------------------------------------
(***************************************************************************)
(* The row and the state an owner keeps.                                   *)
(***************************************************************************)

\* NanoAgent._load_state.
Current(o) ==
  IF mem[o].loaded THEN mem[o]
  ELSE [loaded |-> TRUE, rev |-> IF conn.live THEN conn.rev ELSE 0,
        title |-> IF conn.live THEN conn.title ELSE "none"]

\* Mutants: the revision is rolled back once too often; the archive flag is lost.
StoredTwiceRolledBack(s) ==
  [live |-> TRUE, rev |-> s.rev - 1, title |-> s.title,
   archived |-> conn.live /\ conn.archived]
StoredUnarchived(s) ==
  [live |-> TRUE, rev |-> s.rev + 1, title |-> s.title, archived |-> FALSE]

\* _sync_save: the whole row from the state, the archive flag from the old row.
Stored(s) ==
  [live |-> TRUE, rev |-> s.rev + 1, title |-> s.title,
   archived |-> conn.live /\ conn.archived]

\* conn.commit(): the file has what the connection wrote.  SQLite refuses the
\* write in a transaction whose snapshot is outdated.
Save(row) ==
  /\ txn # "stale"
  /\ disk' = row /\ conn' = row
  /\ txn' = "none" /\ broken' = FALSE

\* On some errors SQLite itself rolls back; the code never does.
RollsBack ==
  /\ txn \in {"read", "write"}
  /\ conn' = disk /\ txn' = "none"
  /\ UNCHANGED <<disk, broken>>

\* A save raises: before its first write or in it, with a rollback, or after it,
\* and then the connection stays inside what was written.
SaveFails(row) ==
  \/ /\ txn' \in {txn} \cup IF txn = "none" THEN {"read"} ELSE {}
     /\ UNCHANGED <<disk, conn, broken>>
  \/ RollsBack
  \/ /\ txn # "stale"
     /\ conn' = row /\ txn' = "write" /\ broken' = TRUE
     /\ UNCHANGED disk

\* A failure is a fault, unless an outdated snapshot makes every save fail.
Fault ==
  \/ faults < MaxFaults /\ faults' = faults + 1
  \/ txn = "stale" /\ UNCHANGED faults

\* The saves of other conversations on the same connection: one fails, one
\* commits what this thread left, or SQLite rolls that back.
OthersSave ==
  /\ \/ /\ faults < MaxFaults /\ faults' = faults + 1
        /\ txn \in {"none", "read"} /\ txn' \in {"read", "write"}
        /\ UNCHANGED <<disk, conn, broken>>
     \/ /\ txn \in {"read", "write"} /\ txn' = "none"
        /\ disk' = conn
        /\ UNCHANGED <<conn, broken, faults>>
     \/ RollsBack /\ UNCHANGED faults
  /\ UNCHANGED <<engine, agents, tasks, client, renames, flips, deletes>>

Commit(o, s) ==
  /\ Save(Stored(s))
  /\ mem' = [mem EXCEPT ![o] = [s EXCEPT !.rev = @ + 1]]

\* Mutant: the uncommitted state is kept.
DiscardNothing(o) == mem' = mem

\* _discard_uncommitted_state.
Discard(o) == mem' = [mem EXCEPT ![o] = Unloaded]

-----------------------------------------------------------------------------
(***************************************************************************)
(* Streams on the execution lock.                                          *)
(***************************************************************************)

\* POST /api/chat: get_agent, and the task that drives the run.
Chat(t) ==
  /\ phase[t] = "none"
  /\ registered # 0 \/ created < MaxOwners
  /\ registered' = IF registered # 0 THEN registered ELSE created + 1
  /\ created' = IF registered # 0 THEN created ELSE created + 1
  /\ of' = [of EXCEPT ![t] = registered']
  /\ phase' = [phase EXCEPT ![t] = "new"]
  /\ sub' = [sub EXCEPT ![t] = "open"]
  /\ UNCHANGED <<store, agents, cancelled, told, titling, bounds>>

\* asyncio.Lock is fair: a free lock with waiters is not taken by a newcomer.
Free(o) == holder[o] = Nobody /\ queue[o] = <<>>

\* The lock is held, the input accepted and committed; the run is suspended in
\* agent_loop.
Enter(t) ==
  LET o == of[t]
  IN /\ Commit(o, Current(o))
     /\ wasNew' = [wasNew EXCEPT ![o] = ~ mem[o].loaded /\ ~ conn.live]
     /\ holder' = [holder EXCEPT ![o] = t]
     /\ phase' = [phase EXCEPT ![t] = "running"]
     /\ UNCHANGED <<told, faults>>

\* The commit of the input fails: the lock is free again at once.
Refuse(t) ==
  /\ SaveFails(Stored(Current(of[t]))) /\ Fault
  /\ Discard(of[t])
  /\ phase' = [phase EXCEPT ![t] = "done"]
  /\ told' = told \cup {t}
  /\ UNCHANGED <<wasNew, holder>>

Admit(t) ==
  /\ Enter(t) \/ Refuse(t)
  /\ UNCHANGED <<engine, of, cancelled, sub, titling, renames, flips, deletes>>

Start(t) ==
  /\ phase[t] = "new" /\ t \notin cancelled
  /\ Free(of[t])
  /\ Admit(t)
  /\ UNCHANGED queue

Wait(t) ==
  /\ phase[t] = "new" /\ t \notin cancelled
  /\ ~ Free(of[t])
  /\ queue' = [queue EXCEPT ![of[t]] = Append(@, Run(t))]
  /\ phase' = [phase EXCEPT ![t] = "waiting"]
  /\ UNCHANGED <<store, engine, mem, wasNew, holder, of, cancelled, client, bounds>>

IsNext(o, w) == holder[o] = Nobody /\ queue[o] # <<>> /\ Head(queue[o]) = w

Take(t) ==
  /\ phase[t] = "waiting" /\ t \notin cancelled
  /\ IsNext(of[t], Run(t))
  /\ queue' = [queue EXCEPT ![of[t]] = Tail(@)]
  /\ Admit(t)

\* Mutants: a run leaves the lock held; a discarded run puts nothing in the queue.
LeaveKeepsLock(t) ==
  /\ phase' = [phase EXCEPT ![t] = "done"]
  /\ told' = told \cup {t}
  /\ UNCHANGED holder
LeaveSilently(t) ==
  /\ phase' = [phase EXCEPT ![t] = "done"]
  /\ told' = IF t \in cancelled THEN told ELSE told \cup {t}
  /\ holder' = [holder EXCEPT ![of[t]] = Nobody]

\* drive()'s finally, and the lock's release.
Leave(t) ==
  /\ phase' = [phase EXCEPT ![t] = "done"]
  /\ told' = told \cup {t}
  /\ holder' = [holder EXCEPT ![of[t]] = Nobody]

\* FINISH or WAIT; a run that only reports a restored WAIT commits nothing more.
Finish(t) ==
  /\ phase[t] = "running" /\ t \notin cancelled
  /\ Commit(of[t], mem[of[t]]) \/ UNCHANGED <<store, mem>>
  /\ Leave(t)
  /\ UNCHANGED <<engine, wasNew, queue, of, cancelled, sub, titling, bounds>>

\* The run raises; its last commit has reached the row, or has failed itself.
Abort(t) ==
  /\ Save(Stored(mem[of[t]])) \/ SaveFails(Stored(mem[of[t]]))
  /\ Discard(of[t])
  /\ Leave(t)
  /\ UNCHANGED <<engine, wasNew, queue, of, cancelled, sub, titling,
                 renames, flips, deletes>>

Fail(t) ==
  /\ phase[t] = "running" /\ t \notin cancelled
  /\ Fault
  /\ Abort(t)

CancelRun(t) ==
  /\ phase[t] = "running" /\ t \in cancelled
  /\ Abort(t)
  /\ UNCHANGED faults

\* CancelledError before drive() holds the lock: outside its try.
CancelQueued(t) ==
  /\ t \in cancelled
  /\ phase' = [phase EXCEPT ![t] = "done"]
  /\ \/ phase[t] = "new" /\ UNCHANGED queue
     \/ /\ phase[t] = "waiting"
        /\ \E i \in DOMAIN queue[of[t]] :
             /\ queue[of[t]][i] = Run(t)
             /\ queue' = [queue EXCEPT ![of[t]] = RemoveAt(@, i)]
  /\ UNCHANGED <<store, engine, mem, wasNew, holder, of, cancelled, client, bounds>>

\* NanoAgent.cancel: the run in progress, else any of _run_tasks.
CancelTargets(o) ==
  IF holder[o] # Nobody THEN {holder[o]}
  ELSE { t \in Streams : of[t] = o /\ phase[t] \in {"new", "waiting"} }

\* POST /api/chat/cancel.
Cancel ==
  /\ registered # 0
  /\ \E t \in CancelTargets(registered) \ cancelled : cancelled' = cancelled \cup {t}
  /\ UNCHANGED <<store, engine, agents, of, phase, client, bounds>>

-----------------------------------------------------------------------------
(***************************************************************************)
(* Subscribers and generated titles.                                       *)
(***************************************************************************)

\* The finally of NanoEngine.run_streaming.
SpawnTitle(t) ==
  LET s == mem[of[t]]
  IN titling' = [titling EXCEPT ![t] =
                   IF s.loaded /\ (wasNew[of[t]] \/ s.title = "none")
                   THEN "asking" ELSE "done"]

\* The stream ends for its subscriber.
Hear(t) ==
  /\ sub[t] = "open" /\ t \in told
  /\ sub' = [sub EXCEPT ![t] = "ended"]
  /\ SpawnTitle(t)
  /\ UNCHANGED <<store, engine, agents, tasks, told, bounds>>

\* The client goes away; the run goes on.
Disconnect(t) ==
  /\ sub[t] = "open"
  /\ sub' = [sub EXCEPT ![t] = "gone"]
  /\ SpawnTitle(t)
  /\ UNCHANGED <<store, engine, agents, tasks, told, bounds>>

\* Mutant: the title that is there is not looked at again under the lock.
SetTitleAnyway(t) ==
  LET o == of[t]
  IN /\ Commit(o, [Current(o) EXCEPT !.title = t])
     /\ UNCHANGED faults

\* set_title_if_empty with the lock: loads, looks, commits, without suspending;
\* a commit that fails puts the old title back and keeps the state.
SetTitleIfEmpty(t) ==
  LET o == of[t]
  IN \/ /\ Current(o).title = "none"
        /\ Commit(o, [Current(o) EXCEPT !.title = t])
        /\ UNCHANGED faults
     \/ /\ Current(o).title = "none"
        /\ SaveFails(Stored([Current(o) EXCEPT !.title = t])) /\ Fault
        /\ mem' = [mem EXCEPT ![o] = Current(o)]
     \/ /\ Current(o).title # "none"
        /\ mem' = [mem EXCEPT ![o] = Current(o)]
        /\ UNCHANGED <<store, faults>>

TitleDone(t) ==
  /\ titling' = [titling EXCEPT ![t] = "done"]
  /\ UNCHANGED <<engine, wasNew, holder, tasks, sub, told, renames, flips, deletes>>

\* The model has answered with a title.
TitleArrives(t) ==
  /\ titling[t] = "asking"
  /\ \/ /\ Free(of[t])
        /\ SetTitleIfEmpty(t)
        /\ TitleDone(t)
        /\ UNCHANGED queue
     \/ /\ ~ Free(of[t])
        /\ queue' = [queue EXCEPT ![of[t]] = Append(@, Title(t))]
        /\ titling' = [titling EXCEPT ![t] = "waiting"]
        /\ UNCHANGED <<store, engine, mem, wasNew, holder, tasks, sub, told, bounds>>

\* No title: the model failed, or the state was discarded in the meantime.
TitleGivesUp(t) ==
  /\ titling[t] = "asking"
  /\ TitleDone(t)
  /\ UNCHANGED <<store, mem, queue, faults>>

TakeTitle(t) ==
  /\ titling[t] = "waiting"
  /\ IsNext(of[t], Title(t))
  /\ queue' = [queue EXCEPT ![of[t]] = Tail(@)]
  /\ SetTitleIfEmpty(t)
  /\ TitleDone(t)

-----------------------------------------------------------------------------
(***************************************************************************)
(* The conversation handlers: they write the row beside the owner.         *)
(***************************************************************************)

\* Another connection's write waits for the transaction that has written, and
\* raises; it outdates a snapshot the engine's connection has taken.
Written(row) ==
  /\ txn # "write"
  /\ disk' = row
  /\ \/ txn # "stale" /\ conn' = row /\ UNCHANGED txn
     \/ txn # "none" /\ txn' = "stale" /\ UNCHANGED conn
  /\ UNCHANGED broken

Rename ==
  /\ disk.live /\ renames < MaxRenames
  /\ Written([disk EXCEPT !.title = "user"])
  /\ renames' = renames + 1
  /\ UNCHANGED <<engine, agents, tasks, client, flips, deletes, faults>>

\* Archive or unarchive.
Flip ==
  /\ disk.live /\ flips < MaxFlips
  /\ Written([disk EXCEPT !.archived = ~ @])
  /\ flips' = flips + 1
  /\ UNCHANGED <<engine, agents, tasks, client, renames, deletes, faults>>

\* Mutants: the deletion does not look; only the run that holds the lock counts.
NeverRunning(o) == FALSE
HoldsLock(o) == holder[o] # Nobody

\* NanoAgent.is_running: also runs that have not begun, or wait for the lock.
IsRunning(o) ==
  \E t \in Streams : of[t] = o /\ phase[t] \in {"new", "waiting", "running"}

\* DELETE: the row goes and the engine forgets the idle owner, in one step.
Delete ==
  /\ deletes < MaxDeletes
  /\ disk.live
  /\ registered # 0 => ~ IsRunning(registered)
  /\ Written(NoRow)
  /\ registered' = 0
  /\ deletes' = deletes + 1
  /\ UNCHANGED <<created, agents, tasks, client, renames, flips, faults>>

-----------------------------------------------------------------------------
DriveStep(t) == Start(t) \/ Wait(t) \/ Take(t) \/ CancelQueued(t)
RunStep(t)   == Finish(t) \/ Fail(t) \/ CancelRun(t)
TitleStep(t) == TitleArrives(t) \/ TitleGivesUp(t) \/ TakeTitle(t)

Next ==
  \/ \E t \in Streams :
       \/ Chat(t) \/ DriveStep(t) \/ RunStep(t)
       \/ Hear(t) \/ Disconnect(t) \/ TitleStep(t)
  \/ Cancel \/ Rename \/ Flip \/ Delete \/ OthersSave

Spec == Init /\ [][Next]_vars

\* The event loop resumes every task that can go on and delivers what a queue
\* holds; a run ends (AgentLoop's RunsEnd) and the title call returns.  No
\* client has to ask, cancel or leave.
FairSpec ==
  /\ Spec
  /\ \A t \in Streams :
       /\ WF_vars(DriveStep(t))
       /\ WF_vars(RunStep(t))
       /\ WF_vars(Hear(t))
       /\ WF_vars(TitleStep(t))

-----------------------------------------------------------------------------
(***************************************************************************)
(* Properties.                                                             *)
(***************************************************************************)

\* Every variable has its type: the row, the registry, each agent's fields,
\* each stream's task and subscriber.
TypeOK ==
  /\ disk \in Row /\ conn \in Row /\ broken \in BOOLEAN
  /\ txn \in {"none", "read", "stale", "write"}
  /\ registered \in 0 .. created /\ created \in 0 .. MaxOwners
  /\ mem \in [Owners -> Memory]
  /\ wasNew \in [Owners -> BOOLEAN]
  /\ holder \in [Owners -> Streams \cup {Nobody}]
  /\ queue \in [Owners -> Seq({"run", "title"} \X Streams)]
  /\ of \in [Streams -> 0 .. created]
  /\ phase \in [Streams -> {"none", "new", "waiting", "running", "done"}]
  /\ cancelled \in SUBSET Streams /\ told \in SUBSET Streams
  /\ sub \in [Streams -> {"none", "open", "gone", "ended"}]
  /\ titling \in [Streams -> {"none", "asking", "waiting", "done"}]
  /\ {renames, flips, deletes, faults} \subseteq Nat

\* At most one run advances the thread, however chats, cancels and deletions
\* interleave and however many agents the thread id has had.
OneRun == Cardinality({ t \in Streams : phase[t] = "running" }) <= 1

\* A run that is not over belongs to the registered agent, so it is on the one
\* lock and a cancel request can reach it.
RunsReachable ==
  \A t \in Streams :
     phase[t] \in {"new", "waiting", "running"} => of[t] = registered

\* Only the archive and unarchive requests change the archive flag of a stored
\* conversation; no run, failed commit or late title does (_sync_save).
ArchiveKept ==
  [][(disk.live /\ disk'.live /\ disk'.archived # disk.archived)
        => flips' = flips + 1]_vars

\* Of all the titles generated concurrently the first one stays, unless the
\* user renames or deletes the conversation (set_title_if_empty).  A save that
\* broke off is the exception: set_title_if_empty keeps a state without the
\* title it has written, and another conversation's save commits that title.
TitleSetOnce ==
  [][(disk.title # "none" /\ ~ broken /\ renames' = 0 /\ deletes' = 0)
        => disk'.title = disk.title]_vars

\* What an agent keeps in memory is the row's revision and title, whatever
\* failed before; a rename is the exception, a deletion, and a save that broke
\* off, until the next one: then memory may be what only the connection reads.
\* A run that holds the lock has that next save behind it.
MemoryCurrent ==
  deletes = 0 =>
    \A o \in Owners :
       mem[o].loaded =>
         /\ disk.live
         /\ holder[o] # Nobody => ~ broken
         /\ ~ broken =>
              /\ mem[o].rev = disk.rev
              /\ renames = 0 => mem[o].title = disk.title

\* A subscriber of a run that got the lock is told how it ended: finished,
\* failed or cancelled.
RunsReport ==
  \A t \in Streams :
     (phase[t] = "running" /\ sub[t] = "open") ~> (sub[t] # "open")

\* The lock is handed on: no run and no title waits for it forever, even when
\* those before it fail or are cancelled.
LockPassesOn ==
  \A t \in Streams :
     /\ (phase[t] = "waiting") ~> (phase[t] # "waiting")
     /\ (titling[t] = "waiting") ~> (titling[t] # "waiting")

\* Only the registered agent writes the thread's state.
SoleOwnerWrites ==
  [][\A t \in Streams :
        (titling'[t] # titling[t] /\ disk' # disk) => of[t] = registered]_vars

\* A client whose run was cancelled is told so.
CancelledIsTold ==
  \A t \in Streams :
     (t \in cancelled /\ sub[t] = "open") ~> (sub[t] # "open")
=============================================================================
