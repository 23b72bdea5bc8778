--------------------------- MODULE WorkspaceFiles ---------------------------
(***************************************************************************)
(* The workspace of a thread and the tools that write into it              *)
(* (workspace.py, tools/write_file.py, tools/edit_file.py, the uploads of  *)
(* agent/context.py).  A tool resolves its path in the workspace bound in  *)
(* its own context; a run binds the workspace of its thread and unbinds it *)
(* at its end, a subagent keeps the one it was spawned with.               *)
(***************************************************************************)
EXTENDS ToolHost

VARIABLE tree  \* who wrote last under a mount of a thread's workspace

\* What a tool's path names, once resolved.  A path stands for its canonical
\* spelling: _match_mount compares the text of a path with the mounts,
\* and what bash writes inside the container is not modelled.
Mounts == {"workspace", "uploads", "outputs"}

Writable == Mounts \ {"uploads"}

FileOps == [store : {"files"}, kind : {"write", "edit"}, mount : Mounts]

FilesInit == tree = [t \in Threads |-> [m \in Mounts |-> "nobody"]]

FilesUnchanged == UNCHANGED <<ctx, callId, owner, answered, disturbed, faults>>

\* WorkspaceManager.open and activate_workspace, at the start of a run.
BindWorkspace(t) == ctx' = [ctx EXCEPT ![Main] = t] /\ owner' = [owner EXCEPT ![Main] = t]

\* reset_workspace, however the run ends.
UnbindWorkspace == ctx' = [ctx EXCEPT ![Main] = None] /\ owner' = [owner EXCEPT ![Main] = None]

\* save_uploaded_files, at every turn: upload_target takes plain names only.
UploadsSaved(t, given) == IF given THEN [tree EXCEPT ![t]["uploads"] = "user"] ELSE tree

\* Mutant: one workspace for the process, the one bound last.
WorkspaceOfRun(a) == IF ctx[Main] # None THEN ctx[Main] ELSE ctx[a]

WorkspaceOf(a) == ctx[a]

Exists(a) == tree[WorkspaceOf(a)][job[a].op.mount] # "nobody"

\* Uploads, named by their canonical path, are read-only to tools; the text to edit must be there, and once.
FileRefused(a) ==
  /\ In(a, "files", "start")
  /\ job[a].op.mount \notin Writable \/ job[a].op.kind = "edit"
  /\ Reply(a, "refused")
  /\ UNCHANGED tree /\ FilesUnchanged

\* The path is resolved once; the file it names is written afterwards.
FileResolved(a) ==
  /\ In(a, "files", "start")
  /\ job[a].op.mount \in Writable
  /\ job[a].op.kind = "edit" => Exists(a)
  /\ Goes(a, "write", [workspace |-> WorkspaceOf(a)])
  /\ UNCHANGED tree /\ FilesUnchanged

FileWritten(a) ==
  /\ In(a, "files", "write")
  /\ tree' = [tree EXCEPT ![job[a].got.workspace][job[a].op.mount] = owner[a]]
  /\ Reply(a, "done")
  /\ FilesUnchanged

\* "Error writing ..." does not count as a failure; the file may be emptied already.
FileFails(a) ==
  /\ In(a, "files", "write")
  /\ FileFault
  /\ tree' \in {tree, [tree EXCEPT ![job[a].got.workspace][job[a].op.mount] = owner[a]]}
  /\ Reply(a, "masked")
  /\ UNCHANGED <<ctx, callId, owner, answered, disturbed>>

\* edit_file: "Error reading ..." does not count as one either.
FileUnreadable(a) ==
  /\ In(a, "files", "start") /\ job[a].op.kind = "edit"
  /\ FileFault
  /\ Reply(a, "masked")
  /\ UNCHANGED <<tree, ctx, callId, owner, answered, disturbed>>

FileStep(a) == FileUnreadable(a) \/ FileRefused(a) \/ FileResolved(a) \/ FileWritten(a) \/ FileFails(a)

-----------------------------------------------------------------------------
(***************************************************************************)
(* The workspaces by themselves: runs of any thread one after the other,   *)
(* and subagents spawned by any of them.  A plain tool blocks the event    *)
(* loop, so its run is not unbound while it works.                         *)
(***************************************************************************)

RunBinds(t) ==
  /\ job[Main].at = "idle" /\ ctx[Main] = None
  /\ BindWorkspace(t)
  /\ UNCHANGED <<tree, job, callId, answered, disturbed, faults>>

RunUnbinds ==
  /\ job[Main].at = "idle"
  /\ UnbindWorkspace
  /\ UNCHANGED <<tree, job, callId, answered, disturbed, faults>>

RunUploads ==
  /\ ctx[Main] # None
  /\ tree' = UploadsSaved(ctx[Main], TRUE)
  /\ UNCHANGED host

WorkerSpawned(w) ==
  /\ ctx[Main] # None /\ ctx[w] = None
  /\ Spawned(w, None)
  /\ UNCHANGED <<tree, job, answered, disturbed, faults>>

FileCall(a) ==
  /\ ctx[a] # None
  /\ \E op \in FileOps : Begin(a, op)
  /\ UNCHANGED <<tree, ctx, callId, owner, answered, faults>>

FileReturn(a) ==
  /\ job[a].at = "replied"
  /\ job' = [job EXCEPT ![a] = Idle]
  /\ UNCHANGED <<tree, ctx, callId, owner, answered, disturbed, faults>>

FilesNext ==
  \/ \E t \in Threads : RunBinds(t)
  \/ RunUnbinds \/ RunUploads
  \/ \E w \in Workers : WorkerSpawned(w)
  \/ \E a \in Actors : FileCall(a) \/ FileStep(a) \/ FileReturn(a)
  \/ HostCrash /\ UNCHANGED tree

FilesSpec == HostInit /\ FilesInit /\ [][FilesNext]_<<host, tree>>

\* A file is written in the workspace of the thread the work is for, by a
\* subagent that outlives its run too, and uploads are the user's (workspace.py,
\* resolve_workspace_path).  It speaks of write_file and edit_file with canonical
\* paths.
FilesStayHome ==
  \A t \in Threads, m \in Mounts :
    tree[t][m] \in {"nobody"} \cup (IF m \in Writable THEN {t} ELSE {"user"})
=============================================================================
