---------------------------- MODULE AgentLoopInv ----------------------------
(***************************************************************************)
(* The inductive invariant of AgentLoop, for providers with unique ids:    *)
(* what the memory, the checkpointer and the calls started so far have to  *)
(* do with each other at every point of a run.                             *)
(***************************************************************************)
EXTENDS AgentLoop, TranscriptProof

\* The calls that were started and have no durable outcome.
Lost == effects \cap UnresolvedIds(disk.log)

BatchDone(n) == at \in DOMAIN disk.log /\ n \in 1 .. Len(disk.log[at].calls)

\* Where the run stands between two commits: memory and store agree.
AtRest ==
  /\ pc = "idle" => (loaded => mem = disk)
  /\ pc # "idle" => loaded
  /\ pc \notin {"idle", "commit", "limit_save"} => mem = disk
  /\ pc \in {"turn_start", "infer", "turn_check", "turn_saved"} =>
       Settled(disk.log) /\ disk.wait = "none" /\ disk.log # <<>>
  /\ pc = "responded" => Pending(disk.log, at, 1) /\ disk.wait = "none" /\ Lost = {}
  /\ pc = "tool" =>
       /\ Pending(disk.log, at, idx) /\ BatchDone(idx) /\ disk.wait = "none"
       /\ Lost = {}
  /\ pc = "executing" =>
       /\ Pending(disk.log, at, idx) /\ BatchDone(idx) /\ disk.wait = "none"
       /\ Lost = {<<at, idx>>}
  /\ pc \in {"tool_saved", "skip_saved"} =>
       /\ Pending(disk.log, at, idx + 1) /\ BatchDone(idx) /\ disk.wait = "none"
       /\ Lost = {}
  /\ pc = "skip" => Pending(disk.log, at, idx) /\ disk.wait = "none" /\ Lost = {}
  /\ pc = "limit_save" =>
       /\ Settled(disk.log) /\ disk.log # <<>>
       /\ mem.log = Append(disk.log, Assistant(<<>>))
       /\ mem.rev = disk.rev /\ mem.wait = "none" /\ disk.wait = "none"

\* What the commit in flight would make durable.
\* The user is about to be asked; or the prompt goes in, after an outcome for
\* every call the user was asked about.
SavingInput(row) ==
  /\ cont = "report_wait" =>
       /\ mem.log = row.log /\ UnresolvedIds(row.log) # {}
       /\ mem.wait = "unknown_tool_effect"
  /\ cont = "turn_start" =>
       /\ mem.wait = "none"
       /\ \/ /\ UnresolvedIds(row.log) = {}
             /\ mem.log = Append(row.log, Human)
          \/ /\ UnresolvedIds(row.log) # {}
             /\ row.wait = "unknown_tool_effect"
             /\ mem.log = row.log \o <<Results(UnresolvedIds(row.log)), Human>>

\* An assistant message on a transcript without open calls.
SavingAnswer ==
  /\ cont = "responded" =>
       /\ Settled(disk.log) /\ disk.log # <<>>
       /\ disk.wait = "none" /\ mem.wait = "none"
       /\ at = Len(disk.log) + 1 /\ at \in DOMAIN mem.log
       /\ mem.log = Append(disk.log, Assistant(Calls))
       /\ \A k \in DOMAIN Calls : Calls[k].id = <<at, k>>
  /\ cont = "turn_check" =>
       /\ Settled(disk.log) /\ disk.log # <<>>
       /\ disk.wait = "none" /\ mem.wait = "none"
       /\ mem.log = Append(disk.log, Assistant(<<>>))

\* The result of the call in progress.
SavingResult ==
  /\ cont \in {"tool_saved", "skip_saved"} =>
       /\ Pending(disk.log, at, idx) /\ BatchDone(idx)
       /\ disk.wait = "none" /\ mem.wait = "none"
       /\ mem.log = Append(disk.log, ResultOf(at, idx))
       /\ Lost \subseteq {<<at, idx>>}
  /\ cont = "pause" =>
       /\ Pending(disk.log, at, 1) /\ Len(disk.log[at].calls) = 1
       /\ disk.wait = "none" /\ mem.wait = "external_input"
       /\ mem.log = Append(disk.log, ResultOf(at, 1))
       /\ Lost = {}

\* The status only, and the turn limit's message with it.
SavingStatus ==
  /\ cont = "turn_saved" =>
       /\ Settled(disk.log) /\ disk.log # <<>> /\ mem.log = disk.log
       /\ disk.wait = "none" /\ mem.wait = "none"
  /\ cont = "end_cancelled" => mem.log = disk.log /\ mem.wait = disk.wait
  /\ cont = "end_failed" =>
       /\ mem.wait = disk.wait
       /\ \/ mem.log = disk.log
          \/ /\ Settled(disk.log) /\ disk.log # <<>>
             /\ mem.log = Append(disk.log, Assistant(<<>>))

Saving ==
  /\ mem.rev = disk.rev
  /\ SavingInput(disk) /\ SavingAnswer /\ SavingResult /\ SavingStatus

IInv ==
  /\ TypeOK
  /\ Good(disk.log)
  /\ effects \subseteq Occurrences(disk.log)
  /\ shown <= Len(disk.log)
  /\ AtRest
  /\ pc = "commit" => Saving

\* While a broken save's transaction is open, memory is what the connection
\* reads, and the run is between runs or about to save its input: nothing is
\* started or announced.
OpenInv ==
  /\ Good(disk.log) /\ effects \subseteq Occurrences(disk.log) /\ shown <= Len(disk.log)
  /\ Good(conn.log) /\ conn.rev > disk.rev
  /\ \/ pc = "idle" /\ ~ loaded
     \/ /\ pc = "commit" /\ loaded /\ cont \in {"report_wait", "turn_start"}
        /\ mem.rev = conn.rev /\ SavingInput(conn)

\* At every step: either no transaction was left open, and IInv holds of what
\* memory, connection and file have in common, or one was.
LoopInv ==
  /\ TypeOK
  /\ ~ dangling => IInv /\ conn = disk
  /\ dangling => OpenInv

-----------------------------------------------------------------------------
(***************************************************************************)
(* Two more invariants, which hold because IInv does.                      *)
(***************************************************************************)

\* Where the run stands, or will stand once the commit in flight is done.
Stage == IF pc = "commit" THEN cont ELSE pc

\* The ends that owe no result.  A run that goes on has not ended, save by a
\* blocked command whose batch is still being answered.
SettledEnds == {"completed", "wait", "repeated_tool_calls"}

EndingInv ==
  /\ ~ torn /\ disk.finish \in SettledEnds => UnresolvedIds(disk.log) = {}
  /\ pc = "commit" /\ mem.finish \in SettledEnds => UnresolvedIds(mem.log) = {}
  /\ Stage \in {"turn_start", "infer", "turn_check", "turn_saved"} =>
       mem.finish = "running" \/ mem.next = "finish"
  /\ Stage \in {"turn_start", "infer"} => mem.finish = "running"
  /\ Stage = "responded" =>
       IF Calls = <<>> THEN mem.next = "finish" ELSE mem.finish = "running"
  /\ Stage \in {"tool", "executing", "tool_saved", "skip", "skip_saved"} =>
       mem.finish = "running" \/ (mem.finish = "bash_blocked" /\ mem.next = "finish")

\* agent_loop's locals know the batch that an equal one would repeat: the last
\* one, with nothing but results after it, and whether it was a repetition.
LastBatch(log, h) ==
  /\ log[h].kind = "ai" /\ log[h].calls # <<>>
  /\ \A m \in h+1 .. Len(log) : log[m].kind = "tool"

Repeats(log, h) ==
  \E g \in DOMAIN log :
     NextBatch(log, g, h) /\ Signature(log[g].calls) = Signature(log[h].calls)

Remembered(log, h) ==
  /\ lastSig = Signature(log[h].calls) /\ repeats >= 1
  /\ Repeats(log, h) => repeats >= 2

Known(log) ==
  \A h \in DOMAIN log : LastBatch(log, h) => Remembered(log, h)

RepeatInv ==
  /\ ThirdBatchNotRun
  /\ Stage \in {"turn_start", "infer", "tool", "executing", "tool_saved", "skip",
                "skip_saved", "turn_check", "turn_saved"} => Known(mem.log)
  /\ Stage = "responded" =>
       /\ at = Len(mem.log) /\ mem.log # <<>> /\ mem.log[at].kind = "ai"
       /\ \A h \in DOMAIN mem.log : NextBatch(mem.log, h, at) => Remembered(mem.log, h)
  /\ Stage \in {"tool", "executing", "tool_saved"} => ~ ThirdInARow(mem.log, at)
=============================================================================
