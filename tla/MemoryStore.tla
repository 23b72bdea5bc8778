---------------------------- MODULE MemoryStore -----------------------------
(***************************************************************************)
(* Long-term memory (agent/memory/storage.py, tools/save_memory.py):       *)
(* MEMORY.md is appended to by reading it and writing it over in place,    *)
(* USER.md is replaced.  A file that cannot be read counts as empty.       *)
(***************************************************************************)
EXTENDS ToolHost

VARIABLES
  memory,    \* the facts in each file
  nextFact   \* numbers the contents that are saved

memoryStore == <<memory, nextFact>>

MemoryOps == [store : {"memory"}, file : {"MEMORY"}, mode : {"append", "replace"}] \cup
             [store : {"memory"}, file : {"USER"}, mode : {"replace"}]

MemoryInit == memory = [f \in {"MEMORY", "USER"} |-> {}] /\ nextFact = 1

MemoryUnchanged == UNCHANGED <<ctx, callId, owner, answered, disturbed, faults>>

Appends(a) == job[a].op.mode = "append"

\* save_memory merges what it has read with the content.
MergeFacts(a) ==
  /\ In(a, "memory", "start")
  /\ Goes(a, "open", [fact  |-> nextFact,
                      facts |-> {nextFact} \cup (IF Appends(a) THEN memory[job[a].op.file] ELSE {})])
  /\ nextFact' = nextFact + 1
  /\ UNCHANGED memory /\ MemoryUnchanged

\* load_memory swallows the error: the append is about to drop every fact.
MemoryUnreadable(a) ==
  /\ In(a, "memory", "start") /\ Appends(a)
  /\ FileFault
  /\ Goes(a, "open", [fact |-> nextFact, facts |-> {nextFact}])
  /\ nextFact' = nextFact + 1
  /\ disturbed' = disturbed \cup {"memory"}
  /\ UNCHANGED <<memory, ctx, callId, owner, answered>>

\* write_text empties the file and then writes it.
OpenMemory(a) ==
  /\ In(a, "memory", "open")
  /\ memory' = [memory EXCEPT ![job[a].op.file] = {}]
  /\ Goes(a, "write", job[a].got)
  /\ UNCHANGED nextFact /\ MemoryUnchanged

\* OSError: a file already emptied stays empty.
MemoryFileFails(a) ==
  /\ In(a, "memory", "open") \/ In(a, "memory", "write")
  /\ FileFault
  /\ Reply(a, "raised")
  /\ disturbed' = disturbed \cup (IF job[a].at = "write" THEN {"memory"} ELSE {})
  /\ UNCHANGED <<memoryStore, ctx, callId, owner, answered>>

\* A replacement takes back what was said of the facts before it.
ToldFact(a) ==
  LET file == job[a].op.file
      kept == IF Appends(a) THEN answered ELSE { t \in answered : t.op.store = "memory" => t.op.file # file }
  IN answered' = kept \cup {[call |-> callId[a], op |-> job[a].op, what |-> job[a].got.fact]}

\* Over what another call wrote meanwhile, the rest of a longer text stays.
WriteMemory(a) ==
  LET file == job[a].op.file
  IN /\ In(a, "memory", "write")
     /\ \E rest \in {{}, memory[file]} :
          memory' = [memory EXCEPT ![file] = job[a].got.facts \cup rest]
     /\ ToldFact(a)
     /\ Reply(a, "done")
     /\ UNCHANGED <<nextFact, ctx, callId, owner, disturbed, faults>>

MemoryStep(a) ==
  MergeFacts(a) \/ MemoryUnreadable(a) \/ OpenMemory(a) \/ MemoryFileFails(a) \/ WriteMemory(a)

\* A fact that a caller was told of is in its file, unless a call has just
\* emptied it or something went wrong (tools/save_memory.py, save_memory).
MemoryKept ==
  "memory" \notin disturbed =>
    \A w \in answered : w.op.store = "memory" =>
      \/ \E a \in Actors : In(a, "memory", "write") /\ job[a].op.file = w.op.file
      \/ w.what \in memory[w.op.file]
=============================================================================
