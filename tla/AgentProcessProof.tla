-------------------------- MODULE AgentProcessProof --------------------------
(***************************************************************************)
(* The whole process, for any number of subagents, threads, prompts and    *)
(* faults: what its stores keep when runs, subagents, the server and the   *)
(* evaluation harness share them, and what the trace of a run says however *)
(* the run goes.                                                           *)
(***************************************************************************)
EXTENDS AgentProcess, StoreProofs, Lists

ToolNames == UNION ToolSets

EventKinds ==
  {"turn_start", "context_loaded", "llm_start", "llm_token", "llm_retry", "llm_end",
   "checkpoint_saved", "assistant_response", "tool_call", "tool_result", "tool_blocked",
   "tool_repeat_guard", "sandbox_acquired", "sandbox_released", "wait", "error", "cancelled", "end"}

Ev == [event : EventKinds, turn : Nat, n : Nat, name : ToolNames \cup {""}, ok : BOOLEAN]

\* No event of this kind comes twice in a turn.
Once(evs, e) == \A i, j \in Places(evs, e) : evs[i].turn = evs[j].turn => i = j

Had(evs, e, t) == \E key \in ToolKeys(evs, e) : key[1] = t

Asking == {"context", "calling", "backoff"}

-----------------------------------------------------------------------------
(***************************************************************************)
(* The inductive invariant of a run and of its trace.                      *)
(***************************************************************************)

RunTyped ==
  /\ turn \in 0..MaxTurns /\ attempt \in Nat /\ chunks \in Nat
  /\ batch \in Seq(ToolNames) /\ Len(batch) <= MaxCalls
  /\ events \in Seq(Ev)

\* Where the run is, and what it then works on.
Placed ==
  /\ pc \in {"idle", "turn", "releasing", "over"} \/ turn >= 1
  /\ pc = "turn" => turn < MaxTurns
  /\ pc \in {"tool", "job", "acquiring", "running"} => k \in 1..Len(batch)
  /\ pc = "wait" => Len(batch) = 1
  /\ pc = "backoff" => ~ stream \/ chunks = 0
  /\ pc = "releasing" => boxed
  /\ pc \notin {"releasing", "over"} => outcome = "none"

\* No event is ahead of its turn.
Timely == \A e \in EventKinds : \A key \in ToolKeys(events, e) : key[1] <= turn

\* A turn asks once, and is answered once before anything else happens in it.
Questions ==
  /\ Once(events, "llm_start") /\ Once(events, "llm_end")
  /\ pc = "context" => ~ Had(events, "llm_start", turn)
  /\ pc \in Asking => ~ Had(events, "llm_end", turn)
  /\ \A key \in ToolKeys(events, "llm_start") :
       \/ Had(events, "llm_end", key[1])
       \/ pc \in Asking /\ key[1] = turn
       \/ outcome = "raised"

\* The tokens of the turn that asks are of the attempt that is under way.
Tokens ==
  /\ ShownIsAnswer
  /\ \A key \in ToolKeys(events, "llm_token") :
       /\ stream
       /\ key[1] = turn /\ pc \in Asking => pc # "context" /\ chunks > 0 /\ key[2] = attempt

\* Every call has its result, but for the one that is being made.
Calls ==
  \A key \in ToolKeys(events, "tool_call") :
    \/ key \in ToolKeys(events, "tool_result")
    \/ pc \in {"job", "acquiring", "running"} /\ key = <<turn, k, batch[k]>>
    \/ outcome = "raised"

\* A sandbox that was acquired is released before the run is over.
Boxes ==
  /\ pc # "over" /\ ~ boxed => ToolKeys(events, "sandbox_acquired") = {}
  /\ pc = "over" /\ outcome # "raised" /\ ToolKeys(events, "sandbox_acquired") # {}
       => ToolKeys(events, "sandbox_released") # {}

EndSaid == pc = "over" /\ outcome = "ended" => ToolKeys(events, "end") # {}

RunInv ==
  RunTyped /\ Placed /\ Timely /\ Questions /\ Tokens /\ Calls /\ Boxes /\ EndSaid

-----------------------------------------------------------------------------
(***************************************************************************)
(* The inductive invariant of the process.                                 *)
(***************************************************************************)

\* The run waits for the tool it called; a subagent that was spawned has the call
\* id it was spawned under.
ActorsInv ==
  /\ job[Main].at # "idle" => pc = "job"
  /\ pc \notin {"idle", "over"} => ctx[Main] \in Threads
  /\ \A w \in Workers : ctx[w] # None => callId[w] \in CallIds

SceneInv ==
  /\ tools \in ToolSets
  /\ served \in Nat /\ taskNo \in 0..NumTasks
  /\ stage = "running" => taskNo >= 1

StoresInv == Jobs /\ TaskInv /\ PlanInv /\ FilesInv

ProcessInv == RunInv /\ ActorsInv /\ SceneInv /\ StoresInv

-----------------------------------------------------------------------------
(***************************************************************************)
(* Lists of events.                                                        *)
(***************************************************************************)

LEMMA EventsJoined ==
  ASSUME NEW S, NEW a \in Seq(S), NEW b \in Seq(S)
  PROVE  /\ \A e : ToolKeys(a \o b, e) = ToolKeys(a, e) \cup ToolKeys(b, e)
         /\ \A i \in DOMAIN (a \o b) : \/ i \in DOMAIN a /\ (a \o b)[i] = a[i]
                                       \/ /\ i \notin DOMAIN a /\ i - Len(a) \in DOMAIN b
                                          /\ (a \o b)[i] = b[i - Len(a)]
<1> DEFINE c == a \o b
<1>1. c \in Seq(S) /\ DOMAIN c = 1..(Len(a) + Len(b)) /\ DOMAIN a = 1..Len(a) /\ DOMAIN b = 1..Len(b)
  OBVIOUS
<1>2. \A i \in DOMAIN a : i \in DOMAIN c /\ c[i] = a[i]
  BY <1>1
<1>3. \A i \in DOMAIN b : i + Len(a) \in DOMAIN c /\ c[i + Len(a)] = b[i]
  BY <1>1
<1>4. \A i \in DOMAIN c : \/ i \in DOMAIN a /\ c[i] = a[i]
                          \/ i \notin DOMAIN a /\ i - Len(a) \in DOMAIN b /\ c[i] = b[i - Len(a)]
  BY <1>1
<1> HIDE DEF c
<1>5. ASSUME NEW e
      PROVE  ToolKeys(c, e) = ToolKeys(a, e) \cup ToolKeys(b, e)
  <2>1. ToolKeys(c, e) \subseteq ToolKeys(a, e) \cup ToolKeys(b, e)
    BY <1>4 DEF ToolKeys, Places
  <2>2. ToolKeys(a, e) \subseteq ToolKeys(c, e)
    BY <1>2 DEF ToolKeys, Places
  <2>3. ToolKeys(b, e) \subseteq ToolKeys(c, e)
    BY <1>3 DEF ToolKeys, Places
  <2> QED
    BY <2>1, <2>2, <2>3
<1> QED
  BY <1>4, <1>5 DEF c

\* An event that comes once in each part, and in no turn in both.
LEMMA OnceJoined ==
  ASSUME NEW S, NEW a \in Seq(S), NEW b \in Seq(S), NEW e, Once(a, e), Once(b, e),
         \A x \in ToolKeys(a, e) : \A y \in ToolKeys(b, e) : x[1] # y[1]
  PROVE  Once(a \o b, e)
<1> DEFINE c == a \o b
           Key(s, i) == <<s[i].turn, s[i].n, s[i].name>>
<1>1. \A i \in DOMAIN c : \/ i \in DOMAIN a /\ c[i] = a[i]
                          \/ i \notin DOMAIN a /\ i - Len(a) \in DOMAIN b /\ c[i] = b[i - Len(a)]
  BY EventsJoined
<1>2. DOMAIN c \subseteq Nat /\ Len(a) \in Nat
  OBVIOUS
<1>3. \A i \in Places(a, e), j \in Places(b, e) : a[i].turn # b[j].turn
  <2> TAKE i \in Places(a, e), j \in Places(b, e)
  <2>1. Key(a, i) \in ToolKeys(a, e) /\ Key(b, j) \in ToolKeys(b, e)
    BY DEF ToolKeys
  <2>2. Key(a, i)[1] = a[i].turn /\ Key(b, j)[1] = b[j].turn
    OBVIOUS
  <2> QED
    BY <2>1, <2>2
<1> HIDE DEF c
<1>4. ASSUME NEW i \in Places(c, e), NEW j \in Places(c, e), c[i].turn = c[j].turn
      PROVE  i = j
  <2>1. CASE i \in DOMAIN a /\ j \in DOMAIN a
    BY <1>1, <1>4, <2>1 DEF Once, Places
  <2>2. CASE i \notin DOMAIN a /\ j \notin DOMAIN a
    <3>1. i - Len(a) \in Places(b, e) /\ j - Len(a) \in Places(b, e)
      BY <1>1, <2>2 DEF Places
    <3>2. i - Len(a) = j - Len(a)
      BY <1>1, <1>4, <2>2, <3>1 DEF Once, Places
    <3> QED
      BY <1>2, <3>2 DEF Places
  <2>3. CASE i \in DOMAIN a /\ j \notin DOMAIN a
    <3>1. i \in Places(a, e) /\ j - Len(a) \in Places(b, e)
      BY <1>1, <2>3 DEF Places
    <3> QED
      BY <1>1, <1>3, <1>4, <2>3, <3>1 DEF Places
  <2>4. CASE i \notin DOMAIN a /\ j \in DOMAIN a
    <3>1. i - Len(a) \in Places(b, e) /\ j \in Places(a, e)
      BY <1>1, <2>4 DEF Places
    <3> QED
      BY <1>1, <1>3, <1>4, <2>4, <3>1 DEF Places
  <2> QED
    BY <2>1, <2>2, <2>3, <2>4
<1> QED
  BY <1>4 DEF Once, c

\* The tokens of a turn are of the attempt that is answered, and before the answer.
Shown(evs) ==
  \A i, j \in DOMAIN evs :
     evs[i].event = "llm_token" /\ evs[j].event = "llm_end" /\ evs[i].turn = evs[j].turn
       => i < j /\ evs[i].n = evs[j].n

LEMMA ShownJoined ==
  ASSUME NEW S, NEW a \in Seq(S), NEW b \in Seq(S), Shown(a), Shown(b),
         \A x \in ToolKeys(b, "llm_token") : \A y \in ToolKeys(a, "llm_end") : x[1] # y[1],
         \A x \in ToolKeys(a, "llm_token") : \A y \in ToolKeys(b, "llm_end") :
           x[1] = y[1] => x[2] = y[2]
  PROVE  Shown(a \o b)
<1> DEFINE c == a \o b
           Key(s, i) == <<s[i].turn, s[i].n, s[i].name>>
<1>1. \A i \in DOMAIN c : \/ i \in DOMAIN a /\ c[i] = a[i]
                          \/ i \notin DOMAIN a /\ i - Len(a) \in DOMAIN b /\ c[i] = b[i - Len(a)]
  BY EventsJoined
<1>2. DOMAIN c \subseteq Nat \ {0} /\ Len(a) \in Nat /\ DOMAIN a = 1..Len(a) /\ DOMAIN b \subseteq Nat
  OBVIOUS
<1>3. \A i \in Places(b, "llm_token"), j \in Places(a, "llm_end") : b[i].turn # a[j].turn
  <2> TAKE i \in Places(b, "llm_token"), j \in Places(a, "llm_end")
  <2>1. Key(b, i) \in ToolKeys(b, "llm_token") /\ Key(a, j) \in ToolKeys(a, "llm_end")
    BY DEF ToolKeys
  <2>2. Key(b, i)[1] = b[i].turn /\ Key(a, j)[1] = a[j].turn
    OBVIOUS
  <2> QED
    BY <2>1, <2>2
<1>4. \A i \in Places(a, "llm_token"), j \in Places(b, "llm_end") :
        a[i].turn = b[j].turn => a[i].n = b[j].n
  <2> TAKE i \in Places(a, "llm_token"), j \in Places(b, "llm_end")
  <2>1. Key(a, i) \in ToolKeys(a, "llm_token") /\ Key(b, j) \in ToolKeys(b, "llm_end")
    BY DEF ToolKeys
  <2>2. /\ Key(a, i)[1] = a[i].turn /\ Key(b, j)[1] = b[j].turn
        /\ Key(a, i)[2] = a[i].n /\ Key(b, j)[2] = b[j].n
    OBVIOUS
  <2> QED
    BY <2>1, <2>2
<1> HIDE DEF c
<1>5. ASSUME NEW i \in DOMAIN c, NEW j \in DOMAIN c,
             c[i].event = "llm_token", c[j].event = "llm_end", c[i].turn = c[j].turn
      PROVE  i < j /\ c[i].n = c[j].n
  <2>1. CASE i \in DOMAIN a /\ j \in DOMAIN a
    BY <1>1, <1>5, <2>1 DEF Shown
  <2>2. CASE i \notin DOMAIN a /\ j \notin DOMAIN a
    <3>1. i - Len(a) < j - Len(a) /\ c[i].n = c[j].n
      BY <1>1, <1>5, <2>2 DEF Shown
    <3> QED
      BY <1>2, <3>1
  <2>3. CASE i \in DOMAIN a /\ j \notin DOMAIN a
    <3>1. c[i].n = c[j].n
      BY <1>1, <1>4, <1>5, <2>3 DEF Places
    <3> QED
      BY <1>2, <2>3, <3>1
  <2>4. CASE i \notin DOMAIN a /\ j \in DOMAIN a
    BY <1>1, <1>3, <1>5, <2>4 DEF Places
  <2> QED
    BY <2>1, <2>2, <2>3, <2>4
<1> QED
  BY <1>5 DEF Shown, c

\* The keys of a list that is written out.
KeyOf(u, e) == IF u.event = e THEN {<<u.turn, u.n, u.name>>} ELSE {}

LEMMA KeysListed ==
  ASSUME NEW e
  PROVE  /\ ToolKeys(<<>>, e) = {}
         /\ \A u : ToolKeys(<<u>>, e) = KeyOf(u, e)
         /\ \A u, v : ToolKeys(<<u, v>>, e) = KeyOf(u, e) \cup KeyOf(v, e)
<1>1. ToolKeys(<<>>, e) = {}
  BY DEF ToolKeys, Places
<1>2. ASSUME NEW u
      PROVE  ToolKeys(<<u>>, e) = KeyOf(u, e)
  <2>1. DOMAIN <<u>> = {1} /\ <<u>>[1] = u
    OBVIOUS
  <2> QED
    BY <2>1 DEF ToolKeys, Places, KeyOf
<1>3. ASSUME NEW u, NEW v
      PROVE  ToolKeys(<<u, v>>, e) = KeyOf(u, e) \cup KeyOf(v, e)
  <2>1. DOMAIN <<u, v>> = {1, 2} /\ <<u, v>>[1] = u /\ <<u, v>>[2] = v
    OBVIOUS
  <2> QED
    BY <2>1 DEF ToolKeys, Places, KeyOf
<1> QED
  BY <1>1, <1>2, <1>3

LEMMA KeysOfThree ==
  ASSUME NEW u, NEW v, NEW w, NEW e
  PROVE  ToolKeys(<<u, v, w>>, e) = KeyOf(u, e) \cup KeyOf(v, e) \cup KeyOf(w, e)
<1>1. /\ DOMAIN <<u, v, w>> = {1, 2, 3}
      /\ <<u, v, w>>[1] = u /\ <<u, v, w>>[2] = v /\ <<u, v, w>>[3] = w
  OBVIOUS
<1> QED
  BY <1>1 DEF ToolKeys, Places, KeyOf

\* What the lists of this run are made of.
LEMMA EventsTyped ==
  ASSUME RunTyped, NEW e \in EventKinds
  PROVE  /\ Event(e) \in Ev /\ Event(e).event = e /\ Event(e).turn = turn
         /\ Attempted(e) \in Ev /\ Attempted(e).event = e /\ Attempted(e).turn = turn
         /\ Attempted(e).n = attempt
         /\ \A i \in 1..Len(batch), ok \in BOOLEAN :
              /\ OfCall(e, i, ok) \in Ev /\ OfCall(e, i, ok).event = e
              /\ OfCall(e, i, ok).turn = turn /\ OfCall(e, i, ok).n = i
              /\ OfCall(e, i, ok).name = batch[i]
<1>1. turn \in Nat /\ attempt \in Nat
  BY TraceAssumption DEF RunTyped
<1>2. ASSUME NEW i \in 1..Len(batch)
      PROVE  batch[i] \in ToolNames /\ i \in Nat
  BY DEF RunTyped
<1>3. Event(e) \in Ev /\ Event(e).event = e /\ Event(e).turn = turn
  BY <1>1 DEF Event, EventOf, Ev
<1>4. /\ Attempted(e) \in Ev /\ Attempted(e).event = e /\ Attempted(e).turn = turn
      /\ Attempted(e).n = attempt
  BY <1>1, <1>3 DEF Attempted, Event, EventOf, Ev
<1>5. \A i \in 1..Len(batch), ok \in BOOLEAN :
              /\ OfCall(e, i, ok) \in Ev /\ OfCall(e, i, ok).event = e
              /\ OfCall(e, i, ok).turn = turn /\ OfCall(e, i, ok).n = i
              /\ OfCall(e, i, ok).name = batch[i]
  BY <1>1, <1>2 DEF OfCall, Ev
<1> QED
  BY <1>3, <1>4, <1>5

\* Every key of a list of events has a turn.
LEMMA KeysTyped ==
  ASSUME NEW s \in Seq(Ev), NEW e, NEW key \in ToolKeys(s, e)
  PROVE  key[1] \in Nat
<1>1. PICK i \in DOMAIN s : key = <<s[i].turn, s[i].n, s[i].name>>
  BY DEF ToolKeys, Places
<1>2. s[i] \in Ev
  OBVIOUS
<1> QED
  BY <1>1, <1>2 DEF Ev

-----------------------------------------------------------------------------
(***************************************************************************)
(* What a step that emits events does to each part of the invariant.       *)
(***************************************************************************)

\* The step adds these events, of the turn it leaves the run in.
Emitted(es) ==
  /\ es \in Seq(Ev) /\ events' = events \o es
  /\ \A e \in EventKinds : \A key \in ToolKeys(es, e) : key[1] = turn'
  /\ turn' \in {turn, turn + 1}

\* The run stays in the question, or comes to the next one, or fails.
StaysAsking ==
  /\ outcome = "raised" => outcome' = "raised"
  /\ pc \in Asking => (pc' \in Asking /\ turn' = turn) \/ outcome' = "raised"
  /\ pc' \in Asking =>
       \/ pc' = "context" /\ turn' = turn + 1
       \/ /\ turn' = turn /\ pc \in {"calling", "backoff"} /\ pc' # "context"
          /\ \/ attempt' = attempt /\ chunks' = chunks
             \/ pc = "backoff"

LEMMA EmittedEvents ==
  ASSUME RunInv, NEW es, Emitted(es)
  PROVE  /\ events' \in Seq(Ev) /\ Timely'
         /\ \A e : ToolKeys(events, e)' = ToolKeys(events, e) \cup ToolKeys(es, e)
<1>1. events \in Seq(Ev) /\ turn \in Nat
  BY TraceAssumption DEF RunInv, RunTyped
<1>2. \A e : ToolKeys(events, e)' = ToolKeys(events, e) \cup ToolKeys(es, e)
  BY <1>1, EventsJoined DEF Emitted
<1>3. ASSUME NEW e \in EventKinds, NEW key \in ToolKeys(events, e)'
      PROVE  key[1] <= turn'
  <2>1. CASE key \in ToolKeys(events, e)
    <3>1. key[1] \in Nat /\ key[1] <= turn
      BY <1>1, <2>1, KeysTyped DEF RunInv, Timely
    <3> QED
      BY <1>1, <3>1 DEF Emitted
  <2>2. CASE key \in ToolKeys(es, e)
    <3>1. turn' \in Nat /\ key[1] = turn'
      BY <1>1, <2>2 DEF Emitted
    <3> QED
      BY <3>1
  <2> QED
    BY <1>2, <1>3, <2>1, <2>2
<1>4. events' \in Seq(Ev)
  BY <1>1 DEF Emitted
<1> QED
  BY <1>2, <1>3, <1>4 DEF Timely

LEMMA QuestionsKept ==
  ASSUME RunInv, NEW es, Emitted(es), StaysAsking,
         \A e \in {"llm_start", "llm_end"} : ToolKeys(es, e) = {}
  PROVE  Questions'
<1>1. events \in Seq(Ev) /\ turn \in Nat
  BY TraceAssumption DEF RunInv, RunTyped
<1>2. \A e \in {"llm_start", "llm_end"} : ToolKeys(events, e)' = ToolKeys(events, e)
  BY EmittedEvents
<1>3. Once(events, "llm_start")' /\ Once(events, "llm_end")'
  <2>1. ASSUME NEW e \in {"llm_start", "llm_end"}
        PROVE  Once(events, e)'
    <3>1. Once(es, e)
      BY <2>1 DEF Once, ToolKeys
    <3> QED
      BY <1>1, <2>1, <3>1, OnceJoined DEF Emitted, RunInv, Questions
  <2> QED
    BY <2>1
<1>4. \A e \in {"llm_start", "llm_end"} : \A key \in ToolKeys(events, e) : key[1] < turn + 1
  <2>1. \A e \in {"llm_start", "llm_end"} : \A key \in ToolKeys(events, e) : key[1] <= turn
    BY DEF RunInv, Timely, EventKinds
  <2> QED
    BY <1>1, <2>1, KeysTyped
<1>5. (pc' = "context" => ~ Had(events, "llm_start", turn)') /\ (pc' \in Asking => ~ Had(events, "llm_end", turn)')
  <2>1. CASE turn' = turn + 1
    BY <1>1, <1>2, <1>4, <2>1 DEF Had
  <2>2. CASE turn' = turn /\ pc \in Asking /\ pc' # "context"
    BY <1>2, <2>2 DEF Had, RunInv, Questions
  <2>3. CASE pc' \notin Asking
    BY <2>3 DEF Asking
  <2> QED
    BY <2>1, <2>2, <2>3 DEF StaysAsking, Asking
<1>6. ASSUME NEW key \in ToolKeys(events, "llm_start")'
      PROVE  Had(events, "llm_end", key[1])' \/ (pc' \in Asking /\ key[1] = turn') \/ outcome' = "raised"
  <2>1. \/ Had(events, "llm_end", key[1])
        \/ pc \in Asking /\ key[1] = turn
        \/ outcome = "raised"
    BY <1>2, <1>6 DEF RunInv, Questions
  <2> QED
    BY <1>2, <2>1 DEF Had, StaysAsking
<1> QED
  BY <1>3, <1>5, <1>6 DEF Questions

LEMMA TokensKept ==
  ASSUME RunInv, NEW es, Emitted(es), StaysAsking, stream' = stream,
         \A e \in {"llm_token", "llm_end"} : ToolKeys(es, e) = {}
  PROVE  Tokens'
<1>1. events \in Seq(Ev) /\ turn \in Nat /\ es \in Seq(Ev) /\ events' = events \o es
  BY TraceAssumption DEF RunInv, RunTyped, Emitted
<1>2. ToolKeys(events, "llm_token")' = ToolKeys(events, "llm_token")
  BY EmittedEvents
<1>3. ShownIsAnswer'
  <2>1. Shown(events) /\ Shown(es)
    BY DEF RunInv, Tokens, ShownIsAnswer, Shown, ToolKeys, Places
  <2>2. Shown(events')
    BY <1>1, <2>1, ShownJoined
  <2> QED
    BY <2>2 DEF ShownIsAnswer, Shown
<1>4. ASSUME NEW key \in ToolKeys(events, "llm_token"), key[1] = turn', pc' \in Asking
      PROVE  pc' # "context" /\ chunks' > 0 /\ key[2] = attempt'
  <2>1. key[1] \in Nat /\ key[1] <= turn
    BY <1>1, KeysTyped DEF RunInv, Timely, EventKinds
  <2>2. turn' = turn /\ pc \in {"calling", "backoff"} /\ pc' # "context"
        /\ ((attempt' = attempt /\ chunks' = chunks) \/ pc = "backoff")
    BY <1>1, <1>4, <2>1 DEF StaysAsking
  <2>3. stream /\ chunks > 0 /\ key[2] = attempt
    BY <1>4, <2>2 DEF RunInv, Tokens, Asking
  <2>4. pc # "backoff"
    BY <2>3 DEF RunInv, Placed, RunTyped
  <2> QED
    BY <2>2, <2>3, <2>4
<1> QED
  BY <1>2, <1>3, <1>4 DEF Tokens, RunInv

Calling == {"job", "acquiring", "running"}

LEMMA CallsKept ==
  ASSUME RunInv, NEW es, Emitted(es), outcome = "raised" => outcome' = "raised",
         \A key \in ToolKeys(es, "tool_call") :
           \/ key \in ToolKeys(es, "tool_result")
           \/ pc' \in Calling /\ key = <<turn', k', batch'[k']>>
           \/ outcome' = "raised",
         pc \in Calling => \/ <<turn, k, batch[k]>> \in ToolKeys(es, "tool_result")
                           \/ pc' \in Calling /\ UNCHANGED <<turn, k, batch>>
                           \/ outcome' = "raised"
  PROVE  Calls'
<1>1. /\ ToolKeys(events, "tool_call")' = ToolKeys(events, "tool_call") \cup ToolKeys(es, "tool_call")
      /\ ToolKeys(events, "tool_result")' = ToolKeys(events, "tool_result") \cup ToolKeys(es, "tool_result")
  BY EmittedEvents
<1> QED
  BY <1>1 DEF RunInv, Calls, Calling

LEMMA BoxesKept ==
  ASSUME RunInv, NEW es, Emitted(es),
         ToolKeys(es, "sandbox_acquired") = {} \/ (boxed' /\ pc' # "over"),
         pc' # "over" /\ ~ boxed' => pc # "over" /\ ~ boxed,
         pc' = "over" /\ outcome' = "ended" => ToolKeys(es, "end") # {},
         pc' = "over" /\ outcome' # "raised" =>
           (pc # "over" /\ ~ boxed) \/ ToolKeys(es, "sandbox_released") # {}
  PROVE  Boxes' /\ EndSaid'
<1>1. \A e : ToolKeys(events, e)' = ToolKeys(events, e) \cup ToolKeys(es, e)
  BY EmittedEvents
<1> QED
  BY <1>1 DEF RunInv, Boxes, EndSaid

-----------------------------------------------------------------------------
(***************************************************************************)
(* The steps of a run.                                                     *)
(***************************************************************************)

\* The kinds of event that the invariant counts on not to come unexpected.
Marked == {"llm_start", "llm_end", "llm_token", "tool_call", "sandbox_acquired"}

\* The events of a call and its result, in the forms the loop emits them.
LEMMA CallEvents ==
  ASSUME RunTyped, NEW i \in 1..Len(batch), NEW ok \in BOOLEAN
  PROVE  LET made == <<OfCall("tool_call", i, TRUE)>>
             here == <<turn, i, batch[i]>>
         IN /\ made \in Seq(Ev) /\ Result(i, ok) \in Seq(Ev) /\ made \o Result(i, ok) \in Seq(Ev)
            /\ \A e : ToolKeys(made, e) = IF e = "tool_call" THEN {here} ELSE {}
            /\ \A e : e # "checkpoint_saved" =>
                 ToolKeys(Result(i, ok), e) = IF e = "tool_result" THEN {here} ELSE {}
            /\ \A e : e # "checkpoint_saved" =>
                 ToolKeys(made \o Result(i, ok), e) = IF e \in {"tool_call", "tool_result"} THEN {here} ELSE {}
            /\ \A e : \A key \in ToolKeys(Result(i, ok), e) : key[1] = turn
            /\ \A e : \A key \in ToolKeys(made \o Result(i, ok), e) : key[1] = turn
<1> DEFINE c == OfCall("tool_call", i, TRUE)
           s == Event("checkpoint_saved")
           r == OfCall("tool_result", i, ok)
           here == <<turn, i, batch[i]>>
<1>1. /\ c \in Ev /\ c.event = "tool_call" /\ <<c.turn, c.n, c.name>> = here
      /\ r \in Ev /\ r.event = "tool_result" /\ <<r.turn, r.n, r.name>> = here
      /\ s \in Ev /\ s.event = "checkpoint_saved" /\ s.turn = turn
  <2>1. {"tool_call", "tool_result", "checkpoint_saved"} \subseteq EventKinds
    BY DEF EventKinds
  <2>2. c \in Ev /\ c.event = "tool_call" /\ <<c.turn, c.n, c.name>> = here
    BY <2>1, EventsTyped
  <2>3. r \in Ev /\ r.event = "tool_result" /\ <<r.turn, r.n, r.name>> = here
    BY <2>1, EventsTyped
  <2>4. s \in Ev /\ s.event = "checkpoint_saved" /\ s.turn = turn
    BY <2>1, EventsTyped
  <2> QED
    BY <2>2, <2>3, <2>4
<1>2. Result(i, ok) = <<s, r>>
  BY DEF Result
<1> HIDE DEF c, s, r, here
<1>3. \A e : ToolKeys(<<c>>, e) = IF e = "tool_call" THEN {here} ELSE {}
  <2> TAKE e
  <2>1. ToolKeys(<<c>>, e) = KeyOf(c, e)
    BY KeysListed
  <2> QED
    BY <1>1, <2>1 DEF KeyOf
<1>4. \A e : ToolKeys(<<s, r>>, e) = KeyOf(s, e) \cup IF e = "tool_result" THEN {here} ELSE {}
  <2> TAKE e
  <2>1. ToolKeys(<<s, r>>, e) = KeyOf(s, e) \cup KeyOf(r, e)
    BY KeysListed
  <2> QED
    BY <1>1, <2>1 DEF KeyOf
<1>5. \A e : e # "checkpoint_saved" => KeyOf(s, e) = {}
  BY <1>1 DEF KeyOf
<1>6. \A e : \A key \in KeyOf(s, e) : key[1] = turn
  BY <1>1 DEF KeyOf
<1>7. <<c>> \in Seq(Ev) /\ <<s, r>> \in Seq(Ev) /\ <<c>> \o <<s, r>> \in Seq(Ev)
  BY <1>1
<1>8. \A e : ToolKeys(<<c>> \o <<s, r>>, e) = ToolKeys(<<c>>, e) \cup ToolKeys(<<s, r>>, e)
  BY <1>7, EventsJoined
<1>9. here[1] = turn
  BY DEF here
<1>10. /\ \A e : \A key \in ToolKeys(<<s, r>>, e) : key[1] = turn
       /\ \A e : \A key \in ToolKeys(<<c>> \o <<s, r>>, e) : key[1] = turn
  BY <1>3, <1>4, <1>6, <1>8, <1>9
<1>11. \A e : e # "checkpoint_saved" =>
         ToolKeys(<<s, r>>, e) = IF e = "tool_result" THEN {here} ELSE {}
  BY <1>4, <1>5
<1>12. \A e : e # "checkpoint_saved" =>
         ToolKeys(<<c>> \o <<s, r>>, e) = IF e \in {"tool_call", "tool_result"} THEN {here} ELSE {}
  BY <1>3, <1>8, <1>11
<1> QED
  BY <1>2, <1>3, <1>7, <1>10, <1>11, <1>12 DEF c, here

\* All that are skipped have their result (loop.py, agent_loop).
LEMMA SkippedEvents ==
  ASSUME RunTyped
  PROVE  LET all == AllSkipped(Len(batch))
         IN /\ all \in Seq(Ev)
            /\ \A e : \A key \in ToolKeys(all, e) : key[1] = turn
            /\ \A e \in {"llm_start", "llm_end", "llm_token", "sandbox_acquired"} : ToolKeys(all, e) = {}
            /\ ToolKeys(all, "tool_call") \subseteq ToolKeys(all, "tool_result")
            /\ DOMAIN all = 1..(3 * Len(batch))
            /\ \A p \in DOMAIN all :
                 \/ (p - 1) % 3 = 0 /\ all[p].event = "tool_call"
                 \/ (p - 1) % 3 = 1 /\ all[p].event = "checkpoint_saved"
                 \/ (p - 1) % 3 = 2 /\ all[p].event = "tool_result" /\ ~ all[p].ok
<1> DEFINE n == Len(batch)
           all == AllSkipped(n)
           I(p) == (p + 2) \div 3
           call(i) == OfCall("tool_call", i, TRUE)
           save == Event("checkpoint_saved")
           res(i) == OfCall("tool_result", i, FALSE)
<1>1. n \in Nat
  BY DEF RunTyped
<1>2. \A p \in 1..(3 * n) : I(p) \in 1..n /\ (p - 1) % 3 \in 0..2
  BY <1>1
<1>3. ASSUME NEW p \in 1..(3 * n)
      PROVE  all[p] = IF (p - 1) % 3 = 0 THEN call(I(p))
                      ELSE IF (p - 1) % 3 = 1 THEN save ELSE res(I(p))
  <2>1. all[p] = Skipped(I(p))[1 + ((p - 1) % 3)]
    BY DEF AllSkipped
  <2>2. \A i : Skipped(i) = <<call(i), save, res(i)>>
    <3> TAKE i
    <3> DEFINE c == call(i)
               s == save
               r == res(i)
    <3>1. Skipped(i) = <<c>> \o <<s, r>>
      BY DEF Skipped, Result
    <3> HIDE DEF c, s, r
    <3>2. <<c>> \o <<s, r>> = <<c, s, r>>
      <4> DEFINE S == {c, s, r}
                 x == <<c>> \o <<s, r>>
                 y == <<c, s, r>>
      <4>1. <<c>> \in Seq(S) /\ <<s, r>> \in Seq(S) /\ y \in Seq(S) /\ x \in Seq(S)
        OBVIOUS
      <4>2. /\ Len(x) = 3 /\ x[1] = c /\ x[2] = s /\ x[3] = r
            /\ Len(y) = 3 /\ y[1] = c /\ y[2] = s /\ y[3] = r
        BY <4>1
      <4> HIDE DEF x, y
      <4>3. x = y
        BY <4>1, <4>2, SeqEqual
      <4> QED
        BY <4>3 DEF x, y
    <3> QED
      BY <3>1, <3>2 DEF c, s, r
  <2>3. (p - 1) % 3 \in {0, 1, 2}
    BY <1>2
  <2> HIDE DEF all, call, save, res
  <2>4. all[p] = <<call(I(p)), save, res(I(p))>>[1 + ((p - 1) % 3)]
    BY <2>1, <2>2
  <2> QED
    BY <2>3, <2>4
<1>4. ASSUME NEW i \in 1..n
      PROVE  /\ call(i) \in Ev /\ call(i).event = "tool_call"
             /\ res(i) \in Ev /\ res(i).event = "tool_result"
             /\ <<call(i).turn, call(i).n, call(i).name>> = <<res(i).turn, res(i).n, res(i).name>>
             /\ call(i).turn = turn /\ res(i).turn = turn
  <2>1. {"tool_call", "tool_result"} \subseteq EventKinds /\ i \in 1..Len(batch)
    BY <1>4 DEF EventKinds
  <2>2. /\ call(i) \in Ev /\ call(i).event = "tool_call" /\ call(i).turn = turn
        /\ call(i).n = i /\ call(i).name = batch[i]
    BY <2>1, EventsTyped
  <2>3. /\ res(i) \in Ev /\ res(i).event = "tool_result" /\ res(i).turn = turn
        /\ res(i).n = i /\ res(i).name = batch[i]
    BY <2>1, EventsTyped
  <2> HIDE DEF call, res
  <2> QED
    BY <2>2, <2>3
<1>5. save \in Ev /\ save.event = "checkpoint_saved" /\ save.turn = turn
  BY EventsTyped DEF EventKinds
<1>14. \A i : ~ res(i).ok
  BY DEF OfCall
<1>6. DOMAIN all = 1..(3 * n) /\ all = [p \in 1..(3 * n) |-> all[p]]
  BY DEF AllSkipped
<1> HIDE DEF all, call, save, res, n
<1>7. \A p \in 1..(3 * n) : all[p] \in Ev /\ all[p].turn = turn
                            /\ all[p].event \in {"tool_call", "checkpoint_saved", "tool_result"}
  BY <1>2, <1>3, <1>4, <1>5
<1>8. all \in Seq(Ev)
  <2>1. 3 * n \in Nat
    BY <1>1
  <2> QED
    BY <1>6, <1>7, <2>1
<1>9. \A e : \A key \in ToolKeys(all, e) : key[1] = turn
  BY <1>6, <1>7 DEF ToolKeys, Places
<1>10. \A e \in {"llm_start", "llm_end", "llm_token", "sandbox_acquired"} : ToolKeys(all, e) = {}
  BY <1>6, <1>7 DEF ToolKeys, Places
<1>11. ASSUME NEW p \in 1..(3 * n), all[p].event = "tool_call"
       PROVE  /\ p + 2 \in 1..(3 * n) /\ all[p + 2].event = "tool_result"
              /\ <<all[p + 2].turn, all[p + 2].n, all[p + 2].name>> = <<all[p].turn, all[p].n, all[p].name>>
  <2>1. (p - 1) % 3 = 0
    BY <1>2, <1>3, <1>4, <1>5, <1>11
  <2>2. p + 2 \in 1..(3 * n) /\ I(p + 2) = I(p) /\ (p + 2 - 1) % 3 = 2
    BY <1>1, <2>1
  <2>3. all[p] = call(I(p)) /\ all[p + 2] = res(I(p))
    BY <1>3, <2>1, <2>2
  <2> QED
    BY <1>2, <1>4, <2>2, <2>3
<1>12. ToolKeys(all, "tool_call") \subseteq ToolKeys(all, "tool_result")
  BY <1>6, <1>11 DEF ToolKeys, Places
<1>13. \A p \in DOMAIN all :
         \/ (p - 1) % 3 = 0 /\ all[p].event = "tool_call"
         \/ (p - 1) % 3 = 1 /\ all[p].event = "checkpoint_saved"
         \/ (p - 1) % 3 = 2 /\ all[p].event = "tool_result" /\ ~ all[p].ok
  BY <1>2, <1>3, <1>4, <1>5, <1>6, <1>14
<1> QED
  BY <1>6, <1>8, <1>9, <1>10, <1>12, <1>13 DEF all, n

\* A step that asks and calls nothing.
LEMMA QuietInv ==
  ASSUME RunInv, NEW es, Emitted(es), \A e \in Marked : ToolKeys(es, e) = {},
         stream' = stream, StaysAsking,
         pc \in Calling => outcome' = "raised",
         turn' \in 0..MaxTurns, attempt' \in Nat, chunks' \in Nat, batch' = batch, Placed',
         pc' # "over" /\ ~ boxed' => pc # "over" /\ ~ boxed,
         pc' = "over" /\ outcome' = "ended" => ToolKeys(es, "end") # {},
         pc' = "over" /\ outcome' # "raised" =>
           (pc # "over" /\ ~ boxed) \/ ToolKeys(es, "sandbox_released") # {}
  PROVE  RunInv'
<1>1. events' \in Seq(Ev) /\ Timely'
  BY EmittedEvents
<1>2. RunTyped'
  BY <1>1 DEF RunInv, RunTyped
<1>3. Questions'
  BY QuestionsKept DEF Marked
<1>4. Tokens'
  BY TokensKept DEF Marked
<1>5. Calls'
  BY CallsKept DEF Marked, StaysAsking
<1>6. Boxes' /\ EndSaid'
  BY BoxesKept DEF Marked
<1> QED
  BY <1>1, <1>2, <1>3, <1>4, <1>5, <1>6 DEF RunInv

\* A step that leaves the run, with a release to come or without.
LEMMA LeaveInv ==
  ASSUME RunInv, NEW es \in Seq(Ev), NEW how \in {"ended", "waiting", "raised"}, Leave(es, how),
         pc \notin {"releasing", "over"}, pc \in Asking \cup Calling => how = "raised",
         \A e : \A key \in ToolKeys(es, e) : key[1] = turn,
         \A e \in Marked \ {"tool_call"} : ToolKeys(es, e) = {},
         how # "raised" => ToolKeys(es, "tool_call") \subseteq ToolKeys(es, "tool_result")
  PROVE  RunInv'
<1> DEFINE tail == IF boxed THEN <<>> ELSE End
           all == es \o tail
<1>0. pc' = (IF boxed THEN "releasing" ELSE "over") /\ outcome' = how /\ outcome = "none"
      /\ UNCHANGED <<stream, turn, attempt, chunks, batch, k, boxed>>
  BY DEF Leave, locals, RunInv, Placed
<1>1. /\ tail \in Seq(Ev)
      /\ \A e : \A key \in ToolKeys(tail, e) : key[1] = turn
      /\ \A e \in Marked : ToolKeys(tail, e) = {}
      /\ how = "ended" /\ ~ boxed => ToolKeys(tail, "end") # {}
  <2>1. Event("end") \in Ev /\ Event("end").event = "end" /\ Event("end").turn = turn
    BY EventsTyped DEF RunInv, EventKinds
  <2>2. tail \in {<<>>, <<Event("end")>>} /\ (how = "ended" /\ ~ boxed => tail = <<Event("end")>>)
    BY <1>0 DEF End
  <2> HIDE DEF tail
  <2>3. tail \in Seq(Ev)
    <3>1. <<>> \in Seq(Ev) /\ \A u \in Ev : <<u>> \in Seq(Ev)
      OBVIOUS
    <3> QED
      BY <2>1, <2>2, <3>1
  <2>4. \A e : ToolKeys(tail, e) \subseteq KeyOf(Event("end"), e)
    BY <2>2, KeysListed
  <2>5. \A e : \A key \in ToolKeys(tail, e) : key[1] = turn
    BY <2>1, <2>4 DEF KeyOf
  <2>6. \A e \in Marked : ToolKeys(tail, e) = {}
    BY <2>1, <2>4 DEF KeyOf, Marked
  <2>7. KeyOf(Event("end"), "end") # {}
    BY <2>1 DEF KeyOf
  <2>8. how = "ended" /\ ~ boxed => ToolKeys(tail, "end") # {}
    BY <2>2, <2>7, KeysListed
  <2> QED
    BY <2>3, <2>5, <2>6, <2>8
<1>2. events' = (events \o es) \o tail
  BY DEF Leave
<1> HIDE DEF tail
<1>3. events' = events \o all /\ all \in Seq(Ev)
  BY <1>1, <1>2, ConcatAssociative DEF RunInv, RunTyped
<1>4. \A e : ToolKeys(all, e) = ToolKeys(es, e) \cup ToolKeys(tail, e)
  BY <1>1, EventsJoined
<1> HIDE DEF all
<1>5. Emitted(all)
  BY <1>0, <1>1, <1>3, <1>4 DEF Emitted
<1>6. StaysAsking /\ pc' \notin Asking /\ pc' \notin Calling
  BY <1>0 DEF StaysAsking, Asking, Calling
<1>7. Placed'
  BY <1>0 DEF Placed
<1>8. events' \in Seq(Ev) /\ Timely'
  BY <1>5, EmittedEvents
<1>9. RunTyped'
  BY <1>0, <1>8 DEF RunInv, RunTyped
<1>10. Questions'
  BY <1>1, <1>4, <1>5, <1>6, QuestionsKept DEF Marked
<1>11. Tokens'
  BY <1>0, <1>1, <1>4, <1>5, <1>6, TokensKept DEF Marked
<1>12. Calls'
  BY <1>0, <1>1, <1>4, <1>5, CallsKept DEF Marked
<1>13. Boxes' /\ EndSaid'
  BY <1>0, <1>1, <1>4, <1>5, BoxesKept DEF Marked
<1> QED
  BY <1>7, <1>8, <1>9, <1>10, <1>11, <1>12, <1>13 DEF RunInv

\* The list of one or two events that is emitted.
LEMMA ListEmitted ==
  ASSUME RunInv, turn' \in {turn, turn + 1}, NEW u \in Ev, NEW v \in Ev, u.turn = turn', v.turn = turn'
  PROVE  /\ events' = events \o <<u>> => Emitted(<<u>>)
         /\ events' = events \o <<u, v>> => Emitted(<<u, v>>)
<1>1. <<u>> \in Seq(Ev) /\ <<u, v>> \in Seq(Ev)
  OBVIOUS
<1>2. \A e : /\ ToolKeys(<<u>>, e) = KeyOf(u, e)
             /\ ToolKeys(<<u, v>>, e) = KeyOf(u, e) \cup KeyOf(v, e)
  BY KeysListed
<1>3. \A e : \A key \in KeyOf(u, e) \cup KeyOf(v, e) : key[1] = turn'
  BY DEF KeyOf
<1> QED
  BY <1>1, <1>2, <1>3 DEF Emitted

\* A step without an event.
LEMMA NoneEmitted ==
  ASSUME RunInv, UNCHANGED <<turn, events>>
  PROVE  Emitted(<<>>)
<1>1. <<>> \in Seq(Ev) /\ events = events \o <<>>
  BY DEF RunInv, RunTyped
<1> QED
  BY <1>1, KeysListed DEF Emitted

\* A call that has its result.
LEMMA NextCallInv ==
  ASSUME RunInv, pc \in {"tool", "job", "acquiring", "running"}, NEW ok \in BOOLEAN,
         NEW es, es = <<>> \/ es = CallMade, NextCall(es, ok), boxed' = boxed
  PROVE  RunInv'
<1>1. /\ events' = events \o (es \o Result(k, ok)) /\ k' = k + 1
      /\ pc' = IF k < Len(batch) THEN "tool" ELSE "endturn"
      /\ UNCHANGED <<stream, outcome, turn, attempt, chunks, batch>>
  BY DEF NextCall, Emit
<1>2. k \in 1..Len(batch) /\ Len(batch) \in Nat /\ outcome = "none"
  BY DEF RunInv, Placed, RunTyped
<1> DEFINE all == es \o Result(k, ok)
           here == <<turn, k, batch[k]>>
<1>3. /\ all \in Seq(Ev)
      /\ \A e : \A key \in ToolKeys(all, e) : key[1] = turn
      /\ \A e \in {"llm_start", "llm_end", "llm_token", "sandbox_acquired"} : ToolKeys(all, e) = {}
      /\ ToolKeys(all, "tool_call") \subseteq {here} /\ ToolKeys(all, "tool_result") = {here}
  <2>1. CASE es = CallMade
    BY <1>2, <2>1, CallEvents DEF RunInv, CallMade
  <2>2. CASE es = <<>>
    <3>1. Result(k, ok) \in Seq(Ev)
      BY <1>2, CallEvents DEF RunInv
    <3>2. all = Result(k, ok)
      BY <2>2, <3>1
    <3> QED
      BY <1>2, <3>2, CallEvents DEF RunInv
  <2> QED
    BY <2>1, <2>2
<1> HIDE DEF all
<1>4. Emitted(all)
  BY <1>1, <1>3 DEF Emitted, all
<1>5. StaysAsking
  BY <1>1 DEF StaysAsking, Asking
<1>6. Placed'
  <2>1. pc' = "tool" => k' \in 1..Len(batch)
    BY <1>1, <1>2
  <2> QED
    BY <1>1, <1>2, <2>1 DEF Placed, RunInv
<1>7. events' \in Seq(Ev) /\ Timely'
  BY <1>4, EmittedEvents
<1>8. RunTyped'
  BY <1>1, <1>7 DEF RunInv, RunTyped
<1>9. Questions'
  BY <1>3, <1>4, <1>5, QuestionsKept
<1>10. Tokens'
  BY <1>1, <1>3, <1>4, <1>5, TokensKept
<1>11. Calls'
  BY <1>1, <1>3, <1>4, CallsKept
<1>12. Boxes' /\ EndSaid'
  BY <1>1, <1>3, <1>4, BoxesKept
<1> QED
  BY <1>6, <1>7, <1>8, <1>9, <1>10, <1>11, <1>12 DEF RunInv

\* A run that begins, or of which nothing is left.
LEMMA ResetInv ==
  ASSUME pc' \in {"turn", "idle"}, outcome' = "none", turn' = 0, LocalsReset, events' = <<>>
  PROVE  RunInv'
<1>1. \A e : ToolKeys(events', e) = {} /\ Places(events', e) = {}
  BY KeysListed DEF Places
<1>2. RunTyped'
  <2>1. batch' \in Seq(ToolNames) /\ Len(batch') = 0 /\ events' \in Seq(Ev)
    BY DEF LocalsReset
  <2> QED
    BY <2>1, TraceAssumption DEF RunTyped, LocalsReset
<1>3. Placed'
  BY TraceAssumption DEF Placed, LocalsReset
<1>4. Timely' /\ Calls' /\ Boxes' /\ EndSaid'
  BY <1>1 DEF Timely, Calls, Boxes, EndSaid
<1>5. Questions'
  BY <1>1 DEF Questions, Once, Had, Asking
<1>6. Tokens'
  BY <1>1 DEF Tokens, ShownIsAnswer
<1> QED
  BY <1>2, <1>3, <1>4, <1>5, <1>6 DEF RunInv

\* A turn that begins.
LEMMA BeginTurnInv == RunInv /\ BeginTurn => RunInv'
<1> SUFFICES ASSUME RunInv, BeginTurn PROVE RunInv'
  OBVIOUS
<1> DEFINE u == EventOf("turn_start", turn + 1)
<1>1. /\ pc = "turn" /\ pc' = "context" /\ turn' = turn + 1 /\ events' = events \o <<u>>
      /\ UNCHANGED <<stream, outcome, attempt, chunks, batch, k, boxed>>
  BY DEF BeginTurn, locals, Emit
<1>2. turn \in Nat /\ turn + 1 \in 1..MaxTurns /\ outcome = "none"
  BY <1>1, TraceAssumption DEF RunInv, RunTyped, Placed
<1>3. u \in Ev /\ u.event = "turn_start" /\ u.turn = turn'
  <2>1. u = [event |-> "turn_start", turn |-> turn + 1, n |-> 0, name |-> "", ok |-> TRUE]
    BY DEF EventOf
  <2> HIDE DEF u
  <2>2. turn + 1 \in Nat /\ "turn_start" \in EventKinds
    BY <1>2 DEF EventKinds
  <2> QED
    BY <1>1, <2>1, <2>2 DEF Ev
<1> HIDE DEF u
<1>4. Emitted(<<u>>)
  BY <1>1, <1>2, <1>3, ListEmitted
<1>5. \A e \in Marked : ToolKeys(<<u>>, e) = {}
  BY <1>3, KeysListed DEF KeyOf, Marked
<1>6. StaysAsking /\ Placed'
  BY <1>1, <1>2 DEF StaysAsking, Asking, Placed
<1>7. attempt' \in Nat /\ chunks' \in Nat
  BY <1>1 DEF RunInv, RunTyped
<1> QED
  BY <1>1, <1>2, <1>4, <1>5, <1>6, <1>7, QuietInv DEF Calling

\* The context is there: the question is asked.
LEMMA ContextLoadedInv == RunInv /\ ContextLoaded => RunInv'
<1> SUFFICES ASSUME RunInv, ContextLoaded PROVE RunInv'
  OBVIOUS
<1> DEFINE u == Event("context_loaded")
           v == Event("llm_start")
           es == <<u, v>>
<1>1. /\ pc = "context" /\ pc' = "calling" /\ attempt' = 1 /\ chunks' = 0 /\ events' = events \o es
      /\ UNCHANGED <<stream, outcome, turn, batch, k, boxed>>
  BY DEF ContextLoaded, Emit
<1>2. outcome = "none"
  BY <1>1 DEF RunInv, Placed
<1>3. /\ u \in Ev /\ u.event = "context_loaded" /\ u.turn = turn
      /\ v \in Ev /\ v.event = "llm_start" /\ v.turn = turn
  BY EventsTyped DEF RunInv, EventKinds
<1> HIDE DEF u, v
<1>4. Emitted(es)
  BY <1>1, <1>3, ListEmitted
<1>5. /\ \A e : e \notin {"context_loaded", "llm_start"} => ToolKeys(es, e) = {}
      /\ ToolKeys(es, "llm_start") = {<<v.turn, v.n, v.name>>}
  <2>1. \A e : ToolKeys(es, e) = KeyOf(u, e) \cup KeyOf(v, e)
    BY KeysListed
  <2> QED
    BY <1>3, <2>1 DEF KeyOf
<1>6. <<v.turn, v.n, v.name>>[1] = turn /\ es \in Seq(Ev) /\ events \in Seq(Ev)
  BY <1>3 DEF RunInv, RunTyped
<1>7. events' \in Seq(Ev) /\ Timely' /\ \A e : ToolKeys(events, e)' = ToolKeys(events, e) \cup ToolKeys(es, e)
  BY <1>4, EmittedEvents
<1>8. Once(es, "llm_start") /\ Once(es, "llm_end")
  <2>1. Places(es, "llm_start") = {2} /\ Places(es, "llm_end") = {}
    BY <1>3 DEF Places
  <2> QED
    BY <2>1 DEF Once
<1> HIDE DEF es
<1>9. Shown(es)
  <2>1. ToolKeys(es, "llm_token") = {}
    BY <1>5
  <2>2. Places(es, "llm_token") = {}
    BY <2>1 DEF ToolKeys
  <2> QED
    BY <2>2 DEF Shown, Places
<1>10. ~ Had(events, "llm_start", turn) /\ ~ Had(events, "llm_end", turn)
  BY <1>1 DEF RunInv, Questions, Asking
<1>11. Once(events, "llm_start")' /\ Once(events, "llm_end")'
  <2>1. \A x \in ToolKeys(events, "llm_start") : \A y \in ToolKeys(es, "llm_start") : x[1] # y[1]
    BY <1>5, <1>6, <1>10 DEF Had
  <2>2. Once(events, "llm_start") /\ Once(events, "llm_end")
    BY DEF RunInv, Questions
  <2>3. Once(events \o es, "llm_start")
    BY <1>6, <1>8, <2>1, <2>2, OnceJoined
  <2>4. Once(events \o es, "llm_end")
    BY <1>5, <1>6, <1>8, <2>2, OnceJoined
  <2> QED
    BY <1>1, <2>3, <2>4
<1>12. Questions'
  <2>1. ~ Had(events, "llm_end", turn)'
    BY <1>1, <1>5, <1>7, <1>10 DEF Had
  <2>2. \A key \in ToolKeys(events, "llm_start") :
          Had(events, "llm_end", key[1]) \/ key[1] = turn
    BY <1>2 DEF RunInv, Questions
  <2>3. \A t : Had(events, "llm_end", t) => Had(events, "llm_end", t)'
    BY <1>7 DEF Had
  <2> QED
    BY <1>1, <1>5, <1>6, <1>7, <1>11, <2>1, <2>2, <2>3 DEF Questions, Asking
<1>13. Tokens'
  <2>1. Shown(events)
    BY DEF RunInv, Tokens, ShownIsAnswer, Shown
  <2>2. Shown(events \o es)
    BY <1>5, <1>6, <1>9, <2>1, ShownJoined
  <2>3. ShownIsAnswer'
    BY <1>1, <2>2 DEF ShownIsAnswer, Shown
  <2>4. \A key \in ToolKeys(events, "llm_token") : stream /\ key[1] # turn
    BY <1>1 DEF RunInv, Tokens, Asking
  <2> QED
    BY <1>1, <1>5, <1>7, <2>3, <2>4 DEF Tokens
<1>14. Calls'
  BY <1>1, <1>4, <1>5, CallsKept DEF Calling
<1>15. Boxes' /\ EndSaid'
  BY <1>1, <1>4, <1>5, BoxesKept
<1>16. RunTyped'
  BY <1>1, <1>7 DEF RunInv, RunTyped
<1>17. Placed'
  BY <1>1, <1>2 DEF RunInv, Placed
<1> QED
  BY <1>7, <1>12, <1>13, <1>14, <1>15, <1>16, <1>17 DEF RunInv

\* A chunk of text.
LEMMA ChunkInv == RunInv /\ Chunk => RunInv'
<1> SUFFICES ASSUME RunInv, Chunk PROVE RunInv'
  OBVIOUS
<1> DEFINE u == Attempted("llm_token")
           es == <<u>>
           here == <<u.turn, u.n, u.name>>
<1>1. /\ pc = "calling" /\ pc' = "calling" /\ stream /\ chunks' = chunks + 1 /\ events' = events \o es
      /\ UNCHANGED <<stream, outcome, turn, attempt, batch, k, boxed>>
  BY DEF Chunk, Emit
<1>2. outcome = "none"
  BY <1>1 DEF RunInv, Placed
<1>3. u \in Ev /\ u.event = "llm_token" /\ u.turn = turn /\ u.n = attempt
  BY EventsTyped DEF RunInv, EventKinds
<1> HIDE DEF u
<1>4. Emitted(es)
  BY <1>1, <1>3, ListEmitted
<1>5. \A e : ToolKeys(es, e) = IF e = "llm_token" THEN {here} ELSE {}
  <2>1. \A e : ToolKeys(es, e) = KeyOf(u, e)
    BY KeysListed
  <2> QED
    BY <1>3, <2>1 DEF KeyOf
<1>6. here[1] = turn /\ here[2] = attempt /\ es \in Seq(Ev) /\ events \in Seq(Ev)
  BY <1>3 DEF RunInv, RunTyped
<1> HIDE DEF es, here
<1>7. events' \in Seq(Ev) /\ Timely' /\ \A e : ToolKeys(events, e)' = ToolKeys(events, e) \cup ToolKeys(es, e)
  BY <1>4, EmittedEvents
<1>8. Questions'
  <2>1. Once(es, "llm_start") /\ Once(es, "llm_end")
    <3>1. ToolKeys(es, "llm_start") = {} /\ ToolKeys(es, "llm_end") = {}
      BY <1>5
    <3>2. Places(es, "llm_start") = {} /\ Places(es, "llm_end") = {}
      BY <3>1 DEF ToolKeys
    <3> QED
      BY <3>2 DEF Once
  <2>2. Once(events, "llm_start") /\ Once(events, "llm_end")
    BY DEF RunInv, Questions
  <2>3. Once(events, "llm_start")' /\ Once(events, "llm_end")'
    <3>1. ToolKeys(es, "llm_start") = {} /\ ToolKeys(es, "llm_end") = {}
      BY <1>5
    <3>2. Once(events \o es, "llm_start") /\ Once(events \o es, "llm_end")
      BY <1>6, <2>1, <2>2, <3>1, OnceJoined
    <3> QED
      BY <1>1, <3>2
  <2>4. ToolKeys(events, "llm_start")' = ToolKeys(events, "llm_start")
        /\ ToolKeys(events, "llm_end")' = ToolKeys(events, "llm_end")
    BY <1>5, <1>7
  <2> QED
    BY <1>1, <2>3, <2>4 DEF Questions, Had, RunInv
<1>9. Tokens'
  <2>1. Shown(events)
    BY DEF RunInv, Tokens, ShownIsAnswer, Shown
  <2>2. Shown(es)
    <3>1. ToolKeys(es, "llm_end") = {}
      BY <1>5
    <3>2. Places(es, "llm_end") = {}
      BY <3>1 DEF ToolKeys
    <3> QED
      BY <3>2 DEF Shown, Places
  <2>3. \A y \in ToolKeys(events, "llm_end") : y[1] # turn
    BY <1>1 DEF RunInv, Questions, Had, Asking
  <2>4. Shown(events \o es)
    BY <1>5, <1>6, <2>1, <2>2, <2>3, ShownJoined
  <2>5. ShownIsAnswer'
    BY <1>1, <2>4 DEF ShownIsAnswer, Shown
  <2>6. \A key \in ToolKeys(events, "llm_token") : stream /\ (key[1] = turn => key[2] = attempt)
    BY <1>1 DEF RunInv, Tokens, Asking
  <2>7. chunks' > 0
    BY <1>1 DEF RunInv, RunTyped
  <2> QED
    BY <1>1, <1>5, <1>6, <1>7, <2>5, <2>6, <2>7 DEF Tokens
<1>10. Calls'
  BY <1>1, <1>4, <1>5, CallsKept DEF Calling
<1>11. Boxes' /\ EndSaid'
  BY <1>1, <1>4, <1>5, BoxesKept
<1>12. RunTyped' /\ Placed'
  BY <1>1, <1>2, <1>7 DEF RunInv, RunTyped, Placed
<1> QED
  BY <1>7, <1>8, <1>9, <1>10, <1>11, <1>12 DEF RunInv

\* An answer: it comes once in the turn, and after the tokens of its own attempt.
LEMMA AnswerInv ==
  ASSUME RunInv, NEW b \in Seq(ToolNames), Len(b) <= MaxCalls, Answer(b)
  PROVE  RunInv'
<1> DEFINE u == Attempted("llm_end")
           v == Event("checkpoint_saved")
           w == Event("assistant_response")
           es == <<u, v, w>>
           here == <<u.turn, u.n, u.name>>
<1>1. /\ pc = "calling" /\ events' = events \o es /\ batch' = b /\ k' = 1
      /\ UNCHANGED <<stream, outcome, turn, attempt, chunks, boxed>>
  BY DEF Answer, Emit
<1>2. outcome = "none" /\ turn >= 1
  BY <1>1 DEF RunInv, Placed
<1>3. /\ u \in Ev /\ u.event = "llm_end" /\ u.turn = turn /\ u.n = attempt
      /\ v \in Ev /\ v.event = "checkpoint_saved" /\ v.turn = turn
      /\ w \in Ev /\ w.event = "assistant_response" /\ w.turn = turn
  BY EventsTyped DEF RunInv, EventKinds
<1>4. /\ pc' \in {"endturn", "repeated", "tool", "wait"}
      /\ pc' = "tool" => b # <<>>
      /\ pc' = "wait" => b = <<"wait">>
  <2>1. CASE b = <<>>
    BY <2>1 DEF Answer
  <2>2. CASE b # <<>>
    BY <2>2 DEF Answer
  <2> QED
    BY <2>1, <2>2
<1> HIDE DEF u, v, w
<1>5. es \in Seq(Ev) /\ events \in Seq(Ev)
  BY <1>3 DEF RunInv, RunTyped
<1>6. \A e : ToolKeys(es, e) = KeyOf(u, e) \cup KeyOf(v, e) \cup KeyOf(w, e)
  BY KeysOfThree
<1>7. /\ ToolKeys(es, "llm_end") = {here} /\ here[1] = turn /\ here[2] = attempt
      /\ \A e \in {"llm_start", "llm_token", "tool_call", "tool_result", "sandbox_acquired"} :
           ToolKeys(es, e) = {}
      /\ \A e : \A key \in ToolKeys(es, e) : key[1] = turn
  BY <1>3, <1>6 DEF KeyOf
<1>8. Once(es, "llm_start") /\ Once(es, "llm_end") /\ Shown(es)
  <2>1. Places(es, "llm_start") = {} /\ Places(es, "llm_end") = {1} /\ Places(es, "llm_token") = {}
    BY <1>3 DEF Places
  <2> QED
    BY <2>1 DEF Once, Shown, Places
<1> HIDE DEF es, here
<1>9. Emitted(es)
  BY <1>1, <1>5, <1>7 DEF Emitted
<1>10. events' \in Seq(Ev) /\ Timely' /\ \A e : ToolKeys(events, e)' = ToolKeys(events, e) \cup ToolKeys(es, e)
  BY <1>9, EmittedEvents
<1>11. ~ Had(events, "llm_end", turn)
  BY <1>1 DEF RunInv, Questions, Asking
<1>12. Questions'
  <2>1. Once(events, "llm_start") /\ Once(events, "llm_end")
    BY DEF RunInv, Questions
  <2>2. Once(events \o es, "llm_start")
    BY <1>5, <1>7, <1>8, <2>1, OnceJoined
  <2>3. Once(events \o es, "llm_end")
    BY <1>5, <1>7, <1>8, <1>11, <2>1, OnceJoined DEF Had
  <2>4. \A key \in ToolKeys(events, "llm_start") : Had(events, "llm_end", key[1]) \/ key[1] = turn
    BY <1>2 DEF RunInv, Questions
  <2>5. \A t : Had(events, "llm_end", t)' <=> Had(events, "llm_end", t) \/ t = turn
    BY <1>7, <1>10 DEF Had
  <2> QED
    BY <1>1, <1>4, <1>7, <1>10, <2>2, <2>3, <2>4, <2>5 DEF Questions, Asking
<1>13. Tokens'
  <2>1. Shown(events)
    BY DEF RunInv, Tokens, ShownIsAnswer, Shown
  <2>2. \A key \in ToolKeys(events, "llm_token") : stream /\ (key[1] = turn => key[2] = attempt)
    BY <1>1 DEF RunInv, Tokens, Asking
  <2>3. Shown(events \o es)
    BY <1>5, <1>7, <1>8, <2>1, <2>2, ShownJoined
  <2>4. ShownIsAnswer'
    BY <1>1, <2>3 DEF ShownIsAnswer, Shown
  <2> QED
    BY <1>1, <1>4, <1>7, <1>10, <2>2, <2>4 DEF Tokens, Asking
<1>14. Calls'
  BY <1>1, <1>7, <1>9, CallsKept DEF Calling
<1>15. Boxes' /\ EndSaid'
  BY <1>1, <1>2, <1>4, <1>7, <1>9, BoxesKept
<1>16. RunTyped'
  BY <1>1, <1>10 DEF RunInv, RunTyped
<1>17. Placed'
  <2>1. pc' = "tool" => k' \in 1..Len(batch')
    BY <1>1, <1>4
  <2>2. pc' = "wait" => Len(batch') = 1
    BY <1>1, <1>4
  <2> QED
    BY <1>1, <1>2, <1>4, <2>1, <2>2 DEF Placed
<1> QED
  BY <1>10, <1>12, <1>13, <1>14, <1>15, <1>16, <1>17 DEF RunInv

\* Events that the invariant does not look at.
LEMMA QuietEvents ==
  ASSUME RunInv, NEW d \in EventKinds \ Marked, NEW e \in EventKinds \ Marked,
         NEW es \in {<<Event(d)>>, <<Attempted(d)>>, <<Event(d), Event(e)>>}
  PROVE  /\ es \in Seq(Ev)
         /\ \A x : \A key \in ToolKeys(es, x) : key[1] = turn
         /\ \A x \in Marked : ToolKeys(es, x) = {}
<1>1. /\ Event(d) \in Ev /\ Event(d).event = d /\ Event(d).turn = turn
      /\ Attempted(d) \in Ev /\ Attempted(d).event = d /\ Attempted(d).turn = turn
      /\ Event(e) \in Ev /\ Event(e).event = e /\ Event(e).turn = turn
  BY EventsTyped DEF RunInv
<1>2. PICK u \in Ev, v \in Ev : /\ u.event = d /\ u.turn = turn /\ v.event \in {d, e} /\ v.turn = turn
                                /\ es = <<u>> \/ es = <<u, v>>
  BY <1>1
<1>3. es \in Seq(Ev)
  <2>1. <<u>> \in Seq(Ev) /\ <<u, v>> \in Seq(Ev)
    OBVIOUS
  <2> QED
    BY <1>2, <2>1
<1>4. \A x : ToolKeys(es, x) \subseteq KeyOf(u, x) \cup KeyOf(v, x)
  BY <1>2, KeysListed
<1> QED
  BY <1>2, <1>3, <1>4 DEF KeyOf

\* Retries, the next turn, and a sandbox that is released or cannot be.
LEMMA RetryInv == RunInv /\ (Retry \/ RetryDelayOver \/ NextTurn) => RunInv'
<1> SUFFICES ASSUME RunInv, Retry \/ RetryDelayOver \/ NextTurn PROVE RunInv'
  OBVIOUS
<1>0. {"llm_retry", "checkpoint_saved"} \subseteq EventKinds \ Marked
  BY DEF EventKinds, Marked
<1>1. turn \in 0..MaxTurns /\ turn \in Nat /\ attempt \in Nat /\ chunks \in Nat
  BY TraceAssumption DEF RunInv, RunTyped
<1>2. CASE Retry
  <2>1. /\ pc = "calling" /\ pc' = "backoff" /\ (~ stream \/ chunks = 0)
        /\ events' = events \o <<Attempted("llm_retry")>>
        /\ UNCHANGED <<stream, outcome, turn, attempt, chunks, batch, k, boxed>>
    BY <1>1, <1>2 DEF Retry, Emit, locals, MayRetry
  <2>2. Emitted(<<Attempted("llm_retry")>>)
    BY <1>0, <2>1, QuietEvents DEF Emitted
  <2>3. \A e \in Marked : ToolKeys(<<Attempted("llm_retry")>>, e) = {}
    BY <1>0, QuietEvents
  <2>4. StaysAsking /\ Placed'
    BY <2>1 DEF StaysAsking, Asking, Placed, RunInv
  <2> QED
    BY <1>1, <2>1, <2>2, <2>3, <2>4, QuietInv DEF Calling
<1>3. CASE RetryDelayOver
  <2>1. /\ pc = "backoff" /\ pc' = "calling" /\ attempt' = attempt + 1 /\ chunks' = 0
        /\ UNCHANGED <<stream, outcome, turn, batch, k, boxed, events>>
    BY <1>3 DEF RetryDelayOver
  <2>2. Emitted(<<>>) /\ \A e \in Marked : ToolKeys(<<>>, e) = {}
    BY <2>1, NoneEmitted, KeysListed
  <2>3. StaysAsking /\ Placed'
    BY <2>1 DEF StaysAsking, Asking, Placed, RunInv
  <2> QED
    BY <1>1, <2>1, <2>2, <2>3, QuietInv DEF Calling
<1>4. CASE NextTurn
  <2>1. /\ pc = "endturn" /\ pc' = "turn" /\ turn < MaxTurns
        /\ events' = events \o <<Event("checkpoint_saved")>>
        /\ UNCHANGED <<stream, outcome, turn, attempt, chunks, batch, k, boxed>>
    BY <1>4 DEF NextTurn, Emit, locals
  <2>2. Emitted(<<Event("checkpoint_saved")>>)
    BY <1>0, <2>1, QuietEvents DEF Emitted
  <2>3. \A e \in Marked : ToolKeys(<<Event("checkpoint_saved")>>, e) = {}
    BY <1>0, QuietEvents
  <2>4. StaysAsking /\ Placed'
    BY <2>1 DEF StaysAsking, Asking, Placed, RunInv
  <2> QED
    BY <1>1, <2>1, <2>2, <2>3, <2>4, QuietInv DEF Calling
<1> QED
  BY <1>2, <1>3, <1>4

LEMMA ReleaseInv == RunInv /\ (Release \/ ReleaseFails) => RunInv'
<1> SUFFICES ASSUME RunInv, Release \/ ReleaseFails PROVE RunInv'
  OBVIOUS
<1>0. {"sandbox_released", "end"} \subseteq EventKinds \ Marked
  BY DEF EventKinds, Marked
<1>1. turn \in 0..MaxTurns /\ turn \in Nat /\ attempt \in Nat /\ chunks \in Nat
  BY TraceAssumption DEF RunInv, RunTyped
<1>2. CASE Release
  <2> DEFINE u == Event("sandbox_released")
             v == Event("end")
             es == <<u>> \o End
  <2>1. /\ pc = "releasing" /\ pc' = "over" /\ events' = events \o es
        /\ UNCHANGED <<stream, outcome, turn, attempt, chunks, batch, k, boxed>>
    BY <1>2 DEF Release, Emit, locals
  <2>2. u \in Ev /\ u.event = "sandbox_released" /\ u.turn = turn
        /\ v \in Ev /\ v.event = "end" /\ v.turn = turn
    BY <1>0, EventsTyped DEF RunInv
  <2>3. End \in {<<>>, <<v>>} /\ (outcome' = "ended" => End = <<v>>)
    BY DEF End
  <2> HIDE DEF u, v
  <2>4. <<u>> \in Seq(Ev) /\ End \in Seq(Ev)
    <3>1. <<u>> \in Seq(Ev) /\ <<v>> \in Seq(Ev) /\ <<>> \in Seq(Ev)
      BY <2>2
    <3> QED
      BY <2>3, <3>1
  <2>5. \A e : ToolKeys(es, e) = ToolKeys(<<u>>, e) \cup ToolKeys(End, e)
    BY <2>4, EventsJoined
  <2>6. /\ \A e : ToolKeys(<<u>>, e) = KeyOf(u, e)
        /\ \A e : ToolKeys(End, e) \subseteq KeyOf(v, e)
        /\ outcome' = "ended" => ToolKeys(End, "end") = KeyOf(v, "end")
    BY <2>3, KeysListed
  <2>7. es \in Seq(Ev)
    BY <2>4
  <2> HIDE DEF es
  <2>8. \A e : \A key \in ToolKeys(es, e) : key[1] = turn
    BY <2>2, <2>5, <2>6 DEF KeyOf
  <2>9. \A e \in Marked : ToolKeys(es, e) = {}
    BY <2>2, <2>5, <2>6 DEF KeyOf, Marked
  <2>10. ToolKeys(es, "sandbox_released") # {} /\ (outcome' = "ended" => ToolKeys(es, "end") # {})
    BY <2>2, <2>5, <2>6 DEF KeyOf
  <2>11. Emitted(es)
    BY <2>1, <2>7, <2>8 DEF Emitted
  <2>12. StaysAsking /\ Placed'
    BY <2>1 DEF StaysAsking, Asking, Placed, RunInv
  <2> QED
    BY <1>1, <2>1, <2>9, <2>10, <2>11, <2>12, QuietInv DEF Calling
<1>3. CASE ReleaseFails
  <2>1. /\ pc = "releasing" /\ pc' = "over" /\ outcome' = "raised"
        /\ UNCHANGED <<stream, turn, attempt, chunks, batch, k, boxed, events>>
    BY <1>3 DEF ReleaseFails, locals
  <2>2. Emitted(<<>>) /\ \A e \in Marked : ToolKeys(<<>>, e) = {}
    BY <2>1, NoneEmitted, KeysListed
  <2>3. StaysAsking /\ Placed'
    BY <2>1 DEF StaysAsking, Asking, Placed, RunInv
  <2> QED
    BY <1>1, <2>1, <2>2, <2>3, QuietInv DEF Calling
<1> QED
  BY <1>2, <1>3

\* A run that fails, is cancelled, or finishes.
LEMMA LeavesInv == RunInv /\ (ContextFails \/ GiveUp \/ TurnLimit \/ Finish \/ Cancel) => RunInv'
<1> SUFFICES ASSUME RunInv, ContextFails \/ GiveUp \/ TurnLimit \/ Finish \/ Cancel PROVE RunInv'
  OBVIOUS
<1>0. {"checkpoint_saved", "error", "cancelled"} \subseteq EventKinds \ Marked
  BY DEF EventKinds, Marked
<1>1. ASSUME NEW d \in {"error", "cancelled"}, Leave(<<Event("checkpoint_saved"), Event(d)>>, "raised"),
             pc \notin {"releasing", "over"}
      PROVE  RunInv'
  <2> DEFINE es == <<Event("checkpoint_saved"), Event(d)>>
  <2>1. /\ es \in Seq(Ev)
        /\ \A x : \A key \in ToolKeys(es, x) : key[1] = turn
        /\ \A x \in Marked : ToolKeys(es, x) = {}
    BY <1>0, <1>1, QuietEvents
  <2>2. Leave(es, "raised")
    BY <1>1
  <2> HIDE DEF es
  <2> QED
    BY <1>1, <2>1, <2>2, LeaveInv DEF Marked
<1>2. CASE ContextFails \/ GiveUp \/ TurnLimit
  <2>1. <<>> \o <<Event("checkpoint_saved"), Event("error")>> = <<Event("checkpoint_saved"), Event("error")>>
    <3>1. <<Event("checkpoint_saved"), Event("error")>> \in Seq(Ev)
      BY <1>0, QuietEvents
    <3> QED
      BY <3>1
  <2> QED
    BY <1>1, <1>2, <2>1 DEF ContextFails, GiveUp, TurnLimit, Fail
<1>3. CASE Finish
  <2> DEFINE es == <<Event("checkpoint_saved")>>
  <2>1. /\ es \in Seq(Ev)
        /\ \A x : \A key \in ToolKeys(es, x) : key[1] = turn
        /\ \A x \in Marked : ToolKeys(es, x) = {}
    BY <1>0, QuietEvents
  <2>2. Leave(es, "ended") /\ pc = "endturn"
    BY <1>3 DEF Finish
  <2> HIDE DEF es
  <2> QED
    BY <2>1, <2>2, LeaveInv DEF Marked, Asking, Calling
<1>4. CASE Cancel
  BY <1>1, <1>4, ReleaseInv DEF Cancel
<1> QED
  BY <1>2, <1>3, <1>4

\* A single wait call leaves the run waiting, with its result.
LEMMA PauseInv == RunInv /\ Pause => RunInv'
<1> SUFFICES ASSUME RunInv, Pause PROVE RunInv'
  OBVIOUS
<1>1. pc = "wait" /\ 1 \in 1..Len(batch) /\ TRUE \in BOOLEAN
  BY DEF Pause, RunInv, Placed
<1> DEFINE both == <<OfCall("tool_call", 1, TRUE)>> \o Result(1, TRUE)
           last == <<Event("wait")>>
           es == both \o last
<1>2. Leave(es, "waiting")
  BY DEF Pause
<1>3. /\ both \in Seq(Ev)
      /\ \A e : \A key \in ToolKeys(both, e) : key[1] = turn
      /\ \A e \in Marked \ {"tool_call"} : ToolKeys(both, e) = {}
      /\ ToolKeys(both, "tool_call") = ToolKeys(both, "tool_result")
  BY <1>1, CallEvents DEF RunInv, Marked
<1>4. /\ last \in Seq(Ev)
      /\ \A e : \A key \in ToolKeys(last, e) : key[1] = turn
      /\ \A e \in Marked : ToolKeys(last, e) = {}
  <2>1. "wait" \in EventKinds \ Marked
    BY DEF EventKinds, Marked
  <2> QED
    BY <2>1, QuietEvents
<1> HIDE DEF both, last
<1>5. es \in Seq(Ev) /\ \A e : ToolKeys(es, e) = ToolKeys(both, e) \cup ToolKeys(last, e)
  BY <1>3, <1>4, EventsJoined
<1> HIDE DEF es
<1>6. /\ \A e : \A key \in ToolKeys(es, e) : key[1] = turn
      /\ \A e \in Marked \ {"tool_call"} : ToolKeys(es, e) = {}
      /\ ToolKeys(es, "tool_call") \subseteq ToolKeys(es, "tool_result")
  BY <1>3, <1>4, <1>5 DEF Marked
<1> QED
  BY <1>1, <1>2, <1>5, <1>6, LeaveInv DEF Asking, Calling

\* A call whose audit raises: the run fails, and owes it no result.
LEMMA CallRaisesInv == RunInv /\ CallRaises => RunInv'
<1> SUFFICES ASSUME RunInv, CallRaises PROVE RunInv'
  OBVIOUS
<1>1. pc = "tool" /\ k \in 1..Len(batch) /\ TRUE \in BOOLEAN
  BY DEF CallRaises, RunInv, Placed
<1> DEFINE made == <<OfCall("tool_call", k, TRUE)>>
           last == <<Event("checkpoint_saved"), Event("error")>>
           es == made \o last
<1>2. Leave(es, "raised")
  BY DEF CallRaises, Fail, CallMade
<1>3. /\ made \in Seq(Ev)
      /\ \A e : \A key \in ToolKeys(made, e) : key[1] = turn
      /\ \A e \in Marked \ {"tool_call"} : ToolKeys(made, e) = {}
  BY <1>1, CallEvents DEF RunInv, Marked
<1>4. /\ last \in Seq(Ev)
      /\ \A e : \A key \in ToolKeys(last, e) : key[1] = turn
      /\ \A e \in Marked : ToolKeys(last, e) = {}
  <2>1. {"checkpoint_saved", "error"} \subseteq EventKinds \ Marked
    BY DEF EventKinds, Marked
  <2> QED
    BY <2>1, QuietEvents
<1> HIDE DEF made, last
<1>5. es \in Seq(Ev) /\ \A e : ToolKeys(es, e) = ToolKeys(made, e) \cup ToolKeys(last, e)
  BY <1>3, <1>4, EventsJoined
<1> HIDE DEF es
<1>6. /\ \A e : \A key \in ToolKeys(es, e) : key[1] = turn
      /\ \A e \in Marked \ {"tool_call"} : ToolKeys(es, e) = {}
  BY <1>3, <1>4, <1>5 DEF Marked
<1> QED
  BY <1>1, <1>2, <1>5, <1>6, LeaveInv DEF Asking, Calling

\* What is common to the steps that answer calls, or begin one.
LEMMA CallStepInv ==
  ASSUME RunInv, NEW es, Emitted(es), pc \in {"tool", "repeated"},
         \A e \in {"llm_start", "llm_end", "llm_token", "sandbox_acquired"} : ToolKeys(es, e) = {},
         UNCHANGED <<stream, outcome, turn, attempt, chunks, batch, boxed>>, Placed',
         pc' \in {"tool", "endturn"} \cup Calling,
         \A key \in ToolKeys(es, "tool_call") :
           \/ key \in ToolKeys(es, "tool_result")
           \/ pc' \in Calling /\ key = <<turn, k', batch[k']>>
  PROVE  RunInv'
<1>1. StaysAsking
  BY DEF StaysAsking, Asking, Calling
<1>2. events' \in Seq(Ev) /\ Timely'
  BY EmittedEvents
<1>3. RunTyped'
  BY <1>2 DEF RunInv, RunTyped
<1>4. Questions' /\ Tokens'
  BY <1>1, QuestionsKept, TokensKept
<1>5. Calls'
  BY CallsKept DEF Calling
<1>6. Boxes' /\ EndSaid'
  BY BoxesKept DEF Calling
<1> QED
  BY <1>2, <1>3, <1>4, <1>5, <1>6 DEF RunInv

\* A batch that is not run.
LEMMA RepeatStopInv == RunInv /\ RepeatStop => RunInv'
<1> SUFFICES ASSUME RunInv, RepeatStop PROVE RunInv'
  OBVIOUS
<1> DEFINE all == AllSkipped(Len(batch))
           last == <<Event("checkpoint_saved"), Event("tool_repeat_guard")>>
           es == all \o last
<1>1. /\ pc = "repeated" /\ pc' = "endturn" /\ events' = events \o es
      /\ UNCHANGED <<stream, outcome, turn, attempt, chunks, batch, k, boxed>>
  BY DEF RepeatStop, Emit
<1>2. /\ all \in Seq(Ev)
      /\ \A e : \A key \in ToolKeys(all, e) : key[1] = turn
      /\ \A e \in {"llm_start", "llm_end", "llm_token", "sandbox_acquired"} : ToolKeys(all, e) = {}
      /\ ToolKeys(all, "tool_call") \subseteq ToolKeys(all, "tool_result")
  BY SkippedEvents DEF RunInv
<1>3. /\ last \in Seq(Ev)
      /\ \A e : \A key \in ToolKeys(last, e) : key[1] = turn
      /\ \A e \in Marked : ToolKeys(last, e) = {}
  <2>1. {"checkpoint_saved", "tool_repeat_guard"} \subseteq EventKinds \ Marked
    BY DEF EventKinds, Marked
  <2> QED
    BY <2>1, QuietEvents
<1> HIDE DEF all, last
<1>4. es \in Seq(Ev) /\ \A e : ToolKeys(es, e) = ToolKeys(all, e) \cup ToolKeys(last, e)
  BY <1>2, <1>3, EventsJoined
<1> HIDE DEF es
<1>5. Emitted(es)
  BY <1>1, <1>2, <1>3, <1>4 DEF Emitted
<1>6. /\ \A e \in {"llm_start", "llm_end", "llm_token", "sandbox_acquired"} : ToolKeys(es, e) = {}
      /\ ToolKeys(es, "tool_call") \subseteq ToolKeys(es, "tool_result")
  BY <1>2, <1>3, <1>4 DEF Marked
<1>7. Placed'
  BY <1>1 DEF RunInv, Placed
<1> QED
  BY <1>1, <1>5, <1>6, <1>7, CallStepInv

\* A call that is blocked has its result too.
LEMMA CallBlockedInv == RunInv /\ CallBlocked => RunInv'
<1> SUFFICES ASSUME RunInv, CallBlocked PROVE RunInv'
  OBVIOUS
<1> DEFINE made == <<OfCall("tool_call", k, TRUE)>>
           u == Event("checkpoint_saved")
           v == OfCall("tool_blocked", k, FALSE)
           w == OfCall("tool_result", k, FALSE)
           last == <<u, v, w>>
           es == made \o last
           here == <<turn, k, batch[k]>>
<1>1. /\ pc = "tool" /\ k' = k + 1 /\ pc' = IF k < Len(batch) THEN "tool" ELSE "endturn"
      /\ events' = (events \o made) \o last
      /\ UNCHANGED <<stream, outcome, turn, attempt, chunks, batch, boxed>>
  BY DEF CallBlocked, BlockedEvents, CallMade
<1>2. k \in 1..Len(batch) /\ Len(batch) \in Nat /\ TRUE \in BOOLEAN /\ FALSE \in BOOLEAN
  BY <1>1 DEF RunInv, Placed, RunTyped
<1>3. /\ made \in Seq(Ev) /\ \A e : ToolKeys(made, e) = IF e = "tool_call" THEN {here} ELSE {}
  BY <1>2, CallEvents DEF RunInv
<1>4. {"checkpoint_saved", "tool_blocked", "tool_result"} \subseteq EventKinds
  BY DEF EventKinds
<1>5. u \in Ev /\ u.event = "checkpoint_saved" /\ u.turn = turn
  BY <1>4, EventsTyped DEF RunInv
<1>6. v \in Ev /\ v.event = "tool_blocked" /\ v.turn = turn
  BY <1>2, <1>4, EventsTyped DEF RunInv
<1>7. w \in Ev /\ w.event = "tool_result" /\ w.turn = turn /\ <<w.turn, w.n, w.name>> = here
  BY <1>2, <1>4, EventsTyped DEF RunInv
<1> HIDE DEF made, u, v, w
<1>8. last \in Seq(Ev)
  BY <1>5, <1>6, <1>7
<1>9. \A e : ToolKeys(last, e) = KeyOf(u, e) \cup KeyOf(v, e) \cup KeyOf(w, e)
  BY KeysOfThree
<1> HIDE DEF last
<1>10. es \in Seq(Ev) /\ \A e : ToolKeys(es, e) = ToolKeys(made, e) \cup ToolKeys(last, e)
  BY <1>3, <1>8, EventsJoined
<1>11. events' = events \o es
  BY <1>1, <1>3, <1>8, ConcatAssociative DEF RunInv, RunTyped
<1>12. here[1] = turn
  OBVIOUS
<1> HIDE DEF es, here
<1>13. /\ \A e : \A key \in ToolKeys(es, e) : key[1] = turn
       /\ \A e \in {"llm_start", "llm_end", "llm_token", "sandbox_acquired"} : ToolKeys(es, e) = {}
       /\ ToolKeys(es, "tool_call") = {here} /\ ToolKeys(es, "tool_result") = {here}
  BY <1>3, <1>5, <1>6, <1>7, <1>9, <1>10, <1>12 DEF KeyOf
<1>14. Emitted(es)
  BY <1>1, <1>10, <1>11, <1>13 DEF Emitted
<1>15. Placed'
  <2>1. pc' = "tool" => k' \in 1..Len(batch)
    BY <1>1, <1>2
  <2> QED
    BY <1>1, <2>1 DEF Placed, RunInv
<1> QED
  BY <1>1, <1>13, <1>14, <1>15, CallStepInv

\* A call that begins: its result is owed.
LEMMA CallBeginsInv == RunInv /\ (CallBash \/ CallTool) => RunInv'
<1> SUFFICES ASSUME RunInv, CallBash \/ CallTool PROVE RunInv'
  OBVIOUS
<1> DEFINE es == <<OfCall("tool_call", k, TRUE)>>
           here == <<turn, k, batch[k]>>
<1>1. /\ pc = "tool" /\ pc' \in Calling /\ events' = events \o es
      /\ UNCHANGED <<stream, outcome, turn, attempt, chunks, batch, k, boxed>>
  BY DEF CallBash, CallTool, Emit, CallMade, locals, Calling
<1>2. k \in 1..Len(batch) /\ TRUE \in BOOLEAN
  BY <1>1 DEF RunInv, Placed
<1>3. es \in Seq(Ev) /\ \A e : ToolKeys(es, e) = IF e = "tool_call" THEN {here} ELSE {}
  BY <1>2, CallEvents DEF RunInv
<1>4. here[1] = turn
  OBVIOUS
<1> HIDE DEF es
<1>5. Emitted(es)
  BY <1>1, <1>3, <1>4 DEF Emitted
<1>6. Placed'
  BY <1>1, <1>2 DEF RunInv, Placed, Calling
<1> QED
  BY <1>1, <1>3, <1>5, <1>6, CallStepInv

\* A sandbox that is acquired is held from here on.
LEMMA AcquiredInv == RunInv /\ Acquired => RunInv'
<1> SUFFICES ASSUME RunInv, Acquired PROVE RunInv'
  OBVIOUS
<1> DEFINE u == Event("sandbox_acquired")
           es == <<u>>
<1>1. /\ pc = "acquiring" /\ pc' = "running" /\ boxed' = TRUE /\ events' = events \o es
      /\ UNCHANGED <<stream, outcome, turn, attempt, chunks, batch, k>>
  BY DEF Acquired, Emit
<1>2. u \in Ev /\ u.event = "sandbox_acquired" /\ u.turn = turn
  BY EventsTyped DEF RunInv, EventKinds
<1> HIDE DEF u
<1>3. Emitted(es)
  BY <1>1, <1>2, ListEmitted
<1>4. \A e : e # "sandbox_acquired" => ToolKeys(es, e) = {}
  <2>1. \A e : ToolKeys(es, e) = KeyOf(u, e)
    BY KeysListed
  <2> QED
    BY <1>2, <2>1 DEF KeyOf
<1> HIDE DEF es
<1>5. StaysAsking /\ Placed'
  BY <1>1 DEF StaysAsking, Asking, Placed, RunInv
<1>6. events' \in Seq(Ev) /\ Timely'
  BY <1>3, EmittedEvents
<1>7. RunTyped'
  BY <1>1, <1>6 DEF RunInv, RunTyped
<1>8. Questions' /\ Tokens'
  BY <1>1, <1>3, <1>4, <1>5, QuestionsKept, TokensKept
<1>9. Calls'
  BY <1>1, <1>3, <1>4, CallsKept DEF Calling
<1>10. Boxes' /\ EndSaid'
  BY <1>1, <1>3, <1>4, BoxesKept
<1> QED
  BY <1>5, <1>6, <1>7, <1>8, <1>9, <1>10 DEF RunInv

\* All that a run does, by itself and with what the provider answers.
RunMove ==
  \/ StartRun \/ BeginTurn \/ ContextLoaded \/ ContextFails \/ Chunk \/ Retry \/ RetryDelayOver \/ GiveUp
  \/ Pause \/ RepeatStop \/ CallRefused \/ CallBlocked \/ CallRaises \/ CallBash \/ Acquired
  \/ \E ok \in BOOLEAN : BashReturns(ok) \/ ToolReturns(ok)
  \/ CallSpawn \/ CallTool \/ TurnLimit \/ NextTurn \/ Finish \/ Release \/ ReleaseFails \/ Cancel
  \/ RunCrash \/ RunTaken

RunAct == RunMove \/ \E b \in Seq(ToolNames) : Len(b) <= MaxCalls /\ Answer(b)

LEMMA RunActInv == RunInv /\ RunAct => RunInv'
<1> SUFFICES ASSUME RunInv, RunAct PROVE RunInv'
  OBVIOUS
<1>1. CASE StartRun \/ RunCrash \/ RunTaken
  BY <1>1, ResetInv DEF StartRun, RunCrash, RunTaken
<1>2. CASE CallRefused
  <2>1. pc = "tool" /\ NextCall(CallMade, FALSE) /\ boxed' = boxed /\ FALSE \in BOOLEAN
    BY <1>2 DEF CallRefused
  <2> QED
    BY <2>1, NextCallInv
<1>3. CASE CallSpawn
  <2>1. pc = "tool" /\ NextCall(CallMade, TRUE) /\ boxed' = boxed /\ TRUE \in BOOLEAN
    BY <1>3 DEF CallSpawn
  <2> QED
    BY <2>1, NextCallInv
<1>4. ASSUME NEW ok \in BOOLEAN, BashReturns(ok) \/ ToolReturns(ok)
      PROVE  RunInv'
  <2>1. pc \in {"running", "acquiring", "job"} /\ NextCall(<<>>, ok) /\ boxed' = boxed
    BY <1>4 DEF BashReturns, ToolReturns
  <2> QED
    BY <2>1, NextCallInv
<1>5. ASSUME NEW b \in Seq(ToolNames), Len(b) <= MaxCalls, Answer(b)
      PROVE  RunInv'
  BY <1>5, AnswerInv
<1> QED
  BY <1>1, <1>2, <1>3, <1>4, <1>5, BeginTurnInv, ContextLoadedInv, ChunkInv, RetryInv, ReleaseInv,
     LeavesInv, PauseInv, RepeatStopInv, CallBlockedInv, CallRaisesInv,
     CallBeginsInv, AcquiredInv DEF RunAct, RunMove

\* Nothing of the run changes that its invariant speaks of.
RunSame ==
  UNCHANGED <<pc, stream, outcome, turn, attempt, chunks, batch, k, boxed, events, did>>

LEMMA RunSameInv == RunInv /\ RunSame => RunInv'
BY DEF RunSame, RunInv, RunTyped, Placed, Timely, Questions, Tokens, Calls, Boxes, EndSaid,
       Once, Had, ShownIsAnswer

\* The trace that the invariant describes keeps the contract (judges.py,
\* _assert_trace_contract).
LEMMA ContractFollows == RunInv => TraceContract
<1> SUFFICES ASSUME RunInv, pc = "over", outcome \in {"ended", "waiting"}
             PROVE  ContractHolds(events, outcome = "ended")
  BY DEF TraceContract
<1>1. ASSUME NEW i \in Places(events, "llm_start")
      PROVE  Cardinality(InTurn(events, "llm_start", events[i].turn))
               = Cardinality(InTurn(events, "llm_end", events[i].turn))
  <2> DEFINE key == <<events[i].turn, events[i].n, events[i].name>>
  <2>1. key \in ToolKeys(events, "llm_start") /\ key[1] = events[i].turn
    BY <1>1 DEF ToolKeys
  <2>2. Had(events, "llm_end", events[i].turn)
    BY <2>1 DEF RunInv, Questions, Asking
  <2>3. PICK j \in Places(events, "llm_end") : events[j].turn = events[i].turn
    BY <2>2 DEF Had, ToolKeys
  <2>4. InTurn(events, "llm_start", events[i].turn) = {i}
    BY <1>1 DEF RunInv, Questions, Once, InTurn
  <2>5. InTurn(events, "llm_end", events[i].turn) = {j}
    BY <2>3 DEF RunInv, Questions, Once, InTurn
  <2> QED
    BY <2>4, <2>5, FS_Singleton
<1>2. ToolKeys(events, "tool_call") \subseteq ToolKeys(events, "tool_result")
  BY DEF RunInv, Calls
<1>3. \A e : Places(events, e) = {} <=> ToolKeys(events, e) = {}
  BY DEF ToolKeys
<1>4. outcome = "ended" => Places(events, "end") # {}
  BY <1>3 DEF RunInv, EndSaid
<1>5. outcome = "ended" /\ Places(events, "sandbox_acquired") # {} => Places(events, "sandbox_released") # {}
  BY <1>3 DEF RunInv, Boxes
<1> QED
  BY <1>1, <1>2, <1>4, <1>5 DEF ContractHolds

-----------------------------------------------------------------------------
(***************************************************************************)
(* The steps of the process, as its stores see them.                       *)
(***************************************************************************)

LEMMA ActorsApart == Main \in Actors /\ Workers \subseteq Actors /\ \A w \in Workers : w # Main
BY HostAssumption DEF Actors

\* A call is a call to one store.
LEMMA OpsApart ==
  /\ \A op \in TaskOps : op \notin PlanOps /\ op \notin MemoryOps /\ op \notin FileOps
  /\ \A op \in PlanOps : op \notin TaskOps /\ op \notin MemoryOps /\ op \notin FileOps
  /\ \A op \in MemoryOps : op \notin TaskOps /\ op \notin PlanOps /\ op \notin FileOps
  /\ \A op \in FileOps : op \notin TaskOps /\ op \notin PlanOps /\ op \notin MemoryOps
<1>1. /\ \A op \in TaskOps : op.store = "tasks"
      /\ \A op \in PlanOps : op.store = "plans"
      /\ \A op \in MemoryOps : op.store = "memory"
      /\ \A op \in FileOps : op.store = "files"
  BY DEF TaskOps, PlanOps, MemoryOps, FileOps
<1> QED
  BY <1>1

\* What an agent's tool is called with.
LEMMA OpsOfTool ==
  ASSUME NEW tool \in StoreTools, NEW op \in OpsOf(tool)
  PROVE  op \in Ops
<1>1. CASE tool = "tasks"
  BY <1>1 DEF OpsOf, Ops
<1>2. CASE tool = "plans"
  BY <1>2 DEF OpsOf, Ops
<1>3. CASE tool = "memory"
  BY <1>3 DEF OpsOf, Ops
<1>4. CASE tool = "files"
  BY <1>4 DEF OpsOf, Ops
<1> QED
  BY <1>1, <1>2, <1>3, <1>4 DEF StoreTools

\* A task, and a prompt to the server, has a thread.
LEMMA ThreadIsThere ==
  ASSUME NEW i \in 1..Cardinality(Threads)
  PROVE  ThreadOf[i] \in Threads
<1> DEFINE n == Cardinality(Threads)
           Apart(f) == \A x, y \in DOMAIN f : x # y => f[x] # f[y]
<1>1. PICK f \in [1..n -> Threads] : \A x, y \in 1..n : f[x] = f[y] => x = y
  <2>1. ExistsBijection(1..n, Threads)
    BY ProcessAssumption, FS_CardinalityType
  <2> QED
    BY <2>1 DEF ExistsBijection, Bijection, Injection, IsInjective
<1>2. f \in [1..n -> Threads] /\ Apart(f)
  BY <1>1
<1>3. ThreadOf \in [1..n -> Threads]
  BY <1>2 DEF ThreadOf
<1> QED
  BY <1>3

\* What the invariants of the stores are about.
LEMMA StoresSame ==
  ASSUME StoresInv, UNCHANGED <<job, ctx, owner, callId, taskStore, doc, nextPlan, tree>>
  PROVE  StoresInv'
<1>1. Jobs' /\ PlanInv'
  BY DEF StoresInv, Jobs, PlanInv, Docs
<1>2. TaskInv'
  BY DEF StoresInv, TaskInv, Known, CallsNamed, SaveOk, taskStore
<1>3. FilesInv'
  BY DEF StoresInv, FilesInv, Bound, FileCallOk, TreeOk, FilesStayHome
<1> QED
  BY <1>1, <1>2, <1>3 DEF StoresInv

\* The run is bound to a thread's workspace, or unbound.
LEMMA BoundRun ==
  ASSUME StoresInv, job[Main].at = "idle", NEW t \in Threads \cup {None},
         ctx' = [ctx EXCEPT ![Main] = t], owner' = [owner EXCEPT ![Main] = t],
         UNCHANGED <<job, callId, taskStore, doc, nextPlan, tree>>
  PROVE  StoresInv' /\ ctx'[Main] = t /\ \A w \in Workers : ctx'[w] = ctx[w]
<1>1. FilesInv'
  BY ActorsApart, BindInv DEF StoresInv
<1>2. Jobs' /\ PlanInv'
  BY DEF StoresInv, Jobs, PlanInv, Docs
<1>3. TaskInv'
  BY DEF StoresInv, TaskInv, Known, CallsNamed, SaveOk, taskStore
<1>4. ctx'[Main] = t /\ \A w \in Workers : ctx'[w] = ctx[w]
  BY ActorsApart DEF StoresInv, FilesInv, Bound
<1> QED
  BY <1>1, <1>2, <1>3, <1>4 DEF StoresInv

\* A step of the run that touches no store, and may leave the run.
LEMMA RunMoves ==
  ASSUME ActorsInv, StoresInv, pc \notin {"idle", "over", "job"}, pc' # "idle",
         Unbind, HostQuiet, UNCHANGED <<taskStore, planStore, tree>>
  PROVE  ActorsInv' /\ StoresInv'
<1>1. job[Main].at = "idle" /\ ctx[Main] \in Threads
  BY DEF ActorsInv
<1>2. UNCHANGED <<job, callId, taskStore, doc, nextPlan, tree>>
  BY DEF HostQuiet, planStore
<1>3. CASE pc' = "over"
  <2>1. ctx' = [ctx EXCEPT ![Main] = None] /\ owner' = [owner EXCEPT ![Main] = None]
    BY <1>3 DEF Unbind, UnbindWorkspace
  <2> QED
    BY <1>1, <1>2, <1>3, <2>1, BoundRun DEF ActorsInv
<1>4. CASE pc' # "over"
  BY <1>1, <1>2, <1>4, StoresSame DEF Unbind, ActorsInv
<1> QED
  BY <1>3, <1>4

\* A run that begins is bound to a thread.
LEMMA RunStarts ==
  ASSUME ActorsInv, StoresInv, NEW t \in Threads, StartRun, BindWorkspace(t), HostQuiet,
         UNCHANGED <<taskStore, planStore, tree>>
  PROVE  ActorsInv' /\ StoresInv'
<1>1. job[Main].at = "idle"
  BY DEF ActorsInv, StartRun
<1>2. UNCHANGED <<job, callId, taskStore, doc, nextPlan, tree>>
  BY DEF HostQuiet, planStore
<1>3. ctx' = [ctx EXCEPT ![Main] = t] /\ owner' = [owner EXCEPT ![Main] = t]
  BY DEF BindWorkspace
<1>4. StoresInv' /\ ctx'[Main] = t /\ \A w \in Workers : ctx'[w] = ctx[w]
  BY <1>1, <1>2, <1>3, BoundRun
<1> QED
  BY <1>1, <1>2, <1>4 DEF ActorsInv

\* A call begins: no invariant of a store speaks of it yet.
LEMMA CallBegins ==
  ASSUME StoresInv, NEW a \in Actors, NEW op \in Ops, Begin(a, op), ctx[a] \in Threads,
         callId' = [callId EXCEPT ![a] = callId'[a]], callId'[a] \in CallIds,
         UNCHANGED <<ctx, owner, taskStore, doc, nextPlan, tree>>
  PROVE  StoresInv' /\ OnlyJob(a)
<1>1. Jobs' /\ job'[a] = Job(op, "start", None, "done") /\ OnlyJob(a)
  BY BeginJobs DEF StoresInv
<1>2. job'[a].at = "start"
  BY <1>1 DEF Job
<1>3. TaskInv'
  BY <1>1, <1>2, TasksUntouched DEF StoresInv, Saves, taskStore
<1>4. PlanInv'
  BY <1>1, <1>2, PlansUntouched DEF StoresInv, PlanJobOk
<1>5. FilesInv'
  BY <1>1, <1>2, FilesUntouched DEF StoresInv
<1> QED
  BY <1>1, <1>3, <1>4, <1>5 DEF StoresInv

\* A call is over.
LEMMA CallOver ==
  ASSUME StoresInv, NEW a \in Actors, job' = [job EXCEPT ![a] = Idle],
         callId' = [callId EXCEPT ![a] = callId'[a]],
         UNCHANGED <<ctx, owner, taskStore, doc, nextPlan, tree>>
  PROVE  StoresInv' /\ OnlyJob(a) /\ job'[a].at = "idle"
<1>1. Jobs' /\ job'[a] = Idle /\ OnlyJob(a)
  BY IdleJobs DEF StoresInv
<1>2. job'[a].at = "idle" /\ job'[a].op = None
  BY <1>1, IdleProper
<1>3. TaskInv'
  BY <1>1, <1>2, TasksUntouched DEF StoresInv, Saves, taskStore
<1>4. PlanInv'
  BY <1>1, <1>2, PlansUntouched DEF StoresInv, PlanJobOk
<1>5. FilesInv'
  BY <1>1, <1>2, FilesUntouched DEF StoresInv
<1> QED
  BY <1>1, <1>2, <1>3, <1>4, <1>5 DEF StoresInv

\* A step of a tool.
LEMMA StoreStepInv ==
  ASSUME ActorsInv, StoresInv, NEW a \in Actors, StoreStep(a)
  PROVE  ActorsInv' /\ StoresInv'
<1>1. CASE TaskStep(a) /\ UNCHANGED <<planStore, memoryStore, tree>>
  <2>1. /\ Jobs' /\ TaskInv' /\ OnlyJob(a)
        /\ job[a].op \in TaskOps /\ job'[a].op = job[a].op
        /\ job[a].at # "idle" /\ job'[a].at # "idle"
        /\ UNCHANGED <<ctx, callId, owner>>
    BY <1>1, TaskStepInv DEF StoresInv
  <2>2. PlanInv'
    BY <1>1, <2>1, OpsApart, PlansUntouched DEF StoresInv, PlanJobOk, planStore
  <2>3. FilesInv'
    BY <1>1, <2>1, FilesUntouchedByOthers DEF StoresInv
  <2>4. ActorsInv'
    BY <2>1, ActorsApart DEF ActorsInv, OnlyJob, StoreStep, run
  <2> QED
    BY <2>1, <2>2, <2>3, <2>4 DEF StoresInv
<1>2. CASE PlanStep(a) /\ UNCHANGED <<taskStore, memoryStore, tree>>
  <2>1. /\ Jobs' /\ PlanInv' /\ OnlyJob(a)
        /\ job[a].op \in PlanOps /\ job'[a].op = job[a].op
        /\ job[a].at # "idle" /\ job'[a].at # "idle"
        /\ UNCHANGED <<ctx, callId, owner>>
    BY <1>2, PlanStepInv DEF StoresInv
  <2>2. TaskInv'
    BY <1>2, <2>1, OpsApart, TasksUntouchedInCall DEF StoresInv, Saves, taskStore
  <2>3. FilesInv'
    BY <1>2, <2>1, FilesUntouchedByOthers DEF StoresInv
  <2>4. ActorsInv'
    BY <2>1, ActorsApart DEF ActorsInv, OnlyJob, StoreStep, run
  <2> QED
    BY <2>1, <2>2, <2>3, <2>4 DEF StoresInv
<1>3. CASE MemoryStep(a) /\ UNCHANGED <<taskStore, planStore, tree>>
  <2>1. /\ Jobs' /\ OnlyJob(a)
        /\ job[a].op \in MemoryOps /\ job'[a].op = job[a].op
        /\ job[a].at # "idle" /\ job'[a].at # "idle"
        /\ UNCHANGED <<ctx, callId, owner>>
    BY <1>3, MemoryStepJobs DEF StoresInv
  <2>2. TaskInv'
    BY <1>3, <2>1, OpsApart, TasksUntouchedInCall DEF StoresInv, Saves, taskStore
  <2>3. PlanInv'
    BY <1>3, <2>1, OpsApart, PlansUntouched DEF StoresInv, PlanJobOk, planStore
  <2>4. FilesInv'
    BY <1>3, <2>1, FilesUntouchedByOthers DEF StoresInv
  <2>5. ActorsInv'
    BY <2>1, ActorsApart DEF ActorsInv, OnlyJob, StoreStep, run
  <2> QED
    BY <2>1, <2>2, <2>3, <2>4, <2>5 DEF StoresInv
<1>4. CASE FileStep(a) /\ UNCHANGED <<taskStore, planStore, memoryStore>>
  <2>1. /\ Jobs' /\ FilesInv' /\ OnlyJob(a)
        /\ job[a].op \in FileOps /\ job'[a].op = job[a].op
        /\ job[a].at # "idle" /\ job'[a].at # "idle"
        /\ UNCHANGED <<ctx, callId, owner>>
    BY <1>4, FileStepInv DEF StoresInv
  <2>2. TaskInv'
    BY <1>4, <2>1, OpsApart, TasksUntouchedInCall DEF StoresInv, Saves, taskStore
  <2>3. PlanInv'
    BY <1>4, <2>1, OpsApart, PlansUntouched DEF StoresInv, PlanJobOk, planStore
  <2>4. ActorsInv'
    BY <2>1, ActorsApart DEF ActorsInv, OnlyJob, StoreStep, run
  <2> QED
    BY <2>1, <2>2, <2>3, <2>4 DEF StoresInv
<1> QED
  BY <1>1, <1>2, <1>3, <1>4 DEF StoreStep

-----------------------------------------------------------------------------
(***************************************************************************)
(* The process.                                                            *)
(***************************************************************************)

LEMMA ProcessInitInv == Init => ProcessInv
<1> SUFFICES ASSUME Init PROVE ProcessInv
  OBVIOUS
<1>1. StoresInv
  BY TaskInitInv, PlanInitInv, FilesInitInv DEF Init, StoresInv
<1>2. RunInv
  <2>1. \A e : ToolKeys(events, e) = {} /\ Places(events, e) = {}
    BY KeysListed DEF Init, RunInit, Places
  <2>2. RunTyped
    <3>1. batch \in Seq(ToolNames) /\ Len(batch) = 0 /\ events \in Seq(Ev)
      BY DEF Init, RunInit
    <3> QED
      BY <3>1, TraceAssumption DEF Init, RunInit, RunTyped
  <2>3. Placed
    BY DEF Init, RunInit, Placed
  <2>4. Timely /\ Calls /\ Boxes /\ EndSaid
    BY <2>1 DEF Init, RunInit, Timely, Calls, Boxes, EndSaid
  <2>5. Questions /\ Tokens
    BY <2>1 DEF Init, RunInit, Questions, Once, Had, Asking, Tokens, ShownIsAnswer
  <2> QED
    BY <2>2, <2>3, <2>4, <2>5 DEF RunInv
<1>3. ActorsInv
  <2>1. job[Main].at = "idle" /\ \A w \in Workers : ctx[w] = None
    BY AllIdle, IdleProper, ActorsApart DEF Init, HostInit
  <2> QED
    BY <2>1 DEF Init, RunInit, ActorsInv
<1>4. SceneInv
  <2>1. NumTasks \in Nat
    BY ProcessAssumption, FS_CardinalityType
  <2> QED
    BY <2>1 DEF Init, EvaluationInit, SceneInv
<1> QED
  BY <1>1, <1>2, <1>3, <1>4 DEF ProcessInv

\* Seen from the run, a step of the process is a step of the run or none.
LEMMA ProcessRuns ==
  ASSUME SceneInv, [Next]_vars
  PROVE  /\ RunMove \/ RunSame \/ \E b \in Seq(ToolNames) : Len(b) <= MaxCalls /\ Answer(b)
         /\ RunMove \/ RunSame \/ \E b \in Seq(tools) : Answer(b)
<1>1. CASE Serve \/ Prepare \/ RunStep \/ RunGoesWrong \/ UserCancels \/ Timeout \/ Crash
  BY <1>1 DEF Serve, Prepare, RunStep, RunGoesWrong, UserCancels, Timeout, TimesOut, Crash, RunMove
<1>2. CASE Think
  <2>1. PICK b \in BoundedSeq(tools, MaxCalls) : Answer(b)
    BY <1>2 DEF Think
  <2>2. b \in Seq(ToolNames) /\ b \in Seq(tools) /\ Len(b) <= MaxCalls
    <3>1. PICK m \in 0..MaxCalls : b \in [1..m -> tools]
      BY DEF BoundedSeq, SeqOf
    <3>2. m \in Nat /\ m <= MaxCalls /\ tools \subseteq ToolNames
      BY TraceAssumption DEF SceneInv, ToolNames
    <3> QED
      BY <3>1, <3>2
  <2> QED
    BY <2>1, <2>2
<1>3. CASE UseTool \/ \E w \in Workers : Spawn(w)
  BY <1>3 DEF UseTool, Spawn, RunMove
<1>4. CASE ToolDone
  <2>1. ToolSuccess(job[Main].reply) \in BOOLEAN
    BY DEF ToolSuccess
  <2> QED
    BY <1>4, <2>1 DEF ToolDone, RunMove
<1>5. CASE Delivered \/ TaskPrompt \/ HarnessStep
  BY <1>5 DEF Delivered, TaskPrompt, HarnessStep, CollectResult, RunFailed, RunMove, RunSame, run, locals
<1>6. CASE TaskStarts
  BY <1>6 DEF TaskStarts, RunSame
<1>7. CASE \E w \in Workers : WorkerCalls(w) \/ WorkerTold(w)
  BY <1>7 DEF WorkerCalls, WorkerTold, RunSame, run, locals
<1>8. CASE \E a \in Actors : StoreStep(a)
  BY <1>8 DEF StoreStep, RunSame, run, locals
<1>9. CASE UNCHANGED vars
  BY <1>9 DEF vars, RunSame, run, locals
<1> QED
  BY <1>1, <1>2, <1>3, <1>4, <1>5, <1>6, <1>7, <1>8, <1>9 DEF Next, Progress

\* The tools of an agent stay, and a task that runs has a number.
LEMMA ProcessScene ==
  ASSUME SceneInv, [Next]_vars
  PROVE  SceneInv'
<1>1. CASE Serve
  BY <1>1 DEF Serve, harnessVars, SceneInv
<1>2. CASE TaskStarts
  <2>1. taskNo < NumTasks /\ taskNo' = taskNo + 1 /\ UNCHANGED <<tools, served>>
    BY <1>2 DEF TaskStarts, StartTask, scene
  <2>2. NumTasks \in Nat
    BY ProcessAssumption, FS_CardinalityType
  <2> QED
    BY <2>1, <2>2 DEF SceneInv
<1>3. CASE HarnessStep
  <2>1. UNCHANGED <<tools, served, taskNo>> /\ (stage' = "running" => stage = "running")
    BY <1>3 DEF HarnessStep, CollectResult, RunFailed, Judge, FeaturesRefused, scene
  <2> QED
    BY <2>1 DEF SceneInv
<1>4. CASE Think
  BY <1>4 DEF Think, scene, SceneInv
<1>5. CASE \/ Prepare \/ UseTool \/ ToolDone \/ TaskPrompt \/ Delivered \/ RunStep \/ RunGoesWrong
           \/ UserCancels \/ Timeout \/ Crash
           \/ \E w \in Workers : Spawn(w) \/ WorkerCalls(w) \/ WorkerTold(w)
           \/ \E a \in Actors : StoreStep(a)
           \/ UNCHANGED vars
  <2>1. UNCHANGED <<tools, served, taskNo, stage>>
    BY <1>5 DEF Prepare, UseTool, ToolDone, TaskPrompt, Delivered, RunStep, RunGoesWrong, UserCancels,
       Timeout, Crash, Spawn, WorkerCalls, WorkerTold, StoreStep, vars, scene, harnessVars
  <2> QED
    BY <2>1 DEF SceneInv
<1> QED
  BY <1>1, <1>2, <1>3, <1>4, <1>5 DEF Next, Progress

\* A step of a run that is under way, and calls no tool.
LEMMA RunGoesOn ==
  ASSUME RunStep \/ RunGoesWrong \/ UserCancels \/ Timeout
  PROVE  pc \notin {"idle", "over", "job"} /\ pc' # "idle"
<1>1. CASE RunStep
  <2>1. CASE BeginTurn \/ Chunk \/ RetryDelayOver
    BY <2>1 DEF BeginTurn, Chunk, RetryDelayOver
  <2>2. CASE Pause \/ RepeatStop \/ CallRefused \/ CallBlocked \/ CallRaises
    BY <2>2 DEF Pause, Leave, RepeatStop, CallRefused, NextCall, CallBlocked, CallRaises, Fail
  <2>3. CASE CallBash \/ Acquired \/ \E ok \in BOOLEAN : BashReturns(ok)
    BY <2>3 DEF CallBash, Acquired, BashReturns, NextCall
  <2>4. CASE TurnLimit \/ NextTurn \/ Finish \/ Release
    BY <2>4 DEF TurnLimit, Fail, Leave, NextTurn, Finish, Release
  <2> QED
    BY <1>1, <2>1, <2>2, <2>3, <2>4 DEF RunStep
<1>2. CASE RunGoesWrong
  BY <1>2 DEF RunGoesWrong, Retry, GiveUp, ContextFails, ReleaseFails, Fail, Leave
<1>3. CASE UserCancels \/ Timeout
  BY <1>3 DEF UserCancels, Timeout, TimesOut, Cancel, ReleaseFails, Leave
<1> QED
  BY <1>1, <1>2, <1>3

\* What a step of the process does to the calls and to the stores.
LEMMA ProcessStores ==
  ASSUME ProcessInv, [Next]_vars
  PROVE  ActorsInv' /\ StoresInv'
<1>0. RunInv /\ ActorsInv /\ SceneInv /\ StoresInv
  BY DEF ProcessInv
<1>1. CASE Serve
  <2>1. served + 1 \in 1..Cardinality(Threads)
    BY <1>0, <1>1, ProcessAssumption, FS_CardinalityType DEF Serve, SceneInv
  <2>2. ThreadOf[served + 1] \in Threads
    BY <2>1, ThreadIsThere
  <2> QED
    BY <1>0, <1>1, <2>2, RunStarts DEF Serve, stores
<1>2. CASE TaskPrompt
  <2>1. taskNo \in 1..Cardinality(Threads)
    BY <1>0, <1>2, ProcessAssumption, FS_CardinalityType DEF TaskPrompt, Prompted, SceneInv
  <2>2. ThreadOf[taskNo] \in Threads
    BY <2>1, ThreadIsThere
  <2> QED
    BY <1>0, <1>2, <2>2, RunStarts DEF TaskPrompt, stores
<1>3. CASE Prepare
  <2>1. ctx[Main] \in Threads
    BY <1>0, <1>3 DEF Prepare, ContextLoaded, ActorsInv
  <2>2. UNCHANGED <<job, callId, ctx, owner, taskStore, doc, nextPlan>>
    BY <1>3 DEF Prepare, HostQuiet, planStore
  <2>3. FilesInv'
    <3>1. UploadsSaved(ctx[Main], uploads) = UploadsSaved(ctx[Main], uploads = TRUE)
          \/ UploadsSaved(ctx[Main], uploads) = tree
          \/ UploadsSaved(ctx[Main], uploads) = [tree EXCEPT ![ctx[Main]]["uploads"] = "user"]
      BY DEF UploadsSaved
    <3>2. tree' = UploadsSaved(ctx[Main], FALSE) \/ tree' = UploadsSaved(ctx[Main], TRUE)
      BY <1>3 DEF Prepare, UploadsSaved
    <3> QED
      BY <1>0, <2>1, <2>2, <3>2, UploadsInv DEF StoresInv
  <2>4. Jobs' /\ PlanInv'
    BY <1>0, <2>2 DEF StoresInv, Jobs, PlanInv, Docs
  <2>5. TaskInv'
    BY <1>0, <2>2 DEF StoresInv, TaskInv, Known, CallsNamed, SaveOk, taskStore
  <2>6. ActorsInv'
    BY <1>0, <1>3, <2>1, <2>2 DEF Prepare, ContextLoaded, ActorsInv
  <2> QED
    BY <2>3, <2>4, <2>5, <2>6 DEF StoresInv
<1>4. CASE Think
  <2>1. PICK b : Answer(b)
    BY <1>4 DEF Think
  <2>2. pc = "calling" /\ pc' \in {"endturn", "repeated", "tool", "wait"}
    <3>1. CASE b = <<>>
      BY <2>1, <3>1 DEF Answer
    <3>2. CASE b # <<>>
      BY <2>1, <3>2 DEF Answer
    <3> QED
      BY <3>1, <3>2
  <2>3. UNCHANGED <<job, callId, ctx, owner, taskStore, doc, nextPlan, tree>>
    BY <1>4 DEF Think, HostQuiet, stores, planStore
  <2> QED
    BY <1>0, <2>2, <2>3, StoresSame DEF ActorsInv
<1>5. CASE RunStep \/ RunGoesWrong \/ UserCancels \/ Timeout
  <2>1. Unbind /\ HostQuiet /\ UNCHANGED <<taskStore, planStore, tree>>
    BY <1>5 DEF RunStep, RunGoesWrong, UserCancels, Timeout, stores
  <2>2. pc \notin {"idle", "over", "job"} /\ pc' # "idle"
    BY <1>5, RunGoesOn
  <2> QED
    BY <1>0, <2>1, <2>2, RunMoves
<1>6. CASE UseTool
  <2>1. pc = "tool" /\ pc' = "job" /\ k \in 1..Len(batch) /\ batch[k] \notin {"wait", "bash", "spawn"}
    BY <1>0, <1>6 DEF UseTool, CallTool, RunInv, Placed
  <2>2. batch[k] \in StoreTools
    BY <1>0, <2>1, ProcessAssumption DEF RunInv, RunTyped, ToolNames
  <2>3. PICK op \in OpsOf(batch[k]) : Begin(Main, op)
    BY <1>6 DEF UseTool
  <2>4. op \in Ops
    BY <2>2, OpsOfTool
  <2>5. Id \in CallIds
    <3>1. turn \in 1..MaxTurns /\ k \in 1..MaxCalls
      BY <1>0, <2>1, TraceAssumption DEF RunInv, RunTyped, Placed
    <3>2. <<turn, k>> \in (1..MaxTurns) \X (1..MaxCalls)
      BY <3>1
    <3> QED
      BY <3>2, ProcessAssumption DEF Id
  <2>6. callId' = [callId EXCEPT ![Main] = Id] /\ callId'[Main] = Id
    BY <1>0, <1>6, ActorsApart DEF UseTool, StoresInv, TaskInv, CallsNamed
  <2>7. ctx[Main] \in Threads /\ UNCHANGED <<ctx, owner, taskStore, doc, nextPlan, tree>>
    BY <1>0, <1>6, <2>1 DEF UseTool, stores, planStore, ActorsInv
  <2>8. StoresInv'
    BY <1>0, <2>3, <2>4, <2>5, <2>6, <2>7, ActorsApart, CallBegins
  <2>9. \A w \in Workers : callId'[w] = callId[w]
    BY <1>0, <2>6, ActorsApart DEF StoresInv, TaskInv, CallsNamed
  <2> QED
    BY <1>0, <2>1, <2>7, <2>8, <2>9 DEF ActorsInv
<1>7. CASE ToolDone
  <2>1. job' = [job EXCEPT ![Main] = Idle] /\ callId' = [callId EXCEPT ![Main] = None]
        /\ UNCHANGED <<ctx, owner, taskStore, doc, nextPlan, tree>>
    BY <1>7 DEF ToolDone, stores, planStore
  <2>2. callId'[Main] = None /\ \A w \in Workers : callId'[w] = callId[w]
    BY <1>0, <2>1, ActorsApart DEF StoresInv, TaskInv, CallsNamed
  <2>3. StoresInv' /\ job'[Main].at = "idle"
    BY <1>0, <2>1, <2>2, ActorsApart, CallOver
  <2>4. pc = "job"
    BY <1>7 DEF ToolDone, ToolReturns
  <2> QED
    BY <1>0, <2>1, <2>2, <2>3, <2>4 DEF ActorsInv
<1>8. ASSUME NEW w \in Workers, Spawn(w)
      PROVE  ActorsInv' /\ StoresInv'
  <2>1. /\ pc = "tool" /\ pc' \in {"tool", "endturn"} /\ k \in 1..Len(batch) /\ ctx[w] = None
        /\ UNCHANGED <<job, taskStore, doc, nextPlan, tree>>
    BY <1>0, <1>8 DEF Spawn, CallSpawn, NextCall, stores, planStore, RunInv, Placed
  <2>2. /\ ctx' = [ctx EXCEPT ![w] = ctx[Main]] /\ owner' = [owner EXCEPT ![w] = owner[Main]]
        /\ callId' = [callId EXCEPT ![w] = Id]
    BY <1>8 DEF Spawn, Spawned
  <2>3. Id \in CallIds
    <3>1. turn \in 1..MaxTurns /\ k \in 1..MaxCalls
      BY <1>0, <2>1, TraceAssumption DEF RunInv, RunTyped, Placed
    <3>2. <<turn, k>> \in (1..MaxTurns) \X (1..MaxCalls)
      BY <3>1
    <3> QED
      BY <3>2, ProcessAssumption DEF Id
  <2>4. job[w].at = "idle" /\ job[Main].at = "idle"
    BY <1>0, <2>1, HostAssumption, ActorsApart DEF StoresInv, FilesInv, FileCallOk, ActorsInv
  <2>5. ctx[Main] \in Threads /\ owner[Main] = ctx[Main]
    BY <1>0, <2>1, ActorsApart DEF ActorsInv, StoresInv, FilesInv, Bound
  <2>6. FilesInv'
    BY <1>0, <2>1, <2>2, <2>4, <2>5, ActorsApart, BindInv DEF StoresInv
  <2>7. Jobs' /\ PlanInv'
    BY <1>0, <2>1 DEF StoresInv, Jobs, PlanInv, Docs
  <2>8. callId'[w] = Id /\ \A v \in Actors \ {w} : callId'[v] = callId[v]
    BY <1>0, <2>2, ActorsApart DEF StoresInv, TaskInv, CallsNamed
  <2>9. TaskInv'
    <3>1. OnlyJob(w) /\ ~ Saves(job'[w]) /\ UNCHANGED <<tasks, nextTask, taskLock>>
      BY <2>1, <2>4 DEF OnlyJob, Saves, taskStore
    <3> QED
      BY <1>0, <2>2, <2>3, <2>8, <3>1, ActorsApart, TasksUntouched DEF StoresInv
  <2>10. ctx'[Main] = ctx[Main] /\ \A v \in Workers \ {w} : ctx'[v] = ctx[v]
    BY <1>0, <2>2, ActorsApart DEF StoresInv, FilesInv, Bound
  <2>11. ActorsInv'
    BY <1>0, <2>1, <2>3, <2>4, <2>5, <2>8, <2>10, ActorsApart DEF ActorsInv
  <2> QED
    BY <2>6, <2>7, <2>9, <2>11 DEF StoresInv
<1>9. ASSUME NEW w \in Workers, WorkerCalls(w)
      PROVE  ActorsInv' /\ StoresInv'
  <2>1. PICK tool \in tools \cap StoreTools : \E op \in OpsOf(tool) : Begin(w, op)
    BY <1>9 DEF WorkerCalls
  <2>2. PICK op \in OpsOf(tool) : Begin(w, op)
    BY <2>1
  <2>3. op \in Ops
    BY OpsOfTool
  <2>4. UNCHANGED <<callId, ctx, owner, taskStore, doc, nextPlan, tree, pc>> /\ ctx[w] # None
    BY <1>9 DEF WorkerCalls, stores, planStore, run
  <2>5. ctx[w] \in Threads /\ callId[w] \in CallIds
    BY <1>0, <2>4, ActorsApart DEF StoresInv, FilesInv, Bound, ActorsInv
  <2>6. callId' = [callId EXCEPT ![w] = callId'[w]]
    BY <1>0, <2>4 DEF StoresInv, TaskInv, CallsNamed
  <2>7. StoresInv' /\ OnlyJob(w)
    BY <1>0, <2>2, <2>3, <2>4, <2>5, <2>6, ActorsApart, CallBegins
  <2> QED
    BY <1>0, <2>4, <2>7, ActorsApart DEF ActorsInv, OnlyJob
<1>10. ASSUME NEW w \in Workers, WorkerTold(w)
       PROVE  ActorsInv' /\ StoresInv'
  <2>1. /\ UNCHANGED <<callId, ctx, owner, taskStore, doc, nextPlan, tree, pc>>
        /\ job' = [job EXCEPT ![w] = Idle]
    BY <1>10 DEF WorkerTold, stores, planStore, run
  <2>2. callId' = [callId EXCEPT ![w] = callId'[w]]
    BY <1>0, <2>1 DEF StoresInv, TaskInv, CallsNamed
  <2>3. StoresInv' /\ OnlyJob(w)
    BY <1>0, <2>1, <2>2, ActorsApart, CallOver
  <2> QED
    BY <1>0, <2>1, <2>3, ActorsApart DEF ActorsInv, OnlyJob
<1>11. ASSUME NEW a \in Actors, StoreStep(a)
       PROVE  ActorsInv' /\ StoresInv'
  BY <1>0, <1>11, StoreStepInv
<1>12. CASE Crash
  <2>1. StoresInv'
    BY <1>0, <1>12, CrashJobs, TaskCrashInv, PlanCrashInv, FilesCrashInv DEF Crash, StoresInv, planStore
  <2>2. ActorsInv'
    BY <1>12, CrashJobs, IdleProper, ActorsApart DEF Crash, RunCrash, ActorsInv
  <2> QED
    BY <2>1, <2>2
<1>13. CASE TaskStarts
  <2>1. /\ UNCHANGED <<job, callId, ctx, owner, taskStore, tree, pc>>
        /\ doc' = [p \in Plans |-> Unreadable("none")] /\ nextPlan' = 1
    BY <1>13 DEF TaskStarts
  <2>2. PlanInv'
    BY <1>0, <2>1, UnreadableOk DEF StoresInv, PlanInv, Docs
  <2>3. Jobs' /\ FilesInv'
    BY <1>0, <2>1 DEF StoresInv, Jobs, FilesInv, Bound, FileCallOk, TreeOk, FilesStayHome
  <2>4. TaskInv'
    BY <1>0, <2>1 DEF StoresInv, TaskInv, Known, CallsNamed, SaveOk, taskStore
  <2>5. ActorsInv'
    BY <1>0, <2>1 DEF ActorsInv
  <2> QED
    BY <2>2, <2>3, <2>4, <2>5 DEF StoresInv
<1>14. CASE Delivered \/ HarnessStep \/ UNCHANGED vars
  <2>1. UNCHANGED <<job, ctx, owner, callId, taskStore, doc, nextPlan, tree>>
    BY <1>14 DEF Delivered, HarnessStep, vars, host, stores, planStore
  <2>2. UNCHANGED pc \/ (pc = "over" /\ pc' = "idle")
    BY <1>14 DEF Delivered, HarnessStep, CollectResult, RunFailed, RunTaken, vars, run
  <2> QED
    BY <1>0, <2>1, <2>2, StoresSame DEF ActorsInv
<1> QED
  BY <1>1, <1>2, <1>3, <1>4, <1>5, <1>6, <1>7, <1>8, <1>9, <1>10, <1>11, <1>12, <1>13, <1>14
     DEF Next, Progress

\* Every step of the process keeps the invariant.
LEMMA ProcessNextInv == ProcessInv /\ [Next]_vars => ProcessInv'
<1> SUFFICES ASSUME ProcessInv, [Next]_vars PROVE ProcessInv'
  OBVIOUS
<1>1. ActorsInv' /\ StoresInv'
  BY ProcessStores
<1>2. SceneInv'
  BY ProcessScene DEF ProcessInv
<1>3. RunInv'
  BY ProcessRuns, RunActInv, RunSameInv DEF ProcessInv, RunAct
<1> QED
  BY <1>1, <1>2, <1>3 DEF ProcessInv

THEOREM ProcessInductive == Spec => []ProcessInv
BY ProcessInitInv, ProcessNextInv, PTL DEF Spec

\* A plan that can be read has the status of its steps, whatever runs, subagents
\* and evaluations share the plans (plan_step.py, update_step).
THEOREM PlansFollowInProcess == Spec => []PlanStatusFollows
<1>1. ProcessInv => PlanStatusFollows
  BY DEF ProcessInv, StoresInv, PlanInv, Docs, PlanStatusFollows, DocOk, Whole, Sound
<1> QED
  BY <1>1, ProcessInductive, PTL

\* The files of a thread are its own, and its uploads the user's, though a
\* subagent outlives its run and works beside the runs of other threads
\* (workspace.py, resolve_workspace_path).
THEOREM FilesStayInProcess == Spec => []FilesStayHome
<1>1. ProcessInv => FilesStayHome
  BY DEF ProcessInv, StoresInv, FilesInv, TreeOk
<1> QED
  BY <1>1, ProcessInductive, PTL

\* In the whole process, too, the task file is the abstract list, and no step of a
\* run, of the server or of the harness is more than one request (tasks.py, tasks).
THEOREM ProcessImplementsList == Spec => TaskListSpec
<1>1. Init => List!Init
  BY DEF Init, TaskInit, List!Init
<1>2. ProcessInv /\ [Next]_vars => [List!Next]_tasks
  <2> SUFFICES ASSUME ProcessInv, [Next]_vars PROVE List!Next \/ UNCHANGED tasks
    OBVIOUS
  <2>1. CASE \E a \in Actors : StoreStep(a)
    BY <2>1, TaskStepRefines DEF StoreStep, taskStore, ProcessInv, StoresInv
  <2>2. CASE \/ Serve \/ Prepare \/ UseTool \/ ToolDone \/ TaskStarts \/ TaskPrompt \/ HarnessStep
             \/ Delivered \/ Think \/ RunStep \/ RunGoesWrong \/ UserCancels \/ Timeout \/ Crash
             \/ \E w \in Workers : Spawn(w) \/ WorkerCalls(w) \/ WorkerTold(w)
             \/ UNCHANGED vars
    BY <2>2 DEF Serve, Prepare, UseTool, ToolDone, TaskStarts, TaskPrompt, HarnessStep, Delivered, Think,
       RunStep, RunGoesWrong, UserCancels, Timeout, Crash, TaskCrash, Spawn, WorkerCalls, WorkerTold,
       vars, stores, taskStore
  <2> QED
    BY <2>1, <2>2 DEF Next, Progress
<1> QED
  BY <1>1, <1>2, ProcessInductive, PTL DEF Spec, TaskListSpec, List!Spec

\* However the calls of a run are blocked, skipped, refused or repeated, the trace
\* of a run that returns keeps the contract (judges.py, _assert_trace_contract).
THEOREM TracesKeepContract == Spec => []TraceContract
<1>1. ProcessInv => TraceContract
  BY ContractFollows DEF ProcessInv
<1> QED
  BY <1>1, ProcessInductive, PTL

\* What a client is shown before an answer is the text of the attempt that gave the
\* answer, however often the provider is called again (loop.py, _astream_with_retry).
THEOREM ShownAnswers == Spec => []ShownIsAnswer
<1>1. ProcessInv => ShownIsAnswer
  BY DEF ProcessInv, RunInv, Tokens
<1> QED
  BY <1>1, ProcessInductive, PTL

-----------------------------------------------------------------------------
(***************************************************************************)
(* What callers of the stores are told.  A task of an evaluation gets new  *)
(* stores, and overlaps of earlier tasks are forgotten with them; that is  *)
(* sound because the harness has no subagent that could still be calling.  *)
(***************************************************************************)

\* An agent calls the tools it has.
BatchOk == \A i \in DOMAIN batch : batch[i] \in tools

\* Between two tasks of an evaluation nothing runs.
HarnessAlone ==
  harness => /\ "spawn" \notin tools
             /\ \A w \in Workers : ctx[w] = None
             /\ stage # "running" => pc = "idle"

KeptInv == BatchOk /\ HarnessAlone /\ ToldInv

LEMMA KeptInitInv == Init => KeptInv
<1> SUFFICES ASSUME Init PROVE KeptInv
  OBVIOUS
<1>1. BatchOk
  BY DEF Init, RunInit, BatchOk
<1>2. HarnessAlone
  BY ActorsApart DEF Init, HostInit, RunInit, HarnessAlone
<1>3. ToldInv
  BY ToldInitInv DEF Init
<1> QED
  BY <1>1, <1>2, <1>3 DEF KeptInv

\* Nothing but an answer gives a run its calls.
LEMMA MovesBatch ==
  ASSUME RunMove
  PROVE  batch' = batch \/ batch' = <<>>
<1>1. CASE StartRun \/ RunCrash \/ RunTaken
  BY <1>1 DEF StartRun, RunCrash, RunTaken, LocalsReset
<1>2. CASE BeginTurn \/ ContextLoaded \/ ContextFails \/ Chunk \/ Retry \/ RetryDelayOver \/ GiveUp
  BY <1>2 DEF BeginTurn, ContextLoaded, ContextFails, Chunk, Retry, RetryDelayOver, GiveUp, Fail, Leave,
     locals
<1>3. CASE \/ Pause \/ RepeatStop \/ CallRefused \/ CallBlocked \/ CallRaises \/ CallBash \/ Acquired
           \/ CallSpawn \/ CallTool
  BY <1>3 DEF Pause, RepeatStop, CallRefused, CallBlocked, CallRaises, Fail, CallBash, Acquired, CallSpawn, CallTool,
     NextCall, Leave, locals
<1>4. CASE \E ok \in BOOLEAN : BashReturns(ok) \/ ToolReturns(ok)
  BY <1>4 DEF BashReturns, ToolReturns, NextCall
<1>5. CASE TurnLimit \/ NextTurn \/ Finish \/ Release \/ ReleaseFails \/ Cancel
  BY <1>5 DEF TurnLimit, NextTurn, Finish, Release, ReleaseFails, Cancel, Fail, Leave, locals
<1> QED
  BY <1>1, <1>2, <1>3, <1>4, <1>5 DEF RunMove

LEMMA BatchKept ==
  ASSUME SceneInv, BatchOk, [Next]_vars, UNCHANGED tools
  PROVE  BatchOk'
<1>1. CASE RunMove \/ RunSame
  <2>1. batch' = batch \/ batch' = <<>>
    BY <1>1, MovesBatch DEF RunSame
  <2> QED
    BY <2>1 DEF BatchOk
<1>2. ASSUME NEW b \in Seq(tools), Answer(b)
      PROVE  BatchOk'
  <2>1. batch' = b
    BY <1>2 DEF Answer
  <2> QED
    BY <2>1 DEF BatchOk
<1> QED
  BY <1>1, <1>2, ProcessRuns

\* No step makes a subagent of the harness, or leaves a run behind its task.
LEMMA HarnessKept ==
  ASSUME ProcessInv, BatchOk, HarnessAlone, [Next]_vars
  PROVE  HarnessAlone' /\ UNCHANGED tools
<1>0. UNCHANGED <<harness, tools>>
  BY DEF Next, Progress, Serve, Prepare, UseTool, ToolDone, TaskStarts, TaskPrompt, HarnessStep, Delivered,
     Think, RunStep, RunGoesWrong, UserCancels, Timeout, Crash, Spawn, WorkerCalls, WorkerTold, StoreStep,
     vars, scene
<1> SUFFICES ASSUME harness
             PROVE  (\A w \in Workers : ctx'[w] = None) /\ (stage' # "running" => pc' = "idle")
  BY <1>0 DEF HarnessAlone
<1>1. /\ "spawn" \notin tools /\ \A w \in Workers : ctx[w] = None
      /\ stage # "running" => pc = "idle"
  BY DEF HarnessAlone
<1>2. /\ ctx = [a \in Actors |-> ctx[a]] /\ Jobs
      /\ pc = "tool" => k \in DOMAIN batch
  <2>1. pc = "tool" => k \in DOMAIN batch
    BY DEF ProcessInv, RunInv, Placed, RunTyped
  <2> QED
    BY <2>1 DEF ProcessInv, StoresInv, FilesInv, Bound
<1>3. ASSUME NEW t, BindWorkspace(t) \/ UnbindWorkspace \/ UNCHANGED ctx
      PROVE  \A w \in Workers : ctx'[w] = None
  BY <1>1, <1>2, <1>3, ActorsApart DEF BindWorkspace, UnbindWorkspace
<1>4. CASE Serve \/ Delivered \/ UserCancels \/ Crash
  BY <1>4 DEF Serve, Delivered, UserCancels, Crash
<1>5. CASE RunStep \/ RunGoesWrong \/ Timeout
  <2>1. pc # "idle" /\ Unbind /\ UNCHANGED stage
    BY <1>5, RunGoesOn DEF RunStep, RunGoesWrong, Timeout, harnessVars
  <2> QED
    BY <1>1, <1>3, <2>1 DEF Unbind
<1>6. CASE Prepare \/ UseTool \/ ToolDone \/ Think
  <2>1. pc # "idle" /\ UNCHANGED <<stage, ctx>>
    BY <1>6 DEF Prepare, ContextLoaded, UseTool, CallTool, ToolDone, ToolReturns, Think, Answer, harnessVars
  <2> QED
    BY <1>1, <2>1
<1>7. CASE TaskStarts
  BY <1>1, <1>7 DEF TaskStarts, StartTask
<1>8. CASE TaskPrompt
  <2>1. stage = "running" /\ UNCHANGED stage /\ BindWorkspace(ThreadOf[taskNo])
    BY <1>8 DEF TaskPrompt, Prompted, harnessVars
  <2> QED
    BY <1>3, <2>1
<1>9. CASE HarnessStep
  <2>1. UNCHANGED ctx
    BY <1>9 DEF HarnessStep, host
  <2>2. CASE CollectResult \/ RunFailed
    BY <1>1, <2>1, <2>2 DEF CollectResult, RunFailed, RunTaken
  <2>3. CASE (Judge \/ FeaturesRefused) /\ UNCHANGED run
    BY <1>1, <2>1, <2>3 DEF Judge, FeaturesRefused, run
  <2> QED
    BY <1>9, <2>2, <2>3 DEF HarnessStep
<1>10. ASSUME NEW w \in Workers, Spawn(w)
       PROVE  FALSE
  <2>1. pc = "tool" /\ batch[k] = "spawn"
    BY <1>10 DEF Spawn, CallSpawn
  <2> QED
    BY <1>1, <1>2, <2>1 DEF BatchOk
<1>11. ASSUME NEW w \in Workers, WorkerCalls(w) \/ WorkerTold(w)
       PROVE  UNCHANGED <<pc, stage, ctx>>
  BY <1>11 DEF WorkerCalls, WorkerTold, run, harnessVars
<1>12. ASSUME NEW a \in Actors, StoreStep(a)
       PROVE  UNCHANGED <<pc, stage, ctx>>
  <2>1. UNCHANGED <<pc, stage>>
    BY <1>12 DEF StoreStep, run, harnessVars
  <2>2. UNCHANGED ctx
    BY <1>12, TaskStepInv, PlanStepInv, MemoryStepJobs, FileStepInv DEF StoreStep, ProcessInv, StoresInv
  <2> QED
    BY <2>1, <2>2
<1>13. CASE UNCHANGED vars
  BY <1>1, <1>13 DEF vars, host, run, harnessVars
<1> QED
  BY <1>1, <1>4, <1>5, <1>6, <1>7, <1>8, <1>9, <1>10, <1>11, <1>12, <1>13 DEF Next, Progress

\* Between two tasks nobody is in a call.
LEMMA NobodyCalls ==
  ASSUME ProcessInv, HarnessAlone, harness, stage # "running", NEW a \in Actors
  PROVE  job[a].at = "idle"
<1>1. CASE a = Main
  BY <1>1 DEF HarnessAlone, ProcessInv, ActorsInv
<1>2. CASE a \in Workers
  <2>1. ctx[a] = None
    BY <1>2 DEF HarnessAlone
  <2> QED
    BY <2>1, HostAssumption DEF ProcessInv, StoresInv, FilesInv, FileCallOk
<1> QED
  BY <1>1, <1>2 DEF Actors

\* Every step keeps what callers were told.
LEMMA KeptNextInv == ProcessInv /\ KeptInv /\ [Next]_vars => KeptInv'
<1> SUFFICES ASSUME ProcessInv, KeptInv, [Next]_vars PROVE KeptInv'
  OBVIOUS
<1>0. BatchOk /\ HarnessAlone /\ ToldInv /\ Jobs /\ TaskInv /\ PlanInv /\ FilesInv /\ ActorsInv
  BY DEF KeptInv, ProcessInv, StoresInv
<1>1. HarnessAlone' /\ BatchOk'
  BY <1>0, HarnessKept, BatchKept DEF ProcessInv
<1> SUFFICES ToldInv'
  BY <1>1 DEF KeptInv
<1>2. ASSUME UNCHANGED <<job, answered, disturbed, tasks, doc, planIndex, memory>>
      PROVE  ToldInv'
  BY <1>0, <1>2 DEF ToldInv, Alone, Busy, InCall, TasksTold, TasksKept, Deleted, ToldOf, SaveMeans,
     PlansTold, PlansAsTold, AtWork, Underway, Indexed, Whole, PlanCallOk, Summary, MemoryTold,
     MemoryAsTold, In, FactsOk, Appends
<1>3. CASE \/ Serve \/ Prepare \/ TaskPrompt \/ HarnessStep \/ Delivered \/ Think \/ RunStep \/ RunGoesWrong
           \/ UserCancels \/ Timeout \/ (\E w \in Workers : Spawn(w)) \/ UNCHANGED vars
  <2>1. UNCHANGED <<job, answered, disturbed, taskStore, planStore, memoryStore>>
    BY <1>3 DEF Serve, Prepare, TaskPrompt, HarnessStep, Delivered, Think, RunStep, RunGoesWrong,
       UserCancels, Timeout, Spawn, HostQuiet, vars, host, stores
  <2> QED
    BY <1>2, <2>1 DEF taskStore, planStore, memoryStore
<1>4. CASE UseTool
  <2>1. pc = "tool" /\ k \in 1..Len(batch) /\ batch[k] \in ToolNames
        /\ batch[k] \notin {"wait", "bash", "spawn"}
    BY <1>4 DEF UseTool, CallTool, ProcessInv, RunInv, RunTyped, Placed
  <2>2. batch[k] \in StoreTools
    BY <2>1, ProcessAssumption DEF ToolNames
  <2>3. PICK op \in OpsOf(batch[k]) : Begin(Main, op)
    BY <1>4 DEF UseTool
  <2>4. op \in Ops /\ UNCHANGED <<answered, taskStore, planStore, memoryStore>>
    BY <1>4, <2>2, OpsOfTool DEF UseTool, stores
  <2> QED
    BY <1>0, <2>3, <2>4, ActorsApart, ToldBegins DEF taskStore, planStore, memoryStore
<1>5. ASSUME NEW w \in Workers, WorkerCalls(w)
      PROVE  ToldInv'
  <2>1. PICK tool \in StoreTools : \E op \in OpsOf(tool) : Begin(w, op)
    BY <1>5 DEF WorkerCalls
  <2>2. PICK op \in OpsOf(tool) : Begin(w, op)
    BY <2>1
  <2>3. op \in Ops /\ UNCHANGED <<answered, taskStore, planStore, memoryStore>>
    BY <1>5, OpsOfTool DEF WorkerCalls, stores
  <2> QED
    BY <1>0, <2>2, <2>3, ActorsApart, ToldBegins DEF taskStore, planStore, memoryStore
<1>6. ASSUME ToolDone \/ \E w \in Workers : WorkerTold(w)
      PROVE  ToldInv'
  <2>1. PICK a \in Actors : job[a].at = "replied" /\ job' = [job EXCEPT ![a] = Idle]
    BY <1>6, ActorsApart DEF ToolDone, WorkerTold
  <2>2. UNCHANGED <<answered, disturbed, taskStore, planStore, memoryStore>>
    BY <1>6 DEF ToolDone, WorkerTold, stores
  <2> QED
    BY <1>0, <2>1, <2>2, ToldOver DEF taskStore, planStore, memoryStore
<1>7. ASSUME NEW a \in Actors, StoreStep(a)
      PROVE  ToldInv'
  <2>1. \/ TaskStep(a) /\ UNCHANGED <<planStore, memoryStore>>
        \/ PlanStep(a) /\ UNCHANGED <<taskStore, memoryStore>>
        \/ MemoryStep(a) /\ UNCHANGED <<taskStore, planStore>>
        \/ FileStep(a) /\ UNCHANGED <<taskStore, planStore, memoryStore>>
    BY <1>7 DEF StoreStep
  <2> QED
    BY <1>0, <2>1, ToldStep
<1>8. CASE Crash
  BY <1>0, <1>8, ToldCrash DEF Crash, TaskCrash, planStore, memoryStore
<1>9. CASE TaskStarts
  <2>1. harness /\ stage # "running" /\ UNCHANGED <<job, tasks>>
        /\ answered' = { w \in answered : w.op.store = "tasks" }
        /\ memory' = [f \in {"MEMORY", "USER"} |-> {}]
    BY <1>9 DEF TaskStarts, StartTask, taskStore
  <2>2. \A a \in Actors : job[a].at = "idle"
    BY <1>0, <2>1, NobodyCalls
  <2>3. \A a \in Actors : ~ InCall(a)' /\ ~ In(a, "memory", "open")' /\ ~ In(a, "memory", "write")'
    BY <2>1, <2>2 DEF InCall, In
  <2>4. ToldOf("plans")' = {} /\ ToldOf("memory")' = {} /\ ToldOf("tasks")' = ToldOf("tasks")
    BY <2>1 DEF ToldOf
  <2>5. Aside("tasks")
    BY <2>1, <2>4 DEF Aside
  <2>6. TasksTold'
    BY <1>0, <2>1, <2>5, TasksAside DEF ToldInv
  <2>7. Alone("plans")' /\ Alone("memory")'
    BY <2>3 DEF Alone, Busy
  <2>8. PlansAsTold' /\ MemoryAsTold'
    BY <2>1, <2>3, <2>4 DEF PlansAsTold, MemoryAsTold, Underway, Busy
  <2> QED
    BY <2>6, <2>7, <2>8 DEF ToldInv, PlansTold, MemoryTold
<1> QED
  BY <1>3, <1>4, <1>5, <1>6, <1>7, <1>8, <1>9 DEF Next, Progress

\* What a caller was told is done stays done: of the task list whatever happens,
\* of plans and memory unless calls overlapped, were cut short or failed.
THEOREM AnswersKept == Spec => []AnsweredWritesKept
<1>1. KeptInv => AnsweredWritesKept
  BY ToldIsKept DEF KeptInv, AnsweredWritesKept
<1> QED
  BY <1>1, ProcessInductive, KeptInitInv, KeptNextInv, PTL DEF Spec

-----------------------------------------------------------------------------
(***************************************************************************)
(* What the events count.                                                  *)
(***************************************************************************)

Met == [turns : Nat, answers : Nat, calls : Nat, errors : Nat, retries : Nat]

\* The results that report a failure.
Failed(evs) == { i \in Places(evs, "tool_result") : ~ evs[i].ok }

\* What one event adds.
Worth(u) ==
  [turns   |-> IF u.event = "turn_start" THEN 1 ELSE 0,
   answers |-> IF u.event = "llm_end" THEN 1 ELSE 0,
   calls   |-> IF u.event = "tool_call" THEN 1 ELSE 0,
   errors  |-> IF u.event = "tool_result" /\ ~ u.ok THEN 1 ELSE 0,
   retries |-> IF u.event = "llm_retry" THEN 1 ELSE 0]

\* Calls that were requested and are not reported yet.
Owed ==
  CASE pc = "tool"                 -> Len(batch) - k + 1
    [] pc \in {"wait", "repeated"} -> Len(batch)
    [] pc \in Calling              -> Len(batch) - k
    [] OTHER                       -> 0

\* The events of a run that does not raise count what it did.
Counted ==
  /\ did \in Met
  /\ outcome # "raised" => did = [Metrics(events) EXCEPT !.calls = @ + Owed]

EndOnly == ToolKeys(events, "end") # {} => pc = "over" /\ outcome = "ended"

\* Only what was asked is answered.
Asked ==
  /\ \A key \in ToolKeys(events, "llm_end") : Had(events, "llm_start", key[1])
  /\ pc \in {"calling", "backoff"} => Had(events, "llm_start", turn)

TallyInv == Counted /\ EndOnly /\ Asked

\* The events in a list that is put together.
LEMMA PlacesJoined ==
  ASSUME NEW S, NEW a \in Seq(S), NEW b \in Seq(S)
  PROVE  /\ \A e : Places(a \o b, e) = Spliced(Places(a, e), Places(b, e), Len(a))
         /\ \A e, t : InTurn(a \o b, e, t) = Spliced(InTurn(a, e, t), InTurn(b, e, t), Len(a))
         /\ Failed(a \o b) = Spliced(Failed(a), Failed(b), Len(a))
<1> DEFINE c == a \o b
<1>1. c \in Seq(S) /\ DOMAIN c = 1..(Len(a) + Len(b)) /\ DOMAIN a = 1..Len(a) /\ DOMAIN b = 1..Len(b)
  OBVIOUS
<1>2. \A i \in DOMAIN a : i \in DOMAIN c /\ c[i] = a[i]
  BY <1>1
<1>3. \A i \in DOMAIN b : i + Len(a) \in DOMAIN c /\ c[i + Len(a)] = b[i]
  BY <1>1
<1>4. \A i \in DOMAIN c : \/ i \in DOMAIN a /\ c[i] = a[i]
                          \/ /\ i - Len(a) \in DOMAIN b /\ c[i] = b[i - Len(a)]
                             /\ i = (i - Len(a)) + Len(a)
  BY <1>1
<1> HIDE DEF c
<1>5. ASSUME NEW e
      PROVE  Places(c, e) = Spliced(Places(a, e), Places(b, e), Len(a))
  <2>1. Places(c, e) \subseteq Spliced(Places(a, e), Places(b, e), Len(a))
    BY <1>4 DEF Places, Spliced
  <2>2. Spliced(Places(a, e), Places(b, e), Len(a)) \subseteq Places(c, e)
    BY <1>2, <1>3 DEF Places, Spliced
  <2> QED
    BY <2>1, <2>2
<1>6. ASSUME NEW e, NEW t
      PROVE  InTurn(c, e, t) = Spliced(InTurn(a, e, t), InTurn(b, e, t), Len(a))
  <2>1. InTurn(c, e, t) \subseteq Spliced(InTurn(a, e, t), InTurn(b, e, t), Len(a))
    BY <1>4 DEF InTurn, Places, Spliced
  <2>2. Spliced(InTurn(a, e, t), InTurn(b, e, t), Len(a)) \subseteq InTurn(c, e, t)
    BY <1>2, <1>3 DEF InTurn, Places, Spliced
  <2> QED
    BY <2>1, <2>2
<1>7. Failed(c) = Spliced(Failed(a), Failed(b), Len(a))
  <2>1. Failed(c) \subseteq Spliced(Failed(a), Failed(b), Len(a))
    BY <1>4 DEF Failed, Places, Spliced
  <2>2. Spliced(Failed(a), Failed(b), Len(a)) \subseteq Failed(c)
    BY <1>2, <1>3 DEF Failed, Places, Spliced
  <2> QED
    BY <2>1, <2>2
<1> QED
  BY <1>5, <1>6, <1>7 DEF c

\* Joined lists count what both count.
LEMMA MetricsJoined ==
  ASSUME NEW S, NEW a \in Seq(S), NEW b \in Seq(S)
  PROVE  /\ Metrics(a) \in Met
         /\ Metrics(a \o b) = Plus(Metrics(a), Metrics(b))
         /\ \A e, t : Cardinality(InTurn(a \o b, e, t)) = Cardinality(InTurn(a, e, t)) + Cardinality(InTurn(b, e, t))
<1>1. Len(a) \in Nat /\ Len(b) \in Nat /\ DOMAIN a = 1..Len(a) /\ DOMAIN b = 1..Len(b)
  OBVIOUS
<1>2. \A e : /\ Cardinality(Places(a, e)) \in Nat
             /\ Cardinality(Places(a \o b, e)) = Cardinality(Places(a, e)) + Cardinality(Places(b, e))
  <2> TAKE e
  <2> DEFINE P == Places(a, e)
             Q == Places(b, e)
  <2>1. P \in SUBSET (1..Len(a)) /\ Q \in SUBSET (1..Len(b))
    BY <1>1 DEF Places
  <2>2. Places(a \o b, e) = Spliced(P, Q, Len(a))
    BY PlacesJoined
  <2> HIDE DEF P, Q
  <2>3. /\ Cardinality(P) \in Nat
        /\ Cardinality(Spliced(P, Q, Len(a))) = Cardinality(P) + Cardinality(Q)
    BY <1>1, <2>1, CountJoined
  <2> QED
    BY <2>2, <2>3 DEF P, Q
<1>3. \A e, t : Cardinality(InTurn(a \o b, e, t)) = Cardinality(InTurn(a, e, t)) + Cardinality(InTurn(b, e, t))
  <2> TAKE e, t
  <2> DEFINE P == InTurn(a, e, t)
             Q == InTurn(b, e, t)
  <2>1. P \in SUBSET (1..Len(a)) /\ Q \in SUBSET (1..Len(b))
    BY <1>1 DEF InTurn, Places
  <2>2. InTurn(a \o b, e, t) = Spliced(P, Q, Len(a))
    BY PlacesJoined
  <2> HIDE DEF P, Q
  <2>3. /\ Cardinality(P) \in Nat
        /\ Cardinality(Spliced(P, Q, Len(a))) = Cardinality(P) + Cardinality(Q)
    BY <1>1, <2>1, CountJoined
  <2> QED
    BY <2>2, <2>3 DEF P, Q
<1>4. /\ Cardinality(Failed(a)) \in Nat
      /\ Cardinality(Failed(a \o b)) = Cardinality(Failed(a)) + Cardinality(Failed(b))
  <2> DEFINE P == Failed(a)
             Q == Failed(b)
  <2>1. P \in SUBSET (1..Len(a)) /\ Q \in SUBSET (1..Len(b))
    BY <1>1 DEF Failed, Places
  <2>2. Failed(a \o b) = Spliced(P, Q, Len(a))
    BY PlacesJoined
  <2> HIDE DEF P, Q
  <2>3. /\ Cardinality(P) \in Nat
        /\ Cardinality(Spliced(P, Q, Len(a))) = Cardinality(P) + Cardinality(Q)
    BY <1>1, <2>1, CountJoined
  <2> QED
    BY <2>2, <2>3 DEF P, Q
<1>5. \A s : Metrics(s) = [turns   |-> Cardinality(Places(s, "turn_start")),
                          answers |-> Cardinality(Places(s, "llm_end")),
                          calls   |-> Cardinality(Places(s, "tool_call")),
                          errors  |-> Cardinality(Failed(s)),
                          retries |-> Cardinality(Places(s, "llm_retry"))]
  BY DEF Metrics, Failed
<1> QED
  BY <1>2, <1>3, <1>4, <1>5 DEF Met, Plus

\* What a list counts that is written out.
LEMMA MetricsListed ==
  ASSUME NEW u \in Ev, NEW v \in Ev, NEW w \in Ev
  PROVE  /\ Metrics(<<>>) = Nothing
         /\ Metrics(<<u>>) = Worth(u)
         /\ Metrics(<<u, v>>) = Plus(Worth(u), Worth(v))
         /\ Metrics(<<u, v, w>>) = Plus(Plus(Worth(u), Worth(v)), Worth(w))
         /\ {Worth(u), Worth(v), Worth(w)} \subseteq Met
<1>1. \A S : S = {} => Cardinality(S) = 0
  BY FS_EmptySet
<1>2. Metrics(<<>>) = Nothing
  <2>1. \A e : Places(<<>>, e) = {}
    BY DEF Places
  <2> QED
    BY <1>1, <2>1 DEF Metrics, Nothing
<1>3. ASSUME NEW x \in Ev
      PROVE  Metrics(<<x>>) = Worth(x) /\ Worth(x) \in Met
  <2>1. \A e : Places(<<x>>, e) = IF x.event = e THEN {1} ELSE {}
    BY DEF Places
  <2>2. Failed(<<x>>) = IF x.event = "tool_result" /\ ~ x.ok THEN {1} ELSE {}
    BY <2>1 DEF Failed
  <2>3. Cardinality({1}) = 1
    BY FS_Singleton
  <2>4. \A e : Cardinality(Places(<<x>>, e)) = IF x.event = e THEN 1 ELSE 0
    BY <1>1, <2>1, <2>3
  <2>5. Cardinality(Failed(<<x>>)) = IF x.event = "tool_result" /\ ~ x.ok THEN 1 ELSE 0
    BY <1>1, <2>2, <2>3
  <2> QED
    BY <2>4, <2>5 DEF Metrics, Worth, Failed, Met
<1>4. <<u>> \in Seq(Ev) /\ <<v>> \in Seq(Ev) /\ <<w>> \in Seq(Ev) /\ <<u, v>> \in Seq(Ev)
  OBVIOUS
<1>5. <<u, v>> = <<u>> \o <<v>> /\ <<u, v, w>> = <<u, v>> \o <<w>>
  <2> DEFINE x == <<u, v>> \o <<w>>
             y == <<u, v, w>>
  <2>1. x \in Seq(Ev) /\ y \in Seq(Ev) /\ Len(x) = 3 /\ Len(y) = 3
    BY <1>4
  <2>2. x[1] = u /\ x[2] = v /\ x[3] = w /\ y[1] = u /\ y[2] = v /\ y[3] = w
    BY <1>4
  <2> HIDE DEF x, y
  <2>3. x = y
    BY <2>1, <2>2, SeqEqual
  <2> DEFINE r == <<u>> \o <<v>>
             s == <<u, v>>
  <2>4. r \in Seq(Ev) /\ s \in Seq(Ev) /\ Len(r) = 2 /\ Len(s) = 2
    BY <1>4
  <2>5. r[1] = u /\ r[2] = v /\ s[1] = u /\ s[2] = v
    BY <1>4
  <2> HIDE DEF r, s
  <2>6. r = s
    BY <2>4, <2>5, SeqEqual
  <2> QED
    BY <2>3, <2>6 DEF x, y, r, s
<1>6. Metrics(<<u, v>>) = Plus(Worth(u), Worth(v))
  BY <1>3, <1>4, <1>5, MetricsJoined
<1>7. Metrics(<<u, v, w>>) = Plus(Plus(Worth(u), Worth(v)), Worth(w))
  BY <1>3, <1>4, <1>5, <1>6, MetricsJoined
<1> QED
  BY <1>2, <1>3, <1>6, <1>7

LEMMA WorthListed ==
  ASSUME NEW u \in Ev
  PROVE  <<u>> \in Seq(Ev) /\ Metrics(<<u>>) = Worth(u)
<1>1. <<u>> \in Seq(Ev)
  OBVIOUS
<1>2. Metrics(<<u>>) = Worth(u)
  BY MetricsListed
<1> QED
  BY <1>1, <1>2

\* Calls and failures, and nothing else.
Only(c, f) == [turns |-> 0, answers |-> 0, calls |-> c, errors |-> f, retries |-> 0]

\* The kinds of event that are counted.
Scored == {"turn_start", "llm_end", "tool_call", "tool_result", "llm_retry"}

LEMMA Worthless ==
  /\ \A u : u.event \notin Scored => Worth(u) = Nothing
  /\ Nothing \in Met /\ Nothing = Only(0, 0)
  /\ \A m \in Met : Plus(m, Nothing) = m /\ Plus(Nothing, m) = m
  /\ \A a, b, c, d \in Nat : Plus(Only(a, b), Only(c, d)) = Only(a + c, b + d) /\ Only(a, b) \in Met
  /\ \A m, n \in Met : Plus(m, n) \in Met
<1>1. \A u : u.event \notin Scored => Worth(u) = Nothing
  BY DEF Scored, Worth, Nothing
<1>2. Nothing \in Met /\ Nothing = Only(0, 0)
  BY DEF Met, Nothing, Only
<1>3. \A m \in Met : Plus(m, Nothing) = m /\ Plus(Nothing, m) = m
  BY DEF Met, Nothing, Plus
<1>4. \A a, b, c, d \in Nat : Plus(Only(a, b), Only(c, d)) = Only(a + c, b + d) /\ Only(a, b) \in Met
  BY DEF Only, Plus, Met
<1>5. \A m, n \in Met : Plus(m, n) \in Met
  BY DEF Met, Plus
<1> QED
  BY <1>1, <1>2, <1>3, <1>4, <1>5

\* Events that are not counted.
LEMMA QuietMetrics ==
  ASSUME NEW u \in Ev, NEW v \in Ev, u.event \notin Scored, v.event \notin Scored
  PROVE  Metrics(<<u>>) = Nothing /\ Metrics(<<u, v>>) = Nothing
<1>1. Worth(u) = Nothing /\ Worth(v) = Nothing
  BY Worthless
<1>2. Metrics(<<u>>) = Worth(u) /\ Metrics(<<u, v>>) = Plus(Worth(u), Worth(v))
  BY MetricsListed
<1> QED
  BY <1>1, <1>2, Worthless

\* The events of a call and its result are one call, and a failure or none.
LEMMA CallMetrics ==
  ASSUME RunTyped, NEW i \in 1..Len(batch), NEW ok \in BOOLEAN
  PROVE  LET made == <<OfCall("tool_call", i, TRUE)>>
             bad  == IF ok THEN 0 ELSE 1
         IN /\ Metrics(made) = Only(1, 0)
            /\ Metrics(Result(i, ok)) = Only(0, bad)
            /\ Metrics(made \o Result(i, ok)) = Only(1, bad)
<1> DEFINE c == OfCall("tool_call", i, TRUE)
           s == Event("checkpoint_saved")
           r == OfCall("tool_result", i, ok)
           bad == IF ok THEN 0 ELSE 1
<1>1. {"tool_call", "tool_result", "checkpoint_saved"} \subseteq EventKinds
  BY DEF EventKinds
<1>2. c \in Ev /\ c.event = "tool_call"
  BY <1>1, EventsTyped
<1>3. r \in Ev /\ r.event = "tool_result"
  BY <1>1, EventsTyped
<1>4. s \in Ev /\ s.event = "checkpoint_saved"
  BY <1>1, EventsTyped
<1>5. r.ok = ok
  BY DEF OfCall
<1>6. Result(i, ok) = <<s, r>>
  BY DEF Result
<1> HIDE DEF c, s, r
<1>7. Worth(c) = Only(1, 0)
  BY <1>2 DEF Worth, Only
<1>8. Worth(s) = Nothing
  BY <1>4, Worthless DEF Scored
<1>9. Worth(r) = Only(0, bad)
  BY <1>3, <1>5 DEF Worth, Only
<1>10. bad \in Nat
  OBVIOUS
<1> HIDE DEF bad
<1>11. Metrics(<<c>>) = Only(1, 0)
  BY <1>2, <1>7, MetricsListed
<1>12. Metrics(<<s, r>>) = Only(0, bad)
  <2>1. Metrics(<<s, r>>) = Plus(Worth(s), Worth(r))
    BY <1>3, <1>4, MetricsListed
  <2>2. Only(0, bad) \in Met
    BY <1>10, Worthless
  <2> QED
    BY <1>8, <1>9, <2>1, <2>2, Worthless
<1>13. Metrics(<<c>> \o <<s, r>>) = Only(1, bad)
  <2>1. <<c>> \in Seq(Ev) /\ <<s, r>> \in Seq(Ev)
    BY <1>2, <1>3, <1>4
  <2>2. Metrics(<<c>> \o <<s, r>>) = Plus(Only(1, 0), Only(0, bad))
    BY <1>11, <1>12, <2>1, MetricsJoined
  <2>3. Plus(Only(1, 0), Only(0, bad)) = Only(1 + 0, 0 + bad)
    BY <1>10, Worthless
  <2> QED
    BY <1>10, <2>2, <2>3
<1> QED
  BY <1>6, <1>11, <1>12, <1>13 DEF c, bad

\* One in three.
Thirds(n, r) == { p \in 1..(3 * n) : (p - 1) % 3 = r }

LEMMA EveryThird ==
  ASSUME NEW n \in Nat, NEW r \in 0..2
  PROVE  Cardinality(Thirds(n, r)) = n
<1> DEFINE R == { p \in 1..(3 * n) : (p - 1) % 3 = r }
           f == [i \in 1..n |-> 3 * (i - 1) + r + 1]
<1>1. f \in [1..n -> R]
  <2>1. \A i \in 1..n : 3 * (i - 1) + r + 1 \in 1..(3 * n) /\ ((3 * (i - 1) + r + 1) - 1) % 3 = r
    OBVIOUS
  <2> QED
    BY <2>1
<1>2. \A x, y \in 1..n : f[x] = f[y] => x = y
  OBVIOUS
<1>3. \A p \in R : \E i \in 1..n : f[i] = p
  <2> TAKE p \in R
  <2> DEFINE i == ((p - 1) \div 3) + 1
  <2>1. i \in 1..n /\ 3 * (i - 1) + r + 1 = p
    OBVIOUS
  <2> HIDE DEF i
  <2>2. f[i] = p
    BY <2>1
  <2> QED
    BY <2>1, <2>2
<1>4. f \in Bijection(1..n, R)
  BY <1>1, <1>2, <1>3 DEF Bijection, Injection, Surjection, IsInjective
<1> HIDE DEF f, R
<1>5. ExistsBijection(1..n, R)
  BY <1>4 DEF ExistsBijection
<1>6. IsFiniteSet(1..n) /\ Cardinality(1..n) = n
  BY FS_Interval
<1>7. Cardinality(R) = n
  BY <1>5, <1>6, FS_Bijection
<1> QED
  BY <1>7 DEF R, Thirds

\* A batch that is not run: every call of it is reported, and fails.
LEMMA SkippedMetrics ==
  ASSUME RunTyped
  PROVE  Metrics(AllSkipped(Len(batch))) = Only(Len(batch), Len(batch))
<1> DEFINE n == Len(batch)
           all == AllSkipped(n)
<1>1. n \in Nat
  BY DEF RunTyped
<1>2. /\ DOMAIN all = 1..(3 * n)
      /\ \A p \in DOMAIN all :
           \/ (p - 1) % 3 = 0 /\ all[p].event = "tool_call"
           \/ (p - 1) % 3 = 1 /\ all[p].event = "checkpoint_saved"
           \/ (p - 1) % 3 = 2 /\ all[p].event = "tool_result" /\ ~ all[p].ok
  BY SkippedEvents
<1> HIDE DEF all, n
<1>3. Places(all, "tool_call") = Thirds(n, 0)
  BY <1>2 DEF Places, Thirds
<1>4. Failed(all) = Thirds(n, 2)
  BY <1>2 DEF Failed, Places, Thirds
<1>5. \A e \in {"turn_start", "llm_end", "llm_retry"} : Places(all, e) = {}
  BY <1>2 DEF Places
<1>6. Cardinality(Places(all, "tool_call")) = n
  BY <1>1, <1>3, EveryThird
<1>7. Cardinality(Failed(all)) = n
  BY <1>1, <1>4, EveryThird
<1>8. Metrics(all) = Only(n, n)
  BY <1>5, <1>6, <1>7, FS_EmptySet DEF Metrics, Only, Failed
<1> QED
  BY <1>8 DEF all, n

-----------------------------------------------------------------------------
(***************************************************************************)
(* The steps of a run keep its count.                                      *)
(***************************************************************************)

LEMMA OwedTyped == (RunInv => Owed \in Int) /\ (RunInv' => Owed' \in Int)
<1>1. RunInv => Owed \in Int
  BY DEF RunInv, RunTyped, Placed, Owed, Calling
<1>2. RunInv' => Owed' \in Int
  BY DEF RunInv, RunTyped, Placed, Owed, Calling
<1> QED
  BY <1>1, <1>2

\* A step that emits events.
LEMMA TallyKept ==
  ASSUME RunInv, RunInv', TallyInv, NEW es \in Seq(Ev), events' = events \o es, did' \in Met,
         pc # "over", outcome = "raised" => outcome' = "raised",
         outcome' # "raised" =>
           /\ \A f \in {"turns", "answers", "errors", "retries"} : did'[f] = did[f] + Metrics(es)[f]
           /\ did'.calls + Owed = did.calls + Metrics(es).calls + Owed',
         ToolKeys(es, "end") = {} \/ (pc' = "over" /\ outcome' = "ended"),
         \A key \in ToolKeys(es, "llm_end") : pc = "calling" /\ key[1] = turn,
         pc' \in {"calling", "backoff"} =>
           Had(es, "llm_start", turn') \/ (pc \in {"calling", "backoff"} /\ turn' = turn)
  PROVE  TallyInv'
<1>1. events \in Seq(Ev)
  BY DEF RunInv, RunTyped
<1>2. \A e : ToolKeys(events', e) = ToolKeys(events, e) \cup ToolKeys(es, e)
  BY <1>1, EventsJoined
<1>3. Metrics(events') = Plus(Metrics(events), Metrics(es)) /\ Metrics(events) \in Met /\ Metrics(es) \in Met
  BY <1>1, MetricsJoined
<1>4. EndOnly'
  BY <1>2 DEF TallyInv, EndOnly
<1>5. Asked'
  <2>1. \A e, t : Had(events', e, t) <=> Had(events, e, t) \/ Had(es, e, t)
    BY <1>2 DEF Had
  <2>2. \A key \in ToolKeys(events', "llm_end") : Had(events', "llm_start", key[1])
    BY <1>2, <2>1 DEF TallyInv, Asked
  <2>3. pc' \in {"calling", "backoff"} => Had(events', "llm_start", turn')
    BY <2>1 DEF TallyInv, Asked
  <2> QED
    BY <2>2, <2>3 DEF Asked, Had
<1>6. CASE outcome' = "raised"
  BY <1>4, <1>5, <1>6 DEF TallyInv, Counted
<1>7. CASE outcome' # "raised"
  <2> DEFINE m == Metrics(events)
             x == Metrics(es)
  <2>1. did = [m EXCEPT !.calls = @ + Owed] /\ Owed \in Int /\ Owed' \in Int
    BY <1>7, OwedTyped DEF TallyInv, Counted
  <2>2. /\ \A f \in {"turns", "answers", "errors", "retries"} : did'[f] = did[f] + x[f]
        /\ did'.calls + Owed = did.calls + x.calls + Owed'
    BY <1>7
  <2>3. m \in Met /\ x \in Met /\ Metrics(events') = Plus(m, x)
    BY <1>3
  <2> HIDE DEF m, x
  <2> DEFINE o == Owed
             n == Owed'
             d == did'
             old == did
  <2>4. /\ old = [m EXCEPT !.calls = @ + o] /\ o \in Int /\ n \in Int /\ d \in Met
        /\ d.turns = old.turns + x.turns /\ d.answers = old.answers + x.answers
        /\ d.errors = old.errors + x.errors /\ d.retries = old.retries + x.retries
        /\ d.calls + o = old.calls + x.calls + n
    BY <2>1, <2>2
  <2> HIDE DEF o, n, d, old
  <2>5. d = [Plus(m, x) EXCEPT !.calls = @ + n]
    <3>1. /\ old.turns = m.turns /\ old.answers = m.answers /\ old.errors = m.errors
          /\ old.retries = m.retries /\ old.calls = m.calls + o
      BY <2>3, <2>4 DEF Met
    <3>0. m.calls \in Nat /\ x.calls \in Nat /\ d.calls \in Nat /\ o \in Int /\ n \in Int
      BY <2>3, <2>4 DEF Met
    <3>4. d.calls + o = (m.calls + o) + x.calls + n
      BY <2>4, <3>1
    <3>5. d.calls = m.calls + x.calls + n
      <4>1. PICK a \in Nat, b \in Nat, c \in Nat : a = m.calls /\ b = x.calls /\ c = d.calls
        BY <3>0
      <4>2. PICK i \in Int, j \in Int : i = o /\ j = n
        BY <3>0
      <4>3. c + i = (a + i) + b + j
        BY <3>4, <4>1, <4>2
      <4>4. c = a + b + j
        BY <4>3
      <4> QED
        BY <4>1, <4>2, <4>4
    <3>2. /\ d.turns = m.turns + x.turns /\ d.answers = m.answers + x.answers
          /\ d.errors = m.errors + x.errors /\ d.retries = m.retries + x.retries
          /\ d.calls = m.calls + x.calls + n
      BY <2>4, <3>1, <3>5
    <3>3. Plus(m, x) = [turns |-> m.turns + x.turns, answers |-> m.answers + x.answers,
                        calls |-> m.calls + x.calls, errors |-> m.errors + x.errors,
                        retries |-> m.retries + x.retries]
      BY <2>3 DEF Met, Plus
    <3> QED
      BY <2>4, <3>2, <3>3 DEF Met
  <2>6. did' = [Metrics(events') EXCEPT !.calls = @ + Owed']
    BY <2>3, <2>5 DEF d, n
  <2> QED
    BY <1>4, <1>5, <2>6 DEF TallyInv, Counted, Metrics
<1> QED
  BY <1>6, <1>7

\* A step without a count.
LEMMA TallyQuiet ==
  ASSUME RunInv, RunInv', TallyInv, NEW es \in Seq(Ev), events' = events \o es, did' = did,
         pc # "over", UNCHANGED outcome, Owed' = Owed, Metrics(es) = Nothing,
         ToolKeys(es, "end") = {} \/ (pc' = "over" /\ outcome' = "ended"),
         ToolKeys(es, "llm_end") = {},
         pc' \in {"calling", "backoff"} =>
           Had(es, "llm_start", turn') \/ (pc \in {"calling", "backoff"} /\ turn' = turn)
  PROVE  TallyInv'
<1>1. did \in Met /\ Owed \in Int /\ Owed' \in Int
  BY OwedTyped DEF TallyInv, Counted
<1>2. /\ \A f \in {"turns", "answers", "errors", "retries"} : did'[f] = did[f] + Metrics(es)[f]
      /\ did'.calls + Owed = did.calls + Metrics(es).calls + Owed'
  BY <1>1 DEF Met, Nothing
<1> QED
  BY <1>1, <1>2, TallyKept

\* A run that is left owes nothing.
LEMMA LeaveTally ==
  ASSUME RunInv, RunInv', TallyInv, NEW es \in Seq(Ev), NEW how \in {"ended", "waiting", "raised"},
         Leave(es, how), did' = did, pc \notin {"releasing", "over"},
         ToolKeys(es, "llm_end") = {}, ToolKeys(es, "end") = {},
         how # "raised" => Metrics(es) = Only(Owed, 0)
  PROVE  TallyInv'
<1> DEFINE tail == IF boxed THEN <<>> ELSE End
           all == es \o tail
<1>1. pc' \in {"releasing", "over"} /\ outcome' = how /\ events \in Seq(Ev)
  BY DEF Leave, RunInv, RunTyped
<1>2. tail = <<>> \/ (tail = <<Event("end")>> /\ pc' = "over" /\ outcome' = "ended")
  BY DEF Leave, End
<1>3. Event("end") \in Ev /\ Event("end").event = "end"
  BY EventsTyped DEF RunInv, EventKinds
<1>4. tail \in Seq(Ev) /\ Metrics(tail) = Nothing /\ ToolKeys(tail, "llm_end") = {}
      /\ (ToolKeys(tail, "end") = {} \/ (pc' = "over" /\ outcome' = "ended"))
  <2> HIDE DEF tail
  <2>1. CASE tail = <<>>
    <3>1. Metrics(<<>>) = Nothing
      BY <1>3, MetricsListed
    <3> QED
      BY <2>1, <3>1, KeysListed
  <2>2. CASE tail = <<Event("end")>> /\ pc' = "over" /\ outcome' = "ended"
    <3>1. tail \in Seq(Ev)
      BY <1>3, <2>2
    <3>2. Metrics(tail) = Nothing
      BY <1>3, <2>2, QuietMetrics DEF Scored
    <3>3. ToolKeys(tail, "llm_end") = {}
      BY <1>3, <2>2, KeysListed DEF KeyOf
    <3> QED
      BY <2>2, <3>1, <3>2, <3>3
  <2> QED
    BY <1>2, <2>1, <2>2
<1>5. events' = (events \o es) \o tail
  BY DEF Leave
<1> HIDE DEF tail
<1>6. events' = events \o all /\ all \in Seq(Ev)
  BY <1>1, <1>4, <1>5, ConcatAssociative
<1>7. Metrics(all) = Metrics(es)
  <2>1. Metrics(all) = Plus(Metrics(es), Nothing) /\ Metrics(es) \in Met
    BY <1>4, MetricsJoined
  <2> QED
    BY <2>1, Worthless
<1>8. \A e : ToolKeys(all, e) = ToolKeys(es, e) \cup ToolKeys(tail, e)
  BY <1>4, EventsJoined
<1> HIDE DEF all
<1>9. did \in Met /\ Owed \in Int /\ Owed' = 0
  BY <1>1, OwedTyped DEF TallyInv, Counted, Owed, Calling
<1>10. outcome' # "raised" =>
         /\ \A f \in {"turns", "answers", "errors", "retries"} : did'[f] = did[f] + Metrics(all)[f]
         /\ did'.calls + Owed = did.calls + Metrics(all).calls + Owed'
  BY <1>1, <1>7, <1>9 DEF Only, Met
<1>11. outcome # "raised"
  BY DEF RunInv, Placed
<1> QED
  BY <1>1, <1>4, <1>6, <1>8, <1>9, <1>10, <1>11, TallyKept

\* Events that are not counted, and do not say that the run ended.
LEMMA QuietList ==
  ASSUME RunInv, NEW d \in EventKinds \ (Scored \cup {"end"}), NEW e \in EventKinds \ (Scored \cup {"end"}),
         NEW es \in {<<Event(d)>>, <<Attempted(d)>>, <<Event(d), Event(e)>>}
  PROVE  es \in Seq(Ev) /\ Metrics(es) = Nothing /\ ToolKeys(es, "llm_end") = {} /\ ToolKeys(es, "end") = {}
<1>1. /\ Event(d) \in Ev /\ Event(d).event = d
      /\ Attempted(d) \in Ev /\ Attempted(d).event = d
      /\ Event(e) \in Ev /\ Event(e).event = e
  BY EventsTyped DEF RunInv
<1>2. PICK u \in Ev, v \in Ev : u.event = d /\ v.event \in {d, e} /\ (es = <<u>> \/ es = <<u, v>>)
  BY <1>1
<1>3. es \in Seq(Ev)
  <2>1. <<u>> \in Seq(Ev) /\ <<u, v>> \in Seq(Ev)
    OBVIOUS
  <2> QED
    BY <1>2, <2>1
<1>4. Metrics(es) = Nothing
  BY <1>2, QuietMetrics
<1>5. \A x : ToolKeys(es, x) \subseteq KeyOf(u, x) \cup KeyOf(v, x)
  BY <1>2, KeysListed
<1>6. ToolKeys(es, "llm_end") = {} /\ ToolKeys(es, "end") = {}
  BY <1>2, <1>5 DEF KeyOf, Scored
<1> QED
  BY <1>3, <1>4, <1>6

\* A run that begins, or of which nothing is left.
LEMMA ResetTally ==
  ASSUME pc' \in {"turn", "idle"}, outcome' = "none", events' = <<>>, did' = Nothing
  PROVE  TallyInv'
<1>1. \A e : ToolKeys(events', e) = {}
  BY KeysListed
<1>2. Metrics(events') = Nothing
  <2>1. \A e : Places(<<>>, e) = {}
    BY DEF Places
  <2> QED
    BY <2>1, FS_EmptySet DEF Metrics, Nothing
<1>3. Owed' = 0
  BY DEF Owed, Calling
<1>4. Nothing = [Nothing EXCEPT !.calls = @ + 0]
  BY DEF Nothing
<1>5. Counted'
  BY <1>2, <1>3, <1>4, Worthless DEF Counted, Metrics
<1> QED
  BY <1>1, <1>5 DEF TallyInv, EndOnly, Asked, Had

LEMMA BeginTurnTally == RunInv /\ RunInv' /\ TallyInv /\ BeginTurn => TallyInv'
<1> SUFFICES ASSUME RunInv, RunInv', TallyInv, BeginTurn PROVE TallyInv'
  OBVIOUS
<1> DEFINE u == EventOf("turn_start", turn + 1)
           es == <<u>>
<1>1. /\ pc = "turn" /\ pc' = "context" /\ outcome' = outcome /\ events' = events \o es
      /\ did' = [did EXCEPT !.turns = @ + 1]
  BY DEF BeginTurn, Emit
<1>2. u \in Ev /\ u.event = "turn_start"
  <2>1. turn + 1 \in Nat /\ "turn_start" \in EventKinds
    BY TraceAssumption DEF RunInv, RunTyped, EventKinds
  <2> QED
    BY <2>1 DEF EventOf, Ev
<1> HIDE DEF u
<1>3. es \in Seq(Ev) /\ Metrics(es) = Worth(u)
  BY <1>2, WorthListed
<1>4. ToolKeys(es, "end") = {} /\ ToolKeys(es, "llm_end") = {}
  BY <1>2, KeysListed DEF KeyOf
<1> HIDE DEF es
<1>5. did \in Met /\ did' \in Met /\ Owed = 0 /\ Owed' = 0
  BY <1>1 DEF TallyInv, Counted, Met, Owed, Calling
<1>6. /\ \A f \in {"turns", "answers", "errors", "retries"} : did'[f] = did[f] + Metrics(es)[f]
      /\ did'.calls + Owed = did.calls + Metrics(es).calls + Owed'
  BY <1>1, <1>2, <1>3, <1>5 DEF Worth, Met
<1> QED
  BY <1>1, <1>3, <1>4, <1>5, <1>6, TallyKept

LEMMA ContextLoadedTally == RunInv /\ RunInv' /\ TallyInv /\ ContextLoaded => TallyInv'
<1> SUFFICES ASSUME RunInv, RunInv', TallyInv, ContextLoaded PROVE TallyInv'
  OBVIOUS
<1> DEFINE es == <<Event("context_loaded"), Event("llm_start")>>
<1>1. /\ pc = "context" /\ pc' = "calling" /\ events' = events \o es
      /\ UNCHANGED <<outcome, turn, did>>
  BY DEF ContextLoaded, Emit
<1>2. {"context_loaded", "llm_start"} \subseteq EventKinds \ (Scored \cup {"end"})
  BY DEF EventKinds, Scored
<1>3. es \in Seq(Ev) /\ Metrics(es) = Nothing /\ ToolKeys(es, "llm_end") = {} /\ ToolKeys(es, "end") = {}
  BY <1>2, QuietList
<1>4. Event("llm_start").event = "llm_start" /\ Event("llm_start").turn = turn
  BY <1>2, EventsTyped DEF RunInv
<1>5. Had(es, "llm_start", turn)
  <2>1. KeyOf(Event("llm_start"), "llm_start") \subseteq ToolKeys(es, "llm_start")
    BY KeysListed
  <2> QED
    BY <1>4, <2>1 DEF KeyOf, Had
<1> HIDE DEF es
<1>6. Owed' = Owed
  BY <1>1 DEF Owed, Calling
<1> QED
  BY <1>1, <1>3, <1>5, <1>6, TallyQuiet

LEMMA QuietTally == RunInv /\ RunInv' /\ TallyInv /\ (Chunk \/ NextTurn \/ Acquired \/ RetryDelayOver) => TallyInv'
<1> SUFFICES ASSUME RunInv, RunInv', TallyInv, Chunk \/ NextTurn \/ Acquired \/ RetryDelayOver PROVE TallyInv'
  OBVIOUS
<1>1. ASSUME NEW d \in EventKinds \ (Scored \cup {"end"}), NEW es \in {<<Event(d)>>, <<Attempted(d)>>},
             events' = events \o es, UNCHANGED <<outcome, turn, batch, k, did>>,
             \/ pc = "calling" /\ pc' = "calling"
             \/ pc = "endturn" /\ pc' = "turn"
             \/ pc = "acquiring" /\ pc' = "running"
      PROVE  TallyInv'
  <2>1. es \in Seq(Ev) /\ Metrics(es) = Nothing /\ ToolKeys(es, "llm_end") = {} /\ ToolKeys(es, "end") = {}
    BY <1>1, QuietList
  <2>2. Owed' = Owed
    BY <1>1 DEF Owed, Calling
  <2> QED
    BY <1>1, <2>1, <2>2, TallyQuiet
<1>2. {"llm_token", "checkpoint_saved", "sandbox_acquired"} \subseteq EventKinds \ (Scored \cup {"end"})
  BY DEF EventKinds, Scored
<1>3. CASE Chunk
  BY <1>1, <1>2, <1>3 DEF Chunk, Emit
<1>4. CASE NextTurn
  BY <1>1, <1>2, <1>4 DEF NextTurn, Emit, locals
<1>5. CASE Acquired
  BY <1>1, <1>2, <1>5 DEF Acquired, Emit
<1>6. CASE RetryDelayOver
  <2>1. /\ pc = "backoff" /\ pc' = "calling" /\ UNCHANGED <<outcome, turn, batch, k, did, events>>
    BY <1>6 DEF RetryDelayOver
  <2>2. <<>> \in Seq(Ev) /\ events' = events \o <<>> /\ Metrics(<<>>) = Nothing
    <3>1. Event("end") \in Ev
      BY EventsTyped DEF RunInv, EventKinds
    <3>2. Metrics(<<>>) = Nothing
      BY <3>1, MetricsListed
    <3> QED
      BY <2>1, <3>2 DEF RunInv, RunTyped
  <2>3. Owed' = Owed
    BY <2>1 DEF Owed, Calling
  <2> QED
    BY <2>1, <2>2, <2>3, KeysListed, TallyQuiet
<1> QED
  BY <1>3, <1>4, <1>5, <1>6

LEMMA RetryTally == RunInv /\ RunInv' /\ TallyInv /\ Retry => TallyInv'
<1> SUFFICES ASSUME RunInv, RunInv', TallyInv, Retry PROVE TallyInv'
  OBVIOUS
<1> DEFINE u == Attempted("llm_retry")
           es == <<u>>
<1>1. /\ pc = "calling" /\ pc' = "backoff" /\ events' = events \o es
      /\ did' = [did EXCEPT !.retries = @ + 1] /\ UNCHANGED <<outcome, turn>>
  BY DEF Retry, Emit
<1>2. u \in Ev /\ u.event = "llm_retry"
  BY EventsTyped DEF RunInv, EventKinds
<1> HIDE DEF u
<1>3. es \in Seq(Ev) /\ Metrics(es) = Worth(u)
  BY <1>2, WorthListed
<1>4. ToolKeys(es, "end") = {} /\ ToolKeys(es, "llm_end") = {}
  BY <1>2, KeysListed DEF KeyOf
<1> HIDE DEF es
<1>5. did \in Met /\ did' \in Met /\ Owed = 0 /\ Owed' = 0
  BY <1>1 DEF TallyInv, Counted, Met, Owed, Calling
<1>6. /\ \A f \in {"turns", "answers", "errors", "retries"} : did'[f] = did[f] + Metrics(es)[f]
      /\ did'.calls + Owed = did.calls + Metrics(es).calls + Owed'
  BY <1>1, <1>2, <1>3, <1>5 DEF Worth, Met
<1> QED
  BY <1>1, <1>3, <1>4, <1>5, <1>6, TallyKept

\* A count that grows: by failures, by an answer with its calls.
WithErrors(m, f) == [m EXCEPT !.errors = @ + f]
WithAnswer(m, c) == [m EXCEPT !.answers = @ + 1, !.calls = @ + c]

LEMMA MetGrows ==
  ASSUME NEW m \in Met, NEW c \in Nat
  PROVE  WithErrors(m, c) \in Met /\ WithAnswer(m, c) \in Met
<1> DEFINE i == m.errors + c
           j == m.calls + c
           l == m.answers + 1
<1>1. m.errors \in Nat /\ m.calls \in Nat /\ m.answers \in Nat
  BY DEF Met
<1>2. i \in Nat /\ j \in Nat /\ l \in Nat
  BY <1>1
<1>3. /\ [m EXCEPT !.errors = @ + c] = [m EXCEPT !.errors = i]
      /\ [m EXCEPT !.answers = @ + 1, !.calls = @ + c] = [m EXCEPT !.answers = l, !.calls = j]
  BY DEF Met
<1> HIDE DEF i, j, l
<1>4. [m EXCEPT !.errors = i] \in Met /\ [m EXCEPT !.answers = l, !.calls = j] \in Met
  BY <1>2 DEF Met
<1> QED
  BY <1>3, <1>4 DEF WithErrors, WithAnswer

\* An answer owes the calls it asks for.
LEMMA AnswerTally ==
  ASSUME RunInv, RunInv', TallyInv, NEW b \in Seq(ToolNames), Answer(b)
  PROVE  TallyInv'
<1> DEFINE u == Attempted("llm_end")
           v == Event("checkpoint_saved")
           w == Event("assistant_response")
           es == <<u, v, w>>
<1>1. /\ pc = "calling" /\ events' = events \o es /\ batch' = b /\ k' = 1 /\ Len(b) \in Nat
      /\ did' = [did EXCEPT !.answers = @ + 1, !.calls = @ + Len(b)] /\ UNCHANGED <<outcome, turn>>
  BY DEF Answer, Emit
<1>2. \/ pc' = "endturn" /\ Len(b) = 0
      \/ pc' \in {"repeated", "tool", "wait"}
  <2>1. CASE b = <<>>
    BY <2>1 DEF Answer
  <2>2. CASE b # <<>>
    BY <2>2 DEF Answer
  <2> QED
    BY <2>1, <2>2
<1>3. /\ u \in Ev /\ u.event = "llm_end" /\ u.turn = turn
      /\ v \in Ev /\ v.event = "checkpoint_saved"
      /\ w \in Ev /\ w.event = "assistant_response"
  BY EventsTyped DEF RunInv, EventKinds
<1> HIDE DEF u, v, w
<1>4. es \in Seq(Ev)
  BY <1>3
<1>5. Metrics(es) = Worth(u) /\ Worth(u) \in Met
  <2>1. Metrics(es) = Plus(Plus(Worth(u), Worth(v)), Worth(w)) /\ Worth(u) \in Met
    BY <1>3, MetricsListed
  <2>2. Worth(v) = Nothing /\ Worth(w) = Nothing
    BY <1>3, Worthless DEF Scored
  <2> QED
    BY <2>1, <2>2, Worthless
<1>6. /\ ToolKeys(es, "end") = {}
      /\ \A key \in ToolKeys(es, "llm_end") : key[1] = turn
  <2>1. \A e : ToolKeys(es, e) = KeyOf(u, e) \cup KeyOf(v, e) \cup KeyOf(w, e)
    BY KeysOfThree
  <2> QED
    BY <1>3, <2>1 DEF KeyOf
<1> HIDE DEF es
<1>7. Owed = 0 /\ Owed' = Len(b)
  BY <1>1, <1>2 DEF Owed, Calling
<1>8. PICK c \in Nat : c = Len(b)
  BY <1>1
<1>9. did \in Met /\ did' = WithAnswer(did, c) /\ Owed = 0 /\ Owed' = c
  BY <1>1, <1>7, <1>8 DEF TallyInv, Counted, WithAnswer
<1>12. did' \in Met
  BY <1>9, MetGrows
<1>13. /\ \A f \in {"turns", "answers", "errors", "retries"} : did'[f] = did[f] + Metrics(es)[f]
       /\ did'.calls + Owed = did.calls + Metrics(es).calls + Owed'
  BY <1>3, <1>5, <1>9, <1>12 DEF Worth, Met, WithAnswer
<1>10. outcome = "raised" => outcome' = "raised"
  BY <1>1
<1>11. pc' \notin {"calling", "backoff"}
  BY <1>2
<1> QED
  BY <1>1, <1>4, <1>6, <1>10, <1>11, <1>12, <1>13, TallyKept

\* A step that reports c calls, and f failures.
LEMMA TallyCalls ==
  ASSUME RunInv, RunInv', TallyInv, NEW es \in Seq(Ev), events' = events \o es,
         NEW c \in Nat, NEW f \in Nat, Metrics(es) = Only(c, f),
         did' = WithErrors(did, f), Owed = Owed' + c, UNCHANGED outcome,
         pc # "over", pc' \notin {"calling", "backoff"},
         ToolKeys(es, "end") = {}, ToolKeys(es, "llm_end") = {}
  PROVE  TallyInv'
<1>1. did \in Met
  BY DEF TallyInv, Counted
<1>2. did' \in Met
  BY <1>1, MetGrows
<1>3. PICK o \in Int, n \in Int : o = Owed /\ n = Owed'
  BY OwedTyped
<1>4. \A x \in {"turns", "answers", "errors", "retries"} : did'[x] = did[x] + Metrics(es)[x]
  BY <1>1 DEF Met, Only, WithErrors
<1>5. did'.calls + Owed = did.calls + Metrics(es).calls + Owed'
  <2>1. did'.calls = did.calls /\ Metrics(es).calls = c
    BY <1>1 DEF Met, Only, WithErrors
  <2>2. PICK i \in Nat : i = did.calls
    BY <1>1 DEF Met
  <2>3. i + o = i + c + n
    BY <1>3
  <2> QED
    BY <1>3, <2>1, <2>2, <2>3
<1> QED
  BY <1>2, <1>4, <1>5, TallyKept

\* What is owed after the next call.
LEMMA OwedNext ==
  ASSUME k \in 1..Len(batch), Len(batch) \in Nat, k' = k + 1, batch' = batch,
         pc' = IF k < Len(batch) THEN "tool" ELSE "endturn"
  PROVE  /\ pc = "tool" => Owed = Owed' + 1
         /\ pc \in Calling => Owed = Owed' + 0
<1>1. /\ pc = "tool" => Owed = Len(batch) - k + 1
      /\ pc \in Calling => Owed = Len(batch) - k
  BY DEF Owed, Calling
<1> DEFINE i == k
           n == Len(batch)
<1>2. i \in Nat /\ n \in Nat /\ i <= n /\ i = k /\ n = Len(batch)
  OBVIOUS
<1> HIDE DEF i, n
<1>3. CASE k < Len(batch)
  <2>1. Owed' = Len(batch') - k' + 1
    <3>1. pc' = "tool"
      BY <1>3
    <3> QED
      BY <3>1 DEF Owed, Calling
  <2>2. Owed' = n - (i + 1) + 1
    BY <1>2, <2>1
  <2> QED
    BY <1>1, <1>2, <2>2
<1>4. CASE ~ (k < Len(batch))
  <2>1. Owed' = 0 /\ i = n
    BY <1>2, <1>4 DEF Owed, Calling
  <2> QED
    BY <1>1, <1>2, <2>1
<1> QED
  BY <1>3, <1>4

\* The calls of a batch that is not run are reported together.
LEMMA RepeatTally == RunInv /\ RunInv' /\ TallyInv /\ RepeatStop => TallyInv'
<1> SUFFICES ASSUME RunInv, RunInv', TallyInv, RepeatStop PROVE TallyInv'
  OBVIOUS
<1> DEFINE all == AllSkipped(Len(batch))
           last == <<Event("checkpoint_saved"), Event("tool_repeat_guard")>>
           es == all \o last
           n == Len(batch)
<1>1. /\ pc = "repeated" /\ pc' = "endturn" /\ events' = events \o es
      /\ did' = WithErrors(did, n) /\ UNCHANGED <<outcome, turn>>
  BY DEF RepeatStop, Emit, WithErrors
<1>2. n \in Nat
  BY DEF RunInv, RunTyped
<1>3. all \in Seq(Ev) /\ Metrics(all) = Only(n, n) /\ ToolKeys(all, "llm_end") = {} /\ ToolKeys(all, "end") = {}
  <2>1. all \in Seq(Ev) /\ ToolKeys(all, "llm_end") = {} /\ \A p \in DOMAIN all : all[p].event # "end"
    BY SkippedEvents DEF RunInv
  <2>2. Metrics(all) = Only(n, n)
    BY SkippedMetrics DEF RunInv
  <2> HIDE DEF all, n
  <2>3. ToolKeys(all, "end") = {}
    BY <2>1 DEF ToolKeys, Places
  <2> QED
    BY <2>1, <2>2, <2>3
<1>4. last \in Seq(Ev) /\ Metrics(last) = Nothing /\ ToolKeys(last, "llm_end") = {} /\ ToolKeys(last, "end") = {}
  <2>1. {"checkpoint_saved", "tool_repeat_guard"} \subseteq EventKinds \ (Scored \cup {"end"})
    BY DEF EventKinds, Scored
  <2> QED
    BY <2>1, QuietList
<1>5. Owed = n /\ Owed' = 0
  BY <1>1 DEF Owed, Calling
<1> HIDE DEF all, last, n
<1>6. es \in Seq(Ev) /\ \A e : ToolKeys(es, e) = ToolKeys(all, e) \cup ToolKeys(last, e)
  BY <1>3, <1>4, EventsJoined
<1>7. Metrics(es) = Only(n, n)
  <2>1. Metrics(es) = Plus(Only(n, n), Nothing)
    BY <1>3, <1>4, MetricsJoined
  <2> QED
    BY <1>2, <2>1, Worthless
<1> HIDE DEF es
<1>8. Owed = Owed' + n
  BY <1>2, <1>5
<1>9. UNCHANGED outcome /\ pc # "over" /\ pc' \notin {"calling", "backoff"}
  BY <1>1
<1>10. ToolKeys(es, "end") = {} /\ ToolKeys(es, "llm_end") = {}
  BY <1>3, <1>4, <1>6
<1> QED
  BY <1>1, <1>2, <1>6, <1>7, <1>8, <1>9, <1>10, TallyCalls

\* A call that has its result.
LEMMA NextCallTally ==
  ASSUME RunInv, RunInv', TallyInv, NEW ok \in BOOLEAN, NEW es, NextCall(es, ok),
         \/ pc = "tool" /\ es = CallMade
         \/ pc \in Calling /\ es = <<>>
  PROVE  TallyInv'
<1> DEFINE all == es \o Result(k, ok)
           made == IF pc = "tool" THEN 1 ELSE 0
           bad == IF ok THEN 0 ELSE 1
<1>1. /\ events' = events \o all /\ k' = k + 1 /\ pc' = IF k < Len(batch) THEN "tool" ELSE "endturn"
      /\ did' = [did EXCEPT !.errors = IF ok THEN @ ELSE @ + 1]
      /\ UNCHANGED <<outcome, turn, batch>>
  BY DEF NextCall, Emit
<1>2. k \in 1..Len(batch) /\ Len(batch) \in Nat /\ TRUE \in BOOLEAN
  BY DEF RunInv, Placed, RunTyped, Calling
<1>3. all \in Seq(Ev) /\ Metrics(all) = Only(made, bad) /\ ToolKeys(all, "llm_end") = {} /\ ToolKeys(all, "end") = {}
  <2>1. CASE pc = "tool" /\ es = CallMade
    <3>1. all \in Seq(Ev) /\ ToolKeys(all, "llm_end") = {} /\ ToolKeys(all, "end") = {}
      BY <1>2, <2>1, CallEvents DEF RunInv, CallMade
    <3>2. Metrics(all) = Only(1, bad)
      BY <1>2, <2>1, CallMetrics DEF RunInv, CallMade
    <3> QED
      BY <2>1, <3>1, <3>2
  <2>2. CASE pc \in Calling /\ es = <<>>
    <3>1. Result(k, ok) \in Seq(Ev) /\ ToolKeys(Result(k, ok), "llm_end") = {} /\ ToolKeys(Result(k, ok), "end") = {}
      BY <1>2, CallEvents DEF RunInv
    <3>2. Metrics(Result(k, ok)) = Only(0, bad)
      BY <1>2, CallMetrics DEF RunInv
    <3>3. all = Result(k, ok)
      BY <2>2, <3>1
    <3>4. made = 0
      BY <2>2 DEF Calling
    <3> HIDE DEF all, made, bad
    <3> QED
      BY <3>1, <3>2, <3>3, <3>4
  <2> QED
    BY <2>1, <2>2
<1> HIDE DEF all
<1>4. Owed = Owed' + made
  BY <1>1, <1>2, OwedNext DEF Calling
<1>5. did' = WithErrors(did, bad)
  BY <1>1 DEF TallyInv, Counted, Met, WithErrors
<1>6. made \in Nat /\ bad \in Nat
  OBVIOUS
<1>7. UNCHANGED outcome /\ events' = events \o all /\ pc # "over" /\ pc' \notin {"calling", "backoff"}
  BY <1>1 DEF Calling
<1> HIDE DEF made, bad
<1> QED
  BY <1>3, <1>4, <1>5, <1>6, <1>7, TallyCalls

\* A call that is blocked is one call, and fails.
LEMMA BlockedTally == RunInv /\ RunInv' /\ TallyInv /\ CallBlocked => TallyInv'
<1> SUFFICES ASSUME RunInv, RunInv', TallyInv, CallBlocked PROVE TallyInv'
  OBVIOUS
<1> DEFINE made == <<OfCall("tool_call", k, TRUE)>>
           u == Event("checkpoint_saved")
           v == OfCall("tool_blocked", k, FALSE)
           w == OfCall("tool_result", k, FALSE)
           last == <<u, v, w>>
           es == made \o last
<1>1. /\ pc = "tool" /\ k' = k + 1 /\ pc' = IF k < Len(batch) THEN "tool" ELSE "endturn"
      /\ events' = (events \o made) \o last
      /\ did' = WithErrors(did, 1) /\ UNCHANGED <<outcome, turn, batch>>
  BY DEF CallBlocked, BlockedEvents, CallMade, WithErrors
<1>2. k \in 1..Len(batch) /\ Len(batch) \in Nat /\ TRUE \in BOOLEAN /\ FALSE \in BOOLEAN
  BY <1>1 DEF RunInv, Placed, RunTyped
<1>3. /\ made \in Seq(Ev) /\ Metrics(made) = Only(1, 0)
      /\ ToolKeys(made, "llm_end") = {} /\ ToolKeys(made, "end") = {}
  <2>1. made \in Seq(Ev) /\ ToolKeys(made, "llm_end") = {} /\ ToolKeys(made, "end") = {}
    BY <1>2, CallEvents DEF RunInv
  <2>2. Metrics(made) = Only(1, 0)
    BY <1>2, CallMetrics DEF RunInv
  <2> QED
    BY <2>1, <2>2
<1>4. {"checkpoint_saved", "tool_blocked", "tool_result"} \subseteq EventKinds
  BY DEF EventKinds
<1>5. u \in Ev /\ u.event = "checkpoint_saved"
  BY <1>4, EventsTyped DEF RunInv
<1>6. v \in Ev /\ v.event = "tool_blocked"
  BY <1>2, <1>4, EventsTyped DEF RunInv
<1>7. w \in Ev /\ w.event = "tool_result"
  BY <1>2, <1>4, EventsTyped DEF RunInv
<1>8. w.ok = FALSE
  BY DEF OfCall
<1> HIDE DEF made, u, v, w
<1>9. last \in Seq(Ev)
  BY <1>5, <1>6, <1>7
<1>10. Metrics(last) = Only(0, 1)
  <2>1. Metrics(last) = Plus(Plus(Worth(u), Worth(v)), Worth(w)) /\ Worth(w) \in Met
    BY <1>5, <1>6, <1>7, MetricsListed
  <2>2. Worth(u) = Nothing /\ Worth(v) = Nothing
    BY <1>5, <1>6, Worthless DEF Scored
  <2>3. Worth(w) = Only(0, 1)
    BY <1>7, <1>8 DEF Worth, Only
  <2> QED
    BY <2>1, <2>2, <2>3, Worthless
<1>11. ToolKeys(last, "llm_end") = {} /\ ToolKeys(last, "end") = {}
  <2>1. \A e : ToolKeys(last, e) = KeyOf(u, e) \cup KeyOf(v, e) \cup KeyOf(w, e)
    BY KeysOfThree
  <2> QED
    BY <1>5, <1>6, <1>7, <2>1 DEF KeyOf
<1> HIDE DEF last
<1>12. es \in Seq(Ev) /\ \A e : ToolKeys(es, e) = ToolKeys(made, e) \cup ToolKeys(last, e)
  BY <1>3, <1>9, EventsJoined
<1>13. Metrics(es) = Only(1, 1)
  <2>1. Metrics(es) = Plus(Only(1, 0), Only(0, 1))
    BY <1>3, <1>9, <1>10, MetricsJoined
  <2>2. Plus(Only(1, 0), Only(0, 1)) = Only(1 + 0, 0 + 1)
    BY Worthless
  <2> QED
    BY <2>1, <2>2
<1>14. events' = events \o es
  <2>1. events \in Seq(Ev)
    BY DEF RunInv, RunTyped
  <2> QED
    BY <1>1, <1>3, <1>9, <2>1, ConcatAssociative DEF es
<1> HIDE DEF es
<1>15. Owed = Owed' + 1
  BY <1>1, <1>2, OwedNext
<1>16. UNCHANGED outcome /\ pc # "over" /\ pc' \notin {"calling", "backoff"}
  BY <1>1
<1>17. ToolKeys(es, "end") = {} /\ ToolKeys(es, "llm_end") = {}
  BY <1>3, <1>11, <1>12
<1> QED
  BY <1>1, <1>12, <1>13, <1>14, <1>15, <1>16, <1>17, TallyCalls

\* A call that begins is reported.
LEMMA CallBeginsTally == RunInv /\ RunInv' /\ TallyInv /\ (CallBash \/ CallTool) => TallyInv'
<1> SUFFICES ASSUME RunInv, RunInv', TallyInv, CallBash \/ CallTool PROVE TallyInv'
  OBVIOUS
<1> DEFINE es == <<OfCall("tool_call", k, TRUE)>>
           one == 1
           none == 0
<1>1. /\ pc = "tool" /\ pc' \in Calling /\ events' = events \o es
      /\ UNCHANGED <<outcome, turn, batch, k, did>>
  BY DEF CallBash, CallTool, Emit, CallMade, locals, Calling
<1>2. k \in 1..Len(batch) /\ Len(batch) \in Nat /\ TRUE \in BOOLEAN
  BY <1>1 DEF RunInv, Placed, RunTyped
<1>3. es \in Seq(Ev) /\ ToolKeys(es, "end") = {} /\ ToolKeys(es, "llm_end") = {}
  BY <1>2, CallEvents DEF RunInv
<1>4. Metrics(es) = Only(one, none)
  BY <1>2, CallMetrics DEF RunInv
<1> HIDE DEF es
<1>5. Owed = Owed' + one
  <2>1. Owed = Len(batch) - k + 1 /\ Owed' = Len(batch) - k
    BY <1>1 DEF Owed, Calling
  <2> QED
    BY <1>2, <2>1
<1>6. did' = WithErrors(did, none)
  BY <1>1 DEF TallyInv, Counted, Met, WithErrors
<1>7. pc # "over" /\ pc' \notin {"calling", "backoff"}
  BY <1>1 DEF Calling
<1>8. outcome' = outcome /\ events' = events \o es /\ one \in Nat /\ none \in Nat
  BY <1>1
<1> HIDE DEF one, none
<1> QED
  BY <1>3, <1>4, <1>5, <1>6, <1>7, <1>8, TallyCalls

\* A release is not counted; a run whose release fails has raised.
LEMMA ReleaseTally == RunInv /\ RunInv' /\ TallyInv /\ (Release \/ ReleaseFails) => TallyInv'
<1> SUFFICES ASSUME RunInv, RunInv', TallyInv, Release \/ ReleaseFails PROVE TallyInv'
  OBVIOUS
<1>1. CASE ReleaseFails
  <2>1. /\ pc = "releasing" /\ pc' = "over" /\ outcome' = "raised" /\ did' = did /\ events' = events
    BY <1>1 DEF ReleaseFails
  <2>2. <<>> \in Seq(Ev) /\ events' = events \o <<>>
    BY <2>1 DEF RunInv, RunTyped
  <2>3. did' \in Met
    BY <2>1 DEF TallyInv, Counted
  <2> QED
    BY <2>1, <2>2, <2>3, KeysListed, TallyKept
<1>2. CASE Release
  <2> DEFINE first == <<Event("sandbox_released")>>
             tail == End
             es == first \o tail
  <2>1. /\ pc = "releasing" /\ pc' = "over" /\ events' = events \o es /\ UNCHANGED <<outcome, did>>
    BY <1>2 DEF Release, Emit
  <2>2. first \in Seq(Ev) /\ Metrics(first) = Nothing /\ ToolKeys(first, "llm_end") = {} /\ ToolKeys(first, "end") = {}
    <3>1. "sandbox_released" \in EventKinds \ (Scored \cup {"end"})
      BY DEF EventKinds, Scored
    <3> QED
      BY <3>1, QuietList
  <2>3. tail = <<>> \/ (tail = <<Event("end")>> /\ outcome' = "ended")
    BY DEF End
  <2>4. Event("end") \in Ev /\ Event("end").event = "end"
    BY EventsTyped DEF RunInv, EventKinds
  <2> HIDE DEF first, tail
  <2>5. tail \in Seq(Ev) /\ Metrics(tail) = Nothing /\ ToolKeys(tail, "llm_end") = {}
        /\ (ToolKeys(tail, "end") = {} \/ outcome' = "ended")
    <3>1. CASE tail = <<>>
      <4>1. Metrics(<<>>) = Nothing
        BY <2>4, MetricsListed
      <4> QED
        BY <3>1, <4>1, KeysListed
    <3>2. CASE tail = <<Event("end")>> /\ outcome' = "ended"
      <4>1. tail \in Seq(Ev)
        BY <2>4, <3>2
      <4>2. Metrics(tail) = Nothing
        BY <2>4, <3>2, QuietMetrics DEF Scored
      <4>3. ToolKeys(tail, "llm_end") = {}
        BY <2>4, <3>2, KeysListed DEF KeyOf
      <4> QED
        BY <3>2, <4>1, <4>2, <4>3
    <3> QED
      BY <2>3, <3>1, <3>2
  <2>6. es \in Seq(Ev) /\ \A e : ToolKeys(es, e) = ToolKeys(first, e) \cup ToolKeys(tail, e)
    BY <2>2, <2>5, EventsJoined
  <2>7. Metrics(es) = Nothing
    <3>1. Metrics(es) = Plus(Nothing, Nothing)
      BY <2>2, <2>5, MetricsJoined
    <3> QED
      BY <3>1, Worthless
  <2> HIDE DEF es
  <2>8. Owed' = Owed
    BY <2>1 DEF Owed, Calling
  <2> QED
    BY <2>1, <2>2, <2>5, <2>6, <2>7, <2>8, TallyQuiet
<1> QED
  BY <1>1, <1>2

LEMMA LeavesTally ==
  RunInv /\ RunInv' /\ TallyInv /\ (ContextFails \/ GiveUp \/ TurnLimit \/ Finish \/ Cancel) => TallyInv'
<1> SUFFICES ASSUME RunInv, RunInv', TallyInv, ContextFails \/ GiveUp \/ TurnLimit \/ Finish \/ Cancel
             PROVE  TallyInv'
  OBVIOUS
<1>0. {"checkpoint_saved", "error", "cancelled"} \subseteq EventKinds \ (Scored \cup {"end"})
  BY DEF EventKinds, Scored
<1>1. ASSUME NEW d \in {"error", "cancelled"}, Leave(<<Event("checkpoint_saved"), Event(d)>>, "raised"),
             pc \notin {"releasing", "over"}, did' = did
      PROVE  TallyInv'
  <2> DEFINE es == <<Event("checkpoint_saved"), Event(d)>>
  <2>1. es \in Seq(Ev) /\ ToolKeys(es, "llm_end") = {} /\ ToolKeys(es, "end") = {}
    BY <1>0, <1>1, QuietList
  <2>2. Leave(es, "raised")
    BY <1>1
  <2> HIDE DEF es
  <2> QED
    BY <1>1, <2>1, <2>2, LeaveTally
<1>2. CASE ContextFails \/ GiveUp \/ TurnLimit
  <2>1. <<>> \o <<Event("checkpoint_saved"), Event("error")>> = <<Event("checkpoint_saved"), Event("error")>>
    <3>1. <<Event("checkpoint_saved"), Event("error")>> \in Seq(Ev)
      BY <1>0, QuietList
    <3> QED
      BY <3>1
  <2> QED
    BY <1>1, <1>2, <2>1 DEF ContextFails, GiveUp, TurnLimit, Fail
<1>3. CASE Finish
  <2> DEFINE es == <<Event("checkpoint_saved")>>
  <2>1. es \in Seq(Ev) /\ Metrics(es) = Nothing /\ ToolKeys(es, "llm_end") = {} /\ ToolKeys(es, "end") = {}
    BY <1>0, QuietList
  <2>2. Leave(es, "ended") /\ pc = "endturn" /\ did' = did
    BY <1>3 DEF Finish
  <2>3. Metrics(es) = Only(Owed, 0)
    <3>1. Owed = 0
      BY <2>2 DEF Owed, Calling
    <3> QED
      BY <2>1, <3>1, Worthless
  <2> HIDE DEF es
  <2> QED
    BY <2>1, <2>2, <2>3, LeaveTally
<1>4. CASE Cancel
  BY <1>1, <1>4, ReleaseTally DEF Cancel
<1> QED
  BY <1>2, <1>3, <1>4

\* A run whose call's audit raises: nothing is counted any more.
LEMMA RaisesTally == RunInv /\ RunInv' /\ TallyInv /\ CallRaises => TallyInv'
<1> SUFFICES ASSUME RunInv, RunInv', TallyInv, CallRaises PROVE TallyInv'
  OBVIOUS
<1>1. pc = "tool" /\ did' = did /\ k \in 1..Len(batch) /\ TRUE \in BOOLEAN
  BY DEF CallRaises, RunInv, Placed
<1> DEFINE made == <<OfCall("tool_call", k, TRUE)>>
           last == <<Event("checkpoint_saved"), Event("error")>>
           es == made \o last
<1>2. Leave(es, "raised")
  BY DEF CallRaises, Fail, CallMade
<1>3. made \in Seq(Ev) /\ ToolKeys(made, "llm_end") = {} /\ ToolKeys(made, "end") = {}
  BY <1>1, CallEvents DEF RunInv
<1>4. last \in Seq(Ev) /\ ToolKeys(last, "llm_end") = {} /\ ToolKeys(last, "end") = {}
  <2>1. {"checkpoint_saved", "error"} \subseteq EventKinds \ (Scored \cup {"end"})
    BY DEF EventKinds, Scored
  <2> QED
    BY <2>1, QuietList
<1> HIDE DEF made, last
<1>5. es \in Seq(Ev) /\ \A e : ToolKeys(es, e) = ToolKeys(made, e) \cup ToolKeys(last, e)
  BY <1>3, <1>4, EventsJoined
<1> HIDE DEF es
<1> QED
  BY <1>1, <1>2, <1>3, <1>4, <1>5, LeaveTally

\* A run that waits has reported the one call it owed.
LEMMA PauseTally == RunInv /\ RunInv' /\ TallyInv /\ Pause => TallyInv'
<1> SUFFICES ASSUME RunInv, RunInv', TallyInv, Pause PROVE TallyInv'
  OBVIOUS
<1>1. pc = "wait" /\ did' = did /\ Len(batch) = 1 /\ 1 \in 1..Len(batch) /\ TRUE \in BOOLEAN
  BY DEF Pause, RunInv, Placed
<1> DEFINE both == <<OfCall("tool_call", 1, TRUE)>> \o Result(1, TRUE)
           last == <<Event("wait")>>
           es == both \o last
<1>2. Leave(es, "waiting")
  BY DEF Pause
<1>3. both \in Seq(Ev) /\ Metrics(both) = Only(1, 0) /\ ToolKeys(both, "llm_end") = {} /\ ToolKeys(both, "end") = {}
  <2>1. both \in Seq(Ev) /\ ToolKeys(both, "llm_end") = {} /\ ToolKeys(both, "end") = {}
    BY <1>1, CallEvents DEF RunInv
  <2>2. Metrics(both) = Only(1, 0)
    BY <1>1, CallMetrics DEF RunInv
  <2> QED
    BY <2>1, <2>2
<1>4. last \in Seq(Ev) /\ Metrics(last) = Nothing /\ ToolKeys(last, "llm_end") = {} /\ ToolKeys(last, "end") = {}
  <2>1. "wait" \in EventKinds \ (Scored \cup {"end"})
    BY DEF EventKinds, Scored
  <2> QED
    BY <2>1, QuietList
<1> HIDE DEF both, last
<1>5. es \in Seq(Ev) /\ \A e : ToolKeys(es, e) = ToolKeys(both, e) \cup ToolKeys(last, e)
  BY <1>3, <1>4, EventsJoined
<1>6. Metrics(es) = Only(Owed, 0)
  <2>1. Metrics(es) = Plus(Only(1, 0), Nothing)
    BY <1>3, <1>4, MetricsJoined
  <2>2. Only(1, 0) \in Met
    BY DEF Only, Met
  <2>3. Owed = 1
    BY <1>1 DEF Owed, Calling
  <2> QED
    BY <2>1, <2>2, <2>3, Worthless
<1> HIDE DEF es
<1> QED
  BY <1>1, <1>2, <1>3, <1>4, <1>5, <1>6, LeaveTally

LEMMA RunActTally == RunInv /\ RunInv' /\ TallyInv /\ RunAct => TallyInv'
<1> SUFFICES ASSUME RunInv, RunInv', TallyInv, RunAct PROVE TallyInv'
  OBVIOUS
<1>1. CASE StartRun \/ RunCrash \/ RunTaken
  BY <1>1, ResetTally DEF StartRun, RunCrash, RunTaken
<1>2. CASE CallRefused
  <2>1. pc = "tool" /\ NextCall(CallMade, FALSE) /\ FALSE \in BOOLEAN
    BY <1>2 DEF CallRefused
  <2> QED
    BY <2>1, NextCallTally
<1>3. CASE CallSpawn
  <2>1. pc = "tool" /\ NextCall(CallMade, TRUE) /\ TRUE \in BOOLEAN
    BY <1>3 DEF CallSpawn
  <2> QED
    BY <2>1, NextCallTally
<1>4. ASSUME NEW ok \in BOOLEAN, BashReturns(ok) \/ ToolReturns(ok)
      PROVE  TallyInv'
  <2>1. pc \in Calling /\ NextCall(<<>>, ok)
    BY <1>4 DEF BashReturns, ToolReturns, Calling
  <2> QED
    BY <2>1, NextCallTally
<1>5. ASSUME NEW b \in Seq(ToolNames), Answer(b)
      PROVE  TallyInv'
  BY <1>5, AnswerTally
<1> QED
  BY <1>1, <1>2, <1>3, <1>4, <1>5, BeginTurnTally, ContextLoadedTally, QuietTally, RetryTally,
     ReleaseTally, LeavesTally, PauseTally, RepeatTally, BlockedTally,
     RaisesTally, CallBeginsTally DEF RunAct, RunMove

\* Nothing of the run changes that is counted.
LEMMA RunSameTally == TallyInv /\ RunSame => TallyInv'
BY DEF RunSame, TallyInv, Counted, EndOnly, Asked, Had, Owed, Calling, Metrics

LEMMA TallyInitInv == Init => TallyInv
<1> SUFFICES ASSUME Init PROVE TallyInv
  OBVIOUS
<1>1. pc = "idle" /\ outcome = "none" /\ events = <<>> /\ did = Nothing
  BY DEF Init, RunInit
<1>2. \A e : ToolKeys(events, e) = {} /\ Places(events, e) = {}
  BY <1>1, KeysListed DEF Places
<1>3. Metrics(events) = Nothing
  BY <1>2, FS_EmptySet DEF Metrics, Nothing
<1>4. Owed = 0
  BY <1>1 DEF Owed, Calling
<1>5. Nothing = [Nothing EXCEPT !.calls = @ + 0]
  BY DEF Nothing
<1>6. Counted
  BY <1>1, <1>3, <1>4, <1>5, Worthless DEF Counted
<1> QED
  BY <1>1, <1>2, <1>6 DEF TallyInv, EndOnly, Asked, Had

\* Every step of the process keeps the count of its run.
LEMMA TallyNextInv == ProcessInv /\ TallyInv /\ [Next]_vars => TallyInv'
<1> SUFFICES ASSUME ProcessInv, TallyInv, [Next]_vars PROVE TallyInv'
  OBVIOUS
<1>1. RunInv /\ SceneInv /\ RunInv'
  BY ProcessNextInv DEF ProcessInv
<1>2. CASE RunAct
  BY <1>1, <1>2, RunActTally
<1>3. CASE RunSame
  BY <1>3, RunSameTally
<1> QED
  BY <1>1, <1>2, <1>3, ProcessRuns DEF RunAct

-----------------------------------------------------------------------------
(***************************************************************************)
(* The metrics of a task, and how its judges look for names in order: what *)
(* the two folds return, element by element.                               *)
(***************************************************************************)

\* What CombineMetrics has after each of the results.
Sums(rs, v) ==
  /\ v[0] = Nothing
  /\ \A i \in 1..Len(rs) : v[i] = Plus(v[i - 1], rs[i].metrics)

LEMMA MetricsSummed ==
  ASSUME NEW R, \A r \in R : r.metrics \in Met, NEW rs \in Seq(R)
  PROVE  \E v \in [0..Len(rs) -> Met] : Sums(rs, v) /\ CombineMetrics(rs) = v[Len(rs)]
<1> DEFINE n == Len(rs)
           G(it) == [s \in SUBSET DOMAIN rs |-> IF s = {} THEN Nothing ELSE Plus(it[s \ {Max(s)}], rs[Max(s)].metrics)]
           c == CHOOSE it : it = G(it)
           step == [p \in Met \X (1..n) |-> Plus(p[1], rs[p[2]].metrics)]
<1>1. CombineMetrics(rs) = c[DOMAIN rs]
  BY Zenon DEF CombineMetrics, FoldLeft, MapThenFoldSet
<1>2. n \in Nat /\ DOMAIN rs = 1..n /\ \A i \in 1..n : rs[i].metrics \in Met
  OBVIOUS
<1>3. Nothing \in Met /\ \A a, b \in Met : Plus(a, b) \in Met
  BY Worthless
<1>4. step \in [Met \X (1..n) -> Met] /\ \A m \in Met, i \in 1..n : step[<<m, i>>] = Plus(m, rs[i].metrics)
  BY <1>2, <1>3
<1> HIDE DEF n, step
<1>5. PICK it : Chain(n, Met, Nothing, step, it)
  BY <1>2, <1>3, <1>4, ChainExists
<1>6. it = G(it)
  <2>1. it \in [SUBSET (1..n) -> Met]
    BY <1>5 DEF Chain
  <2>2. ASSUME NEW s \in SUBSET (1..n), s # {}
        PROVE  it[s] = Plus(it[s \ {Max(s)}], rs[Max(s)].metrics)
    <3>1. Max(s) \in 1..n
      BY <1>2, <2>2, MaxOf
    <3>2. it[s \ {Max(s)}] \in Met
      BY <2>1
    <3>3. it[s] = step[<<it[s \ {Max(s)}], Max(s)>>]
      BY <1>5, <2>2 DEF Chain
    <3> QED
      BY <1>4, <3>1, <3>2, <3>3
  <2>3. \A s \in SUBSET (1..n) : s = {} => it[s] = Nothing
    BY <1>5 DEF Chain
  <2> QED
    BY <1>2, <2>1, <2>2, <2>3
<1>7. c = G(c)
  BY <1>6, Zenon
<1> HIDE DEF c
<1>8. c[{}] = Nothing
  BY <1>7
<1>9. \A i \in 1..n : c[1..i] = Plus(c[1..(i - 1)], rs[i].metrics)
  <2> TAKE i \in 1..n
  <2>1. /\ 1..i \in SUBSET (1..n) /\ 1..i # {} /\ Max(1..i) = i
        /\ (1..i) \ {i} = 1..(i - 1)
    BY <1>2, ChainSteps
  <2>2. c[1..i] = Plus(c[(1..i) \ {Max(1..i)}], rs[Max(1..i)].metrics)
    <3> DEFINE s == 1..i
    <3>1. s \in SUBSET DOMAIN rs /\ s # {}
      BY <1>2, <2>1
    <3> HIDE DEF s
    <3>2. c[s] = Plus(c[s \ {Max(s)}], rs[Max(s)].metrics)
      BY <1>7, <3>1
    <3> QED
      BY <3>2 DEF s
  <2> QED
    BY <2>1, <2>2
<1> DEFINE v == [i \in 0..n |-> c[1..i]]
           T == { i \in 0..n : v[i] \in Met }
<1>10. 1..0 = {} /\ 0 \in 0..n /\ v[0] = Nothing
  BY <1>2, <1>8
<1>11. \A i \in 1..n : i \in 0..n /\ i - 1 \in 0..n /\ v[i] = Plus(v[i - 1], rs[i].metrics)
  BY <1>2, <1>9
<1>12. v[n] = c[DOMAIN rs] /\ DOMAIN v = 0..n /\ n \in 0..n
  BY <1>2
<1>15. v = [i \in 0..n |-> v[i]]
  OBVIOUS
<1> HIDE DEF v
<1>13. 0..n \subseteq T
  <2>1. 0 \in T
    BY <1>3, <1>10
  <2>2. \A i \in 1..n : i - 1 \in T => i \in T
    BY <1>2, <1>3, <1>11
  <2> HIDE DEF T
  <2> QED
    BY <1>2, <2>1, <2>2, UpTo
<1>14. v \in [0..n -> Met]
  BY <1>13, <1>15
<1> QED
  BY <1>1, <1>10, <1>11, <1>12, <1>14 DEF Sums, n

LEMMA MetricsAdded ==
  ASSUME NEW R, \A r \in R : r.metrics \in Met, NEW rs \in Seq(R), NEW r \in R
  PROVE  /\ CombineMetrics(<<>>) = Nothing
         /\ CombineMetrics(Append(rs, r)) = Plus(CombineMetrics(rs), r.metrics)
<1> DEFINE more == Append(rs, r)
           n == Len(rs)
<1>1. /\ n \in Nat /\ more \in Seq(R) /\ Len(more) = n + 1 /\ more[n + 1] = r
      /\ \A i \in 1..n : more[i] = rs[i]
  OBVIOUS
<1>2. CombineMetrics(<<>>) = Nothing
  <2> DEFINE none == <<>>
  <2>1. none \in Seq(R) /\ Len(none) = 0
    OBVIOUS
  <2> HIDE DEF none
  <2>2. PICK v \in [0..Len(none) -> Met] : Sums(none, v) /\ CombineMetrics(none) = v[Len(none)]
    BY <2>1, MetricsSummed
  <2> QED
    BY <2>1, <2>2 DEF Sums, none
<1> HIDE DEF more
<1>3. PICK v \in [0..n -> Met] : Sums(rs, v) /\ CombineMetrics(rs) = v[n]
  BY MetricsSummed
<1>4. PICK w \in [0..n + 1 -> Met] : Sums(more, w) /\ CombineMetrics(more) = w[n + 1]
  BY <1>1, MetricsSummed
<1> DEFINE T == { i \in 0..n : v[i] = w[i] }
<1>5. v[0] = Nothing /\ \A i \in 1..n : v[i] = Plus(v[i - 1], rs[i].metrics)
  BY <1>3 DEF Sums
<1>6. w[0] = Nothing /\ \A i \in 1..n + 1 : w[i] = Plus(w[i - 1], more[i].metrics)
  BY <1>1, <1>4 DEF Sums
<1> HIDE DEF n
<1>7. 0..n \subseteq T
  <2>1. 0 \in T
    BY <1>1, <1>5, <1>6
  <2>2. ASSUME NEW i \in 1..n, i - 1 \in T
        PROVE  i \in T
    <3>1. i \in 1..n + 1 /\ i \in 0..n
      BY <1>1
    <3>2. w[i] = Plus(w[i - 1], rs[i].metrics)
      BY <1>1, <1>6, <3>1
    <3> QED
      BY <1>5, <2>2, <3>1, <3>2
  <2> HIDE DEF T
  <2> QED
    BY <1>1, <2>1, <2>2, UpTo
<1>8. n \in 0..n /\ n + 1 \in 1..n + 1 /\ (n + 1) - 1 = n
  BY <1>1
<1>9. v[n] = w[n]
  BY <1>7, <1>8
<1>10. w[n + 1] = Plus(w[n], r.metrics)
  BY <1>1, <1>6, <1>8
<1> QED
  BY <1>2, <1>3, <1>4, <1>9, <1>10 DEF more

\* How far Cursor is after each of the names.
Looks(expected, names, c) ==
  /\ c[0] = 0
  /\ \A i \in 1..Len(names) :
       c[i] = IF c[i - 1] < Len(expected) /\ names[i] = expected[c[i - 1] + 1] THEN c[i - 1] + 1 ELSE c[i - 1]

LEMMA CursorMoves ==
  ASSUME NEW S, NEW R, NEW expected \in Seq(S), NEW names \in Seq(R)
  PROVE  \E c \in [0..Len(names) -> 0..Len(expected)] :
           Looks(expected, names, c) /\ Cursor(expected, names) = c[Len(names)]
<1> DEFINE n == Len(names)
           most == Len(expected)
           Move(c, x) == IF c < most /\ x = expected[c + 1] THEN c + 1 ELSE c
           G(it) == [s \in SUBSET DOMAIN names |->
                      IF s = {} THEN 0
                      ELSE IF it[s \ {Max(s)}] < Len(expected) /\ names[Max(s)] = expected[it[s \ {Max(s)}] + 1]
                           THEN it[s \ {Max(s)}] + 1 ELSE it[s \ {Max(s)}]]
           h == CHOOSE it : it = G(it)
           step == [p \in (0..most) \X (1..n) |-> Move(p[1], names[p[2]])]
<1>1. Cursor(expected, names) = h[DOMAIN names]
  BY Zenon DEF Cursor, FoldLeft, MapThenFoldSet
<1>2. n \in Nat /\ DOMAIN names = 1..n /\ most \in Nat /\ 0 \in 0..most
  OBVIOUS
<1>3. \A c \in 0..most : \A x : Move(c, x) \in 0..most
  BY <1>2
<1>4. step \in [(0..most) \X (1..n) -> 0..most] /\ \A m \in 0..most, i \in 1..n : step[<<m, i>>] = Move(m, names[i])
  BY <1>2, <1>3
<1>20. \A it : G(it) = [s \in SUBSET DOMAIN names |-> IF s = {} THEN 0 ELSE Move(it[s \ {Max(s)}], names[Max(s)])]
  OBVIOUS
<1> HIDE DEF n, step, most, Move
<1>5. PICK it : Chain(n, 0..most, 0, step, it)
  BY <1>2, <1>3, <1>4, ChainExists
<1> HIDE DEF G
<1>6. it = G(it)
  <2>1. it \in [SUBSET (1..n) -> 0..most]
    BY <1>5 DEF Chain
  <2>2. ASSUME NEW s \in SUBSET (1..n), s # {}
        PROVE  it[s] = Move(it[s \ {Max(s)}], names[Max(s)])
    <3>1. Max(s) \in 1..n
      BY <1>2, <2>2, MaxOf
    <3>2. it[s \ {Max(s)}] \in 0..most
      BY <2>1
    <3>3. it[s] = step[<<it[s \ {Max(s)}], Max(s)>>]
      BY <1>5, <2>2 DEF Chain
    <3> QED
      BY <1>4, <3>1, <3>2, <3>3
  <2>3. \A s \in SUBSET (1..n) : s = {} => it[s] = 0
    BY <1>5 DEF Chain
  <2> QED
    BY <1>2, <1>20, <2>1, <2>2, <2>3
<1>7. h = G(h)
  BY <1>6, Zenon
<1> HIDE DEF h
<1>8. h[{}] = 0
  BY <1>7, <1>20
<1>9. \A i \in 1..n : h[1..i] = Move(h[1..(i - 1)], names[i])
  <2> TAKE i \in 1..n
  <2>1. /\ 1..i \in SUBSET (1..n) /\ 1..i # {} /\ Max(1..i) = i
        /\ (1..i) \ {i} = 1..(i - 1)
    BY <1>2, ChainSteps
  <2>2. h[1..i] = Move(h[(1..i) \ {Max(1..i)}], names[Max(1..i)])
    <3> DEFINE s == 1..i
    <3>1. s \in SUBSET DOMAIN names /\ s # {}
      BY <1>2, <2>1
    <3> HIDE DEF s
    <3>2. h[s] = Move(h[s \ {Max(s)}], names[Max(s)])
      BY <1>7, <1>20, <3>1
    <3> QED
      BY <3>2 DEF s
  <2> QED
    BY <2>1, <2>2
<1> DEFINE v == [i \in 0..n |-> h[1..i]]
           T == { i \in 0..n : v[i] \in 0..most }
<1>10. 1..0 = {} /\ 0 \in 0..n /\ v[0] = 0
  BY <1>2, <1>8
<1>11. \A i \in 1..n : i \in 0..n /\ i - 1 \in 0..n /\ v[i] = Move(v[i - 1], names[i])
  BY <1>2, <1>9
<1>12. v[n] = h[DOMAIN names] /\ n \in 0..n /\ v = [i \in 0..n |-> v[i]]
  BY <1>2
<1> HIDE DEF v
<1>13. 0..n \subseteq T
  <2>1. 0 \in T
    BY <1>2, <1>10
  <2>2. \A i \in 1..n : i - 1 \in T => i \in T
    BY <1>2, <1>3, <1>11
  <2> HIDE DEF T
  <2> QED
    BY <1>2, <2>1, <2>2, UpTo
<1>14. v \in [0..n -> 0..most]
  BY <1>12, <1>13
<1>15. Looks(expected, names, v)
  BY <1>10, <1>11 DEF Looks, Move, n, most
<1> QED
  BY <1>1, <1>12, <1>14, <1>15 DEF n, most

\* The places of names where the expected ones are found, one after the other.
FoundAt(expected, names, f, m) ==
  /\ \A j \in 1..m : names[f[j]] = expected[j]
  /\ \A j, l \in 1..m : j < l => f[j] < f[l]

\* They are found somewhere.
Embedded(expected, names) ==
  \E f \in [DOMAIN expected -> DOMAIN names] :
    /\ \A i \in DOMAIN f : names[f[i]] = expected[i]
    /\ \A i, j \in DOMAIN f : i < j => f[i] < f[j]

\* A judge that looks for names in order finds them exactly if they are there in
\* order, with others between them or not (judges.py, _names_appear_in_order).
THEOREM OrderIsFound ==
  ASSUME NEW S, NEW R, NEW expected \in Seq(S), NEW names \in Seq(R)
  PROVE  InOrder(expected, names) <=> Embedded(expected, names)
<1> DEFINE n == Len(names)
           most == Len(expected)
<1>1. n \in Nat /\ DOMAIN names = 1..n /\ most \in Nat /\ DOMAIN expected = 1..most
  OBVIOUS
<1>2. PICK c \in [0..n -> 0..most] : Looks(expected, names, c) /\ Cursor(expected, names) = c[n]
  BY CursorMoves
<1>3. c[0] = 0 /\ n \in 0..n
  BY <1>1, <1>2 DEF Looks
<1>4. ASSUME NEW i \in 1..n
      PROVE  /\ i - 1 \in 0..n /\ i \in 0..n /\ c[i - 1] \in 0..most /\ c[i] \in 0..most
             /\ \/ c[i] = c[i - 1] + 1 /\ c[i] \in 1..most /\ names[i] = expected[c[i]]
                \/ c[i] = c[i - 1] /\ ~ (c[i - 1] < most /\ names[i] = expected[c[i - 1] + 1])
  <2>1. i - 1 \in 0..n /\ i \in 0..n
    BY <1>1
  <2>2. c[i] = IF c[i - 1] < most /\ names[i] = expected[c[i - 1] + 1] THEN c[i - 1] + 1 ELSE c[i - 1]
    BY <1>2 DEF Looks
  <2> DEFINE p == c[i - 1]
             q == c[i]
  <2>3. p \in 0..most /\ q \in 0..most
    BY <1>2, <2>1
  <2>4. q = IF p < most /\ names[i] = expected[p + 1] THEN p + 1 ELSE p
    BY <2>2
  <2> HIDE DEF n, most, p, q
  <2>5. \/ q = p + 1 /\ q \in 1..most /\ names[i] = expected[q]
        \/ q = p /\ ~ (p < most /\ names[i] = expected[p + 1])
    BY <1>1, <2>3, <2>4
  <2> QED
    BY <2>1, <2>3, <2>5 DEF p, q
<1>5. InOrder(expected, names) <=> c[n] = most
  BY <1>2 DEF InOrder
<1> HIDE DEF n, most
<1>6. ASSUME c[n] = most
      PROVE  \E f \in [1..most -> 1..n] : FoundAt(expected, names, f, most)
  <2> DEFINE T == { i \in 0..n : \E f \in [1..c[i] -> 1..i] : FoundAt(expected, names, f, c[i]) }
  <2>1. 0 \in T
    <3> DEFINE f == [j \in 1..0 |-> j]
    <3>1. 1..0 = {}
      OBVIOUS
    <3>2. f \in [1..0 -> 1..0] /\ FoundAt(expected, names, f, 0)
      BY <3>1 DEF FoundAt
    <3> QED
      BY <1>1, <1>3, <3>2
  <2>2. ASSUME NEW i \in 1..n, i - 1 \in T
        PROVE  i \in T
    <3>1. PICK f \in [1..c[i - 1] -> 1..(i - 1)] : FoundAt(expected, names, f, c[i - 1])
      BY <2>2
    <3>2. CASE c[i] = c[i - 1]
      <4>1. f \in [1..c[i] -> 1..i] /\ FoundAt(expected, names, f, c[i])
        BY <1>1, <3>1, <3>2
      <4> QED
        BY <1>4, <4>1
    <3>3. CASE c[i] = c[i - 1] + 1 /\ names[i] = expected[c[i]]
      <4> DEFINE m == c[i]
                 g == [j \in 1..m |-> IF j = m THEN i ELSE f[j]]
      <4>1. m \in Nat /\ m >= 1 /\ c[i - 1] = m - 1
        BY <1>1, <1>4, <3>3
      <4>2. \A j \in 1..m : j # m => j \in 1..(m - 1)
        BY <4>1
      <4>3. f \in [1..(m - 1) -> 1..(i - 1)] /\ FoundAt(expected, names, f, m - 1)
        BY <3>1, <4>1
      <4>4. names[i] = expected[m]
        BY <3>3
      <4> HIDE DEF m
      <4>5. \A j \in 1..m : /\ j = m => g[j] = i
                            /\ j # m => g[j] = f[j] /\ f[j] \in 1..(i - 1)
        BY <4>2, <4>3
      <4>6. g \in [1..m -> 1..i]
        <5>1. \A j \in 1..m : g[j] \in 1..i
          BY <1>1, <4>5
        <5> QED
          BY <5>1
      <4> HIDE DEF g
      <4>7. \A j \in 1..m : names[g[j]] = expected[j]
        BY <4>2, <4>3, <4>4, <4>5 DEF FoundAt
      <4>8. ASSUME NEW j \in 1..m, NEW l \in 1..m, j < l
            PROVE  g[j] < g[l]
        <5>1. j # m /\ g[j] = f[j] /\ f[j] \in 1..(i - 1)
          BY <4>1, <4>5, <4>8
        <5>2. CASE l = m
          <6> DEFINE x == f[j]
          <6>1. x \in 1..(i - 1) /\ g[j] = x /\ g[l] = i
            BY <4>5, <5>1, <5>2
          <6> HIDE DEF x
          <6>2. x < i
            BY <1>1, <6>1
          <6> QED
            BY <6>1, <6>2
        <5>3. CASE l # m
          <6>1. f[j] < f[l]
            BY <4>2, <4>3, <4>8, <5>1, <5>3 DEF FoundAt
          <6> QED
            BY <4>5, <5>1, <5>3, <6>1
        <5> QED
          BY <5>2, <5>3
      <4>9. FoundAt(expected, names, g, m)
        BY <4>7, <4>8 DEF FoundAt
      <4> QED
        BY <1>4, <4>6, <4>9 DEF m
    <3> QED
      BY <1>4, <3>2, <3>3
  <2> HIDE DEF T
  <2>3. 0..n \subseteq T
    BY <1>1, <2>1, <2>2, UpTo
  <2>4. n \in T
    BY <1>3, <2>3
  <2> QED
    BY <1>6, <2>4 DEF T
<1>7. ASSUME NEW f \in [1..most -> 1..n], FoundAt(expected, names, f, most)
      PROVE  c[n] = most
  <2> DEFINE T == { i \in 0..n : \A m \in 1..most : f[m] <= i => m <= c[i] }
  <2>1. 0 \in T
    BY <1>1
  <2>2. ASSUME NEW i \in 1..n, i - 1 \in T
        PROVE  i \in T
    <3>1. ASSUME NEW m \in 1..most, f[m] <= i
          PROVE  m <= c[i]
      <4>1. f[m] \in 1..n /\ \A l \in 1..most : f[l] <= i - 1 => l <= c[i - 1]
        BY <2>2
      <4>2. CASE f[m] <= i - 1
        <5>1. m <= c[i - 1]
          BY <4>1, <4>2
        <5> DEFINE p == c[i - 1]
                   q == c[i]
        <5>2. p \in 0..most /\ q \in 0..most /\ (q = p + 1 \/ q = p) /\ m <= p
          BY <1>4, <5>1
        <5> HIDE DEF p, q
        <5>3. m <= q
          BY <1>1, <5>2
        <5> QED
          BY <5>3 DEF q
      <4>3. CASE f[m] = i
        <5>1. m - 1 <= c[i - 1]
          <6>1. CASE m = 1
            BY <1>1, <1>4, <6>1
          <6>2. CASE m # 1
            <7>1. m - 1 \in 1..most /\ m - 1 < m
              BY <1>1, <6>2
            <7>2. f[m - 1] < f[m] /\ f[m - 1] \in 1..n
              BY <1>7, <7>1 DEF FoundAt
            <7>3. f[m - 1] <= i - 1
              <8> DEFINE x == f[m - 1]
              <8>1. x \in 1..n /\ x < i
                BY <4>3, <7>2
              <8> HIDE DEF x
              <8>2. x <= i - 1
                BY <1>1, <8>1
              <8> QED
                BY <8>2 DEF x
            <7> QED
              BY <4>1, <7>1, <7>3
          <6> QED
            BY <6>1, <6>2
        <5>2. names[i] = expected[m]
          BY <1>7, <4>3 DEF FoundAt
        <5> DEFINE p == c[i - 1]
                   q == c[i]
        <5>3. /\ p \in 0..most /\ q \in 0..most /\ m - 1 <= p
              /\ \/ q = p + 1
                 \/ q = p /\ ~ (p < most /\ names[i] = expected[p + 1])
          BY <1>4, <5>1
        <5> HIDE DEF p, q
        <5>4. m <= q
          <6>1. CASE p = m - 1
            <7>1. p < most /\ names[i] = expected[p + 1]
              BY <1>1, <5>2, <6>1
            <7> QED
              BY <1>1, <5>3, <6>1, <7>1
          <6>2. CASE p # m - 1
            BY <1>1, <5>3, <6>2
          <6> QED
            BY <6>1, <6>2
        <5> QED
          BY <5>4 DEF q
      <4>4. f[m] <= i - 1 \/ f[m] = i
        <5> DEFINE x == f[m]
        <5>1. x \in 1..n /\ x <= i
          BY <3>1, <4>1
        <5> HIDE DEF x
        <5>2. x <= i - 1 \/ x = i
          BY <1>1, <5>1
        <5> QED
          BY <5>2 DEF x
      <4> QED
        BY <4>2, <4>3, <4>4
    <3> QED
      BY <1>4, <3>1
  <2> HIDE DEF T
  <2>3. 0..n \subseteq T
    BY <1>1, <2>1, <2>2, UpTo
  <2>4. \A m \in 1..most : f[m] <= n => m <= c[n]
    BY <1>3, <2>3 DEF T
  <2>5. c[n] \in 0..most
    BY <1>2, <1>3
  <2>6. CASE most = 0
    BY <2>5, <2>6
  <2>7. CASE most # 0
    <3>1. most \in 1..most
      BY <1>1, <2>7
    <3>2. f[most] <= n
      BY <1>1, <3>1
    <3> QED
      BY <1>1, <2>4, <2>5, <3>1, <3>2
  <2> QED
    BY <2>6, <2>7
<1>8. (\E f \in [1..most -> 1..n] : FoundAt(expected, names, f, most)) <=> Embedded(expected, names)
  BY <1>1 DEF FoundAt, Embedded
<1> QED
  BY <1>5, <1>6, <1>7, <1>8

-----------------------------------------------------------------------------
(***************************************************************************)
(* The results of a task.                                                  *)
(***************************************************************************)

Res == [events : Seq(Ev), metrics : Met, calls : Seq(ToolNames), next : {"ended", "waiting"}]

\* The events and the calls that the judges are given.
EventLists(rs) == [i \in DOMAIN rs |-> rs[i].events]
CallLists(rs)  == [i \in DOMAIN rs |-> rs[i].calls]
AllEvents(rs)  == FlattenSeq(EventLists(rs))
AllCalls(rs)   == FlattenSeq(CallLists(rs))

\* What holds of the events of a run that returned, and of several runs together.
Closed(evs) ==
  /\ \A t : Cardinality(InTurn(evs, "llm_start", t)) = Cardinality(InTurn(evs, "llm_end", t))
  /\ ToolKeys(evs, "tool_call") \subseteq ToolKeys(evs, "tool_result")
  /\ ToolKeys(evs, "sandbox_acquired") # {} => ToolKeys(evs, "sandbox_released") # {}

\* What the results of a task, the calls in its messages and the counts of what
\* happened in it have to do with each other.
Faithful(rs, asked, count, names) ==
  /\ rs \in Seq(Res) /\ asked \in Seq(ToolNames)
  /\ count = CombineMetrics(rs)
  /\ Closed(AllEvents(rs))
  /\ ToolKeys(AllEvents(rs), "end") # {} <=> \E i \in DOMAIN rs : rs[i].next = "ended"
  /\ names = ToSet(AllCalls(rs)) /\ names \subseteq ToSet(asked)

\* The results say what the completed runs of the task did.
ResultsInv == Faithful(results, requested, total, used)

LEMMA ResParts ==
  /\ \A r \in Res : r.metrics \in Met /\ r.events \in Seq(Ev) /\ r.calls \in Seq(ToolNames)
                    /\ r.next \in {"ended", "waiting"}
  /\ \A evs \in Seq(Ev), m \in Met, cs \in Seq(ToolNames), next \in {"ended", "waiting"} :
       [events |-> evs, metrics |-> m, calls |-> cs, next |-> next] \in Res
BY DEF Res

LEMMA OneMore ==
  ASSUME NEW S, NEW s \in Seq(S), NEW x \in S
  PROVE  Append(s, x) = [i \in 1..Len(s) + 1 |-> IF i = Len(s) + 1 THEN x ELSE s[i]]
<1> DEFINE n == Len(s)
           l == Append(s, x)
           m == [i \in 1..n + 1 |-> IF i = n + 1 THEN x ELSE s[i]]
<1>1. n \in Nat /\ l \in Seq(S) /\ Len(l) = n + 1 /\ l[n + 1] = x /\ \A i \in 1..n : l[i] = s[i] /\ s[i] \in S
  OBVIOUS
<1> HIDE DEF n, l
<1>2. \A i \in 1..n + 1 : i = n + 1 \/ i \in 1..n
  BY <1>1
<1>3. \A i \in 1..n + 1 : m[i] \in S /\ m[i] = l[i]
  BY <1>1, <1>2
<1>4. m \in Seq(S) /\ Len(m) = n + 1
  BY <1>1, <1>3
<1> HIDE DEF m
<1>5. l = m
  BY <1>1, <1>3, <1>4, SeqEqual
<1> QED
  BY <1>5 DEF l, m, n

\* One result more.
LEMMA ListsMore ==
  ASSUME NEW rs \in Seq(Res), NEW r \in Res
  PROVE  /\ EventLists(rs) \in Seq(Seq(Ev)) /\ CallLists(rs) \in Seq(Seq(ToolNames))
         /\ EventLists(Append(rs, r)) = Append(EventLists(rs), r.events)
         /\ CallLists(Append(rs, r)) = Append(CallLists(rs), r.calls)
         /\ EventLists(<<>>) = <<>> /\ CallLists(<<>>) = <<>>
<1> DEFINE n == Len(rs)
           more == Append(rs, r)
           evs == r.events
           cs == r.calls
           SA == Seq(Ev)
           SB == Seq(ToolNames)
<1>1. /\ n \in Nat /\ DOMAIN rs = 1..n /\ more \in Seq(Res) /\ DOMAIN more = 1..n + 1
      /\ more[n + 1] = r /\ \A i \in 1..n : more[i] = rs[i] /\ rs[i] \in Res
  OBVIOUS
<1>2. /\ evs \in SA /\ cs \in SB
      /\ \A i \in 1..n : rs[i].events \in SA /\ rs[i].calls \in SB
  BY <1>1, ResParts
<1> HIDE DEF n, more, SA, SB
<1> DEFINE el == EventLists(rs)
           cl == CallLists(rs)
<1>3. /\ el = [i \in 1..n |-> rs[i].events] /\ cl = [i \in 1..n |-> rs[i].calls]
  BY <1>1 DEF EventLists, CallLists
<1>4. el \in Seq(SA) /\ cl \in Seq(SB) /\ Len(el) = n /\ Len(cl) = n
  BY <1>1, <1>2, <1>3
<1>5. /\ EventLists(more) = [i \in 1..n + 1 |-> more[i].events]
      /\ CallLists(more) = [i \in 1..n + 1 |-> more[i].calls]
  BY <1>1 DEF EventLists, CallLists
<1>6. \A i \in 1..n + 1 : i # n + 1 => i \in 1..n
  BY <1>1
<1>7. EventLists(more) = Append(el, evs)
  <2>1. \A i \in 1..n + 1 : more[i].events = IF i = n + 1 THEN evs ELSE el[i]
    BY <1>1, <1>3, <1>6
  <2> HIDE DEF el, evs
  <2>2. Append(el, evs) = [i \in 1..n + 1 |-> IF i = n + 1 THEN evs ELSE el[i]]
    BY <1>2, <1>4, OneMore
  <2> QED
    BY <1>5, <2>1, <2>2
<1>8. CallLists(more) = Append(cl, cs)
  <2>1. \A i \in 1..n + 1 : more[i].calls = IF i = n + 1 THEN cs ELSE cl[i]
    BY <1>1, <1>3, <1>6
  <2> HIDE DEF cl, cs
  <2>2. Append(cl, cs) = [i \in 1..n + 1 |-> IF i = n + 1 THEN cs ELSE cl[i]]
    BY <1>2, <1>4, OneMore
  <2> QED
    BY <1>5, <2>1, <2>2
<1>9. EventLists(<<>>) = <<>> /\ CallLists(<<>>) = <<>>
  BY DEF EventLists, CallLists
<1> QED
  BY <1>4, <1>7, <1>8, <1>9 DEF more, SA, SB

LEMMA ResultsJoined ==
  ASSUME NEW rs \in Seq(Res), NEW r \in Res
  PROVE  /\ AllEvents(rs) \in Seq(Ev) /\ AllCalls(rs) \in Seq(ToolNames)
         /\ AllEvents(Append(rs, r)) = AllEvents(rs) \o r.events
         /\ AllCalls(Append(rs, r)) = AllCalls(rs) \o r.calls
         /\ AllEvents(<<>>) = <<>> /\ AllCalls(<<>>) = <<>>
<1> DEFINE more == Append(rs, r)
           evs == r.events
           cs == r.calls
           el == EventLists(rs)
           cl == CallLists(rs)
<1>1. /\ evs \in Seq(Ev) /\ cs \in Seq(ToolNames)
  BY ResParts
<1>2. /\ el \in Seq(Seq(Ev)) /\ cl \in Seq(Seq(ToolNames))
      /\ EventLists(more) = Append(el, evs) /\ CallLists(more) = Append(cl, cs)
      /\ EventLists(<<>>) = <<>> /\ CallLists(<<>>) = <<>>
  BY ListsMore
<1> HIDE DEF more, evs, cs, el, cl
<1>3. /\ FlattenSeq(el) \in Seq(Ev) /\ FlattenSeq(Append(el, evs)) = FlattenSeq(el) \o evs
      /\ FlattenSeq(<<>>) = <<>>
  BY <1>1, <1>2, FlattenedMore
<1>4. /\ FlattenSeq(cl) \in Seq(ToolNames) /\ FlattenSeq(Append(cl, cs)) = FlattenSeq(cl) \o cs
  BY <1>1, <1>2, FlattenedMore
<1> QED
  BY <1>2, <1>3, <1>4 DEF AllEvents, AllCalls, more, evs, cs, el, cl

LEMMA ClosedJoined ==
  ASSUME NEW a \in Seq(Ev), NEW b \in Seq(Ev), Closed(a), Closed(b)
  PROVE  Closed(a \o b)
<1>1. \A e : ToolKeys(a \o b, e) = ToolKeys(a, e) \cup ToolKeys(b, e)
  BY EventsJoined
<1>2. \A e, t : Cardinality(InTurn(a \o b, e, t)) = Cardinality(InTurn(a, e, t)) + Cardinality(InTurn(b, e, t))
  BY MetricsJoined
<1>3. \A t : Cardinality(InTurn(a \o b, "llm_start", t)) = Cardinality(InTurn(a \o b, "llm_end", t))
  BY <1>2 DEF Closed
<1> QED
  BY <1>1, <1>3 DEF Closed

LEMMA EventKind ==
  ASSUME NEW u \in Ev
  PROVE  u.event \in EventKinds
BY Zenon DEF Ev

LEMMA NothingClosed == Closed(<<>>) /\ \A e : ToolKeys(<<>>, e) = {}
<1>1. \A e : Places(<<>>, e) = {}
  BY DEF Places
<1>2. \A e, t : InTurn(<<>>, e, t) = {}
  BY <1>1 DEF InTurn
<1>3. \A e : ToolKeys(<<>>, e) = {}
  BY <1>1 DEF ToolKeys
<1> QED
  BY <1>2, <1>3 DEF Closed

\* What a run returns.
LEMMA RunReturns ==
  ASSUME RunInv, TallyInv, pc = "over", outcome \in {"ended", "waiting"}
  PROVE  /\ Closed(events) /\ did = Metrics(events) /\ did \in Met
         /\ ToolKeys(events, "end") # {} <=> outcome = "ended"
<1>1. ASSUME NEW t
      PROVE  Cardinality(InTurn(events, "llm_start", t)) = Cardinality(InTurn(events, "llm_end", t))
  <2>1. \A e : Had(events, e, t) <=> InTurn(events, e, t) # {}
    <3> TAKE e
    <3>1. Had(events, e, t) => InTurn(events, e, t) # {}
      BY DEF Had, ToolKeys, InTurn
    <3>2. ASSUME NEW i \in InTurn(events, e, t)
          PROVE  Had(events, e, t)
      <4> DEFINE key == <<events[i].turn, events[i].n, events[i].name>>
      <4>1. key \in ToolKeys(events, e) /\ key[1] = t
        BY <3>2 DEF ToolKeys, InTurn
      <4> QED
        BY <4>1 DEF Had
    <3> QED
      BY <3>1, <3>2
  <2>2. Had(events, "llm_start", t) <=> Had(events, "llm_end", t)
    <3>1. \A key \in ToolKeys(events, "llm_start") : Had(events, "llm_end", key[1])
      BY DEF RunInv, Questions, Asking
    <3>2. \A key \in ToolKeys(events, "llm_end") : Had(events, "llm_start", key[1])
      BY DEF TallyInv, Asked
    <3> QED
      BY <3>1, <3>2 DEF Had
  <2>3. \A e \in {"llm_start", "llm_end"} : \A i, j \in InTurn(events, e, t) : i = j
    BY DEF RunInv, Questions, Once, InTurn
  <2>4. CASE Had(events, "llm_start", t)
    <3>1. PICK i \in InTurn(events, "llm_start", t), j \in InTurn(events, "llm_end", t) : TRUE
      BY <2>1, <2>2, <2>4
    <3>2. InTurn(events, "llm_start", t) = {i} /\ InTurn(events, "llm_end", t) = {j}
      BY <2>3, <3>1
    <3> QED
      BY <3>2, FS_Singleton
  <2>5. CASE ~ Had(events, "llm_start", t)
    BY <2>1, <2>2, <2>5
  <2> QED
    BY <2>4, <2>5
<1>2. ToolKeys(events, "tool_call") \subseteq ToolKeys(events, "tool_result")
  BY DEF RunInv, Calls
<1>3. ToolKeys(events, "sandbox_acquired") # {} => ToolKeys(events, "sandbox_released") # {}
  BY DEF RunInv, Boxes
<1>4. ToolKeys(events, "end") # {} <=> outcome = "ended"
  BY DEF RunInv, EndSaid, TallyInv, EndOnly
<1>5. did \in Met /\ did = [Metrics(events) EXCEPT !.calls = @ + 0]
  <2>1. Owed = 0
    BY DEF Owed, Calling
  <2> QED
    BY <2>1 DEF TallyInv, Counted
<1>6. Metrics(events) \in Met
  BY MetricsJoined DEF RunInv, RunTyped
<1>7. did = Metrics(events)
  BY <1>5, <1>6 DEF Met
<1> QED
  BY <1>1, <1>2, <1>3, <1>4, <1>5, <1>7 DEF Closed

\* Before the first result.
LEMMA NoResults == Faithful(<<>>, <<>>, Nothing, {})
<1> DEFINE r == [events |-> <<>>, metrics |-> Nothing, calls |-> <<>>, next |-> "ended"]
           none == <<>>
<1>1. none \in Seq(Res) /\ none \in Seq(ToolNames) /\ DOMAIN none = {} /\ r \in Res
  BY Worthless DEF Res
<1> HIDE DEF r
<1>2. AllEvents(<<>>) = <<>> /\ AllCalls(<<>>) = <<>>
  BY <1>1, ResultsJoined
<1>3. CombineMetrics(<<>>) = Nothing
  BY <1>1, ResParts, MetricsAdded
<1>4. ToSet(<<>>) = {}
  BY DEF ToSet
<1> QED
  BY <1>1, <1>2, <1>3, <1>4, NothingClosed DEF Faithful

LEMMA ResultsInitInv == Init => ResultsInv
<1> SUFFICES ASSUME Init PROVE ResultsInv
  OBVIOUS
<1>1. results = <<>> /\ requested = <<>> /\ total = Nothing /\ used = {}
  BY DEF Init, EvaluationInit
<1> QED
  BY <1>1, NoResults DEF ResultsInv


LEMMA AllTyped ==
  ASSUME NEW rs \in Seq(Res)
  PROVE  AllEvents(rs) \in Seq(Ev)
<1> DEFINE r == [events |-> <<>>, metrics |-> Nothing, calls |-> <<>>, next |-> "ended"]
<1>1. r \in Res
  BY Worthless DEF Res
<1> HIDE DEF r
<1> QED
  BY <1>1, ResultsJoined

LEMMA ListedTogether ==
  ASSUME NEW S, NEW s \in Seq(S), NEW l \in Seq(S)
  PROVE  s \o l \in Seq(S) /\ ToSet(s \o l) = ToSet(s) \cup ToSet(l)
<1> DEFINE j == s \o l
           n == Len(s)
           m == Len(l)
<1>1. /\ n \in Nat /\ m \in Nat /\ DOMAIN s = 1..n /\ DOMAIN l = 1..m /\ DOMAIN j = 1..n + m /\ j \in Seq(S)
      /\ \A i \in 1..n : j[i] = s[i]
      /\ \A i \in 1..m : j[i + n] = l[i]
  OBVIOUS
<1> HIDE DEF j, n, m
<1>2. /\ \A i \in 1..n : i \in 1..n + m
      /\ \A i \in 1..m : i + n \in 1..n + m
      /\ \A i \in 1..n + m : i \in 1..n \/ (i - n \in 1..m /\ (i - n) + n = i)
  BY <1>1
<1>3. ToSet(j) = ToSet(s) \cup ToSet(l)
  <2>1. ToSet(s) \subseteq ToSet(j) /\ ToSet(l) \subseteq ToSet(j)
    BY <1>1, <1>2 DEF ToSet
  <2>2. \A i \in 1..n + m : j[i] \in ToSet(s) \/ j[i] \in ToSet(l)
    BY <1>1, <1>2 DEF ToSet
  <2> QED
    BY <1>1, <2>1, <2>2 DEF ToSet
<1> QED
  BY <1>1, <1>3 DEF j

\* A result of a run that returned.
LEMMA ResultAdded ==
  ASSUME RunInv, TallyInv, ResultsInv, pc = "over", CollectResult
  PROVE  ResultsInv'
<1> DEFINE r == RunResult
           rs == results
<1>1. /\ outcome \in {"ended", "waiting"} /\ results' = Append(rs, r) /\ total' = Plus(total, did)
      /\ used' = ToSet(requested) /\ requested' = requested
  BY DEF CollectResult
<1>2. /\ rs \in Seq(Res) /\ requested \in Seq(ToolNames) /\ total = CombineMetrics(rs)
      /\ Closed(AllEvents(rs)) /\ used = ToSet(AllCalls(rs)) /\ used \subseteq ToSet(requested)
      /\ ToolKeys(AllEvents(rs), "end") # {} <=> \E i \in DOMAIN rs : rs[i].next = "ended"
  BY DEF ResultsInv, Faithful
<1>3. /\ Closed(events) /\ did = Metrics(events) /\ did \in Met /\ events \in Seq(Ev)
      /\ ToolKeys(events, "end") # {} <=> outcome = "ended"
  BY <1>1, RunReturns DEF RunInv, RunTyped
<1>4. r \in Res /\ r.events = events /\ r.calls = requested /\ r.metrics = did /\ r.next = outcome
  BY <1>1, <1>2, <1>3, ResParts DEF RunResult
<1> HIDE DEF r, rs
<1>5. /\ AllEvents(rs) \in Seq(Ev) /\ AllCalls(rs) \in Seq(ToolNames)
      /\ AllEvents(Append(rs, r)) = AllEvents(rs) \o events
      /\ AllCalls(Append(rs, r)) = AllCalls(rs) \o requested
  BY <1>2, <1>4, ResultsJoined
<1>6. CombineMetrics(Append(rs, r)) = Plus(CombineMetrics(rs), did)
  BY <1>2, <1>4, ResParts, MetricsAdded
<1>7. Closed(AllEvents(rs) \o events)
  BY <1>2, <1>3, <1>5, ClosedJoined
<1>8. ToolKeys(AllEvents(rs) \o events, "end") = ToolKeys(AllEvents(rs), "end") \cup ToolKeys(events, "end")
  BY <1>3, <1>5, EventsJoined
<1> DEFINE n == Len(rs)
           more == Append(rs, r)
<1>9. /\ n \in Nat /\ DOMAIN rs = 1..n /\ more \in Seq(Res) /\ DOMAIN more = 1..n + 1 /\ more[n + 1] = r
      /\ \A i \in 1..n : more[i] = rs[i]
  BY <1>2, <1>4
<1>10. \A i \in 1..n + 1 : i = n + 1 \/ i \in 1..n
  BY <1>9
<1>11. n + 1 \in 1..n + 1 /\ \A i \in 1..n : i \in 1..n + 1
  BY <1>9
<1> HIDE DEF more, n
<1>12. (\E i \in DOMAIN more : more[i].next = "ended") <=> (\E i \in DOMAIN rs : rs[i].next = "ended") \/ outcome = "ended"
  BY <1>4, <1>9, <1>10, <1>11
<1>13. ToSet(AllCalls(rs) \o requested) = ToSet(AllCalls(rs)) \cup ToSet(requested)
  BY <1>2, <1>5, ListedTogether
<1>14. ToSet(AllCalls(rs) \o requested) = ToSet(requested)
  BY <1>2, <1>13
<1>15. results' = more
  BY <1>1 DEF more
<1>16. /\ AllEvents(more) = AllEvents(rs) \o events /\ AllCalls(more) = AllCalls(rs) \o requested
       /\ CombineMetrics(more) = Plus(CombineMetrics(rs), did)
  BY <1>5, <1>6 DEF more
<1>17. Faithful(more, requested, Plus(total, did), ToSet(requested))
  BY <1>2, <1>3, <1>7, <1>8, <1>9, <1>12, <1>14, <1>16 DEF Faithful
<1> QED
  BY <1>1, <1>15, <1>17 DEF ResultsInv

\* Every step of the process keeps the results true.
LEMMA ResultsNextInv == ProcessInv /\ TallyInv /\ ResultsInv /\ [Next]_vars => ResultsInv'
<1> SUFFICES ASSUME ProcessInv, TallyInv, ResultsInv, [Next]_vars PROVE ResultsInv'
  OBVIOUS
<1>0. RunInv /\ SceneInv
  BY DEF ProcessInv
<1>1. ASSUME UNCHANGED <<results, total, used, requested>>
      PROVE  ResultsInv'
  BY <1>1 DEF ResultsInv
<1>2. CASE TaskStarts
  <2>1. results' = <<>> /\ requested' = <<>> /\ total' = Nothing /\ used' = {}
    BY <1>2 DEF TaskStarts, StartTask
  <2> QED
    BY <2>1, NoResults DEF ResultsInv
<1>3. CASE Think
  <2>1. PICK b \in BoundedSeq(tools, MaxCalls) : requested' = IF harness THEN requested \o b ELSE requested
    BY <1>3 DEF Think
  <2>2. b \in Seq(ToolNames)
    <3>1. PICK m \in 0..MaxCalls : b \in [1..m -> tools]
      BY DEF BoundedSeq, SeqOf
    <3>2. m \in Nat /\ tools \subseteq ToolNames
      BY <1>0, TraceAssumption DEF SceneInv, ToolNames
    <3> QED
      BY <3>1, <3>2
  <2>3. UNCHANGED <<results, total, used>>
    BY <1>3 DEF Think
  <2>4. requested \in Seq(ToolNames) /\ used \subseteq ToSet(requested)
    BY DEF ResultsInv, Faithful
  <2>5. requested' \in Seq(ToolNames) /\ used \subseteq ToSet(requested')
    BY <2>1, <2>2, <2>4, ListedTogether
  <2> QED
    BY <2>3, <2>5 DEF ResultsInv, Faithful
<1>4. CASE HarnessStep
  <2>1. CASE CollectResult
    <3>1. pc = "over"
      BY <2>1 DEF CollectResult, RunTaken
    <3> QED
      BY <1>0, <2>1, <3>1, ResultAdded
  <2>2. CASE RunFailed \/ Judge \/ FeaturesRefused
    BY <1>1, <2>2 DEF RunFailed, Judge, FeaturesRefused
  <2> QED
    BY <1>4, <2>1, <2>2 DEF HarnessStep
<1>5. CASE \/ Serve \/ Prepare \/ UseTool \/ ToolDone \/ TaskPrompt \/ Delivered \/ RunStep \/ RunGoesWrong
           \/ UserCancels \/ Timeout \/ Crash
           \/ \E w \in Workers : Spawn(w) \/ WorkerCalls(w) \/ WorkerTold(w)
           \/ \E a \in Actors : StoreStep(a)
           \/ UNCHANGED vars
  <2>1. UNCHANGED harnessVars
    BY <1>5 DEF Serve, Prepare, UseTool, ToolDone, TaskPrompt, Delivered, RunStep, RunGoesWrong, UserCancels,
       Timeout, Crash, Spawn, WorkerCalls, WorkerTold, StoreStep, vars
  <2> QED
    BY <1>1, <2>1 DEF harnessVars
<1> QED
  BY <1>2, <1>3, <1>4, <1>5 DEF Next, Progress

\* The traces and the metrics that an evaluation is given count what happened in
\* it: every completed run of a task, and nothing else (engine.py,
\* _extract_metrics; runner.py, combine_results).
THEOREM ResultsAreTrue == Spec => []ResultsInv
BY ProcessInductive, TallyInitInv, TallyNextInv, ResultsInitInv, ResultsNextInv, PTL DEF Spec

-----------------------------------------------------------------------------
(***************************************************************************)
(* The verdicts.                                                           *)
(***************************************************************************)

\* What is asserted of a result is so exactly if it is true.
LEMMA HoldsIsTruth ==
  ASSUME ResultsInv, NEW a \in Assertions, a.type # "tool_sequence"
  PROVE  Holds(a, CombineResults(results)) <=> Truth(a)
<1> DEFINE r == CombineResults(results)
           evs == AllEvents(results)
           names == a.names
<1>1. /\ results \in Seq(Res) /\ total = CombineMetrics(results) /\ Closed(evs)
      /\ used = ToSet(AllCalls(results))
      /\ ToolKeys(evs, "end") # {} <=> \E i \in DOMAIN results : results[i].next = "ended"
  BY DEF ResultsInv, Faithful
<1>2. /\ r.events = evs /\ r.calls = AllCalls(results) /\ r.metrics = total /\ r.next = Last(results).next
  BY <1>1 DEF CombineResults, AllEvents, AllCalls, EventLists, CallLists
<1>3. evs \in Seq(Ev)
  BY <1>1, AllTyped
<1>4. names \in Seq(ToSet(names)) /\ a.type \in AssertionTypes
  BY EvaluationAssumption
<1> HIDE DEF r, evs, names
<1>5. CASE a.type = "tool_called"
  BY <1>1, <1>2, <1>5 DEF Holds, Truth, r, names
<1>6. CASE a.type = "tool_not_called"
  BY <1>1, <1>2, <1>6 DEF Holds, Truth, r, names
<1>7. CASE a.type = "tool_called_any"
  BY <1>1, <1>2, <1>7 DEF Holds, Truth, r, names
<1>8. CASE a.type = "trace_has"
  <2>1. \A e : Places(evs, e) # {} <=> e \in ToSet(EventNames(evs))
    BY DEF Places, ToSet, EventNames
  <2> QED
    BY <1>2, <1>8, <2>1 DEF Holds, Truth, r, names
<1>9. CASE a.type = "event_order"
  <2> DEFINE seen == EventNames(evs)
  <2>1. seen \in Seq(EventKinds) /\ DOMAIN seen = DOMAIN evs /\ \A i \in DOMAIN evs : seen[i] = evs[i].event
    <3>1. \A i \in DOMAIN evs : evs[i].event \in EventKinds
      BY <1>3, EventKind
    <3> QED
      BY <1>3, <3>1 DEF EventNames
  <2> HIDE DEF seen
  <2>2. InOrder(names, seen) <=> Embedded(names, seen)
    BY <1>4, <2>1, OrderIsFound
  <2>3. Embedded(names, seen) <=>
          \E f \in [DOMAIN names -> DOMAIN evs] :
            /\ \A i \in DOMAIN f : evs[f[i]].event = names[i]
            /\ \A i, j \in DOMAIN f : i < j => f[i] < f[j]
    BY <2>1 DEF Embedded
  <2>4. Holds(a, r) <=> InOrder(names, seen)
    BY <1>2, <1>9 DEF Holds, names, seen
  <2>5. Truth(a) <=> \E f \in [DOMAIN names -> DOMAIN evs] :
                       /\ \A i \in DOMAIN f : evs[f[i]].event = names[i]
                       /\ \A i, j \in DOMAIN f : i < j => f[i] < f[j]
    BY <1>2, <1>9 DEF Truth, names, r
  <2> QED
    BY <2>2, <2>3, <2>4, <2>5 DEF r
<1>10. CASE a.type = "trace_contract"
  <2>1. \A e : Places(evs, e) = {} <=> ToolKeys(evs, e) = {}
    BY DEF ToolKeys
  <2>2. ContractHolds(evs, TRUE) <=> Places(evs, "end") # {}
    BY <1>1, <2>1 DEF ContractHolds, Closed
  <2> QED
    BY <1>1, <1>2, <1>10, <2>1, <2>2 DEF Holds, Truth, r
<1>11. CASE a.type = "next_action_is"
  BY <1>2, <1>11 DEF Holds, Truth, r, names
<1>12. CASE a.type = "no_tool_errors"
  BY <1>2, <1>12 DEF Holds, Truth, r
<1>13. CASE a.type \in {"metric_eq", "metric_lte", "metric_gte"}
  BY <1>2, <1>13 DEF Holds, Truth, r
<1> QED
  BY <1>4, <1>5, <1>6, <1>7, <1>8, <1>9, <1>10, <1>11, <1>12, <1>13 DEF AssertionTypes

\* A verdict says what happened in the task, for any prompts, answers, tools and
\* faults, and for any assertions but those on the order of calls: a result lists
\* the calls of all messages of its thread, so that a call comes again with every
\* later result of its task (runner.py, run_task; judges.py, evaluate_assertions).
THEOREM VerdictsAreTrue ==
  ASSUME \A a \in Assertions : a.type # "tool_sequence"
  PROVE  Spec => []VerdictsTrue
<1>1. ResultsInv => VerdictsTrue
  <2> SUFFICES ASSUME ResultsInv PROVE VerdictsTrue
    OBVIOUS
  <2>1. TaskResult.metrics = total
    BY DEF TaskResult, CombineResults, ResultsInv, Faithful
  <2>2. \A a \in Assertions : Holds(a, CombineResults(results)) <=> Truth(a)
    BY HoldsIsTruth
  <2>3. ~ raised => TaskResult.failed = { a \in Assertions : ~ Truth(a) }
    <3>1. { a \in Assertions : ~ Holds(a, CombineResults(results)) } = { a \in Assertions : ~ Truth(a) }
      BY <2>2
    <3> QED
      BY <3>1 DEF TaskResult
  <2> QED
    BY <2>1, <2>3 DEF VerdictsTrue
<1> QED
  BY <1>1, ResultsAreTrue, PTL

\* What is in order in a list is in order in one that ends with it.
LEMMA EmbeddedLater ==
  ASSUME NEW S, NEW s \in Seq(S), NEW l \in Seq(S), NEW R, NEW expected \in Seq(R), Embedded(expected, l)
  PROVE  Embedded(expected, s \o l)
<1> DEFINE j == s \o l
           n == Len(s)
           m == Len(l)
<1>1. /\ n \in Nat /\ m \in Nat /\ DOMAIN l = 1..m /\ DOMAIN j = 1..n + m
      /\ \A i \in 1..m : j[i + n] = l[i]
  OBVIOUS
<1> HIDE DEF j, n, m
<1>2. PICK f \in [DOMAIN expected -> DOMAIN l] :
        /\ \A i \in DOMAIN f : l[f[i]] = expected[i]
        /\ \A i, h \in DOMAIN f : i < h => f[i] < f[h]
  BY DEF Embedded
<1> DEFINE g == [i \in DOMAIN expected |-> f[i] + n]
<1>3. \A i \in DOMAIN expected : f[i] \in 1..m /\ f[i] \in Nat /\ f[i] + n \in DOMAIN j /\ j[f[i] + n] = expected[i]
  BY <1>1, <1>2
<1>4. g \in [DOMAIN expected -> DOMAIN j] /\ \A i \in DOMAIN g : j[g[i]] = expected[i]
  BY <1>3
<1>5. \A i, h \in DOMAIN g : i < h => g[i] < g[h]
  BY <1>1, <1>2, <1>3
<1> QED
  BY <1>4, <1>5 DEF Embedded, j

\* A sequence of calls that is missed was not made: the last result of a task
\* lists the calls of all messages of its thread, and not in that order.
SequencesMissed ==
  (~ raised /\ results # <<>>) =>
    \A a \in TaskResult.failed :
      a.type = "tool_sequence" => ~ Embedded(a.names, Last(results).calls)

\* An assertion on the order of calls never fails of calls that were made in that
\* order. The converse is not so: a task that goes on has its calls listed again,
\* and a sequence may be found across two lists (judges.py, tool_sequence).
THEOREM MissedSequencesAreTrue == Spec => []SequencesMissed
<1>1. ResultsInv => SequencesMissed
  <2> SUFFICES ASSUME ResultsInv, ~ raised, results # <<>>, NEW a \in TaskResult.failed,
                      a.type = "tool_sequence", Embedded(a.names, Last(results).calls)
               PROVE  FALSE
    BY DEF SequencesMissed
  <2> DEFINE n == Len(results)
             most == SubSeq(results, 1, n - 1)
             r == results[n]
             calls == CombineResults(results).calls
  <2>1. a \in Assertions /\ ~ Holds(a, CombineResults(results))
    BY DEF TaskResult
  <2>2. ~ InOrder(a.names, calls)
    BY <2>1 DEF Holds
  <2>3. /\ results \in Seq(Res) /\ n \in Nat \ {0} /\ most \in Seq(Res) /\ r \in Res
        /\ results = Append(most, r) /\ Last(results) = r
    <3>1. results \in Seq(Res)
      BY DEF ResultsInv, Faithful
    <3> QED
      BY <3>1 DEF Last
  <2>4. calls = AllCalls(results)
    BY DEF CombineResults, AllCalls, CallLists
  <2> HIDE DEF most, r, calls
  <2>5. /\ AllCalls(most) \in Seq(ToolNames) /\ r.calls \in Seq(ToolNames)
        /\ calls = AllCalls(most) \o r.calls
    BY <2>3, <2>4, ResultsJoined, ResParts
  <2>6. a.names \in Seq(ToSet(a.names))
    BY <2>1, EvaluationAssumption
  <2>7. calls \in Seq(ToolNames) /\ Embedded(a.names, calls)
    BY <2>3, <2>5, <2>6, EmbeddedLater
  <2> QED
    BY <2>2, <2>6, <2>7, OrderIsFound
<1> QED
  BY <1>1, ResultsAreTrue, PTL
=============================================================================
