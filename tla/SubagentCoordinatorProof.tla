---------------------- MODULE SubagentCoordinatorProof ----------------------
(***************************************************************************)
(* The coordinator keeps its slots, its workers and their results, for any *)
(* number of workers, slots, iterations and cancelled tasks.               *)
(***************************************************************************)
EXTENDS SubagentCoordinator, Lists

Slotted == {"acquiring", "thinking", "releasing"}

\* The tasks in line are the queued ones, each of them once.
LineOk == Distinct(line) /\ Range(line) = { w \in Workers : pc[w] = "queued" }

\* The loop is entered as long as an iteration is left.
IterationOk ==
  \A w \in Workers :
    pc[w] \in {"none", "new", "queued", "acquiring", "thinking"} => iteration[w] < MaxIterations

\* A worker in _active has a slot; one that gives its sandbox back knows how it
\* ended, or was cancelled.
ActiveOk == \A w \in active : pc[w] \in Slotted
StatusOk ==
  \A w \in Workers : pc[w] = "releasing" => status[w] \in Final \/ w \in cancelled

\* The inductive invariant.
CoordinatorInv ==
  /\ TypeOK /\ SlotsConserved /\ LineOk /\ IterationOk /\ ActiveOk /\ StatusOk
  /\ NeverUnknown /\ HandlesReturned /\ ResultIsFinal

-----------------------------------------------------------------------------
(***************************************************************************)
(* The semaphore: its value and the workers that hold a slot.              *)
(***************************************************************************)

\* One task moves.
LEMMA PcSet ==
  ASSUME TypeOK, NEW w \in Workers, NEW s, pc' = [pc EXCEPT ![w] = s]
  PROVE  /\ pc'[w] = s /\ \A v \in Workers \ {w} : pc'[v] = pc[v]
         /\ Holding' = IF s \in Slotted THEN Holding \cup {w} ELSE Holding \ {w}
         /\ w \in Holding <=> pc[w] \in Slotted
<1>1. pc'[w] = s /\ \A v \in Workers \ {w} : pc'[v] = pc[v]
  BY DEF TypeOK
<1>2. \A v \in Workers : v \in Holding <=> pc[v] \in Slotted
  BY DEF Holding, Slotted
<1>3. \A v \in Workers : v \in Holding' <=> pc'[v] \in Slotted
  BY DEF Holding, Slotted
<1>4. Holding \subseteq Workers /\ Holding' \subseteq Workers
  BY DEF Holding
<1> QED
  BY <1>1, <1>2, <1>3, <1>4

LEMMA HoldingFinite == IsFiniteSet(Holding) /\ Cardinality(Holding) \in Nat
<1>1. IsFiniteSet(Holding)
  BY CoordinatorAssumption, FS_Subset DEF Holding
<1> QED
  BY <1>1, FS_CardinalityType

\* A task that takes a slot takes it from the semaphore.
LEMMA SlotTaken ==
  ASSUME TypeOK, SlotsConserved, NEW w \in Workers, NEW s \in Slotted, pc[w] \notin Slotted,
         free > 0, pc' = [pc EXCEPT ![w] = s], free' = free - 1
  PROVE  SlotsConserved' /\ free' \in 0 .. MaxConcurrent
<1>1. Holding' = Holding \cup {w} /\ w \notin Holding
  BY PcSet
<1>2. Cardinality(Holding') = Cardinality(Holding) + 1
  BY <1>1, HoldingFinite, FS_AddElement
<1> QED
  BY <1>2, HoldingFinite, CoordinatorAssumption DEF SlotsConserved, TypeOK

\* A task that is done gives back the slot it had.
LEMMA SlotGiven ==
  ASSUME TypeOK, SlotsConserved, NEW w \in Workers, pc[w] \in Slotted,
         pc' = [pc EXCEPT ![w] = "done"], free' = free + 1
  PROVE  SlotsConserved' /\ free' \in 0 .. MaxConcurrent
<1>1. Holding' = Holding \ {w} /\ w \in Holding
  BY PcSet DEF Slotted
<1>2. Cardinality(Holding') = Cardinality(Holding) - 1
  BY <1>1, HoldingFinite, FS_RemoveElement
<1>3. Cardinality(Holding) # 0
  BY <1>1, HoldingFinite, FS_EmptySet
<1>4. free + Cardinality(Holding) = MaxConcurrent /\ free \in Nat /\ MaxConcurrent \in Nat
  BY CoordinatorAssumption DEF SlotsConserved, TypeOK
<1>5. Cardinality(Holding) \in Nat
  BY HoldingFinite
<1>6. free' + Cardinality(Holding') = MaxConcurrent /\ free' \in 0 .. MaxConcurrent
  BY <1>2, <1>3, <1>4, <1>5
<1> QED
  BY <1>6 DEF SlotsConserved

\* Any other move leaves the slots alone.
LEMMA SlotKeptBy ==
  ASSUME TypeOK, SlotsConserved, NEW w \in Workers, NEW s, pc[w] \in Slotted <=> s \in Slotted,
         pc' = [pc EXCEPT ![w] = s], free' = free
  PROVE  SlotsConserved'
<1>1. CASE s \in Slotted
  <2>1. Holding' = Holding \cup {w} /\ w \in Holding
    BY <1>1, PcSet
  <2> QED
    BY <2>1 DEF SlotsConserved
<1>2. CASE s \notin Slotted
  <2>1. Holding' = Holding \ {w} /\ w \notin Holding
    BY <1>2, PcSet
  <2> QED
    BY <2>1 DEF SlotsConserved
<1> QED
  BY <1>1, <1>2

-----------------------------------------------------------------------------
(***************************************************************************)
(* The line.                                                               *)
(***************************************************************************)

\* A move outside the line.
LEMMA LineSame ==
  ASSUME TypeOK, LineOk, NEW w \in Workers, NEW s, pc[w] # "queued", s # "queued",
         pc' = [pc EXCEPT ![w] = s], line' = line
  PROVE  LineOk'
BY PcSet DEF LineOk

\* A task leaves the line, for a slot or because it is cancelled.
LEMMA LineWithout ==
  ASSUME TypeOK, LineOk, NEW w \in Workers, NEW s, s # "queued",
         pc' = [pc EXCEPT ![w] = s], Distinct(line'), Range(line') = Range(line) \ {w}
  PROVE  LineOk'
<1>1. pc'[w] = s /\ \A v \in Workers \ {w} : pc'[v] = pc[v]
  BY PcSet
<1>2. { v \in Workers : pc'[v] = "queued" } = { v \in Workers : pc[v] = "queued" } \ {w}
  BY <1>1
<1> QED
  BY <1>2 DEF LineOk

-----------------------------------------------------------------------------
(***************************************************************************)
(* The steps.                                                              *)
(***************************************************************************)

\* The invariant holds at first.
LEMMA CoordinatorInit == Init => CoordinatorInv
<1> SUFFICES ASSUME Init PROVE CoordinatorInv
  OBVIOUS
<1>1. TypeOK
  BY CoordinatorAssumption DEF Init, TypeOK
<1>2. Holding = {}
  BY DEF Init, Holding
<1>3. SlotsConserved
  BY <1>2, FS_EmptySet, CoordinatorAssumption DEF Init, SlotsConserved
<1>4. LineOk
  BY EmptyLine DEF Init, LineOk
<1>5. IterationOk /\ ActiveOk /\ StatusOk
  BY CoordinatorAssumption DEF Init, IterationOk, ActiveOk, StatusOk
<1>6. NeverUnknown /\ HandlesReturned /\ ResultIsFinal
  BY DEF Init, NeverUnknown, HandlesReturned, ResultIsFinal
<1> QED
  BY <1>1, <1>3, <1>4, <1>5, <1>6 DEF CoordinatorInv

LEMMA SpawnStep ==
  ASSUME CoordinatorInv, NEW w \in Workers, Spawn(w)
  PROVE  CoordinatorInv'
<1> USE DEF CoordinatorInv
<1>1. pc[w] = "none" /\ pc' = [pc EXCEPT ![w] = "new"]
  BY DEF Spawn
<1>2. pc'[w] = "new" /\ \A v \in Workers \ {w} : pc'[v] = pc[v]
  BY <1>1, PcSet
<1>3. LineOk' /\ SlotsConserved'
  BY <1>1, LineSame, SlotKeptBy DEF Spawn, Slotted
<1>4. TypeOK'
  BY <1>1 DEF Spawn, TypeOK
<1>5. IterationOk' /\ ActiveOk' /\ StatusOk'
  BY <1>1, <1>2 DEF Spawn, TypeOK, IterationOk, ActiveOk, StatusOk, Slotted
<1>6. NeverUnknown' /\ HandlesReturned' /\ ResultIsFinal'
  BY <1>1, <1>2 DEF Spawn, TypeOK, NeverUnknown, HandlesReturned, ResultIsFinal
<1> QED
  BY <1>3, <1>4, <1>5, <1>6

LEMMA EnqueueStep ==
  ASSUME CoordinatorInv, NEW w \in Workers, Enter(w) \/ Run(w)
  PROVE  CoordinatorInv'
<1> USE DEF CoordinatorInv
<1>1. Enqueue(w) /\ pc[w] \in {"none", "new"} /\ pc' = [pc EXCEPT ![w] = "queued"]
  BY DEF Enter, Run, Enqueue
<1>2. pc'[w] = "queued" /\ \A v \in Workers \ {w} : pc'[v] = pc[v]
  BY <1>1, PcSet
<1>3. LineOk' /\ line' \in Seq(Workers)
  <2>1. line \in Seq(Workers) /\ w \notin Range(line) /\ line' = Append(line, w)
    BY <1>1 DEF Enqueue, TypeOK, LineOk
  <2>2. /\ line' \in Seq(Workers) /\ Distinct(line')
        /\ Range(line') = Range(line) \cup {w}
    BY <2>1, LineJoined DEF LineOk
  <2>3. { v \in Workers : pc'[v] = "queued" } = { v \in Workers : pc[v] = "queued" } \cup {w}
    BY <1>2
  <2> QED
    BY <2>2, <2>3 DEF LineOk
<1>4. SlotsConserved'
  BY <1>1, SlotKeptBy DEF Enqueue, Slotted
<1>5. TypeOK'
  BY <1>1, <1>3 DEF Enqueue, tables, TypeOK
<1>6. IterationOk' /\ ActiveOk' /\ StatusOk'
  BY <1>1, <1>2 DEF Enqueue, tables, TypeOK, IterationOk, ActiveOk, StatusOk, Slotted
<1>7. NeverUnknown' /\ HandlesReturned' /\ ResultIsFinal'
  BY <1>1, <1>2 DEF Enqueue, tables, TypeOK, NeverUnknown, HandlesReturned, ResultIsFinal
<1> QED
  BY <1>3, <1>4, <1>5, <1>6, <1>7

LEMMA StartStep ==
  ASSUME CoordinatorInv, NEW w \in Workers, Start(w)
  PROVE  CoordinatorInv'
<1> USE DEF CoordinatorInv
<1>1. pc' = [pc EXCEPT ![w] = "acquiring"] /\ free > 0 /\ free' = free - 1
  BY DEF Start
<1>2. line \in Seq(Workers) /\ line # <<>> /\ Head(line) = w /\ line' = Tail(line)
  BY DEF Start, TypeOK
<1>3. /\ pc[w] = "queued"
      /\ line' \in Seq(Workers) /\ Distinct(line') /\ Range(line') = Range(line) \ {w}
  BY <1>2, LineServed DEF LineOk
<1>4. pc'[w] = "acquiring" /\ \A v \in Workers \ {w} : pc'[v] = pc[v]
  BY <1>1, PcSet
<1>5. SlotsConserved' /\ free' \in 0 .. MaxConcurrent
  BY <1>1, <1>3, SlotTaken DEF Slotted
<1>7. LineOk'
  BY <1>1, <1>3, LineWithout
<1>8. TypeOK'
  BY <1>1, <1>3, <1>5 DEF Start, TypeOK
<1>9. IterationOk' /\ ActiveOk' /\ StatusOk'
  BY <1>3, <1>4 DEF Start, TypeOK, IterationOk, ActiveOk, StatusOk, Slotted
<1>10. NeverUnknown' /\ HandlesReturned' /\ ResultIsFinal'
  BY <1>3, <1>4 DEF Start, TypeOK, NeverUnknown, HandlesReturned, ResultIsFinal
<1> QED
  BY <1>5, <1>7, <1>8, <1>9, <1>10

LEMMA AcquiredStep ==
  ASSUME CoordinatorInv, NEW w \in Workers, Acquired(w)
  PROVE  CoordinatorInv'
<1> USE DEF CoordinatorInv
<1>1. pc[w] = "acquiring" /\ pc' = [pc EXCEPT ![w] = "thinking"]
  BY DEF Acquired
<1>2. pc'[w] = "thinking" /\ \A v \in Workers \ {w} : pc'[v] = pc[v]
  BY <1>1, PcSet
<1>3. LineOk' /\ SlotsConserved'
  BY <1>1, LineSame, SlotKeptBy DEF Acquired, Slotted
<1>4. TypeOK'
  BY <1>1 DEF Acquired, tables, TypeOK
<1>5. IterationOk' /\ ActiveOk' /\ StatusOk'
  BY <1>1, <1>2 DEF Acquired, tables, TypeOK, IterationOk, ActiveOk, StatusOk, Slotted
<1>6. NeverUnknown' /\ HandlesReturned' /\ ResultIsFinal'
  BY <1>1, <1>2 DEF Acquired, tables, TypeOK, NeverUnknown, HandlesReturned, ResultIsFinal
<1> QED
  BY <1>3, <1>4, <1>5, <1>6

\* A worker settles with a final status, its handle returned or the release cut.
LEMMA SettleStep ==
  ASSUME CoordinatorInv, NEW w \in Workers, NEW s \in Final, pc[w] \in Slotted, Settle(w, s),
         leased' \subseteq leased, w \in leased' => w \in cut',
         cancelled' \in {cancelled, cancelled \cup {w}}, cut' \in {cut, cut \cup {w}},
         cancels' \in 0 .. MaxCancels
  PROVE  CoordinatorInv'
<1> USE DEF CoordinatorInv
<1>1. pc' = [pc EXCEPT ![w] = "done"] /\ free' = free + 1 /\ line' = line
  BY DEF Settle, SlotBack
<1>2. pc'[w] = "done" /\ \A v \in Workers \ {w} : pc'[v] = pc[v]
  BY <1>1, PcSet
<1>3. LineOk' /\ SlotsConserved' /\ free' \in 0 .. MaxConcurrent
  BY <1>1, LineSame, SlotGiven DEF Slotted
<1>4. TypeOK'
  BY <1>1, <1>3 DEF Settle, Keeps, TypeOK, Final
<1>5. IterationOk' /\ ActiveOk' /\ StatusOk'
  BY <1>2 DEF Settle, TypeOK, IterationOk, ActiveOk, StatusOk
<1>6. NeverUnknown' /\ HandlesReturned' /\ ResultIsFinal'
  BY <1>2 DEF Settle, Keeps, TypeOK, NeverUnknown, HandlesReturned, ResultIsFinal
<1> QED
  BY <1>3, <1>4, <1>5, <1>6

\* _run_worker goes to its finally, with a status or cancelled.
LEMMA ConcludeStep ==
  ASSUME CoordinatorInv, NEW w \in Workers, pc[w] = "thinking",
         NEW s \in {"pending", "running"} \cup Final, Conclude(w, s),
         s \in Final \/ w \in cancelled',
         cancelled' \in {cancelled, cancelled \cup {w}},
         iteration' \in {iteration, [iteration EXCEPT ![w] = @ + 1]},
         cancels' \in 0 .. MaxCancels
  PROVE  CoordinatorInv'
<1> USE DEF CoordinatorInv
<1>1. pc' = [pc EXCEPT ![w] = "releasing"]
  BY DEF Conclude
<1>2. pc'[w] = "releasing" /\ \A v \in Workers \ {w} : pc'[v] = pc[v]
  BY <1>1, PcSet
<1>3. LineOk' /\ SlotsConserved'
  BY <1>1, LineSame, SlotKeptBy DEF Conclude, Slotted
<1>4. iteration' \in [Workers -> 0 .. MaxIterations]
  BY CoordinatorAssumption DEF TypeOK, IterationOk
<1>5. TypeOK'
  <2>1. status' \in [Workers -> {"pending", "running"} \cup Final]
    BY DEF Conclude, TypeOK
  <2>2. /\ pc' \in [Workers -> {"none", "new", "never", "queued", "acquiring", "thinking",
                               "releasing", "done"}]
        /\ cancelled' \in SUBSET Workers
    BY <1>1 DEF TypeOK
  <2> QED
    BY <1>4, <2>1, <2>2 DEF Conclude, tables, TypeOK
<1>6. IterationOk' /\ ActiveOk' /\ StatusOk'
  BY <1>2 DEF Conclude, tables, TypeOK, IterationOk, ActiveOk, StatusOk, Slotted
<1>7. NeverUnknown' /\ HandlesReturned' /\ ResultIsFinal'
  BY <1>2 DEF Conclude, tables, TypeOK, NeverUnknown, HandlesReturned, ResultIsFinal
<1> QED
  BY <1>3, <1>5, <1>6, <1>7

LEMMA ReleaseStep ==
  ASSUME CoordinatorInv, NEW w \in Workers, Release(w)
  PROVE  CoordinatorInv'
<1> USE DEF CoordinatorInv
<1> DEFINE s == IF w \in cancelled THEN "cancelled" ELSE status[w]
<1>1. pc[w] = "releasing" /\ Settle(w, s) /\ leased' = leased \ {w}
      /\ UNCHANGED <<cancelled, cut, cancels>>
  BY DEF Release, Clear
<1>2. s \in Final
  BY <1>1 DEF StatusOk, Final
<1> HIDE DEF s
<1> QED
  BY <1>1, <1>2, SettleStep DEF Slotted, TypeOK

\* stop() edits the tables of a worker that goes on (coordinator.py, stop).
LEMMA StopStep ==
  ASSUME CoordinatorInv, NEW w \in Workers, Stop(w)
  PROVE  CoordinatorInv'
<1> USE DEF CoordinatorInv
<1>1. pc' = pc /\ line' = line /\ free' = free /\ iteration' = iteration /\ cancelled' = cancelled
  BY DEF Stop
<1>2. LineOk' /\ IterationOk'
  BY <1>1 DEF LineOk, IterationOk
<1>3. SlotsConserved'
  BY <1>1 DEF SlotsConserved, Holding
<1>4. TypeOK'
  <2>1. status' \in [Workers -> {"pending", "running"} \cup Final]
    BY DEF Stop, TypeOK, Final
  <2>2. record' \in [Workers -> {"none", "own", "stand_in"}]
    BY DEF Stop, StandIn, TypeOK
  <2>3. pending' \in SUBSET Workers /\ stopped' \in SUBSET Workers
    BY DEF Stop, TypeOK
  <2> QED
    BY <2>1, <2>2, <2>3 DEF Stop, TypeOK
<1>5. ActiveOk' /\ StatusOk'
  BY DEF Stop, TypeOK, ActiveOk, StatusOk, Final
<1>6. NeverUnknown' /\ HandlesReturned' /\ ResultIsFinal'
  BY DEF Stop, StandIn, TypeOK, NeverUnknown, HandlesReturned, ResultIsFinal
<1> QED
  BY <1>2, <1>3, <1>4, <1>5, <1>6

LEMMA CancelStep ==
  ASSUME CoordinatorInv, NEW w \in Workers, CancelTask(w)
  PROVE  CoordinatorInv'
<1> USE DEF CoordinatorInv
<1>1. cancelled' = cancelled \cup {w} /\ cancels' \in 0 .. MaxCancels
  BY CoordinatorAssumption DEF CancelTask, TypeOK
<1>2. CASE CancelQueued(w)
  <2>1. pc[w] = "queued" /\ pc' = [pc EXCEPT ![w] = "done"]
    BY <1>2 DEF CancelQueued
  <2>2. pc'[w] = "done" /\ \A v \in Workers \ {w} : pc'[v] = pc[v]
    BY <2>1, PcSet
  <2>3. PICK i \in DOMAIN line : line[i] = w /\ line' = RemoveAt(line, i)
    BY <1>2 DEF CancelQueued
  <2>4. LineOk' /\ line' \in Seq(Workers)
    <3>1. /\ line' \in Seq(Workers) /\ Distinct(line')
          /\ Range(line') = Range(line) \ {w}
      BY <2>3, LineLeft DEF LineOk, TypeOK
    <3> QED
      BY <2>1, <3>1, LineWithout
  <2>5. SlotsConserved'
    BY <1>2, <2>1, SlotKeptBy DEF CancelQueued, Slotted
  <2>6. TypeOK'
    BY <1>1, <1>2, <2>1, <2>4 DEF CancelQueued, TypeOK, Final
  <2>7. IterationOk' /\ ActiveOk' /\ StatusOk'
    BY <1>1, <1>2, <2>1, <2>2 DEF CancelQueued, TypeOK, IterationOk, ActiveOk, StatusOk, Slotted
  <2>8. w \notin active /\ w \in Workers
    BY <2>1 DEF ActiveOk, Slotted
  <2>9. NeverUnknown'
    BY <1>2 DEF CancelQueued, TypeOK, NeverUnknown
  <2>10. HandlesReturned'
    BY <1>2, <2>1, <2>2 DEF CancelQueued, TypeOK, HandlesReturned
  <2>11. ResultIsFinal'
    <3> SUFFICES ASSUME NEW v \in spawned \ stopped, pc'[v] = "done"
                 PROVE  record'[v] = "own" /\ status'[v] \in Final /\ v \notin active
      BY <1>2 DEF CancelQueued, ResultIsFinal
    <3>1. CASE v = w
      BY <1>2, <2>8, <3>1 DEF CancelQueued, TypeOK, Final
    <3>2. CASE v # w
      BY <1>2, <2>2, <3>2 DEF CancelQueued, TypeOK, ResultIsFinal
    <3> QED
      BY <3>1, <3>2
  <2> QED
    BY <2>4, <2>5, <2>6, <2>7, <2>9, <2>10, <2>11
<1>3. CASE CancelAcquire(w)
  <2>1. w \notin leased \/ w \in cut
    BY <1>3 DEF CancelAcquire, HandlesReturned
  <2> QED
    BY <1>1, <1>3, <2>1, SettleStep DEF CancelAcquire, Slotted, Final
<1>4. CASE CancelThinking(w)
  <2>1. status[w] \in {"pending", "running"} \cup Final
    BY DEF TypeOK
  <2> QED
    BY <1>1, <1>4, <2>1, ConcludeStep DEF CancelThinking
<1>5. CASE CancelRelease(w)
  BY <1>1, <1>5, SettleStep DEF CancelRelease, Slotted, Final
<1>6. CASE CancelNew(w)
  <2>1. pc[w] = "new" /\ pc' = [pc EXCEPT ![w] = "never"]
    BY <1>6 DEF CancelNew
  <2>2. pc'[w] = "never" /\ \A v \in Workers \ {w} : pc'[v] = pc[v]
    BY <2>1, PcSet
  <2>3. LineOk' /\ SlotsConserved'
    BY <1>6, <2>1, LineSame, SlotKeptBy DEF CancelNew, Slotted
  <2>4. TypeOK'
    BY <1>1, <1>6, <2>1 DEF CancelNew, tables, TypeOK
  <2>5. IterationOk' /\ ActiveOk' /\ StatusOk'
    BY <1>1, <1>6, <2>1, <2>2 DEF CancelNew, tables, TypeOK, IterationOk, ActiveOk, StatusOk, Slotted
  <2>6. NeverUnknown' /\ HandlesReturned' /\ ResultIsFinal'
    BY <1>6, <2>1, <2>2 DEF CancelNew, tables, TypeOK, NeverUnknown, HandlesReturned, ResultIsFinal
  <2> QED
    BY <2>3, <2>4, <2>5, <2>6
<1> QED
  BY <1>2, <1>3, <1>4, <1>5, <1>6 DEF CancelTask

LEMMA CoordinatorStep ==
  ASSUME CoordinatorInv, [Next]_vars
  PROVE  CoordinatorInv'
<1> USE DEF CoordinatorInv
<1>1. CASE UNCHANGED vars
  BY <1>1 DEF vars, tables, TypeOK, SlotsConserved, Holding, LineOk, IterationOk, ActiveOk, StatusOk,
              NeverUnknown, HandlesReturned, ResultIsFinal
<1>2. ASSUME NEW w \in Workers, AcquireFails(w)
      PROVE  CoordinatorInv'
  <2>1. pc[w] = "acquiring" /\ UNCHANGED <<leased, cancelled, cut, cancels>>
    BY <1>2 DEF AcquireFails
  <2>2. PICK s \in {"failed", "timeout"} : Settle(w, s)
    BY <1>2 DEF AcquireFails
  <2>3. w \in leased => w \in cut
    BY <2>1 DEF HandlesReturned
  <2> QED
    BY <2>1, <2>2, <2>3, SettleStep DEF Slotted, Final, TypeOK
<1>3. ASSUME NEW w \in Workers, Think(w)
      PROVE  CoordinatorInv'
  <2>1. pc[w] = "thinking" /\ UNCHANGED <<iteration, cancelled, cancels>>
    BY <1>3 DEF Think
  <2>2. PICK s \in {"completed", "failed", "timeout"} : Conclude(w, s)
    BY <1>3 DEF Think
  <2> QED
    BY <2>1, <2>2, ConcludeStep DEF Final, TypeOK
<1>4. ASSUME NEW w \in Workers, UseTools(w)
      PROVE  CoordinatorInv'
  <2>1. pc[w] = "thinking" /\ iteration' = [iteration EXCEPT ![w] = @ + 1]
        /\ UNCHANGED <<cancelled, cancels>>
    BY <1>4 DEF UseTools
  <2>2. CASE Conclude(w, "failed")
    BY <2>1, <2>2, ConcludeStep DEF Final, TypeOK
  <2>3. CASE /\ ~ LastIteration(w)
             /\ UNCHANGED <<pc, spawned, line, free, status, tables, leased, stopped, cut>>
    <3>1. iteration[w] + 1 < MaxIterations /\ iteration[w] \in Nat
      BY <2>3, CoordinatorAssumption DEF LastIteration, TypeOK
    <3>2. TypeOK' /\ IterationOk'
      BY <2>1, <2>3, <3>1, CoordinatorAssumption DEF TypeOK, tables, IterationOk
    <3>3. SlotsConserved' /\ LineOk' /\ ActiveOk' /\ StatusOk'
      BY <2>1, <2>3 DEF SlotsConserved, Holding, LineOk, ActiveOk, StatusOk, tables
    <3>4. NeverUnknown' /\ HandlesReturned' /\ ResultIsFinal'
      BY <2>1, <2>3 DEF NeverUnknown, HandlesReturned, ResultIsFinal, tables
    <3> QED
      BY <3>2, <3>3, <3>4
  <2> QED
    BY <1>4, <2>2, <2>3 DEF UseTools
<1> QED
  BY <1>1, <1>2, <1>3, <1>4, SpawnStep, EnqueueStep, StartStep, AcquiredStep, ReleaseStep, StopStep, CancelStep
     DEF Next, TaskStep

-----------------------------------------------------------------------------
(***************************************************************************)
(* Theorems.                                                               *)
(***************************************************************************)

\* The slots, the line, the tables and the results, at every point of every
\* worker.
THEOREM CoordinatorInductive == Spec => []CoordinatorInv
BY CoordinatorInit, CoordinatorStep, PTL DEF Spec

\* Type correctness: in particular no iteration beyond max_iterations and no
\* slot beyond max_concurrent.
THEOREM CoordinatorTyped == Spec => []TypeOK
<1>1. CoordinatorInv => TypeOK
  BY DEF CoordinatorInv
<1> QED
  BY <1>1, CoordinatorInductive, PTL

\* However workers fail, are stopped or cancelled, queued or at work, every slot
\* is either free or held by a worker that will give it back (coordinator.py,
\* _schedule).
THEOREM SlotsAlwaysConserved == Spec => []SlotsConserved
<1>1. CoordinatorInv => SlotsConserved
  BY DEF CoordinatorInv
<1> QED
  BY <1>1, CoordinatorInductive, PTL

\* A spawned worker is in one of the tables get_subagent_results looks at, at
\* every point of its life (spawn_subagent.py).
THEOREM SpawnedIsKnown == Spec => []NeverUnknown
<1>1. CoordinatorInv => NeverUnknown
  BY DEF CoordinatorInv
<1> QED
  BY <1>1, CoordinatorInductive, PTL

\* Only a release that is cut short leaves a handle behind (coordinator.py,
\* _run_worker).
THEOREM HandlesAlwaysReturned == Spec => []HandlesReturned
<1>1. CoordinatorInv => HandlesReturned
  BY DEF CoordinatorInv
<1> QED
  BY <1>1, CoordinatorInductive, PTL

\* A worker that is done, and that nobody stopped, left a final result of its
\* own, cancelled at whatever point after its task's first step (coordinator.py,
\* _schedule).
THEOREM ResultsAreFinal == Spec => []ResultIsFinal
<1>1. CoordinatorInv => ResultIsFinal
  BY DEF CoordinatorInv
<1> QED
  BY <1>1, CoordinatorInductive, PTL
=============================================================================
