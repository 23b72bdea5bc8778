-------------------------- MODULE SandboxLeaseProof --------------------------
(***************************************************************************)
(* What a run may rely on of its sandbox, and what it leaves behind, for   *)
(* any number of runs, bash calls, cancels, daemon errors and crashes.     *)
(***************************************************************************)
EXTENDS SandboxLease, TLAPS

\* The types that do not depend on how containers are numbered.
Sorts ==
  /\ {made, late, cancels, faults} \subseteq Nat
  /\ pc \in {"idle", "working", "looking", "creating", "executing",
            "releasing", "stopping"}
  /\ stopping => container # 0

Flags == {stopping, halfMade, acquired, cut, killed} \subseteq BOOLEAN

Acquiring == pc \in {"looking", "creating"}

\* The handle of a run: what its resources name is what the context names, and
\* nothing before a sandbox was acquired.
HandleOk ==
  /\ pc # "idle" => IF acquired THEN lease # 0 /\ context = lease
                                ELSE lease = 0 /\ context = 0
  /\ pc \in {"executing", "releasing", "stopping"} => acquired
  /\ Acquiring => ~ acquired

\* The container of the thread, as long as no acquire or release was cut short:
\* there is none without a lease, and with a lease it is the leased one, which
\* lives until the run has it stopped.
ContainerOk ==
  ~ cut =>
    /\ late = 0
    /\ pc = "idle" \/ ~ acquired => container = 0
    /\ pc # "idle" /\ acquired =>
         /\ container \in {0, lease}
         /\ killed \/ pc = "stopping" \/ (container = lease /\ ~ stopping)

\* A container that was never started is not the leased one.
HalfOk == halfMade => cut /\ container \notin {0, lease}

\* Bash calls up to the c-th of run r: each creates one container at most.
Calls(r, c) == IF r = 0 THEN 0 ELSE (r - 1) * MaxCalls + c

BudgetOk ==
  /\ runs \in 0 .. MaxRuns /\ calls \in 0 .. MaxCalls
  /\ pc # "idle" \/ calls # 0 => runs # 0
  /\ {container, context, lease} \subseteq 0 .. made
  /\ made + late <= Calls(runs, calls)
  /\ Acquiring => made + late + 1 <= Calls(runs, calls)

\* The inductive invariant.
LeaseInv ==
  Sorts /\ Flags /\ HandleFresh /\ HandleOk /\ ContainerOk /\ HalfOk /\ BudgetOk

-----------------------------------------------------------------------------
(***************************************************************************)
(* Containers are numbered within Ids: the calls that may create one are   *)
(* bounded.                                                                *)
(***************************************************************************)

LEMMA CallsBounded ==
  ASSUME NEW r \in 0 .. MaxRuns, NEW c \in 0 .. MaxCalls
  PROVE  Calls(r, c) \in Nat /\ Calls(r, c) <= MaxRuns * MaxCalls
<1>1. MaxRuns \in Nat /\ MaxCalls \in Nat /\ r \in Nat /\ c \in Nat
  BY LeaseAssumption
<1>2. CASE r = 0
  BY <1>1, <1>2 DEF Calls
<1>3. CASE r # 0
  <2>1. (r - 1) * MaxCalls \in Nat /\ (r - 1) * MaxCalls + MaxCalls = r * MaxCalls
    BY <1>1, <1>3
  <2>2. r * MaxCalls <= MaxRuns * MaxCalls
    BY <1>1
  <2>3. Calls(r, c) = (r - 1) * MaxCalls + c
    BY <1>3 DEF Calls
  <2> QED
    BY <1>1, <2>1, <2>2, <2>3
<1> QED
  BY <1>2, <1>3

\* A new run takes no calls back, and a call is one more.
LEMMA CallsGrow ==
  ASSUME NEW r \in 0 .. MaxRuns, NEW c \in 0 .. MaxCalls
  PROVE  /\ Calls(r + 1, 0) \in Nat /\ Calls(r + 1, 0) >= Calls(r, c)
         /\ r # 0 => Calls(r, c + 1) = Calls(r, c) + 1
<1>1. MaxCalls \in Nat /\ r \in Nat /\ c \in Nat
  BY LeaseAssumption
<1>2. Calls(r + 1, 0) = r * MaxCalls
  BY <1>1 DEF Calls
<1>3. CASE r = 0
  BY <1>1, <1>2, <1>3 DEF Calls
<1>4. CASE r # 0
  <2>1. (r - 1) * MaxCalls \in Nat /\ (r - 1) * MaxCalls + MaxCalls = r * MaxCalls
    BY <1>1, <1>4
  <2> QED
    BY <1>1, <1>2, <1>4, <2>1 DEF Calls
<1> QED
  BY <1>3, <1>4

\* What is numbered within the calls made is within Ids.
LEMMA WithinIds ==
  ASSUME NEW r \in 0 .. MaxRuns, NEW c \in 0 .. MaxCalls, NEW m \in Nat, m <= Calls(r, c)
  PROVE  0 .. m \subseteq {0} \cup Ids
<1>1. Calls(r, c) \in Nat /\ Calls(r, c) <= MaxRuns * MaxCalls
  BY CallsBounded
<1>2. MaxRuns * MaxCalls \in Nat /\ MaxCancels \in Nat /\ MaxFaults \in Nat
  BY LeaseAssumption
<1>3. m <= MaxRuns * MaxCalls + MaxCancels + MaxFaults
  BY <1>1, <1>2
<1> QED
  BY <1>2, <1>3 DEF Ids

-----------------------------------------------------------------------------
(***************************************************************************)
(* The steps.                                                              *)
(***************************************************************************)

LEMMA LeaseInit == Init => LeaseInv
<1> SUFFICES ASSUME Init PROVE LeaseInv
  OBVIOUS
<1>1. Calls(0, 0) = 0 /\ MaxRuns \in Nat /\ MaxCalls \in Nat
  BY LeaseAssumption DEF Calls
<1>2. Sorts /\ HandleFresh
  BY DEF Init, Sorts, HandleFresh
<1>3. Flags
  BY DEF Init, Flags
<1>4. HandleOk /\ ContainerOk /\ HalfOk
  BY DEF Init, HandleOk, ContainerOk, HalfOk, Acquiring
<1>5. BudgetOk
  BY <1>1 DEF Init, BudgetOk, Acquiring
<1> QED
  BY <1>2, <1>3, <1>4, <1>5 DEF LeaseInv

\* The numbering follows from the calls made.
LEMMA LeaseTypes == LeaseInv => TypeOK
<1> SUFFICES ASSUME LeaseInv PROVE TypeOK
  OBVIOUS
<1>1. /\ made \in Nat /\ late \in Nat /\ runs \in 0 .. MaxRuns /\ calls \in 0 .. MaxCalls
      /\ made + late <= Calls(runs, calls)
  BY DEF LeaseInv, Sorts, BudgetOk
<1>2. Calls(runs, calls) \in Nat /\ made <= Calls(runs, calls)
  BY <1>1, CallsBounded
<1>3. 0 .. made \subseteq {0} \cup Ids
  BY <1>1, <1>2, WithinIds
<1>4. {container, made, context, lease} \subseteq {0} \cup Ids
  BY <1>1, <1>3 DEF LeaseInv, BudgetOk
<1>5. runs \in Nat /\ calls \in Nat
  BY <1>1
<1> QED
  BY <1>4, <1>5 DEF LeaseInv, Sorts, Flags, TypeOK

LEMMA LeaseStep == LeaseInv /\ [Next]_vars => LeaseInv'
<1> SUFFICES ASSUME LeaseInv, [Next]_vars PROVE LeaseInv'
  OBVIOUS
<1> USE LeaseAssumption DEF LeaseInv, box, daemon, locals, bounds
<1>1. /\ Calls(runs, calls) \in Nat
      /\ Calls(runs + 1, 0) >= Calls(runs, calls) /\ Calls(runs + 1, 0) \in Nat
      /\ runs # 0 => Calls(runs, calls + 1) = Calls(runs, calls) + 1
  BY CallsBounded, CallsGrow DEF BudgetOk
<1>2. CASE DaemonStops
  <2>1. Flags'
    BY <1>2 DEF DaemonStops, Gone, Flags
  <2>2. Sorts' /\ HandleFresh'
    BY <1>2 DEF DaemonStops, Gone, Sorts, HandleFresh, HandleOk
  <2>3. HandleOk'
    BY <1>2 DEF DaemonStops, Gone, Sorts, HandleFresh, HandleOk, Acquiring, BudgetOk
  <2>4. ContainerOk'
    BY <1>2 DEF DaemonStops, Gone, Sorts, HandleFresh, HandleOk, ContainerOk, BudgetOk, Acquiring
  <2>5. BudgetOk'
    BY <1>1, <1>2 DEF DaemonStops, Gone, Sorts, HandleFresh, HandleOk, BudgetOk, Acquiring
  <2>6. HalfOk'
    BY <1>2 DEF DaemonStops, Gone, HalfOk
  <2> QED
    BY <2>1, <2>2, <2>3, <2>4, <2>5, <2>6
<1>3. CASE ContainerDies
  <2>1. Flags'
    BY <1>3 DEF ContainerDies, Gone, Flags
  <2>2. Sorts' /\ HandleFresh'
    BY <1>3 DEF ContainerDies, Gone, Sorts, HandleFresh, HandleOk
  <2>3. HandleOk'
    BY <1>3 DEF ContainerDies, Gone, Sorts, HandleFresh, HandleOk, Acquiring, BudgetOk
  <2>4. ContainerOk'
    BY <1>3 DEF ContainerDies, Gone, Sorts, HandleFresh, HandleOk, ContainerOk, BudgetOk, Acquiring
  <2>5. BudgetOk'
    BY <1>1, <1>3 DEF ContainerDies, Gone, Sorts, HandleFresh, HandleOk, BudgetOk, Acquiring
  <2>6. HalfOk'
    BY <1>3 DEF ContainerDies, Gone, Sorts, HandleFresh, HandleOk, BudgetOk, HalfOk
  <2> QED
    BY <2>1, <2>2, <2>3, <2>4, <2>5, <2>6
<1>4. CASE LateCreate
  <2>1. Flags'
    BY <1>4 DEF LateCreate, Created, NeverStarted, Made, Flags
  <2>2. Sorts' /\ HandleFresh'
    BY <1>4 DEF LateCreate, Created, NeverStarted, Made, Sorts, HandleFresh, HandleOk
  <2>3. HandleOk'
    BY <1>4 DEF LateCreate, Created, NeverStarted, Made, Sorts, HandleFresh, HandleOk, Acquiring, BudgetOk
  <2>4. ContainerOk'
    BY <1>4 DEF LateCreate, Created, NeverStarted, Made, Sorts, HandleFresh, HandleOk, ContainerOk, BudgetOk, Acquiring
  <2>5. BudgetOk'
    BY <1>1, <1>4 DEF LateCreate, Created, NeverStarted, Made, Sorts, HandleFresh, HandleOk, BudgetOk, Acquiring
  <2>6. HalfOk'
    <3>1. cut /\ lease \in 0 .. made /\ made \in Nat
      BY <1>4 DEF LateCreate, Sorts, ContainerOk, BudgetOk
    <3>2. UNCHANGED <<cut, lease>>
      BY <1>4 DEF LateCreate
    <3>3. CASE Created
      BY <3>3 DEF Created, Made, HalfOk
    <3>4. CASE NeverStarted
      BY <3>1, <3>2, <3>4 DEF NeverStarted, Made, HalfOk
    <3>5. CASE UNCHANGED box
      BY <3>2, <3>5 DEF HalfOk
    <3> QED
      BY <1>4, <3>3, <3>4, <3>5 DEF LateCreate
  <2> QED
    BY <2>1, <2>2, <2>3, <2>4, <2>5, <2>6
<1>5. CASE StartRun
  <2>1. Flags'
    BY <1>5 DEF StartRun, Flags
  <2>2. Sorts' /\ HandleFresh'
    BY <1>5 DEF StartRun, Sorts, HandleFresh, HandleOk
  <2>3. HandleOk'
    BY <1>5 DEF StartRun, Sorts, HandleFresh, HandleOk, Acquiring, BudgetOk
  <2>4. ContainerOk'
    BY <1>5 DEF StartRun, Sorts, HandleFresh, HandleOk, ContainerOk, BudgetOk, Acquiring
  <2>5. BudgetOk'
    BY <1>1, <1>5 DEF StartRun, Sorts, HandleFresh, HandleOk, BudgetOk, Acquiring
  <2>6. HalfOk'
    BY <1>5 DEF StartRun, Sorts, HandleFresh, HandleOk, BudgetOk, HalfOk
  <2> QED
    BY <2>1, <2>2, <2>3, <2>4, <2>5, <2>6
<1>6. CASE Bash
  <2>1. Flags'
    BY <1>6 DEF Bash, Lease, Flags
  <2>2. Sorts' /\ HandleFresh'
    BY <1>6 DEF Bash, Lease, Sorts, HandleFresh, HandleOk
  <2>3. HandleOk'
    BY <1>6 DEF Bash, Lease, Sorts, HandleFresh, HandleOk, Acquiring, BudgetOk
  <2>4. ContainerOk'
    BY <1>6 DEF Bash, Lease, Sorts, HandleFresh, HandleOk, ContainerOk, BudgetOk, Acquiring
  <2>5. BudgetOk'
    BY <1>1, <1>6 DEF Bash, Lease, Sorts, HandleFresh, HandleOk, BudgetOk, Acquiring
  <2>6. HalfOk'
    <3>1. lease' \in {lease, context} /\ (lease' # lease => lease = 0 /\ context # 0)
      BY <1>6 DEF Bash, Lease, HandleOk
    <3>2. lease' = lease
      BY <1>6, <3>1 DEF Bash, HandleOk
    <3> QED
      BY <1>6, <3>2 DEF Bash, HalfOk
  <2> QED
    BY <2>1, <2>2, <2>3, <2>4, <2>5, <2>6
<1>7. CASE Look
  <2>1. Flags'
    BY <1>7 DEF Look, Running, Gone, Lease, Flags
  <2>2. Sorts' /\ HandleFresh'
    BY <1>7 DEF Look, Running, Gone, Lease, Sorts, HandleFresh, HandleOk
  <2>3. HandleOk'
    BY <1>7 DEF Look, Running, Gone, Lease, Sorts, HandleFresh, HandleOk, Acquiring, BudgetOk
  <2>4. ContainerOk'
    <3>1. CASE UNCHANGED cut
      BY <1>7, <3>1 DEF Look, Running, Gone, Lease, HandleOk, ContainerOk, Acquiring
    <3>2. CASE Gone /\ pc' = "creating" /\ cut' = (cut /\ late > 0) /\ UNCHANGED <<context, locals>>
      <4>1. ~ cut' => ~ cut \/ ~ (late > 0)
        BY ONLY <3>2, Zenon
      <4>2. late = 0 \/ late > 0
        BY DEF Sorts
      <4>3. ~ cut' => late' = 0
        BY <1>7, <4>1, <4>2 DEF Look, ContainerOk
      <4> QED
        BY <1>7, <3>2, <4>3 DEF Look, Gone, HandleOk, ContainerOk, Acquiring
    <3> QED
      BY <1>7, <3>1, <3>2 DEF Look
  <2>5. BudgetOk'
    BY <1>1, <1>7 DEF Look, Running, Gone, Lease, Sorts, HandleFresh, HandleOk, BudgetOk, Acquiring
  <2>6. HalfOk'
    BY <1>7 DEF Look, Running, Gone, Lease, Sorts, HandleFresh, HandleOk, BudgetOk, HalfOk
  <2> QED
    BY <2>1, <2>2, <2>3, <2>4, <2>5, <2>6
<1>8. CASE Create
  <2>1. Flags'
    BY <1>8 DEF Create, Created, Made, Lease, Flags
  <2>2. Sorts' /\ HandleFresh'
    BY <1>8 DEF Create, Created, Made, Lease, Sorts, HandleFresh, HandleOk
  <2>3. HandleOk'
    BY <1>8 DEF Create, Created, Made, Lease, Sorts, HandleFresh, HandleOk, Acquiring, BudgetOk
  <2>4. ContainerOk'
    BY <1>8 DEF Create, Created, Made, Lease, Sorts, HandleFresh, HandleOk, ContainerOk, BudgetOk, Acquiring
  <2>5. BudgetOk'
    BY <1>1, <1>8 DEF Create, Created, Made, Lease, Sorts, HandleFresh, HandleOk, BudgetOk, Acquiring
  <2>6. HalfOk'
    BY <1>8 DEF Create, Created, Made, Lease, Sorts, HandleFresh, HandleOk, BudgetOk, HalfOk
  <2> QED
    BY <2>1, <2>2, <2>3, <2>4, <2>5, <2>6
<1>9. CASE AcquireFails
  <2>1. Flags'
    BY <1>9 DEF AcquireFails, Abandon, Flags
  <2>2. Sorts' /\ HandleFresh'
    BY <1>9 DEF AcquireFails, Abandon, Sorts, HandleFresh, HandleOk
  <2>3. HandleOk'
    BY <1>9 DEF AcquireFails, Abandon, Sorts, HandleFresh, HandleOk, Acquiring, BudgetOk
  <2>4. ContainerOk'
    BY <1>9 DEF AcquireFails, Abandon, Sorts, HandleFresh, HandleOk, ContainerOk, BudgetOk, Acquiring
  <2>5. BudgetOk'
    BY <1>1, <1>9 DEF AcquireFails, Abandon, Sorts, HandleFresh, HandleOk, BudgetOk, Acquiring
  <2>6. HalfOk'
    <3>1. UNCHANGED <<halfMade, container, lease>>
      BY <1>9 DEF AcquireFails
    <3>2. cut => cut'
      <4>1. CASE UNCHANGED <<late, cut>>
        BY <4>1
      <4>2. CASE Abandon
        BY <4>2 DEF Abandon
      <4> QED
        BY <1>9, <4>1, <4>2 DEF AcquireFails
    <3> QED
      BY <3>1, <3>2 DEF HalfOk
  <2> QED
    BY <2>1, <2>2, <2>3, <2>4, <2>5, <2>6
<1>10. CASE Return
  <2>1. Flags'
    BY <1>10 DEF Return, Flags
  <2>2. Sorts' /\ HandleFresh'
    BY <1>10 DEF Return, Sorts, HandleFresh, HandleOk
  <2>3. HandleOk'
    BY <1>10 DEF Return, Sorts, HandleFresh, HandleOk, Acquiring, BudgetOk
  <2>4. ContainerOk'
    BY <1>10 DEF Return, Sorts, HandleFresh, HandleOk, ContainerOk, BudgetOk, Acquiring
  <2>5. BudgetOk'
    BY <1>1, <1>10 DEF Return, Sorts, HandleFresh, HandleOk, BudgetOk, Acquiring
  <2>6. HalfOk'
    BY <1>10 DEF Return, Sorts, HandleFresh, HandleOk, BudgetOk, HalfOk
  <2> QED
    BY <2>1, <2>2, <2>3, <2>4, <2>5, <2>6
<1>11. CASE End
  <2>1. Flags'
    BY <1>11 DEF End, Flags
  <2>2. Sorts' /\ HandleFresh'
    BY <1>11 DEF End, Leaving, Sorts, HandleFresh, HandleOk
  <2>3. HandleOk'
    BY <1>11 DEF End, Leaving, Sorts, HandleFresh, HandleOk, Acquiring, BudgetOk
  <2>4. ContainerOk'
    BY <1>11 DEF End, Leaving, Sorts, HandleFresh, HandleOk, ContainerOk, BudgetOk, Acquiring
  <2>5. BudgetOk'
    BY <1>1, <1>11 DEF End, Leaving, Sorts, HandleFresh, HandleOk, BudgetOk, Acquiring
  <2>6. HalfOk'
    BY <1>11 DEF End, Sorts, HandleFresh, HandleOk, BudgetOk, HalfOk
  <2> QED
    BY <2>1, <2>2, <2>3, <2>4, <2>5, <2>6
<1>12. CASE Stop
  <2>1. Flags'
    BY <1>12 DEF Stop, Told, Flags
  <2>2. Sorts' /\ HandleFresh'
    BY <1>12 DEF Stop, Told, Sorts, HandleFresh, HandleOk
  <2>3. HandleOk'
    BY <1>12 DEF Stop, Told, Sorts, HandleFresh, HandleOk, Acquiring, BudgetOk
  <2>4. ContainerOk'
    BY <1>12 DEF Stop, Told, Sorts, HandleFresh, HandleOk, ContainerOk, BudgetOk, Acquiring
  <2>5. BudgetOk'
    BY <1>1, <1>12 DEF Stop, Told, Sorts, HandleFresh, HandleOk, BudgetOk, Acquiring
  <2>6. HalfOk'
    BY <1>12 DEF Stop, Sorts, HandleFresh, HandleOk, BudgetOk, HalfOk
  <2> QED
    BY <2>1, <2>2, <2>3, <2>4, <2>5, <2>6
<1>13. CASE Released
  <2>1. Flags'
    BY <1>13 DEF Released, Forget, Flags
  <2>2. Sorts' /\ HandleFresh'
    BY <1>13 DEF Released, Forget, Stopped, Sorts, HandleFresh, HandleOk
  <2>3. HandleOk'
    BY <1>13 DEF Released, Forget, Stopped, Sorts, HandleFresh, HandleOk, Acquiring, BudgetOk
  <2>4. ContainerOk'
    <3>1. ~ cut => late = 0 /\ container = 0
      BY <1>13 DEF Released, Stopped, HandleOk, ContainerOk
    <3>2. pc' = "idle" /\ UNCHANGED <<late, container>>
      BY <1>13 DEF Released
    <3>3. cut' = (cut /\ (late > 0 \/ container # 0))
      BY <1>13 DEF Released
    <3>4. ~ cut' => ~ cut \/ ~ (late > 0 \/ container # 0)
      BY ONLY <3>3, Zenon
    <3>5. late > 0 \/ late = 0
      BY DEF Sorts
    <3> QED
      BY <3>1, <3>2, <3>4, <3>5 DEF ContainerOk
  <2>5. BudgetOk'
    BY <1>1, <1>13 DEF Released, Forget, Stopped, Sorts, HandleFresh, HandleOk, BudgetOk, Acquiring
  <2>6. HalfOk'
    BY <1>13 DEF Released, Forget, Sorts, HandleFresh, HandleOk, BudgetOk, HalfOk
  <2> QED
    BY <2>1, <2>2, <2>3, <2>4, <2>5, <2>6
<1>14. CASE ReleaseFails
  <2>1. Flags'
    BY <1>14 DEF ReleaseFails, Forget, Flags
  <2>2. Sorts' /\ HandleFresh'
    BY <1>14 DEF ReleaseFails, Forget, Sorts, HandleFresh, HandleOk
  <2>3. HandleOk'
    BY <1>14 DEF ReleaseFails, Forget, Sorts, HandleFresh, HandleOk, Acquiring, BudgetOk
  <2>4. ContainerOk'
    BY <1>14 DEF ReleaseFails, Forget, Sorts, HandleFresh, HandleOk, ContainerOk, BudgetOk, Acquiring
  <2>5. BudgetOk'
    BY <1>1, <1>14 DEF ReleaseFails, Forget, Sorts, HandleFresh, HandleOk, BudgetOk, Acquiring
  <2>6. HalfOk'
    BY <1>14 DEF ReleaseFails, Forget, Sorts, HandleFresh, HandleOk, BudgetOk, HalfOk
  <2> QED
    BY <2>1, <2>2, <2>3, <2>4, <2>5, <2>6
<1>15. CASE CancelWork
  <2>1. Flags'
    BY <1>15 DEF CancelWork, Flags
  <2>2. Sorts' /\ HandleFresh'
    BY <1>15 DEF CancelWork, Leaving, Sorts, HandleFresh, HandleOk
  <2>3. HandleOk'
    BY <1>15 DEF CancelWork, Leaving, Sorts, HandleFresh, HandleOk, Acquiring, BudgetOk
  <2>4. ContainerOk'
    BY <1>15 DEF CancelWork, Leaving, Sorts, HandleFresh, HandleOk, ContainerOk, BudgetOk, Acquiring
  <2>5. BudgetOk'
    BY <1>1, <1>15 DEF CancelWork, Leaving, Sorts, HandleFresh, HandleOk, BudgetOk, Acquiring
  <2>6. HalfOk'
    BY <1>15 DEF CancelWork, Sorts, HandleFresh, HandleOk, BudgetOk, HalfOk
  <2> QED
    BY <2>1, <2>2, <2>3, <2>4, <2>5, <2>6
<1>16. CASE CancelAcquire
  <2>1. Flags'
    BY <1>16 DEF CancelAcquire, Abandon, Flags
  <2>2. Sorts' /\ HandleFresh'
    BY <1>16 DEF CancelAcquire, Abandon, Sorts, HandleFresh, HandleOk, Acquiring
  <2>3. HandleOk'
    BY <1>16 DEF CancelAcquire, Abandon, Sorts, HandleFresh, HandleOk, Acquiring, BudgetOk
  <2>4. ContainerOk'
    BY <1>16 DEF CancelAcquire, Abandon, Sorts, HandleFresh, HandleOk, ContainerOk, BudgetOk, Acquiring
  <2>5. BudgetOk'
    BY <1>1, <1>16 DEF CancelAcquire, Abandon, Sorts, HandleFresh, HandleOk, BudgetOk, Acquiring
  <2>6. HalfOk'
    <3>1. UNCHANGED <<halfMade, container, lease>>
      BY <1>16 DEF CancelAcquire
    <3>2. cut => cut'
      <4>1. CASE UNCHANGED <<late, cut>>
        BY <4>1
      <4>2. CASE Abandon
        BY <4>2 DEF Abandon
      <4> QED
        BY <1>16, <4>1, <4>2 DEF CancelAcquire
    <3> QED
      BY <3>1, <3>2 DEF HalfOk
  <2> QED
    BY <2>1, <2>2, <2>3, <2>4, <2>5, <2>6
<1>17. CASE CancelRelease
  <2>1. Flags'
    BY <1>17 DEF CancelRelease, Forget, Flags
  <2>2. Sorts' /\ HandleFresh'
    BY <1>17 DEF CancelRelease, Forget, Sorts, HandleFresh, HandleOk
  <2>3. HandleOk'
    BY <1>17 DEF CancelRelease, Forget, Sorts, HandleFresh, HandleOk, Acquiring, BudgetOk
  <2>4. ContainerOk'
    BY <1>17 DEF CancelRelease, Forget, Sorts, HandleFresh, HandleOk, ContainerOk, BudgetOk, Acquiring
  <2>5. BudgetOk'
    BY <1>1, <1>17 DEF CancelRelease, Forget, Sorts, HandleFresh, HandleOk, BudgetOk, Acquiring
  <2>6. HalfOk'
    BY <1>17 DEF CancelRelease, Forget, Sorts, HandleFresh, HandleOk, BudgetOk, HalfOk
  <2> QED
    BY <2>1, <2>2, <2>3, <2>4, <2>5, <2>6
<1>18. CASE Crash
  <2>1. Flags'
    BY <1>18 DEF Crash, Flags
  <2>2. Sorts' /\ HandleFresh'
    BY <1>18 DEF Crash, Sorts, HandleFresh, HandleOk
  <2>3. HandleOk'
    BY <1>18 DEF Crash, Sorts, HandleFresh, HandleOk, Acquiring, BudgetOk
  <2>4. ContainerOk'
    BY <1>18 DEF Crash, Sorts, HandleFresh, HandleOk, ContainerOk, BudgetOk, Acquiring
  <2>5. BudgetOk'
    BY <1>1, <1>18 DEF Crash, Sorts, HandleFresh, HandleOk, BudgetOk, Acquiring
  <2>6. HalfOk'
    BY <1>18 DEF Crash, Sorts, HandleFresh, HandleOk, BudgetOk, HalfOk
  <2> QED
    BY <2>1, <2>2, <2>3, <2>4, <2>5, <2>6
<1>19. CASE StartFails
  <2>1. Flags'
    BY <1>19 DEF StartFails, NeverStarted, Made, Flags
  <2>2. Sorts' /\ HandleFresh'
    BY <1>19 DEF StartFails, NeverStarted, Made, Sorts, HandleFresh, HandleOk
  <2>3. HandleOk'
    BY <1>19 DEF StartFails, NeverStarted, Made, Sorts, HandleFresh, HandleOk, Acquiring, BudgetOk
  <2>4. ContainerOk'
    BY <1>19 DEF StartFails, NeverStarted, Made, ContainerOk
  <2>5. BudgetOk'
    BY <1>1, <1>19 DEF StartFails, NeverStarted, Made, Sorts, HandleFresh, HandleOk, BudgetOk, Acquiring
  <2>6. HalfOk'
    BY <1>19 DEF StartFails, NeverStarted, Made, Sorts, HandleFresh, HandleOk, BudgetOk, HalfOk
  <2> QED
    BY <2>1, <2>2, <2>3, <2>4, <2>5, <2>6
<1>20. CASE UNCHANGED vars
  BY <1>20 DEF vars, Sorts, Flags, HandleFresh, HandleOk, ContainerOk, HalfOk, BudgetOk, Acquiring
<1> QED
  BY <1>2, <1>3, <1>4, <1>5, <1>6, <1>7, <1>8, <1>9, <1>10, <1>11, <1>12, <1>13, <1>14, <1>15, <1>16, <1>17, <1>18, <1>19, <1>20 DEF Next, RunStep

-----------------------------------------------------------------------------
(***************************************************************************)
(* The theorems.                                                           *)
(***************************************************************************)

\* The invariant holds always.
THEOREM LeaseInductive == Spec => []LeaseInv
BY LeaseInit, LeaseStep, PTL DEF Spec

\* Type correctness; the containers of the thread never run out of ids, because
\* every bash call makes one at most, a create that nobody waits for included.
THEOREM LeaseTyped == Spec => []TypeOK
BY LeaseInductive, LeaseTypes, PTL

\* The next run never finds the handle of the one before, whatever was cut short,
\* failed or crashed, and after WAIT (the finally of SandboxManager.release).
THEOREM HandlesForgotten == Spec => []HandleFresh
<1>1. LeaseInv => HandleFresh
  BY DEF LeaseInv
<1> QED
  BY <1>1, LeaseInductive, PTL

\* A bash call runs in the container its run will release, alive and not being
\* stopped, unless that one was killed or an acquire or release was cut short; it
\* never runs in a container whose start failed.
THEOREM BashOnLive == Spec => []ExecOnLive
<1>1. LeaseInv => ExecOnLive
  BY DEF LeaseInv, HandleOk, ContainerOk, HalfOk, ExecOnLive
<1> QED
  BY <1>1, LeaseInductive, PTL

\* A run whose acquire and release were not cut short leaves no container.
THEOREM NothingLeftBehind == Spec => []NoStray
<1>1. LeaseInv => NoStray
  BY DEF LeaseInv, ContainerOk, NoStray
<1> QED
  BY <1>1, LeaseInductive, PTL
=============================================================================
