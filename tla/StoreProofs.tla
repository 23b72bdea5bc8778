----------------------------- MODULE StoreProofs -----------------------------
(***************************************************************************)
(* The stores that tools share, for any number of actors, calls, faults    *)
(* and crashes.  A call of one store is nobody else's business, so the     *)
(* invariant of each store speaks of the calls to it, and every lemma says *)
(* of a step what it does to one actor's call.                             *)
(***************************************************************************)
EXTENDS TaskStore, PlanStore, MemoryStore, WorkspaceFiles, TLAPS

Ops == TaskOps \cup PlanOps \cup MemoryOps \cup FileOps

Proper(j) ==
  /\ j = [op |-> j.op, at |-> j.at, got |-> j.got, reply |-> j.reply]
  /\ j.op \in Ops \cup {None}

Jobs ==
  /\ job = [a \in Actors |-> job[a]]
  /\ \A a \in Actors : Proper(job[a])

\* The calls of the other actors stay as they are.
OnlyJob(a) == \A b \in Actors \ {a} : job'[b] = job[b]

-----------------------------------------------------------------------------
(***************************************************************************)
(* What a step does to a call.                                             *)
(***************************************************************************)

LEMMA JobSet ==
  ASSUME Jobs, NEW a \in Actors, NEW j, Proper(j), job' = [job EXCEPT ![a] = j]
  PROVE  Jobs' /\ job'[a] = j /\ OnlyJob(a)
<1>1. \A b \in Actors : job'[b] = IF b = a THEN j ELSE job[b]
  BY DEF Jobs
<1>2. job' = [b \in Actors |-> job'[b]]
  BY DEF Jobs
<1>3. \A b \in Actors : Proper(job'[b])
  BY <1>1 DEF Jobs
<1> QED
  BY <1>1, <1>2, <1>3 DEF Jobs, OnlyJob

\* A call that starts.
LEMMA BeginJobs ==
  ASSUME Jobs, NEW a \in Actors, NEW op \in Ops, Begin(a, op)
  PROVE  Jobs' /\ job'[a] = Job(op, "start", None, "done") /\ OnlyJob(a)
<1>1. Proper(Job(op, "start", None, "done"))
  BY DEF Proper, Job
<1> QED
  BY <1>1, JobSet DEF Begin

\* A call that goes on.
LEMMA GoesJobs ==
  ASSUME Jobs, NEW a \in Actors, NEW at, NEW got, Goes(a, at, got)
  PROVE  /\ Jobs' /\ OnlyJob(a)
         /\ job'[a].op = job[a].op /\ job'[a].at = at /\ job'[a].got = got
<1> DEFINE j == Job(job[a].op, at, got, job[a].reply)
<1>1. Proper(j) /\ j.op = job[a].op /\ j.at = at /\ j.got = got
  BY DEF Jobs, Proper, Job
<1>2. job' = [job EXCEPT ![a] = j]
  BY DEF Goes
<1> QED
  BY <1>1, <1>2, JobSet

\* A call that is answered.
LEMMA ReplyJobs ==
  ASSUME Jobs, NEW a \in Actors, NEW r, Reply(a, r)
  PROVE  Jobs' /\ OnlyJob(a) /\ job'[a].op = job[a].op /\ job'[a].at = "replied"
<1> DEFINE j == Job(job[a].op, "replied", None, r)
<1>1. Proper(j) /\ j.op = job[a].op /\ j.at = "replied"
  BY DEF Jobs, Proper, Job
<1>2. job' = [job EXCEPT ![a] = j]
  BY DEF Reply
<1> QED
  BY <1>1, <1>2, JobSet

LEMMA IdleProper == Proper(Idle) /\ Idle.op = None /\ Idle.at = "idle"
BY DEF Proper, Job, Idle

\* An actor that is told the answer.
LEMMA IdleJobs ==
  ASSUME Jobs, NEW a \in Actors, job' = [job EXCEPT ![a] = Idle]
  PROVE  Jobs' /\ job'[a] = Idle /\ OnlyJob(a)
BY IdleProper, JobSet

\* At first, and after a crash.
LEMMA AllIdle ==
  ASSUME job = [a \in Actors |-> Idle]
  PROVE  Jobs /\ \A a \in Actors : job[a] = Idle
BY IdleProper DEF Jobs

LEMMA CrashJobs ==
  ASSUME HostCrash
  PROVE  /\ Jobs' /\ \A a \in Actors : job'[a] = Idle /\ ctx'[a] = None /\ owner'[a] = None
         /\ ctx' = [a \in Actors |-> None] /\ owner' = [a \in Actors |-> None]
         /\ callId' = [a \in Actors |-> callId'[a]]
BY IdleProper DEF HostCrash, Jobs

\* A call that is not idle is a call of the store its operation names.
LEMMA OpOfStore ==
  ASSUME Jobs, NEW a \in Actors, NEW store, NEW at, In(a, store, at)
  PROVE  /\ job[a].at = at /\ job[a].op \in Ops
         /\ store = "tasks"  => job[a].op \in TaskOps
         /\ store = "plans"  => job[a].op \in PlanOps
         /\ store = "memory" => job[a].op \in MemoryOps
         /\ store = "files"  => job[a].op \in FileOps
<1>1. job[a].op \in Ops /\ job[a].op.store = store /\ job[a].at = at
  BY DEF Jobs, Proper, In
<1>2. \A op \in Ops : \/ op \in TaskOps /\ op.store = "tasks"
                      \/ op \in PlanOps /\ op.store = "plans"
                      \/ op \in MemoryOps /\ op.store = "memory"
                      \/ op \in FileOps /\ op.store = "files"
  BY DEF Ops, TaskOps, PlanOps, MemoryOps, FileOps
<1> QED
  BY <1>1, <1>2

-----------------------------------------------------------------------------
(***************************************************************************)
(* Plans.  The status is right in what a call is about to write, and a     *)
(* file holds nothing that no call has written: that is the whole          *)
(* invariant, so neither an overlap nor a crash can break it.              *)
(***************************************************************************)

Sound(plan) == plan \in Plan /\ FollowsSteps(plan)

DocOk(d) == d.status \in PlanStatus => Sound(d)

Docs ==
  /\ doc = [p \in Plans |-> doc[p]]
  /\ \A p \in Plans : DocOk(doc[p])

\* A call that is about to write a plan.
PlanJobOk(j) ==
  j.op \in PlanOps /\ j.at \in {"open", "write"} => j.got.plan \in Plans /\ Sound(j.got.doc)

\* The inductive invariant of the plans.
PlanInv == nextPlan \in Nat /\ Docs /\ \A a \in Actors : PlanJobOk(job[a])

\* The status of a new plan fits its steps (create_plan.py, create_plan).
LEMMA CreatedSound ==
  ASSUME NEW n \in Nat
  PROVE  Sound(Created(n))
<1>1. Created(n) \in Plan
  BY DEF Created, Plan, PlanStatus, StepStatus
<1>2. Created(n).steps = [i \in 1..n |-> "pending"]
  BY DEF Created
<1>3. Len(Created(n).steps) = n /\ DOMAIN Created(n).steps = 1..n
  BY <1>1, <1>2 DEF Plan
<1>4. \A i \in DOMAIN Created(n).steps : Created(n).steps[i] = "pending"
  BY <1>2, <1>3
<1>5. ~ AllCompleted(Created(n).steps)
  BY <1>3, <1>4 DEF AllCompleted
<1> QED
  BY <1>1, <1>4, <1>5 DEF Sound, FollowsSteps

\* Adding a step leaves the status right (plan_step.py, add_step).
LEMMA StepAddedSound ==
  ASSUME NEW plan, Sound(plan)
  PROVE  Sound(StepAdded(plan))
<1> DEFINE new == StepAdded(plan)
           n == Len(plan.steps)
<1>1. plan.steps \in Seq(StepStatus) /\ plan.status \in PlanStatus /\ n \in Nat
  BY DEF Sound, Plan
<1>2. new.steps = Append(plan.steps, "pending")
  BY DEF StepAdded
<1>3. new.status = IF plan.status = "drafting" THEN "active" ELSE plan.status
  BY DEF StepAdded
<1>4. new.steps \in Seq(StepStatus) /\ Len(new.steps) = n + 1 /\ DOMAIN new.steps = 1..(n + 1)
  BY <1>1, <1>2 DEF StepStatus
<1>5. new.steps[n + 1] = "pending" /\ \A i \in 1..n : new.steps[i] = plan.steps[i]
  BY <1>1, <1>2
<1>6. new \in Plan
  BY <1>1, <1>4 DEF StepAdded, Plan, PlanStatus
<1>7. ~ AllCompleted(new.steps)
  BY <1>1, <1>4, <1>5 DEF AllCompleted
<1>8. ASSUME NEW i \in DOMAIN new.steps, new.steps[i] = "failed"
      PROVE  new.status = "failed"
  <2>1. i \in 1..n /\ plan.steps[i] = "failed"
    BY <1>1, <1>4, <1>5, <1>8
  <2>2. plan.status = "failed"
    BY <1>1, <2>1 DEF Sound, FollowsSteps
  <2> QED
    BY <1>3, <2>2
<1> QED
  BY <1>6, <1>7, <1>8 DEF Sound, FollowsSteps

\* Setting the status of a step sets the status of the plan to what all steps
\* say together (plan_step.py, update_step).
LEMMA StepUpdatedSound ==
  ASSUME NEW plan, Sound(plan), NEW k \in 1..Len(plan.steps), NEW status \in StepStatus
  PROVE  Sound(StepUpdated(plan, k, status))
<1> DEFINE new == StepUpdated(plan, k, status)
           n == Len(plan.steps)
<1>1. plan.steps \in Seq(StepStatus) /\ plan.status \in PlanStatus /\ n \in Nat
  BY DEF Sound, Plan
<1>2. new.steps = [plan.steps EXCEPT ![k] = status]
  BY DEF StepUpdated
<1>3. new.status = StatusAfter(plan.status, status, new.steps)
  BY DEF StepUpdated
<1>4. new.steps \in Seq(StepStatus) /\ DOMAIN new.steps = 1..n /\ DOMAIN plan.steps = 1..n
  BY <1>1, <1>2
<1>5. new.steps[k] = status /\ \A i \in 1..n : i # k => new.steps[i] = plan.steps[i]
  BY <1>1, <1>2, <1>4
<1>6. new.status \in PlanStatus
  BY <1>1, <1>3 DEF StatusAfter, PlanStatus
<1>7. new \in Plan
  BY <1>4, <1>6 DEF StepUpdated, Plan
<1>8. ASSUME NEW i \in DOMAIN new.steps, new.steps[i] = "failed"
      PROVE  new.status = "failed"
  <2>1. CASE status = "failed"
    BY <1>3, <2>1 DEF StatusAfter
  <2>2. CASE status # "failed"
    <3>1. plan.steps[i] = "failed"
      BY <1>4, <1>5, <1>8, <2>2
    <3>2. plan.status = "failed"
      BY <1>4, <1>8, <3>1 DEF Sound, FollowsSteps
    <3>3. ~ AllCompleted(new.steps)
      BY <1>8 DEF AllCompleted
    <3>4. ~ Revives(status, plan.status)
      BY <3>2 DEF Revives
    <3> QED
      BY <1>3, <2>2, <3>2, <3>3, <3>4 DEF StatusAfter
  <2> QED
    BY <2>1, <2>2
<1>9. ASSUME AllCompleted(new.steps)
      PROVE  new.status = "completed"
  <2>1. status = "completed"
    BY <1>4, <1>5, <1>9 DEF AllCompleted
  <2> QED
    BY <1>3, <1>9, <2>1 DEF StatusAfter
<1> QED
  BY <1>7, <1>8, <1>9 DEF Sound, FollowsSteps

\* What a call loads and edits is sound when the files are.
LEMMA EditedSound ==
  ASSUME NEW op \in PlanOps, op.kind # "create", Editable(op), Docs
  PROVE  op.plan \in Plans /\ Sound(Edited(op))
<1>1. op.plan \in Plans /\ op.kind \in {"add", "update"}
  BY DEF PlanOps
<1>2. Sound(doc[op.plan])
  BY <1>1 DEF Editable, Whole, Docs, DocOk
<1>3. CASE op.kind = "add"
  BY <1>1, <1>2, <1>3, StepAddedSound DEF Edited
<1>4. CASE op.kind = "update"
  <2>1. op.step \in 1..MaxSteps /\ op.status \in StepStatus
    BY <1>4 DEF PlanOps
  <2>2. op.step \in 1..Len(doc[op.plan].steps)
    BY <1>2, <1>4, <2>1, PlanAssumption DEF Editable, Sound, Plan
  <2>3. Sound(StepUpdated(doc[op.plan], op.step, op.status))
    BY <1>2, <2>1, <2>2, StepUpdatedSound
  <2> QED
    BY <1>1, <1>4, <2>3 DEF Edited
<1> QED
  BY <1>1, <1>3, <1>4

\* A file that takes one content for another.
LEMMA DocsOk ==
  ASSUME Docs, NEW p \in Plans, NEW d, DocOk(d), doc' = [doc EXCEPT ![p] = d]
  PROVE  Docs'
<1>1. \A q \in Plans : doc'[q] = IF q = p THEN d ELSE doc[q]
  BY DEF Docs
<1> QED
  BY <1>1 DEF Docs

\* No content that cannot be read is a plan.
LEMMA UnreadableOk ==
  ASSUME NEW how \in {"none", "empty", "garbled"}
  PROVE  DocOk(Unreadable(how))
  BY DEF DocOk, Unreadable, PlanStatus

\* A step that writes no plan and makes no call ready to write one.
LEMMA PlansUntouched ==
  ASSUME PlanInv, NEW a \in Actors, OnlyJob(a), PlanJobOk(job'[a]), UNCHANGED <<doc, nextPlan>>
  PROVE  PlanInv'
BY DEF PlanInv, Docs, OnlyJob

\* The invariant holds at first.
LEMMA PlanInitInv == HostInit /\ PlanInit => Jobs /\ PlanInv
<1> SUFFICES ASSUME HostInit, PlanInit PROVE Jobs /\ PlanInv
  OBVIOUS
<1>1. Jobs /\ \A a \in Actors : job[a] = Idle
  BY AllIdle DEF HostInit
<1>2. \A a \in Actors : PlanJobOk(job[a])
  BY <1>1, IdleProper DEF PlanJobOk
<1>3. nextPlan \in Nat /\ Docs
  BY UnreadableOk DEF PlanInit, Docs
<1> QED
  BY <1>1, <1>2, <1>3 DEF PlanInv

\* A step of a tool keeps it, and changes one call.
LEMMA PlanStepInv ==
  ASSUME Jobs, PlanInv, NEW a \in Actors, PlanStep(a)
  PROVE  /\ Jobs' /\ PlanInv' /\ OnlyJob(a)
         /\ job[a].op \in PlanOps /\ job'[a].op = job[a].op
         /\ job[a].at # "idle" /\ job'[a].at # "idle"
         /\ UNCHANGED <<ctx, callId, owner>>
<1> USE DEF planStore, PlanUnchanged
<1>1. CASE NewPlan(a)
  <2>1. job[a].op \in PlanOps /\ job[a].op.kind = "create" /\ job[a].at = "start"
    BY <1>1, OpOfStore DEF NewPlan
  <2>2. job[a].op.step \in Nat
    BY <2>1, PlanAssumption DEF PlanOps
  <2> DEFINE got == [plan |-> nextPlan, doc |-> Created(job[a].op.step), index |-> {}]
  <2>3. Sound(got.doc) /\ got.plan \in Plans
    BY <1>1, <2>2, CreatedSound DEF NewPlan
  <2>4. Goes(a, "open", got) /\ nextPlan' = nextPlan + 1 /\ UNCHANGED <<doc, ctx, callId, owner>>
    BY <1>1 DEF NewPlan
  <2> HIDE DEF got
  <2>5. /\ Jobs' /\ OnlyJob(a)
        /\ job'[a].op = job[a].op /\ job'[a].at = "open" /\ job'[a].got = got
    BY <2>4, GoesJobs
  <2>6. PlanInv'
    BY <2>3, <2>4, <2>5 DEF PlanInv, PlanJobOk, Docs, OnlyJob
  <2> QED
    BY <2>1, <2>4, <2>5, <2>6
<1>2. CASE LoadPlan(a)
  <2>1. /\ job[a].op \in PlanOps /\ job[a].op.kind # "create" /\ job[a].at = "start"
        /\ Editable(job[a].op)
    BY <1>2, OpOfStore DEF LoadPlan
  <2> DEFINE got == [plan |-> job[a].op.plan, doc |-> Edited(job[a].op), index |-> {}]
  <2>2. Sound(got.doc) /\ got.plan \in Plans
    BY <2>1, EditedSound DEF PlanInv
  <2>3. Goes(a, "open", got) /\ UNCHANGED <<doc, nextPlan, ctx, callId, owner>>
    BY <1>2 DEF LoadPlan
  <2> HIDE DEF got
  <2>4. /\ Jobs' /\ OnlyJob(a)
        /\ job'[a].op = job[a].op /\ job'[a].at = "open" /\ job'[a].got = got
    BY <2>3, GoesJobs
  <2>5. PlanInv'
    BY <2>2, <2>3, <2>4, PlansUntouched DEF PlanJobOk
  <2> QED
    BY <2>1, <2>3, <2>4, <2>5
<1>3. ASSUME NEW r, Reply(a, r), UNCHANGED <<doc, nextPlan>>
      PROVE  Jobs' /\ PlanInv' /\ OnlyJob(a) /\ job'[a].op = job[a].op /\ job'[a].at = "replied"
  <2>1. Jobs' /\ OnlyJob(a) /\ job'[a].op = job[a].op /\ job'[a].at = "replied"
    BY <1>3, ReplyJobs
  <2> QED
    BY <1>3, <2>1, PlansUntouched DEF PlanJobOk
<1>4. CASE PlanNotFound(a)
  BY <1>3, <1>4, OpOfStore DEF PlanNotFound
<1>5. CASE PlanFileFails(a)
  BY <1>3, <1>5, OpOfStore DEF PlanFileFails
<1>6. CASE ReplaceIndex(a)
  BY <1>3, <1>6, OpOfStore DEF ReplaceIndex
<1>7. CASE ReplaceFails(a)
  BY <1>3, <1>7, OpOfStore DEF ReplaceFails
<1>13. CASE IndexFileFails(a)
  BY <1>3, <1>13, OpOfStore DEF IndexFileFails
<1>8. CASE OpenPlan(a)
  <2>1. job[a].op \in PlanOps /\ job[a].at = "open"
    BY <1>8, OpOfStore DEF OpenPlan
  <2>2. job[a].got.plan \in Plans /\ Sound(job[a].got.doc)
    BY <2>1 DEF PlanInv, PlanJobOk
  <2>3. /\ Goes(a, "write", job[a].got) /\ UNCHANGED <<nextPlan, ctx, callId, owner>>
        /\ doc' = [doc EXCEPT ![job[a].got.plan] = Unreadable("empty")]
    BY <1>8 DEF OpenPlan
  <2>4. /\ Jobs' /\ OnlyJob(a)
        /\ job'[a].op = job[a].op /\ job'[a].at = "write" /\ job'[a].got = job[a].got
    BY <2>3, GoesJobs
  <2>5. Docs'
    BY <2>2, <2>3, DocsOk, UnreadableOk DEF PlanInv
  <2> QED
    BY <2>1, <2>2, <2>3, <2>4, <2>5 DEF PlanInv, PlanJobOk, OnlyJob
<1>9. CASE WritePlan(a)
  <2>1. job[a].op \in PlanOps /\ job[a].at = "write"
    BY <1>9, OpOfStore DEF WritePlan
  <2>2. job[a].got.plan \in Plans /\ Sound(job[a].got.doc)
    BY <2>1 DEF PlanInv, PlanJobOk
  <2>3. Goes(a, "index", job[a].got) /\ UNCHANGED <<nextPlan, ctx, callId, owner>>
    BY <1>9 DEF WritePlan
  <2>4. PICK d \in {job[a].got.doc, Unreadable("garbled")} :
          doc' = [doc EXCEPT ![job[a].got.plan] = d]
    BY <1>9 DEF WritePlan
  <2>5. DocOk(d)
    BY <2>2, <2>4, UnreadableOk DEF DocOk
  <2>6. Docs'
    BY <2>2, <2>4, <2>5, DocsOk DEF PlanInv
  <2>7. Jobs' /\ OnlyJob(a) /\ job'[a].op = job[a].op /\ job'[a].at = "index"
    BY <2>3, GoesJobs
  <2> QED
    BY <2>1, <2>3, <2>6, <2>7 DEF PlanInv, PlanJobOk, OnlyJob
<1>10. ASSUME In(a, "plans", "index"), NEW got, Goes(a, "save_index", got),
              UNCHANGED <<doc, nextPlan>>
       PROVE  Jobs' /\ PlanInv' /\ OnlyJob(a) /\ job'[a].op = job[a].op /\ job'[a].at = "save_index"
  <2>1. Jobs' /\ OnlyJob(a) /\ job'[a].op = job[a].op /\ job'[a].at = "save_index"
    BY <1>10, GoesJobs
  <2> QED
    BY <1>10, <2>1, PlansUntouched DEF PlanJobOk
<1>11. CASE ReadIndex(a)
  BY <1>10, <1>11, OpOfStore DEF ReadIndex
<1>12. CASE IndexUnreadable(a)
  BY <1>10, <1>12, OpOfStore DEF IndexUnreadable
<1> QED
  BY <1>1, <1>2, <1>4, <1>5, <1>6, <1>7, <1>8, <1>9, <1>11, <1>12, <1>13 DEF PlanStep

\* A crash keeps it: what is in the files stays there.
LEMMA PlanCrashInv ==
  ASSUME PlanInv, HostCrash, UNCHANGED <<doc, nextPlan>>
  PROVE  PlanInv'
BY CrashJobs, IdleProper DEF PlanInv, Docs, PlanJobOk

\* The store by itself.
LEMMA PlanNextInv ==
  Jobs /\ PlanInv
    /\ [PlanCrash \/ \E a \in Actors : PlanCall(a) \/ PlanStep(a) \/ PlanReturn(a)]_<<host, planStore>>
    => Jobs' /\ PlanInv'
<1> SUFFICES ASSUME Jobs, PlanInv,
                    [PlanCrash \/ \E a \in Actors : PlanCall(a) \/ PlanStep(a) \/ PlanReturn(a)]_<<host, planStore>>
             PROVE  Jobs' /\ PlanInv'
  OBVIOUS
<1>1. CASE PlanCrash
  BY <1>1, CrashJobs, PlanCrashInv DEF PlanCrash, planStore
<1>2. ASSUME NEW a \in Actors, PlanCall(a)
      PROVE  Jobs' /\ PlanInv'
  <2>1. PICK op \in PlanOps : Begin(a, op)
    BY <1>2 DEF PlanCall
  <2>2. Jobs' /\ job'[a] = Job(op, "start", None, "done") /\ OnlyJob(a)
    BY <2>1, BeginJobs DEF Ops
  <2> QED
    BY <1>2, <2>2, PlansUntouched DEF PlanCall, planStore, PlanJobOk, Job
<1>3. ASSUME NEW a \in Actors, PlanStep(a)
      PROVE  Jobs' /\ PlanInv'
  BY <1>3, PlanStepInv
<1>4. ASSUME NEW a \in Actors, PlanReturn(a)
      PROVE  Jobs' /\ PlanInv'
  <2>1. Jobs' /\ job'[a] = Idle /\ OnlyJob(a)
    BY <1>4, IdleJobs DEF PlanReturn
  <2> QED
    BY <1>4, <2>1, IdleProper, PlansUntouched DEF PlanReturn, planStore, PlanJobOk
<1>5. CASE UNCHANGED <<host, planStore>>
  BY <1>5 DEF host, planStore, Jobs, PlanInv, Docs
<1> QED
  BY <1>1, <1>2, <1>3, <1>4, <1>5

\* Whatever calls overlap, and whatever writes are cut short, a plan that can be
\* read has the status its steps call for (plan_step.py, update_step).
THEOREM PlanSpecStatusFollows == PlanSpec => []PlanStatusFollows
<1>1. PlanInv => PlanStatusFollows
  BY DEF PlanInv, Docs, PlanStatusFollows, DocOk, Whole, Sound
<1> QED
  BY <1>1, PlanInitInv, PlanNextInv, PTL DEF PlanSpec

-----------------------------------------------------------------------------
(***************************************************************************)
(* The task list.  What a call is about to save is the file with one       *)
(* request applied to it, and stays so until it is saved, because only     *)
(* the holder of the lock saves.                                           *)
(***************************************************************************)

Items == [id : TaskIds, by : CallIds, done : BOOLEAN, edited : BOOLEAN]

Known(items) == items \subseteq Items /\ \A t \in items : t.id < nextTask

\* One request of the abstract list leads from one list to the other.
Added(old, new) ==
  \E i \in TaskIds, c \in CallIds :
    (\A t \in old : t.id # i /\ t.by # c) /\ new = old \cup {List!Item(i, c)}

Modified(old, new) ==
  \E t \in old : \/ new = (old \ {t}) \cup {[t EXCEPT !.done = TRUE]}
                 \/ new = (old \ {t}) \cup {[t EXCEPT !.edited = TRUE]}
                 \/ new = old \ {t}

CallsNamed ==
  /\ callId = [a \in Actors |-> callId[a]]
  /\ \A a \in Actors : job[a].at # "idle" => callId[a] \in CallIds

\* A call that is about to save the list.
Saves(j) == j.op \in TaskOps /\ j.at = "save"

SaveOk(a) ==
  /\ taskLock = a
  /\ Known(job[a].got.items)
  /\ Added(tasks, job[a].got.items) \/ Modified(tasks, job[a].got.items)

\* The inductive invariant of the task list.
TaskInv ==
  /\ nextTask \in Nat
  /\ Known(tasks)
  /\ CallsNamed
  /\ \A a \in Actors : Saves(job[a]) => SaveOk(a)

\* No actor saves but the holder of the lock.
LEMMA OneSaves ==
  ASSUME TaskInv, NEW a \in Actors, NEW b \in Actors, Saves(job[b]), taskLock \in {a, None}
  PROVE  b = a
BY HostAssumption DEF TaskInv, SaveOk

\* An add that no task was made under yet adds one (tasks.py, tasks).
LEMMA AddOk ==
  ASSUME Jobs, TaskInv, NEW a \in Actors, TaskLoad(a), job[a].op.kind = "add"
  PROVE  Added(tasks, Changed(a)) /\ Changed(a) \subseteq Items
         /\ \A t \in Changed(a) : t.id < nextTask + 1
<1>1. callId[a] \in CallIds
  BY OpOfStore DEF TaskInv, CallsNamed, TaskLoad
<1>2. nextTask \in TaskIds /\ nextTask \in Nat
  BY DEF TaskLoad, TaskInv
<1>3. Changed(a) = tasks \cup {NewTask(a)}
  BY DEF Changed
<1>4. NewTask(a) = List!Item(nextTask, callId[a]) /\ NewTask(a) \in Items
  BY <1>1, <1>2 DEF NewTask, List!Item, Items
<1>5. \A t \in tasks : t.by # callId[a]
  BY DEF TaskLoad, AlreadyAdded
<1>6. \A t \in tasks : t \in Items /\ t.id < nextTask /\ t.id \in Nat
  BY TaskAssumption DEF TaskInv, Known, Items, TaskIds
<1>7. Added(tasks, Changed(a))
  BY <1>1, <1>2, <1>3, <1>4, <1>5, <1>6 DEF Added
<1>8. NewTask(a).id = nextTask
  BY DEF NewTask
<1> QED
  BY <1>2, <1>3, <1>4, <1>6, <1>7, <1>8

\* Any other request changes or removes a task that is there (tasks.py, tasks).
LEMMA ModifyOk ==
  ASSUME Jobs, TaskInv, NEW a \in Actors, TaskLoad(a), job[a].op.kind # "add"
  PROVE  Modified(tasks, Changed(a)) /\ Known(Changed(a))
<1>1. PICK it \in tasks : it = Listed(a)
  BY DEF TaskLoad, Missing, Listed
<1>2. it \in Items /\ it.id < nextTask
  BY <1>1 DEF TaskInv, Known
<1>3. PICK kind \in {"update", "complete", "delete"} : kind = job[a].op.kind
  BY OpOfStore DEF TaskLoad, TaskOps
<1>4. Changed(a) = (tasks \ {it}) \cup Outcome(kind, it)
  BY <1>1, <1>3 DEF Changed
<1>5. Outcome(kind, it) \subseteq Items /\ \A t \in Outcome(kind, it) : t.id < nextTask
  BY <1>2, <1>3 DEF Outcome, Items
<1>6. Modified(tasks, Changed(a))
  BY <1>1, <1>3, <1>4 DEF Modified, Outcome
<1>7. Known(Changed(a))
  BY <1>4, <1>5 DEF Known, TaskInv
<1> QED
  BY <1>6, <1>7

\* The invariant holds at first.
LEMMA TaskInitInv == HostInit /\ TaskInit => Jobs /\ TaskInv
<1> SUFFICES ASSUME HostInit, TaskInit PROVE Jobs /\ TaskInv
  OBVIOUS
<1>1. Jobs /\ \A a \in Actors : job[a] = Idle
  BY AllIdle DEF HostInit
<1>2. CallsNamed /\ \A a \in Actors : ~ Saves(job[a])
  BY <1>1, IdleProper DEF HostInit, CallsNamed, Saves
<1>3. nextTask \in Nat /\ Known(tasks)
  BY DEF TaskInit, Known
<1> QED
  BY <1>1, <1>2, <1>3 DEF TaskInv

\* A step that leaves the list as it is, and makes no call ready to save it.
LEMMA TasksUntouched ==
  ASSUME TaskInv, NEW a \in Actors, OnlyJob(a), ~ Saves(job'[a]),
         UNCHANGED <<tasks, nextTask>>, UNCHANGED taskLock \/ Saves(job[a]),
         callId' = [callId EXCEPT ![a] = callId'[a]],
         job'[a].at # "idle" => callId'[a] \in CallIds
  PROVE  TaskInv'
<1>1. callId' = [b \in Actors |-> callId'[b]] /\ \A b \in Actors \ {a} : callId'[b] = callId[b]
  BY DEF TaskInv, CallsNamed
<1>2. CallsNamed'
  BY <1>1 DEF TaskInv, CallsNamed, OnlyJob
<1>3. ASSUME NEW b \in Actors, Saves(job'[b])
      PROVE  SaveOk(b)'
  <2>1. b # a /\ job'[b] = job[b] /\ Saves(job[b])
    BY <1>3 DEF OnlyJob
  <2>2. SaveOk(b)
    BY <2>1 DEF TaskInv
  <2>3. ~ Saves(job[a])
    BY <2>1, <2>2 DEF TaskInv, SaveOk
  <2> QED
    BY <2>1, <2>2, <2>3 DEF SaveOk, Known
<1>4. nextTask' \in Nat /\ Known(tasks)'
  BY DEF TaskInv, Known
<1> QED
  BY <1>2, <1>3, <1>4 DEF TaskInv

\* The same, of a step that leaves the call ids as they are.
LEMMA TasksUntouchedInCall ==
  ASSUME TaskInv, NEW a \in Actors, OnlyJob(a), ~ Saves(job'[a]), job[a].at # "idle",
         UNCHANGED <<tasks, nextTask, callId>>, UNCHANGED taskLock \/ Saves(job[a])
  PROVE  TaskInv'
<1>1. callId' = [callId EXCEPT ![a] = callId'[a]] /\ callId'[a] \in CallIds
  BY DEF TaskInv, CallsNamed
<1> QED
  BY <1>1, TasksUntouched

\* Reading the list under the lock.
LEMMA LoadInv ==
  ASSUME Jobs, TaskInv, NEW a \in Actors, TaskLoad(a)
  PROVE  Jobs' /\ TaskInv' /\ OnlyJob(a) /\ job'[a].op = job[a].op /\ job'[a].at = "save"
<1>1. PICK items : items = Changed(a)
  OBVIOUS
<1>2. items \subseteq Items /\ (\A t \in items : t.id < nextTask')
      /\ (Added(tasks, items) \/ Modified(tasks, items))
  <2>1. CASE job[a].op.kind = "add"
    BY <1>1, <2>1, AddOk DEF TaskLoad
  <2>2. CASE job[a].op.kind # "add"
    BY <1>1, <2>2, ModifyOk DEF TaskLoad, Known
  <2> QED
    BY <2>1, <2>2
<1> DEFINE got == [items |-> items, id |-> IF job[a].op.kind = "add" THEN nextTask ELSE job[a].op.id]
<1>3. Goes(a, "save", got) /\ got.items = items
  BY <1>1 DEF TaskLoad
<1> HIDE DEF got
<1>4. /\ Jobs' /\ OnlyJob(a)
      /\ job'[a].op = job[a].op /\ job'[a].at = "save" /\ job'[a].got = got
  BY <1>3, GoesJobs
<1>5. nextTask \in Nat /\ nextTask' \in {nextTask, nextTask + 1}
  BY DEF TaskLoad, TaskInv
<1>6. tasks' = tasks /\ callId' = callId /\ taskLock = None /\ taskLock' = a /\ job[a].at = "start"
  BY OpOfStore DEF TaskLoad, LockTasks
<1>7. CallsNamed'
  BY <1>4, <1>6 DEF TaskInv, CallsNamed, OnlyJob
<1>8. nextTask' \in Nat /\ Known(tasks)'
  <2>1. \A t \in tasks : t.id \in Nat
    BY TaskAssumption DEF TaskInv, Known, Items, TaskIds
  <2> QED
    BY <1>5, <1>6, <2>1 DEF TaskInv, Known
<1>9. SaveOk(a)'
  BY <1>2, <1>3, <1>4, <1>6 DEF SaveOk, Known
<1>10. \A b \in Actors : Saves(job'[b]) => b = a
  BY <1>4, <1>6, OneSaves DEF OnlyJob
<1> QED
  BY <1>4, <1>7, <1>8, <1>9, <1>10 DEF TaskInv

\* A step of the tool keeps the invariant, and changes one call.
LEMMA TaskStepInv ==
  ASSUME Jobs, TaskInv, NEW a \in Actors, TaskStep(a)
  PROVE  /\ Jobs' /\ TaskInv' /\ OnlyJob(a)
         /\ job[a].op \in TaskOps /\ job'[a].op = job[a].op
         /\ job[a].at # "idle" /\ job'[a].at # "idle"
         /\ UNCHANGED <<ctx, callId, owner>>
<1>1. ASSUME NEW r, Reply(a, r), job[a].at # "idle", UNCHANGED <<tasks, nextTask, callId>>,
             UNCHANGED taskLock \/ Saves(job[a])
      PROVE  Jobs' /\ TaskInv' /\ OnlyJob(a) /\ job'[a].op = job[a].op /\ job'[a].at = "replied"
  <2>1. Jobs' /\ OnlyJob(a) /\ job'[a].op = job[a].op /\ job'[a].at = "replied"
    BY <1>1, ReplyJobs
  <2> QED
    BY <1>1, <2>1, TasksUntouchedInCall DEF Saves
<1>2. CASE TaskRefused(a)
  BY <1>1, <1>2, OpOfStore DEF TaskRefused
<1>3. CASE TaskLoad(a)
  BY <1>3, LoadInv, OpOfStore DEF TaskLoad
<1>4. CASE TaskLoadFails(a)
  BY <1>1, <1>4, OpOfStore DEF TaskLoadFails
<1>5. CASE TaskReplace(a)
  <2>1. job[a].op \in TaskOps /\ job[a].at = "save"
    BY <1>5, OpOfStore DEF TaskReplace
  <2>2. SaveOk(a) /\ tasks' = job[a].got.items /\ UNCHANGED <<nextTask, ctx, callId, owner>>
    BY <1>5, <2>1 DEF TaskReplace, TaskInv, Saves
  <2>3. Jobs' /\ OnlyJob(a) /\ job'[a].op = job[a].op /\ job'[a].at = "replied"
    BY <1>5, ReplyJobs DEF TaskReplace
  <2>4. CallsNamed'
    BY <2>1, <2>2, <2>3 DEF TaskInv, CallsNamed, OnlyJob
  <2>5. nextTask' \in Nat /\ Known(tasks)'
    BY <2>2 DEF TaskInv, SaveOk, Known
  <2>6. \A b \in Actors : ~ Saves(job'[b])
    BY <2>2, <2>3, OneSaves DEF SaveOk, Saves, OnlyJob
  <2> QED
    BY <2>1, <2>2, <2>3, <2>4, <2>5, <2>6 DEF TaskInv
<1>6. CASE TaskSaveFails(a)
  BY <1>1, <1>6, OpOfStore DEF TaskSaveFails, Saves
<1> QED
  BY <1>2, <1>3, <1>4, <1>5, <1>6 DEF TaskStep

\* A crash keeps it: the lock is free, the list as it was.
LEMMA TaskCrashInv ==
  ASSUME TaskInv, HostCrash, TaskCrash
  PROVE  TaskInv'
<1>1. CallsNamed' /\ \A a \in Actors : ~ Saves(job'[a])
  BY CrashJobs, IdleProper DEF CallsNamed, Saves
<1> QED
  BY <1>1 DEF TaskInv, TaskCrash, Known

\* The list by itself.
LEMMA TaskNextInv == Jobs /\ TaskInv /\ [TaskNext]_<<host, taskStore>> => Jobs' /\ TaskInv'
<1> SUFFICES ASSUME Jobs, TaskInv, [TaskNext]_<<host, taskStore>>
             PROVE  Jobs' /\ TaskInv'
  OBVIOUS
<1>1. CASE HostCrash /\ TaskCrash
  BY <1>1, CrashJobs, TaskCrashInv
<1>2. ASSUME NEW a \in Actors, TaskCall(a)
      PROVE  Jobs' /\ TaskInv'
  <2>1. PICK op \in TaskOps : Begin(a, op)
    BY <1>2 DEF TaskCall
  <2>2. PICK c \in CallIds : callId' = [callId EXCEPT ![a] = c]
    BY <1>2 DEF TaskCall
  <2>3. Jobs' /\ job'[a] = Job(op, "start", None, "done") /\ OnlyJob(a)
    BY <2>1, BeginJobs DEF Ops
  <2>4. callId'[a] = c /\ ~ Saves(job'[a])
    BY <2>2, <2>3 DEF TaskInv, CallsNamed, Saves, Job
  <2> QED
    BY <1>2, <2>2, <2>3, <2>4, TasksUntouched DEF TaskCall, taskStore
<1>3. ASSUME NEW a \in Actors, TaskStep(a)
      PROVE  Jobs' /\ TaskInv'
  BY <1>3, TaskStepInv
<1>4. ASSUME NEW a \in Actors, TaskReturn(a)
      PROVE  Jobs' /\ TaskInv'
  <2>1. Jobs' /\ job'[a] = Idle /\ OnlyJob(a)
    BY <1>4, IdleJobs DEF TaskReturn
  <2> QED
    BY <1>4, <2>1, IdleProper, TasksUntouchedInCall DEF TaskReturn, taskStore, Saves
<1>5. CASE UNCHANGED <<host, taskStore>>
  <2>1. UNCHANGED <<job, callId, tasks, taskLock, nextTask>>
    BY <1>5 DEF host, taskStore
  <2> QED
    BY <2>1 DEF TaskInv, Known, Jobs, CallsNamed, SaveOk
<1> QED
  BY <1>1, <1>2, <1>3, <1>4, <1>5 DEF TaskNext

\* A list with one request applied is a step of the abstract list.
LEMMA RequestIsStep ==
  ASSUME Added(tasks, tasks') \/ Modified(tasks, tasks')
  PROVE  List!Next
<1>1. CASE Added(tasks, tasks')
  BY <1>1 DEF Added, List!Next, List!Add
<1>2. CASE Modified(tasks, tasks')
  BY <1>2 DEF Modified, List!Next, List!Complete, List!Update, List!Delete
<1> QED
  BY <1>1, <1>2

\* A step of the tool is one request of the list, or none.
LEMMA TaskStepRefines ==
  ASSUME Jobs, TaskInv, NEW a \in Actors, TaskStep(a)
  PROVE  List!Next \/ UNCHANGED tasks
<1>1. CASE TaskReplace(a)
  <2>1. Saves(job[a]) /\ tasks' = job[a].got.items
    BY <1>1, OpOfStore DEF TaskReplace, Saves
  <2>2. Added(tasks, tasks') \/ Modified(tasks, tasks')
    BY <2>1 DEF TaskInv, SaveOk
  <2> QED
    BY <2>2, RequestIsStep
<1>2. CASE ~ TaskReplace(a)
  BY <1>2 DEF TaskStep, TaskRefused, TaskLoad, TaskLoadFails, TaskSaveFails
<1> QED
  BY <1>1, <1>2

\* Under any interleaving, failure and crash the task file is the abstract list:
\* each request acts on it at once, and none is lost or done twice (tasks.py, tasks).
THEOREM TaskSpecImplementsList == TaskSpec => TaskListSpec
<1>1. TaskInit => List!Init
  BY DEF TaskInit, List!Init
<1>2. Jobs /\ TaskInv /\ [TaskNext]_<<host, taskStore>> => [List!Next]_tasks
  BY TaskStepRefines DEF TaskNext, TaskCrash, TaskCall, TaskReturn, taskStore
<1> QED
  BY <1>1, <1>2, TaskInitInv, TaskNextInv, PTL DEF TaskSpec, TaskListSpec, List!Spec

-----------------------------------------------------------------------------
(***************************************************************************)
(* Files.  An actor's workspace is that of the thread it works for as long *)
(* as it has a call in progress, and a call writes where it was bound.     *)
(***************************************************************************)

\* A context and the thread its actor works for are bound and unbound together.
Bound ==
  /\ ctx = [a \in Actors |-> ctx[a]]
  /\ owner = [a \in Actors |-> owner[a]]
  /\ \A a \in Actors : ctx[a] \in Threads \cup {None} /\ owner[a] = ctx[a]

FileCallOk(a) ==
  /\ job[a].at # "idle" => ctx[a] \in Threads
  /\ job[a].op \in FileOps /\ job[a].at = "write" =>
       job[a].got.workspace = ctx[a] /\ job[a].op.mount \in Writable

TreeOk ==
  /\ tree = [t \in Threads |-> [m \in Mounts |-> tree[t][m]]]
  /\ FilesStayHome

\* The inductive invariant of the workspaces.
FilesInv == Bound /\ (\A a \in Actors : FileCallOk(a)) /\ TreeOk

\* One file changes hands.
LEMMA TreeSet ==
  ASSUME TreeOk, NEW t \in Threads, NEW m \in Mounts, NEW who,
         who = IF m \in Writable THEN t ELSE "user",
         tree' = [tree EXCEPT ![t][m] = who]
  PROVE  TreeOk'
<1>1. \A u \in Threads : tree'[u] = IF u = t THEN [tree[t] EXCEPT ![m] = who] ELSE tree[u]
  BY DEF TreeOk
<1>2. tree[t] = [n \in Mounts |-> tree[t][n]]
  BY DEF TreeOk
<1>3. \A u \in Threads, n \in Mounts :
        tree'[u][n] = IF u = t /\ n = m THEN who ELSE tree[u][n]
  <2>1. \A n \in Mounts : [tree[t] EXCEPT ![m] = who][n] = IF n = m THEN who ELSE tree[t][n]
    BY <1>2
  <2>2. \A n \in Mounts : tree'[t][n] = IF n = m THEN who ELSE tree[t][n]
    BY <1>1, <2>1
  <2> QED
    BY <1>1, <2>2
<1>4. tree' = [u \in Threads |-> [n \in Mounts |-> tree'[u][n]]]
  <2>1. \A u \in Threads : tree'[u] = [n \in Mounts |-> tree'[u][n]]
    BY <1>1, <1>2 DEF TreeOk
  <2>2. tree' = [u \in Threads |-> tree'[u]]
    BY DEF TreeOk
  <2> QED
    BY <2>1, <2>2
<1> QED
  BY <1>3, <1>4 DEF TreeOk, FilesStayHome

\* The invariant holds at first.
LEMMA FilesInitInv == HostInit /\ FilesInit => Jobs /\ FilesInv
<1> SUFFICES ASSUME HostInit, FilesInit PROVE Jobs /\ FilesInv
  OBVIOUS
<1>1. Jobs /\ \A a \in Actors : job[a] = Idle
  BY AllIdle DEF HostInit
<1>2. Bound /\ \A a \in Actors : FileCallOk(a)
  BY <1>1, IdleProper DEF HostInit, Bound, FileCallOk
<1>3. TreeOk
  BY DEF FilesInit, TreeOk, FilesStayHome
<1> QED
  BY <1>1, <1>2, <1>3 DEF FilesInv

\* A step of one call that leaves the workspaces bound as they are.
LEMMA FileCallsOk ==
  ASSUME FilesInv, NEW a \in Actors, OnlyJob(a), UNCHANGED <<ctx, owner>>, FileCallOk(a)'
  PROVE  Bound' /\ \A b \in Actors : FileCallOk(b)'
BY DEF FilesInv, Bound, FileCallOk, OnlyJob

\* A step that writes no file and makes no call ready to write one.
LEMMA FilesUntouched ==
  ASSUME FilesInv, NEW a \in Actors, OnlyJob(a), UNCHANGED <<tree, ctx, owner>>,
         job'[a].at # "idle" => ctx[a] \in Threads,
         ~ (job'[a].op \in FileOps /\ job'[a].at = "write")
  PROVE  FilesInv'
<1>1. FileCallOk(a)'
  BY DEF FileCallOk
<1>2. TreeOk'
  BY DEF FilesInv, TreeOk, FilesStayHome
<1> QED
  BY <1>1, <1>2, FileCallsOk DEF FilesInv

\* The same, of a step of a call to another store.
LEMMA FilesUntouchedByOthers ==
  ASSUME FilesInv, NEW a \in Actors, OnlyJob(a), UNCHANGED <<tree, ctx, owner>>,
         job[a].at # "idle", job'[a].op = job[a].op,
         job[a].op \in TaskOps \cup PlanOps \cup MemoryOps
  PROVE  FilesInv'
<1>1. job[a].op \notin FileOps
  BY DEF TaskOps, PlanOps, MemoryOps, FileOps
<1> QED
  BY <1>1, FilesUntouched DEF FilesInv, FileCallOk

\* A step of a tool keeps it, and changes one call.
LEMMA FileStepInv ==
  ASSUME Jobs, FilesInv, NEW a \in Actors, FileStep(a)
  PROVE  /\ Jobs' /\ FilesInv' /\ OnlyJob(a)
         /\ job[a].op \in FileOps /\ job'[a].op = job[a].op
         /\ job[a].at # "idle" /\ job'[a].at # "idle"
         /\ UNCHANGED <<ctx, callId, owner>>
<1>1. ASSUME NEW r, Reply(a, r), job[a].at # "idle", UNCHANGED <<ctx, owner>>
      PROVE  /\ Jobs' /\ OnlyJob(a) /\ job'[a].op = job[a].op /\ job'[a].at = "replied"
             /\ tree' = tree => FilesInv'
             /\ Bound' /\ \A b \in Actors : FileCallOk(b)'
  <2>1. Jobs' /\ OnlyJob(a) /\ job'[a].op = job[a].op /\ job'[a].at = "replied"
    BY <1>1, ReplyJobs
  <2>2. ctx[a] \in Threads
    BY <1>1 DEF FilesInv, FileCallOk
  <2>3. FileCallOk(a)'
    BY <1>1, <2>1, <2>2 DEF FileCallOk
  <2> QED
    BY <1>1, <2>1, <2>2, <2>3, FilesUntouched, FileCallsOk
<1>2. CASE FileUnreadable(a)
  BY <1>1, <1>2, OpOfStore DEF FileUnreadable
<1>3. CASE FileRefused(a)
  BY <1>1, <1>3, OpOfStore DEF FileRefused, FilesUnchanged
<1>4. CASE FileResolved(a)
  <2>1. /\ job[a].at = "start" /\ job[a].op \in FileOps /\ job[a].op.mount \in Writable
        /\ Goes(a, "write", [workspace |-> ctx[a]]) /\ UNCHANGED <<tree, ctx, callId, owner>>
    BY <1>4, OpOfStore DEF FileResolved, FilesUnchanged, WorkspaceOf
  <2>2. /\ Jobs' /\ OnlyJob(a) /\ job'[a].op = job[a].op /\ job'[a].at = "write"
        /\ job'[a].got = [workspace |-> ctx[a]]
    BY <2>1, GoesJobs
  <2>3. ctx[a] \in Threads
    BY <2>1 DEF FilesInv, FileCallOk
  <2>4. FileCallOk(a)'
    BY <2>1, <2>2, <2>3 DEF FileCallOk
  <2>5. Bound' /\ \A b \in Actors : FileCallOk(b)'
    BY <2>1, <2>2, <2>4, FileCallsOk
  <2>6. TreeOk'
    BY <2>1 DEF FilesInv, TreeOk, FilesStayHome
  <2> QED
    BY <2>1, <2>2, <2>5, <2>6 DEF FilesInv
<1>5. ASSUME In(a, "files", "write"), NEW r, Reply(a, r), UNCHANGED <<ctx, callId, owner>>,
             tree' \in {tree, [tree EXCEPT ![job[a].got.workspace][job[a].op.mount] = owner[a]]}
      PROVE  /\ Jobs' /\ FilesInv' /\ OnlyJob(a)
             /\ job[a].op \in FileOps /\ job'[a].op = job[a].op
             /\ job[a].at # "idle" /\ job'[a].at # "idle"
  <2>1. job[a].op \in FileOps /\ job[a].at = "write"
    BY <1>5, OpOfStore
  <2>2. job[a].got.workspace = ctx[a] /\ ctx[a] \in Threads /\ owner[a] = ctx[a]
        /\ job[a].op.mount \in Writable
    BY <2>1 DEF FilesInv, FileCallOk, Bound
  <2>3. TreeOk'
    <3>1. CASE tree' = tree
      BY <3>1 DEF FilesInv, TreeOk, FilesStayHome
    <3>2. CASE tree' = [tree EXCEPT ![ctx[a]][job[a].op.mount] = ctx[a]]
      BY <2>2, <3>2, TreeSet DEF FilesInv, Writable
    <3> QED
      BY <1>5, <2>2, <3>1, <3>2
  <2> QED
    BY <1>1, <1>5, <2>1, <2>3 DEF FilesInv
<1>6. CASE FileWritten(a)
  BY <1>5, <1>6 DEF FileWritten, FilesUnchanged
<1>7. CASE FileFails(a)
  BY <1>5, <1>7 DEF FileFails
<1> QED
  BY <1>2, <1>3, <1>4, <1>6, <1>7 DEF FileStep

\* Binding, unbinding and inheriting a workspace keep it.
LEMMA BindInv ==
  ASSUME FilesInv, NEW a \in Actors, NEW t \in Threads \cup {None}, job[a].at = "idle",
         ctx' = [ctx EXCEPT ![a] = t], owner' = [owner EXCEPT ![a] = t], UNCHANGED <<job, tree>>
  PROVE  FilesInv'
<1>1. \A b \in Actors : ctx'[b] = (IF b = a THEN t ELSE ctx[b]) /\ owner'[b] = IF b = a THEN t ELSE owner[b]
  BY DEF FilesInv, Bound
<1>2. Bound'
  <2>1. ctx' = [b \in Actors |-> ctx'[b]] /\ owner' = [b \in Actors |-> owner'[b]]
    BY DEF FilesInv, Bound
  <2> QED
    BY <1>1, <2>1 DEF FilesInv, Bound
<1>3. ASSUME NEW b \in Actors
      PROVE  FileCallOk(b)'
  BY <1>1 DEF FilesInv, FileCallOk
<1> QED
  BY <1>2, <1>3 DEF FilesInv, TreeOk, FilesStayHome

\* A crash keeps it: no call is in progress, and the files are as they were.
LEMMA FilesCrashInv ==
  ASSUME FilesInv, HostCrash, UNCHANGED tree
  PROVE  FilesInv'
<1>1. Bound' /\ \A a \in Actors : FileCallOk(a)'
  BY CrashJobs, IdleProper DEF Bound, FileCallOk
<1> QED
  BY <1>1 DEF FilesInv, TreeOk, FilesStayHome

\* The workspace of the run takes the user's uploads.
LEMMA UploadsInv ==
  ASSUME FilesInv, NEW t \in Threads, NEW given \in BOOLEAN,
         tree' = UploadsSaved(t, given), UNCHANGED <<job, ctx, owner>>
  PROVE  FilesInv'
<1>1. TreeOk'
  <2>1. CASE given
    BY <2>1, TreeSet DEF FilesInv, Mounts, Writable, UploadsSaved
  <2>2. CASE ~ given
    BY <2>2 DEF FilesInv, TreeOk, FilesStayHome, UploadsSaved
  <2> QED
    BY <2>1, <2>2
<1> QED
  BY <1>1 DEF FilesInv, Bound, FileCallOk

\* The workspaces by themselves.
LEMMA FilesNextInv == Jobs /\ FilesInv /\ [FilesNext]_<<host, tree>> => Jobs' /\ FilesInv'
<1> SUFFICES ASSUME Jobs, FilesInv, [FilesNext]_<<host, tree>>
             PROVE  Jobs' /\ FilesInv'
  OBVIOUS
<1>0. Main \in Actors /\ Workers \subseteq Actors
  BY DEF Actors
<1>1. ASSUME NEW t \in Threads, RunBinds(t)
      PROVE  Jobs' /\ FilesInv'
  BY <1>0, <1>1, BindInv DEF RunBinds, BindWorkspace, Jobs
<1>2. CASE RunUnbinds
  BY <1>0, <1>2, BindInv DEF RunUnbinds, UnbindWorkspace, Jobs
<1>3. CASE RunUploads
  <2>1. ctx[Main] \in Threads
    BY <1>0, <1>3 DEF RunUploads, FilesInv, Bound
  <2> QED
    BY <1>3, <2>1, UploadsInv DEF RunUploads, host, Jobs
<1>4. ASSUME NEW w \in Workers, WorkerSpawned(w)
      PROVE  Jobs' /\ FilesInv'
  <2>1. job[w].at = "idle"
    BY <1>0, <1>4, HostAssumption DEF WorkerSpawned, FilesInv, FileCallOk
  <2>2. ctx[Main] \in Threads \cup {None} /\ owner[Main] = ctx[Main]
    BY <1>0 DEF FilesInv, Bound
  <2> QED
    BY <1>0, <1>4, <2>1, <2>2, BindInv DEF WorkerSpawned, Spawned, Jobs
<1>5. ASSUME NEW a \in Actors, FileCall(a)
      PROVE  Jobs' /\ FilesInv'
  <2>1. PICK op \in FileOps : Begin(a, op)
    BY <1>5 DEF FileCall
  <2>2. Jobs' /\ job'[a] = Job(op, "start", None, "done") /\ OnlyJob(a)
    BY <2>1, BeginJobs DEF Ops
  <2>3. job'[a].at = "start"
    BY <2>2 DEF Job
  <2>4. ctx[a] \in Threads /\ UNCHANGED <<tree, ctx, owner>>
    BY <1>5 DEF FileCall, FilesInv, Bound
  <2> QED
    BY <2>2, <2>3, <2>4, FilesUntouched
<1>6. ASSUME NEW a \in Actors, FileStep(a)
      PROVE  Jobs' /\ FilesInv'
  BY <1>6, FileStepInv
<1>7. ASSUME NEW a \in Actors, FileReturn(a)
      PROVE  Jobs' /\ FilesInv'
  <2>1. Jobs' /\ job'[a] = Idle /\ OnlyJob(a) /\ UNCHANGED <<tree, ctx, owner>>
    BY <1>7, IdleJobs DEF FileReturn
  <2> QED
    BY <2>1, IdleProper, FilesUntouched
<1>8. CASE HostCrash /\ UNCHANGED tree
  BY <1>8, CrashJobs, FilesCrashInv
<1>9. CASE UNCHANGED <<host, tree>>
  <2>1. UNCHANGED <<job, ctx, owner, tree>>
    BY <1>9 DEF host
  <2> QED
    BY <2>1 DEF FilesInv, Jobs, Bound, FileCallOk, TreeOk, FilesStayHome
<1> QED
  BY <1>1, <1>2, <1>3, <1>4, <1>5, <1>6, <1>7, <1>8, <1>9 DEF FilesNext

\* Whichever runs come and go, a tool of a run or of a subagent writes only where
\* its own thread may (workspace.py, resolve_workspace_path).
THEOREM FilesSpecStayHome == FilesSpec => []FilesStayHome
<1>1. FilesInv => FilesStayHome
  BY DEF FilesInv, TreeOk
<1> QED
  BY <1>1, FilesInitInv, FilesNextInv, PTL DEF FilesSpec

-----------------------------------------------------------------------------
(***************************************************************************)
(* Memory.                                                                 *)
(***************************************************************************)

\* A step of the memory tool changes one call.
LEMMA MemoryStepJobs ==
  ASSUME Jobs, NEW a \in Actors, MemoryStep(a)
  PROVE  /\ Jobs' /\ OnlyJob(a)
         /\ job[a].op \in MemoryOps /\ job'[a].op = job[a].op
         /\ job[a].at # "idle" /\ job'[a].at # "idle"
         /\ UNCHANGED <<ctx, callId, owner>>
<1>1. ASSUME NEW at, at # "idle", NEW got, Goes(a, at, got)
      PROVE  Jobs' /\ OnlyJob(a) /\ job'[a].op = job[a].op /\ job'[a].at # "idle"
  BY <1>1, GoesJobs
<1>2. ASSUME NEW r, Reply(a, r)
      PROVE  Jobs' /\ OnlyJob(a) /\ job'[a].op = job[a].op /\ job'[a].at # "idle"
  BY <1>2, ReplyJobs
<1>3. CASE MergeFacts(a)
  BY <1>1, <1>3, OpOfStore DEF MergeFacts, MemoryUnchanged
<1>4. CASE MemoryUnreadable(a)
  BY <1>1, <1>4, OpOfStore DEF MemoryUnreadable
<1>5. CASE OpenMemory(a)
  BY <1>1, <1>5, OpOfStore DEF OpenMemory, MemoryUnchanged
<1>6. CASE MemoryFileFails(a)
  BY <1>2, <1>6, OpOfStore DEF MemoryFileFails
<1>7. CASE WriteMemory(a)
  BY <1>2, <1>7, OpOfStore DEF WriteMemory
<1> QED
  BY <1>3, <1>4, <1>5, <1>6, <1>7 DEF MemoryStep

-----------------------------------------------------------------------------
(***************************************************************************)
(* What callers are told.  Where no two calls overlap, the one caller of a *)
(* store is all that stands between a file and what was said of it; the    *)
(* task list has its lock for that.                                        *)
(***************************************************************************)

\* Unless calls overlapped, one actor at most calls the store.
Alone(s) == s \notin disturbed => \A a, b \in Actors : Busy(a, s) /\ Busy(b, s) => a = b

\* A call has read, or is about to write.
Underway(a, s) == Busy(a, s) /\ job[a].at # "start"

ToldOf(s) == { w \in answered : w.op.store = s }

\* What a call is about to save, of the request it will be told of.
SaveMeans(j) ==
  \/ /\ j.op.kind = "add" /\ tasks \subseteq j.got.items
     /\ \E t \in j.got.items : t.id = j.got.id
  \/ /\ j.op.kind # "add"
     /\ \E it \in tasks : it.id = j.got.id /\ j.got.items = (tasks \ {it}) \cup Outcome(j.op.kind, it)

TasksTold ==
  /\ \A w \in ToldOf("tasks") : w.op \in TaskOps
  /\ TasksKept
  /\ \A a \in Actors : Saves(job[a]) => SaveMeans(job[a])

\* The plan can be read, and the index has its status.
Indexed(p, entries) == Whole(p) /\ [plan |-> p, status |-> doc[p].status] \in entries

AtWork(a) == Underway(a, "plans") /\ job[a].at \in {"write", "index", "save_index"}

PlanCallOk(a) ==
  /\ job[a].got = [plan |-> job[a].got.plan, doc |-> job[a].got.doc, index |-> job[a].got.index]
  /\ job[a].at # "open" => job[a].got.plan \in Plans /\ job[a].got.doc.status \in PlanStatus
  /\ job[a].at = "write" => doc[job[a].got.plan] = Unreadable("empty")
  /\ job[a].at \in {"index", "save_index"} => doc[job[a].got.plan] = job[a].got.doc
  /\ job[a].at = "save_index" =>
       /\ Summary(a) \in job[a].got.index
       /\ \A w \in ToldOf("plans") : w.what # job[a].got.plan => Indexed(w.what, job[a].got.index)

\* Every plan that was told of is indexed, but for the one being saved.
PlansAsTold ==
  /\ \A w \in ToldOf("plans") :
       /\ w.what \in Plans
       /\ \/ \E a \in Actors : AtWork(a) /\ job[a].got.plan = w.what
          \/ Indexed(w.what, planIndex)
  /\ \A a \in Actors : Underway(a, "plans") => PlanCallOk(a)

PlansTold == "plans" \notin disturbed => PlansAsTold

\* A call that appends has every fact of its file that was told of.
FactsOk(a) ==
  /\ job[a].got.fact \in job[a].got.facts
  /\ Appends(a) => \A w \in ToldOf("memory") : w.op.file = job[a].op.file => w.what \in job[a].got.facts

\* Every fact that was told of is in its file, but for the file being written.
MemoryAsTold ==
  /\ memory = [f \in {"MEMORY", "USER"} |-> memory[f]]
  /\ \A w \in ToldOf("memory") :
       /\ w.op \in MemoryOps
       /\ \/ \E a \in Actors : In(a, "memory", "write") /\ job[a].op.file = w.op.file
          \/ w.what \in memory[w.op.file]
  /\ \A a \in Actors : In(a, "memory", "open") \/ In(a, "memory", "write") => FactsOk(a)

MemoryTold == "memory" \notin disturbed => MemoryAsTold

\* A step that is none of the store's business.
Aside(s) ==
  /\ ToldOf(s)' = ToldOf(s)
  /\ \A b \in Actors : Underway(b, s) \/ Underway(b, s)' => job'[b] = job[b]

\* A call that goes on, or is over, is no second call.
LEMMA AloneSame ==
  ASSUME NEW s, Alone(s), disturbed \subseteq disturbed', \A b \in Actors : Busy(b, s)' => Busy(b, s)
  PROVE  Alone(s)'
BY DEF Alone

LEMMA AloneBegins ==
  ASSUME NEW s, Alone(s), Jobs, NEW a \in Actors, NEW op \in Ops, Begin(a, op)
  PROVE  Alone(s)' /\ disturbed \subseteq disturbed'
<1>1. job'[a] = Job(op, "start", None, "done") /\ OnlyJob(a)
  BY BeginJobs
<1>2. job'[a].op = op /\ \A b \in Actors \ {a} : job'[b] = job[b]
  BY <1>1 DEF Job, OnlyJob
<1>3. \A b \in Actors \ {a} : Busy(b, s)' => Busy(b, s)
  BY <1>2 DEF Busy, InCall
<1>4. disturbed \subseteq disturbed'
  BY DEF Begin
<1>5. CASE op.store = s
  <2>1. s \notin disturbed' => \A b \in Actors \ {a} : ~ Busy(b, s)
    BY <1>5 DEF Begin
  <2> QED
    BY <1>3, <1>4, <2>1 DEF Alone
<1>6. CASE op.store # s
  <2>1. ~ Busy(a, s)'
    BY <1>2, <1>6 DEF Busy
  <2> QED
    BY <1>3, <1>4, <2>1, AloneSame
<1> QED
  BY <1>4, <1>5, <1>6

\* A call that goes on or is answered is of its own store alone.
LEMMA CallsAside ==
  ASSUME NEW s, NEW a \in Actors, OnlyJob(a), job[a].op.store # s, job'[a].op = job[a].op,
         ToldOf(s)' = ToldOf(s)
  PROVE  Aside(s) /\ \A b \in Actors : Busy(b, s)' => Busy(b, s)
<1>1. \A b \in Actors : Busy(b, s) \/ Busy(b, s)' => b # a
  BY DEF Busy
<1> QED
  BY <1>1 DEF Aside, Underway, OnlyJob, Busy, InCall

\* A crash leaves no call under way; if it cut none of the store short, none was.
LEMMA CrashAside ==
  ASSUME NEW s, HostCrash
  PROVE  /\ disturbed \subseteq disturbed' /\ \A b \in Actors : ~ Busy(b, s)'
         /\ ToldOf(s)' = ToldOf(s)
         /\ s \notin disturbed' => Aside(s)
<1>1. \A b \in Actors : ~ Busy(b, s)'
  BY CrashJobs, IdleProper DEF Busy, InCall
<1>2. disturbed \subseteq disturbed' /\ answered' = answered
  BY DEF HostCrash
<1>3. s \notin disturbed' => \A b \in Actors : ~ Busy(b, s)
  BY DEF HostCrash, Busy
<1> QED
  BY <1>1, <1>2, <1>3 DEF Aside, ToldOf, Underway

-----------------------------------------------------------------------------
(***************************************************************************)
(* What callers are told of the task list.                                 *)
(***************************************************************************)

LEMMA TasksAside ==
  ASSUME TasksTold, Aside("tasks"), UNCHANGED tasks
  PROVE  TasksTold'
<1>1. \A w : w \in ToldOf("tasks") <=> w \in answered /\ w.op.store = "tasks"
  BY DEF ToldOf
<1>2. \A w : w \in ToldOf("tasks") <=> w \in answered' /\ w.op.store = "tasks"
  BY DEF Aside, ToldOf
<1>3. TasksKept'
  BY <1>1, <1>2 DEF TasksTold, TasksKept, Deleted
<1>4. ASSUME NEW a \in Actors, Saves(job'[a])
      PROVE  SaveMeans(job[a])'
  <2>1. Underway(a, "tasks")'
    BY <1>4 DEF Underway, Busy, InCall, Saves, TaskOps
  <2>2. job'[a] = job[a]
    BY <2>1 DEF Aside
  <2> QED
    BY <1>4, <2>2 DEF TasksTold, SaveMeans
<1>5. \A w \in ToldOf("tasks")' : w.op \in TaskOps
  BY DEF Aside, TasksTold
<1> QED
  BY <1>3, <1>4, <1>5 DEF TasksTold

\* What a call is going to save has the request in it (tasks.py, tasks).
LEMMA LoadMeans ==
  ASSUME Jobs, TaskInv, NEW a \in Actors, TaskLoad(a)
  PROVE  SaveMeans(job'[a])
<1> DEFINE id == IF job[a].op.kind = "add" THEN nextTask ELSE job[a].op.id
<1>1. job'[a].got = [items |-> Changed(a), id |-> id] /\ job'[a].op = job[a].op
  <2> DEFINE got == [items |-> Changed(a), id |-> id]
  <2>1. Goes(a, "save", got)
    BY DEF TaskLoad
  <2> HIDE DEF got
  <2>2. job'[a].got = got /\ job'[a].op = job[a].op
    BY <2>1, GoesJobs
  <2> QED
    BY <2>2 DEF got
<1>2. CASE job[a].op.kind = "add"
  <2>1. Changed(a) = tasks \cup {NewTask(a)} /\ NewTask(a).id = nextTask /\ id = nextTask
    BY <1>2 DEF Changed, NewTask
  <2> QED
    BY <1>1, <1>2, <2>1 DEF SaveMeans
<1>3. CASE job[a].op.kind # "add"
  <2>1. PICK it \in tasks : it = Listed(a) /\ it.id = job[a].op.id
    BY <1>3 DEF TaskLoad, Missing, Listed
  <2>2. Changed(a) = (tasks \ {it}) \cup Outcome(job[a].op.kind, it) /\ id = job[a].op.id
    BY <1>3, <2>1 DEF Changed
  <2> QED
    BY <1>1, <1>3, <2>1, <2>2 DEF SaveMeans
<1> QED
  BY <1>2, <1>3

\* A list that is replaced keeps what was said of the one before.
LEMMA ReplaceTold ==
  ASSUME Jobs, TaskInv, TasksTold, NEW a \in Actors, TaskReplace(a)
  PROVE  TasksKept' /\ \A w \in ToldOf("tasks")' : w.op \in TaskOps
<1>0. PICK id, kind : id = job[a].got.id /\ kind = job[a].op.kind
  OBVIOUS
<1> DEFINE new == [call |-> callId[a], op |-> job[a].op, what |-> id]
<1>1. /\ job[a].op \in TaskOps /\ Saves(job[a]) /\ tasks' = job[a].got.items
      /\ answered' = answered \cup {new}
  BY <1>0, OpOfStore DEF TaskReplace, Saves, Told
<1>2. SaveMeans(job[a]) /\ tasks \subseteq Items
  BY <1>1 DEF TasksTold, TaskInv, Known
<1>3. kind \in {"add", "update", "complete", "delete"} /\ job[a].op.store = "tasks"
  BY <1>0, <1>1 DEF TaskOps
<1>4. new \in answered' /\ new.op = job[a].op /\ new.what = id
  BY <1>1
<1> HIDE DEF new
<1>5. kind = "delete" => Deleted(id)'
  BY <1>0, <1>3, <1>4 DEF Deleted
<1>6. \A i : Deleted(i) => Deleted(i)'
  BY <1>1 DEF Deleted
<1>7. ASSUME NEW t \in tasks
      PROVE  \/ Deleted(t.id)'
             \/ \E u \in tasks' : u.id = t.id /\ (t.done => u.done) /\ (t.edited => u.edited)
  <2>1. CASE t \in tasks'
    BY <2>1
  <2>2. CASE t \notin tasks'
    <3>1. kind # "add" /\ t.id = id /\ Outcome(kind, t) \subseteq tasks'
      BY <1>0, <1>1, <1>2, <2>2 DEF SaveMeans
    <3>2. CASE kind = "delete"
      BY <1>5, <3>1, <3>2
    <3>3. CASE kind = "complete"
      <4>1. [t EXCEPT !.done = TRUE] \in tasks'
        BY <3>1, <3>3 DEF Outcome
      <4> QED
        BY <1>2, <4>1 DEF Items
    <3>4. CASE kind = "update"
      <4>1. [t EXCEPT !.edited = TRUE] \in tasks'
        BY <3>1, <3>4 DEF Outcome
      <4> QED
        BY <1>2, <4>1 DEF Items
    <3> QED
      BY <1>3, <3>1, <3>2, <3>3, <3>4
  <2> QED
    BY <2>1, <2>2
<1>8. ASSUME kind # "delete"
      PROVE  \E u \in tasks' : u.id = id /\ (kind = "complete" => u.done) /\ (kind = "update" => u.edited)
  <2>1. CASE kind = "add"
    BY <1>0, <1>1, <1>2, <2>1 DEF SaveMeans
  <2>2. CASE kind # "add"
    <3>1. PICK it \in tasks : it.id = id /\ Outcome(kind, it) \subseteq tasks'
      BY <1>0, <1>1, <1>2, <2>2 DEF SaveMeans
    <3>2. CASE kind = "complete"
      <4>1. [it EXCEPT !.done = TRUE] \in tasks'
        BY <3>1, <3>2 DEF Outcome
      <4> QED
        BY <1>2, <3>1, <3>2, <4>1 DEF Items
    <3>3. CASE kind = "update"
      <4>1. [it EXCEPT !.edited = TRUE] \in tasks'
        BY <3>1, <3>3 DEF Outcome
      <4> QED
        BY <1>2, <3>1, <3>3, <4>1 DEF Items
    <3> QED
      BY <1>3, <1>8, <2>2, <3>2, <3>3
  <2> QED
    BY <2>1, <2>2
<1>9. ASSUME NEW w \in answered', w.op.store = "tasks", w.op.kind # "delete", ~ Deleted(w.what)'
      PROVE  \E t \in tasks' : /\ t.id = w.what
                               /\ w.op.kind = "complete" => t.done
                               /\ w.op.kind = "update" => t.edited
  <2>1. CASE w = new
    BY <1>0, <1>4, <1>8, <1>9, <2>1
  <2>2. CASE w \in answered
    <3>1. PICK t \in tasks : /\ t.id = w.what
                             /\ w.op.kind = "complete" => t.done
                             /\ w.op.kind = "update" => t.edited
      BY <1>6, <1>9, <2>2 DEF TasksTold, TasksKept
    <3> QED
      BY <1>7, <1>9, <3>1
  <2> QED
    BY <1>1, <1>9, <2>1, <2>2
<1>10. TasksKept'
  BY <1>9 DEF TasksKept
<1>11. \A w \in ToldOf("tasks")' : w.op \in TaskOps
  BY <1>1, <1>4 DEF ToldOf, TasksTold
<1> QED
  BY <1>10, <1>11

\* A step of the tool keeps what its callers were told.
LEMMA TaskStepTold ==
  ASSUME Jobs, TaskInv, TasksTold, NEW a \in Actors, TaskStep(a)
  PROVE  TasksTold'
<1>1. /\ OnlyJob(a) /\ job'[a].op = job[a].op /\ job'[a].at # "idle" /\ TaskInv'
  BY TaskStepInv
<1>2. CASE TaskLoad(a)
  <2>1. taskLock = None /\ tasks' = tasks /\ answered' = answered
    BY <1>2 DEF TaskLoad, LockTasks
  <2>2. \A b \in Actors : Saves(job'[b]) => b = a
    BY <1>1, <2>1, OneSaves DEF OnlyJob
  <2>3. SaveMeans(job[a])'
    BY <1>2, <2>1, LoadMeans DEF SaveMeans
  <2> QED
    BY <2>1, <2>2, <2>3 DEF TasksTold, TasksKept, Deleted, ToldOf
<1>3. CASE TaskReplace(a)
  <2>1. taskLock = a
    BY <1>3, OpOfStore DEF TaskReplace, TaskInv, Saves, SaveOk
  <2>2. job'[a].at = "replied"
    BY <1>3, ReplyJobs DEF TaskReplace
  <2>3. \A b \in Actors : ~ Saves(job'[b])
    BY <1>1, <2>1, <2>2, OneSaves DEF Saves, OnlyJob
  <2> QED
    BY <1>3, <2>3, ReplaceTold DEF TasksTold
<1>4. CASE TaskRefused(a) \/ TaskLoadFails(a) \/ TaskSaveFails(a)
  <2>1. \E r : Reply(a, r)
    BY <1>4 DEF TaskRefused, TaskLoadFails, TaskSaveFails
  <2>2. job'[a].at = "replied"
    BY <2>1, ReplyJobs
  <2>3. tasks' = tasks /\ answered' = answered
    BY <1>4 DEF TaskRefused, TaskLoadFails, TaskSaveFails
  <2>4. \A b \in Actors : Saves(job'[b]) => job'[b] = job[b]
    BY <1>1, <2>2 DEF Saves, OnlyJob
  <2> QED
    BY <2>3, <2>4 DEF TasksTold, TasksKept, Deleted, ToldOf, SaveMeans
<1> QED
  BY <1>2, <1>3, <1>4 DEF TaskStep

-----------------------------------------------------------------------------
(***************************************************************************)
(* What callers are told of plans.                                         *)
(***************************************************************************)

LEMMA PlansAside ==
  ASSUME PlansTold, Aside("plans"), UNCHANGED <<doc, planIndex>>, disturbed \subseteq disturbed'
  PROVE  PlansTold'
<1> SUFFICES ASSUME "plans" \notin disturbed' PROVE PlansAsTold'
  BY DEF PlansTold
<1>1. PlansAsTold
  BY DEF PlansTold
<1>2. \A b \in Actors : Underway(b, "plans") \/ Underway(b, "plans")' => job'[b] = job[b]
  BY DEF Aside
<1>3. \A b \in Actors : AtWork(b) => AtWork(b)' /\ job'[b] = job[b]
  BY <1>2 DEF AtWork, Underway, Busy, InCall
<1>4. ASSUME NEW w \in ToldOf("plans")'
      PROVE  /\ w.what \in Plans
             /\ \/ \E a \in Actors : AtWork(a)' /\ job'[a].got.plan = w.what
                \/ Indexed(w.what, planIndex)'
  <2>1. w \in ToldOf("plans")
    BY DEF Aside
  <2> QED
    BY <1>1, <1>3, <2>1 DEF PlansAsTold, Indexed, Whole
<1>5. ASSUME NEW b \in Actors, Underway(b, "plans")'
      PROVE  PlanCallOk(b)'
  <2>1. job'[b] = job[b]
    BY <1>2, <1>5
  <2>2. PlanCallOk(b)
    BY <1>1, <1>5, <2>1 DEF PlansAsTold, Underway, Busy, InCall
  <2>3. ToldOf("plans")' = ToldOf("plans")
    BY DEF Aside
  <2> QED
    BY <2>1, <2>2, <2>3 DEF PlanCallOk, Summary, Indexed, Whole
<1> QED
  BY <1>4, <1>5 DEF PlansAsTold

\* A step of the only call: what it has to show for itself.
LEMMA PlanCallAlone ==
  ASSUME Alone("plans"), PlansTold, "plans" \notin disturbed, NEW a \in Actors, Busy(a, "plans"),
         OnlyJob(a),
         \A w \in ToldOf("plans")' :
           /\ w.what \in Plans
           /\ (AtWork(a)' /\ job'[a].got.plan = w.what) \/ Indexed(w.what, planIndex)',
         Underway(a, "plans")' => PlanCallOk(a)'
  PROVE  PlansTold'
<1>1. \A b \in Actors \ {a} : ~ Underway(b, "plans") /\ job'[b] = job[b]
  BY DEF Alone, Underway, OnlyJob
<1>2. \A b \in Actors \ {a} : ~ Underway(b, "plans")'
  BY <1>1 DEF Underway, Busy, InCall
<1> QED
  BY <1>2 DEF PlansTold, PlansAsTold

\* The index as a call is about to save it.
LEMMA ReindexedHas ==
  ASSUME NEW a, NEW entries
  PROVE  /\ Summary(a) \in Reindexed(a, entries)
         /\ \A p : p # job[a].got.plan /\ Indexed(p, entries) => Indexed(p, Reindexed(a, entries))
BY DEF Reindexed, Indexed, Summary

\* A step of the tool keeps what its callers were told.
LEMMA PlanStepTold ==
  ASSUME Jobs, PlanInv, Alone("plans"), PlansTold, NEW a \in Actors, PlanStep(a)
  PROVE  PlansTold'
<1> USE DEF planStore, PlanUnchanged
<1> SUFFICES ASSUME "plans" \notin disturbed' PROVE PlansTold'
  BY DEF PlansTold
<1>1. /\ OnlyJob(a) /\ PlanInv' /\ job[a].op \in PlanOps /\ job'[a].op = job[a].op
  BY PlanStepInv
<1>2. Busy(a, "plans") /\ "plans" \notin disturbed
  BY DEF PlanStep, NewPlan, LoadPlan, PlanNotFound, OpenPlan, PlanFileFails, WritePlan, ReadIndex,
     IndexUnreadable, ReplaceIndex, ReplaceFails, IndexFileFails, In, Busy, InCall
<1>3. PlansAsTold /\ \A b \in Actors : AtWork(b) => b = a
  BY <1>2 DEF PlansTold, Alone, AtWork, Underway
<1>4. PICK p, at : p = job[a].got.plan /\ at = job[a].at
  OBVIOUS
<1>5. at \in {"open", "write", "index", "save_index"} => PlanCallOk(a)
  BY <1>2, <1>3, <1>4 DEF PlansAsTold, Underway
<1>6. \A w \in ToldOf("plans") :
        w.what \in Plans /\ ((at \in {"write", "index", "save_index"} /\ p = w.what) \/ Indexed(w.what, planIndex))
  BY <1>3, <1>4 DEF PlansAsTold, AtWork
<1>7. doc = [q \in Plans |-> doc[q]]
  BY DEF PlanInv, Docs
<1>8. ASSUME NEW newAt, NEW got, Goes(a, newAt, got)
      PROVE  job'[a].got = got /\ job'[a].at = newAt
  BY <1>8, GoesJobs
<1>9. ASSUME NEW r, Reply(a, r)
      PROVE  ~ Underway(a, "plans")'
  BY <1>9, ReplyJobs DEF Underway, Busy, InCall
<1>10. CASE NewPlan(a) \/ LoadPlan(a)
  <2>1. at = "start" /\ UNCHANGED <<doc, planIndex, answered>>
    BY <1>4, <1>10 DEF NewPlan, LoadPlan, In
  <2>2. \A w \in ToldOf("plans")' : w.what \in Plans /\ Indexed(w.what, planIndex)'
    BY <1>6, <2>1 DEF ToldOf, Indexed, Whole
  <2>3. PICK q, d : Goes(a, "open", [plan |-> q, doc |-> d, index |-> {}])
    BY <1>10 DEF NewPlan, LoadPlan
  <2> DEFINE got == [plan |-> q, doc |-> d, index |-> {}]
  <2>4. Goes(a, "open", got) /\ got = [plan |-> got.plan, doc |-> got.doc, index |-> got.index]
    BY <2>3
  <2> HIDE DEF got
  <2>5. job'[a].got = got /\ job'[a].at = "open"
    BY <1>8, <2>4
  <2>6. PlanCallOk(a)'
    BY <2>4, <2>5 DEF PlanCallOk
  <2> QED
    BY <1>1, <1>2, <2>2, <2>6, PlanCallAlone
<1>11. CASE PlanNotFound(a) \/ PlanFileFails(a)
  <2>1. \E r : Reply(a, r)
    BY <1>11 DEF PlanNotFound, PlanFileFails
  <2>2. at \in {"start", "open"} /\ UNCHANGED <<doc, planIndex, answered>>
    BY <1>4, <1>11 DEF PlanNotFound, PlanFileFails, In
  <2>3. \A w \in ToldOf("plans")' : w.what \in Plans /\ Indexed(w.what, planIndex)'
    BY <1>6, <2>2 DEF ToldOf, Indexed, Whole
  <2> QED
    BY <1>1, <1>2, <1>9, <2>1, <2>3, PlanCallAlone
<1>12. CASE OpenPlan(a)
  <2>1. /\ at = "open" /\ UNCHANGED <<planIndex, answered>>
        /\ doc' = [doc EXCEPT ![p] = Unreadable("empty")] /\ Goes(a, "write", job[a].got)
    BY <1>4, <1>12 DEF OpenPlan, In
  <2>2. job'[a].got = job[a].got /\ job'[a].at = "write"
    BY <1>8, <2>1
  <2>3. p \in Plans /\ job[a].got.doc.status \in PlanStatus
    BY <1>1, <1>4, <2>1 DEF PlanInv, PlanJobOk, Sound, Plan
  <2>4. doc'[p] = Unreadable("empty") /\ \A q \in Plans : q # p => doc'[q] = doc[q]
    BY <1>7, <2>1, <2>3
  <2>5. AtWork(a)'
    BY <1>1, <1>2, <2>2 DEF AtWork, Underway, Busy, InCall
  <2>6. \A w \in ToldOf("plans")' :
          w.what \in Plans /\ ((AtWork(a)' /\ job'[a].got.plan = w.what) \/ Indexed(w.what, planIndex)')
    <3> TAKE w \in ToldOf("plans")'
    <3>1. w \in ToldOf("plans") /\ job'[a].got.plan = p
      BY <1>4, <2>1, <2>2 DEF ToldOf
    <3>2. CASE w.what = p
      BY <2>3, <2>5, <3>1, <3>2
    <3>3. CASE w.what # p
      <4>1. w.what \in Plans /\ Indexed(w.what, planIndex)
        BY <1>6, <2>1, <3>1, <3>3
      <4>2. Indexed(w.what, planIndex)'
        BY <2>1, <2>4, <3>3, <4>1 DEF Indexed, Whole
      <4> QED
        BY <4>1, <4>2
    <3> QED
      BY <3>2, <3>3
  <2>7. PlanCallOk(a)'
    BY <1>4, <1>5, <2>1, <2>2, <2>3, <2>4 DEF PlanCallOk
  <2> QED
    BY <1>1, <1>2, <2>6, <2>7, PlanCallAlone
<1>13. CASE WritePlan(a)
  <2>1. at = "write" /\ UNCHANGED <<planIndex, answered>> /\ Goes(a, "index", job[a].got)
    BY <1>4, <1>13 DEF WritePlan, In
  <2>2. p \in Plans /\ doc[p] = Unreadable("empty") /\ job[a].got.doc.status \in PlanStatus
    BY <1>4, <1>5, <2>1 DEF PlanCallOk
  <2>3. doc' = [doc EXCEPT ![p] = job[a].got.doc]
    <3>1. doc[p].status = "empty"
      BY <2>2 DEF Unreadable
    <3>2. PICK d \in {job[a].got.doc} \cup (IF doc[p].status = "empty" THEN {} ELSE {Unreadable("garbled")}) :
            doc' = [doc EXCEPT ![p] = d]
      BY <1>4, <1>13 DEF WritePlan
    <3> QED
      BY <3>1, <3>2
  <2>4. doc'[p] = job[a].got.doc /\ \A q \in Plans : q # p => doc'[q] = doc[q]
    BY <1>7, <2>2, <2>3
  <2>5. job'[a].got = job[a].got /\ job'[a].at = "index"
    BY <1>8, <2>1
  <2>6. AtWork(a)'
    BY <1>1, <1>2, <2>5 DEF AtWork, Underway, Busy, InCall
  <2>7. \A w \in ToldOf("plans")' :
          w.what \in Plans /\ ((AtWork(a)' /\ job'[a].got.plan = w.what) \/ Indexed(w.what, planIndex)')
    BY <1>4, <1>6, <2>1, <2>4, <2>5, <2>6 DEF ToldOf, Indexed, Whole
  <2>8. PlanCallOk(a)'
    BY <1>4, <1>5, <2>1, <2>2, <2>4, <2>5 DEF PlanCallOk
  <2> QED
    BY <1>1, <1>2, <2>7, <2>8, PlanCallAlone
<1>14. CASE ReadIndex(a)
  <2>0. PICK got : got = [job[a].got EXCEPT !.index = Reindexed(a, planIndex)]
    OBVIOUS
  <2>1. at = "index" /\ UNCHANGED <<doc, planIndex, answered>> /\ Goes(a, "save_index", got)
    BY <1>4, <1>14, <2>0 DEF ReadIndex, In
  <2>2. /\ p \in Plans /\ doc[p] = job[a].got.doc /\ job[a].got.doc.status \in PlanStatus
        /\ job[a].got = [plan |-> job[a].got.plan, doc |-> job[a].got.doc, index |-> job[a].got.index]
    BY <1>4, <1>5, <2>1 DEF PlanCallOk
  <2>3. /\ got.plan = p /\ got.doc = job[a].got.doc /\ got.index = Reindexed(a, planIndex)
        /\ got = [plan |-> got.plan, doc |-> got.doc, index |-> got.index]
    BY <1>4, <2>0, <2>2
  <2>4. job'[a].got = got /\ job'[a].at = "save_index"
    BY <1>8, <2>1
  <2>5. AtWork(a)'
    BY <1>1, <1>2, <2>4 DEF AtWork, Underway, Busy, InCall
  <2>6. \A w \in ToldOf("plans")' :
          w.what \in Plans /\ ((AtWork(a)' /\ job'[a].got.plan = w.what) \/ Indexed(w.what, planIndex)')
    BY <1>4, <1>6, <2>1, <2>3, <2>4, <2>5 DEF ToldOf, Indexed, Whole
  <2>7. Summary(a)' \in got.index
    BY <1>4, <2>3, <2>4, ReindexedHas DEF Summary
  <2>8. \A w \in ToldOf("plans")' : w.what # p => Indexed(w.what, got.index)'
    <3> TAKE w \in ToldOf("plans")'
    <3> HAVE w.what # p
    <3>1. Indexed(w.what, planIndex)
      BY <1>6, <2>1 DEF ToldOf
    <3>2. Indexed(w.what, Reindexed(a, planIndex))
      BY <1>4, <3>1, ReindexedHas
    <3> QED
      BY <2>1, <2>3, <3>2 DEF Indexed, Whole
  <2>9. PlanCallOk(a)'
    BY <2>1, <2>2, <2>3, <2>4, <2>7, <2>8 DEF PlanCallOk
  <2> QED
    BY <1>1, <1>2, <2>6, <2>9, PlanCallAlone
<1>15. CASE ReplaceIndex(a)
  <2>1. /\ at = "save_index" /\ UNCHANGED doc /\ planIndex' = job[a].got.index /\ Reply(a, "done")
        /\ answered' = answered \cup {[call |-> callId[a], op |-> job[a].op, what |-> p]}
    BY <1>4, <1>15 DEF ReplaceIndex, In, Told
  <2>2. /\ p \in Plans /\ doc[p] = job[a].got.doc /\ job[a].got.doc.status \in PlanStatus
        /\ Summary(a) \in job[a].got.index
        /\ \A w \in ToldOf("plans") : w.what # p => Indexed(w.what, job[a].got.index)
    BY <1>4, <1>5, <2>1 DEF PlanCallOk
  <2>3. Indexed(p, job[a].got.index)
    BY <1>4, <2>2 DEF Summary, Indexed, Whole
  <2>4. ASSUME NEW w \in ToldOf("plans")'
        PROVE  w.what \in Plans /\ Indexed(w.what, planIndex)'
    <3>1. w.what = p \/ w \in ToldOf("plans")
      BY <2>1 DEF ToldOf
    <3>2. w.what \in Plans /\ Indexed(w.what, job[a].got.index)
      BY <1>6, <2>2, <2>3, <3>1
    <3> QED
      BY <2>1, <3>2 DEF Indexed, Whole
  <2> QED
    BY <1>1, <1>2, <1>9, <2>1, <2>4, PlanCallAlone
<1>16. CASE IndexUnreadable(a) \/ ReplaceFails(a) \/ IndexFileFails(a)
  BY <1>16 DEF IndexUnreadable, ReplaceFails, IndexFileFails
<1> QED
  BY <1>10, <1>11, <1>12, <1>13, <1>14, <1>15, <1>16 DEF PlanStep

-----------------------------------------------------------------------------
(***************************************************************************)
(* What callers are told of memory.                                        *)
(***************************************************************************)

LEMMA MemoryAside ==
  ASSUME MemoryTold, Aside("memory"), UNCHANGED memory, disturbed \subseteq disturbed'
  PROVE  MemoryTold'
<1> SUFFICES ASSUME "memory" \notin disturbed' PROVE MemoryAsTold'
  BY DEF MemoryTold
<1>1. MemoryAsTold
  BY DEF MemoryTold
<1>2. \A b \in Actors : Underway(b, "memory") \/ Underway(b, "memory")' => job'[b] = job[b]
  BY DEF Aside
<1>3. \A b \in Actors : In(b, "memory", "write") => In(b, "memory", "write")' /\ job'[b] = job[b]
  BY <1>2 DEF In, Underway, Busy, InCall
<1>4. ToldOf("memory")' = ToldOf("memory")
  BY DEF Aside
<1>5. \A w \in ToldOf("memory")' :
        /\ w.op \in MemoryOps
        /\ \/ \E a \in Actors : In(a, "memory", "write")' /\ job'[a].op.file = w.op.file
           \/ w.what \in memory'[w.op.file]
  BY <1>1, <1>3, <1>4 DEF MemoryAsTold
<1>6. ASSUME NEW b \in Actors, In(b, "memory", "open")' \/ In(b, "memory", "write")'
      PROVE  FactsOk(b)'
  <2>1. job'[b] = job[b]
    BY <1>2, <1>6 DEF In, Underway, Busy, InCall
  <2>2. FactsOk(b)
    BY <1>1, <1>6, <2>1 DEF MemoryAsTold, In
  <2> QED
    BY <1>4, <2>1, <2>2 DEF FactsOk, Appends
<1> QED
  BY <1>1, <1>5, <1>6 DEF MemoryAsTold

\* A step of the only call.
LEMMA MemoryCallAlone ==
  ASSUME Alone("memory"), "memory" \notin disturbed, NEW a \in Actors, Busy(a, "memory"), OnlyJob(a),
         memory' = [f \in {"MEMORY", "USER"} |-> memory'[f]],
         \A w \in ToldOf("memory")' :
           /\ w.op \in MemoryOps
           /\ (In(a, "memory", "write")' /\ job'[a].op.file = w.op.file) \/ w.what \in memory'[w.op.file],
         In(a, "memory", "open")' \/ In(a, "memory", "write")' => FactsOk(a)'
  PROVE  MemoryTold'
<1>1. \A b \in Actors \ {a} : ~ Busy(b, "memory") /\ job'[b] = job[b]
  BY DEF Alone, OnlyJob
<1>2. \A b \in Actors \ {a} : ~ In(b, "memory", "open")' /\ ~ In(b, "memory", "write")'
  BY <1>1 DEF Busy, InCall, In
<1> QED
  BY <1>2 DEF MemoryTold, MemoryAsTold

\* A step of the tool keeps what its callers were told.
LEMMA MemoryStepTold ==
  ASSUME Jobs, Alone("memory"), MemoryTold, NEW a \in Actors, MemoryStep(a)
  PROVE  MemoryTold'
<1> USE DEF memoryStore, MemoryUnchanged
<1> SUFFICES ASSUME "memory" \notin disturbed' PROVE MemoryTold'
  BY DEF MemoryTold
<1>1. OnlyJob(a) /\ job[a].op \in MemoryOps /\ job'[a].op = job[a].op
  BY MemoryStepJobs
<1>2. Busy(a, "memory") /\ "memory" \notin disturbed
  BY DEF MemoryStep, MergeFacts, MemoryUnreadable, OpenMemory, MemoryFileFails, WriteMemory, In, Busy, InCall
<1>3. MemoryAsTold /\ \A b \in Actors : In(b, "memory", "write") => b = a
  BY <1>2 DEF MemoryTold, Alone, In, Busy, InCall
<1>4. PICK file, at, fact, facts :
        /\ file = job[a].op.file /\ at = job[a].at
        /\ fact = job[a].got.fact /\ facts = job[a].got.facts
  OBVIOUS
<1>5. file \in {"MEMORY", "USER"} /\ job[a].op.store = "memory"
  BY <1>1, <1>4 DEF MemoryOps
<1>6. memory = [f \in {"MEMORY", "USER"} |-> memory[f]]
  BY <1>3 DEF MemoryAsTold
<1>7. \A w \in ToldOf("memory") :
        /\ w.op \in MemoryOps /\ w.op.file \in {"MEMORY", "USER"}
        /\ (at = "write" /\ file = w.op.file) \/ w.what \in memory[w.op.file]
  <2> TAKE w \in ToldOf("memory")
  <2>1. w.op \in MemoryOps
    BY <1>3 DEF MemoryAsTold
  <2>2. w.op.file \in {"MEMORY", "USER"}
    BY <2>1 DEF MemoryOps
  <2>3. \/ \E b \in Actors : In(b, "memory", "write") /\ job[b].op.file = w.op.file
        \/ w.what \in memory[w.op.file]
    BY <1>3 DEF MemoryAsTold
  <2> QED
    BY <1>3, <1>4, <2>1, <2>2, <2>3 DEF In
<1>8. at \in {"open", "write"} => FactsOk(a)
  BY <1>2, <1>3, <1>4 DEF MemoryAsTold, In, MemoryStep, MergeFacts, MemoryUnreadable, OpenMemory,
     MemoryFileFails, WriteMemory
<1>9. ASSUME NEW newAt, NEW got, Goes(a, newAt, got)
      PROVE  job'[a].got = got /\ job'[a].at = newAt
  BY <1>9, GoesJobs
<1>10. ASSUME NEW r, Reply(a, r)
       PROVE  ~ In(a, "memory", "open")' /\ ~ In(a, "memory", "write")'
  BY <1>10, ReplyJobs DEF In
<1>11. CASE MergeFacts(a)
  <2>1. PICK new, read : /\ Goes(a, "open", [fact |-> new, facts |-> read]) /\ new \in read
                         /\ Appends(a) => memory[file] \subseteq read
    <3> DEFINE sum == {nextFact} \cup (IF Appends(a) THEN memory[job[a].op.file] ELSE {})
    <3>1. Goes(a, "open", [fact |-> nextFact, facts |-> sum])
      BY <1>11 DEF MergeFacts
    <3>2. nextFact \in sum /\ (Appends(a) => memory[file] \subseteq sum)
      BY <1>4
    <3> HIDE DEF sum
    <3> QED
      BY <3>1, <3>2
  <2>2. at = "start" /\ UNCHANGED <<memory, answered>>
    BY <1>4, <1>11 DEF MergeFacts, In
  <2>3. job'[a].got = [fact |-> new, facts |-> read] /\ job'[a].at = "open"
    BY <1>9, <2>1
  <2>4. \A w \in ToldOf("memory")' : w.op \in MemoryOps /\ w.what \in memory'[w.op.file]
    BY <1>7, <2>2 DEF ToldOf
  <2>5. FactsOk(a)'
    <3>1. job'[a].got.fact \in job'[a].got.facts
      BY <2>1, <2>3
    <3>2. Appends(a)' <=> Appends(a)
      BY <1>1 DEF Appends
    <3>3. \A w \in ToldOf("memory")' : w.op.file = file => w.what \in memory[file]
      BY <2>2, <2>4
    <3>4. ToldOf("memory")' = ToldOf("memory") /\ job'[a].op.file = file /\ job'[a].got.facts = read
      BY <1>1, <1>4, <2>2, <2>3 DEF ToldOf
    <3> QED
      BY <2>1, <3>1, <3>2, <3>3, <3>4 DEF FactsOk
  <2> QED
    BY <1>1, <1>2, <1>6, <2>2, <2>4, <2>5, MemoryCallAlone
<1>12. CASE MemoryUnreadable(a)
  BY <1>12 DEF MemoryUnreadable
<1>13. CASE OpenMemory(a)
  <2>1. /\ at = "open" /\ answered' = answered /\ memory' = [memory EXCEPT ![file] = {}]
        /\ Goes(a, "write", job[a].got)
    BY <1>4, <1>13 DEF OpenMemory, In
  <2>2. job'[a].got = job[a].got /\ job'[a].at = "write"
    BY <1>9, <2>1
  <2>3. \A f \in {"MEMORY", "USER"} : f # file => memory'[f] = memory[f]
    BY <1>6, <2>1
  <2>4. In(a, "memory", "write")' /\ job'[a].op.file = file
    BY <1>1, <1>4, <1>5, <2>2, OpOfStore, <1>13 DEF In, OpenMemory
  <2>5. ToldOf("memory")' = ToldOf("memory")
    BY <2>1 DEF ToldOf
  <2>6. ASSUME NEW w \in ToldOf("memory")'
        PROVE  /\ w.op \in MemoryOps
               /\ (In(a, "memory", "write")' /\ job'[a].op.file = w.op.file) \/ w.what \in memory'[w.op.file]
    BY <1>7, <2>1, <2>3, <2>4, <2>5
  <2>7. FactsOk(a)'
    BY <1>1, <1>4, <1>8, <2>1, <2>2, <2>5 DEF FactsOk, Appends
  <2>8. memory' = [f \in {"MEMORY", "USER"} |-> memory'[f]]
    BY <1>6, <2>1
  <2> QED
    BY <1>1, <1>2, <2>6, <2>7, <2>8, MemoryCallAlone
<1>14. CASE MemoryFileFails(a)
  <2>1. at = "open" /\ UNCHANGED <<memory, answered>> /\ Reply(a, "raised")
    BY <1>4, <1>14 DEF MemoryFileFails, In
  <2>2. \A w \in ToldOf("memory")' : w.op \in MemoryOps /\ w.what \in memory'[w.op.file]
    BY <1>7, <2>1 DEF ToldOf
  <2> QED
    BY <1>1, <1>2, <1>6, <1>10, <2>1, <2>2, MemoryCallAlone
<1>15. CASE WriteMemory(a)
  <2>1. at = "write" /\ Reply(a, "done")
    BY <1>4, <1>15 DEF WriteMemory, In
  <2>2. PICK rest \in {{}, memory[file]} : memory' = [memory EXCEPT ![file] = facts \cup rest]
    BY <1>4, <1>15 DEF WriteMemory
  <2>3. /\ memory'[file] = facts \cup rest
        /\ \A f \in {"MEMORY", "USER"} : f # file => memory'[f] = memory[f]
        /\ memory' = [f \in {"MEMORY", "USER"} |-> memory'[f]]
    BY <1>5, <1>6, <2>2
  <2>4. /\ fact \in facts
        /\ Appends(a) => \A w \in ToldOf("memory") : w.op.file = file => w.what \in facts
    BY <1>4, <1>8, <2>1 DEF FactsOk
  <2>5. ASSUME NEW w \in ToldOf("memory")'
        PROVE  w.op \in MemoryOps /\ w.what \in memory'[w.op.file]
    <3>1. CASE w.op = job[a].op /\ w.what = fact
      BY <1>1, <1>4, <2>3, <2>4, <3>1
    <3>2. CASE ~ (w.op = job[a].op /\ w.what = fact)
      <4>1. w \in answered /\ w.op.store = "memory" /\ (Appends(a) \/ w.op.file # file)
        BY <1>4, <1>15, <3>2 DEF WriteMemory, ToldFact, ToldOf
      <4>2. w \in ToldOf("memory")
        BY <4>1 DEF ToldOf
      <4>3. CASE w.op.file = file
        BY <1>7, <2>3, <2>4, <4>1, <4>2, <4>3
      <4>4. CASE w.op.file # file
        BY <1>7, <2>3, <4>2, <4>4
      <4> QED
        BY <4>3, <4>4
    <3> QED
      BY <3>1, <3>2
  <2> QED
    BY <1>1, <1>2, <1>10, <2>1, <2>3, <2>5, MemoryCallAlone
<1> QED
  BY <1>11, <1>12, <1>13, <1>14, <1>15 DEF MemoryStep

-----------------------------------------------------------------------------
(***************************************************************************)
(* What callers are told, of all the stores together.                      *)
(***************************************************************************)

ToldInv == Alone("plans") /\ Alone("memory") /\ TasksTold /\ PlansTold /\ MemoryTold

LEMMA ToldInitInv == HostInit /\ MemoryInit => ToldInv
<1> SUFFICES ASSUME HostInit, MemoryInit PROVE ToldInv
  OBVIOUS
<1>1. \A a \in Actors : job[a] = Idle
  BY AllIdle DEF HostInit
<1>2. \A a \in Actors : /\ ~ InCall(a) /\ ~ Saves(job[a])
                        /\ ~ In(a, "memory", "open") /\ ~ In(a, "memory", "write")
  BY <1>1, IdleProper DEF InCall, Saves, In
<1>3. answered = {} /\ \A s : ToldOf(s) = {}
  BY DEF HostInit, ToldOf
<1>4. TasksTold
  BY <1>2, <1>3 DEF TasksTold, TasksKept
<1>5. PlansAsTold
  BY <1>2, <1>3 DEF PlansAsTold, Underway, Busy
<1>6. MemoryAsTold
  BY <1>2, <1>3 DEF MemoryAsTold, MemoryInit
<1> QED
  BY <1>2, <1>4, <1>5, <1>6 DEF ToldInv, Alone, Busy, PlansTold, MemoryTold

\* A step that is no business of plans or memory.
LEMMA ToldAside ==
  ASSUME ToldInv, TasksTold', disturbed \subseteq disturbed', UNCHANGED <<doc, planIndex, memory>>,
         \A s \in {"plans", "memory"} :
           (s \notin disturbed' => Aside(s)) /\ \A b \in Actors : Busy(b, s)' => Busy(b, s)
  PROVE  ToldInv'
<1> DEFINE p == "plans"
           m == "memory"
<1>1. p \in {p, m} /\ m \in {p, m} /\ Alone(p) /\ Alone(m)
  BY DEF ToldInv
<1>2. \A s \in {p, m} : (s \notin disturbed' => Aside(s)) /\ \A b \in Actors : Busy(b, s)' => Busy(b, s)
  OBVIOUS
<1> HIDE DEF p, m
<1>3. Alone(p)' /\ Alone(m)'
  BY <1>1, <1>2, AloneSame
<1> USE DEF p, m
<1>4. PlansTold'
  BY <1>2, PlansAside DEF ToldInv, PlansTold
<1>5. MemoryTold'
  BY <1>2, MemoryAside DEF ToldInv, MemoryTold
<1> QED
  BY <1>3, <1>4, <1>5 DEF ToldInv

\* A call that begins, or is over, has not read or written anything.
LEMMA ToldBegins ==
  ASSUME ToldInv, Jobs, NEW a \in Actors, NEW op \in Ops, Begin(a, op),
         UNCHANGED <<answered, tasks, doc, planIndex, memory>>
  PROVE  ToldInv'
<1>1. job'[a] = Job(op, "start", None, "done") /\ OnlyJob(a) /\ job[a].at = "idle"
  BY BeginJobs DEF Begin
<1>2. ASSUME NEW s
      PROVE  Aside(s)
  BY <1>1 DEF Aside, ToldOf, OnlyJob, Underway, Busy, InCall, Job
<1>3. disturbed \subseteq disturbed'
  BY AloneBegins DEF Begin
<1> DEFINE p == "plans"
           m == "memory"
           t == "tasks"
<1>4. Alone(p) /\ Alone(m)
  BY DEF ToldInv
<1> HIDE DEF p, m, t
<1>5. Alone(p)' /\ Alone(m)' /\ Aside(p) /\ Aside(m) /\ Aside(t)
  BY <1>2, <1>4, AloneBegins
<1> USE DEF p, m, t
<1>6. TasksTold' /\ PlansTold' /\ MemoryTold'
  BY <1>3, <1>5, TasksAside, PlansAside, MemoryAside DEF ToldInv
<1> QED
  BY <1>5, <1>6 DEF ToldInv

LEMMA ToldOver ==
  ASSUME ToldInv, Jobs, NEW a \in Actors, job[a].at = "replied", job' = [job EXCEPT ![a] = Idle],
         UNCHANGED <<answered, disturbed, tasks, doc, planIndex, memory>>
  PROVE  ToldInv'
<1>1. job'[a].at = "idle" /\ OnlyJob(a)
  BY IdleJobs, IdleProper
<1>2. ASSUME NEW s
      PROVE  Aside(s) /\ \A b \in Actors : Busy(b, s)' => Busy(b, s)
  BY <1>1 DEF Aside, ToldOf, OnlyJob, Underway, Busy, InCall
<1> DEFINE t == "tasks"
<1> HIDE DEF t
<1>3. Aside(t)
  BY <1>2
<1> USE DEF t
<1>4. TasksTold'
  BY <1>3, TasksAside DEF ToldInv
<1> QED
  BY <1>2, <1>4, ToldAside

\* A crash: what it cut short is disturbed, and the tasks are as they were.
LEMMA ToldCrash ==
  ASSUME ToldInv, HostCrash, UNCHANGED <<tasks, doc, planIndex, memory>>
  PROVE  ToldInv'
<1>1. \A s : /\ disturbed \subseteq disturbed' /\ \A b \in Actors : ~ Busy(b, s)'
             /\ s \notin disturbed' => Aside(s)
  BY CrashAside
<1>2. \A b \in Actors : ~ Saves(job'[b])
  BY CrashJobs, IdleProper DEF Saves
<1>3. answered' = answered
  BY DEF HostCrash
<1>4. TasksTold'
  BY <1>2, <1>3 DEF ToldInv, TasksTold, TasksKept, Deleted, ToldOf
<1> QED
  BY <1>1, <1>4, ToldAside

\* A step of a call tells nobody of another store.
LEMMA StepTells ==
  ASSUME Jobs, NEW a \in Actors, TaskStep(a) \/ PlanStep(a) \/ MemoryStep(a) \/ FileStep(a)
  PROVE  /\ disturbed \subseteq disturbed' /\ InCall(a)
         /\ \A s : job[a].op.store # s => ToldOf(s)' = ToldOf(s)
<1>1. CASE TaskStep(a)
  <2>1. disturbed' = disturbed /\ InCall(a)
    BY <1>1 DEF TaskStep, TaskRefused, TaskLoad, TaskLoadFails, TaskReplace, TaskSaveFails, InCall, In
  <2>2. answered' = answered \/ Told(a, job[a].got.id)
    BY <1>1 DEF TaskStep, TaskRefused, TaskLoad, TaskLoadFails, TaskReplace, TaskSaveFails
  <2> QED
    BY <2>1, <2>2 DEF Told, ToldOf
<1>2. CASE PlanStep(a)
  <2> USE DEF planStore, PlanUnchanged
  <2>1. InCall(a)
    BY <1>2 DEF PlanStep, NewPlan, LoadPlan, PlanNotFound, OpenPlan, PlanFileFails, WritePlan, ReadIndex,
       IndexUnreadable, ReplaceIndex, ReplaceFails, IndexFileFails, In, InCall
  <2>2. disturbed \subseteq disturbed' /\ (answered' = answered \/ Told(a, job[a].got.plan))
    BY <1>2 DEF PlanStep, NewPlan, LoadPlan, PlanNotFound, OpenPlan, PlanFileFails, WritePlan, ReadIndex,
       IndexUnreadable, ReplaceIndex, ReplaceFails, IndexFileFails
  <2> QED
    BY <2>1, <2>2 DEF Told, ToldOf
<1>3. CASE MemoryStep(a)
  <2> USE DEF MemoryUnchanged
  <2>1. disturbed \subseteq disturbed' /\ InCall(a)
    BY <1>3 DEF MemoryStep, MergeFacts, MemoryUnreadable, OpenMemory, MemoryFileFails, WriteMemory, In,
       InCall
  <2>2. answered' = answered \/ ToldFact(a)
    BY <1>3 DEF MemoryStep, MergeFacts, MemoryUnreadable, OpenMemory, MemoryFileFails, WriteMemory
  <2>3. job[a].op.store = "memory"
    BY <1>3, MemoryStepJobs DEF MemoryOps
  <2> QED
    BY <2>1, <2>2, <2>3 DEF ToldFact, ToldOf
<1>4. CASE FileStep(a)
  BY <1>4 DEF FileStep, FileUnreadable, FileRefused, FileResolved, FileWritten, FileFails, FilesUnchanged,
     In, InCall, ToldOf
<1> QED
  BY <1>1, <1>2, <1>3, <1>4

\* A step of a call keeps what was said of every store.
LEMMA ToldStep ==
  ASSUME ToldInv, Jobs, TaskInv, PlanInv, FilesInv, NEW a \in Actors,
         \/ TaskStep(a) /\ UNCHANGED <<planStore, memoryStore>>
         \/ PlanStep(a) /\ UNCHANGED <<taskStore, memoryStore>>
         \/ MemoryStep(a) /\ UNCHANGED <<taskStore, planStore>>
         \/ FileStep(a) /\ UNCHANGED <<taskStore, planStore, memoryStore>>
  PROVE  ToldInv'
<1> USE DEF taskStore, planStore, memoryStore
<1>1. OnlyJob(a) /\ job'[a].op = job[a].op /\ job[a].op \in Ops
  BY TaskStepInv, PlanStepInv, MemoryStepJobs, FileStepInv DEF Ops
<1>2. /\ disturbed \subseteq disturbed' /\ InCall(a)
      /\ \A s : job[a].op.store # s => ToldOf(s)' = ToldOf(s)
  BY StepTells
<1>3. ASSUME NEW s
      PROVE  \A b \in Actors : Busy(b, s)' => Busy(b, s)
  BY <1>1, <1>2 DEF Busy, InCall, OnlyJob
<1>4. ASSUME NEW s, job[a].op.store # s
      PROVE  Aside(s)
  BY <1>1, <1>2, <1>4, CallsAside
<1> DEFINE p == "plans"
           m == "memory"
           t == "tasks"
<1>5. Alone(p) /\ Alone(m)
  BY DEF ToldInv
<1> HIDE DEF p, m, t
<1>6. Alone(p)' /\ Alone(m)'
  BY <1>2, <1>3, <1>5, AloneSame
<1>7. /\ job[a].op.store # p => Aside(p)
      /\ job[a].op.store # m => Aside(m)
      /\ job[a].op.store # t => Aside(t)
  BY <1>4
<1> USE DEF p, m, t
<1>8. TasksTold'
  <2>1. CASE TaskStep(a)
    BY <2>1, TaskStepTold DEF ToldInv
  <2>2. CASE ~ TaskStep(a)
    <3>1. job[a].op.store # "tasks" /\ tasks' = tasks
      BY <2>2, PlanStepInv, MemoryStepJobs, FileStepInv DEF PlanOps, MemoryOps, FileOps
    <3> QED
      BY <1>7, <3>1, TasksAside DEF ToldInv
  <2> QED
    BY <2>1, <2>2
<1>9. PlansTold'
  <2>1. CASE PlanStep(a)
    BY <2>1, PlanStepTold DEF ToldInv
  <2>2. CASE ~ PlanStep(a)
    <3>1. job[a].op.store # "plans" /\ UNCHANGED <<doc, planIndex>>
      BY <2>2, TaskStepInv, MemoryStepJobs, FileStepInv DEF TaskOps, MemoryOps, FileOps
    <3> QED
      BY <1>2, <1>7, <3>1, PlansAside DEF ToldInv
  <2> QED
    BY <2>1, <2>2
<1>10. MemoryTold'
  <2>1. CASE MemoryStep(a)
    BY <2>1, MemoryStepTold DEF ToldInv
  <2>2. CASE ~ MemoryStep(a)
    <3>1. job[a].op.store # "memory" /\ memory' = memory
      BY <2>2, TaskStepInv, PlanStepInv, FileStepInv DEF TaskOps, PlanOps, FileOps
    <3> QED
      BY <1>2, <1>7, <3>1, MemoryAside DEF ToldInv
  <2> QED
    BY <2>1, <2>2
<1> QED
  BY <1>6, <1>8, <1>9, <1>10 DEF ToldInv

\* The invariant is what callers were told.
LEMMA ToldIsKept == ToldInv => TasksKept /\ PlansKept /\ MemoryKept
BY DEF ToldInv, TasksTold, PlansTold, PlansAsTold, PlansKept, MemoryTold, MemoryAsTold, MemoryKept,
       ToldOf, Indexed, AtWork, Underway

-----------------------------------------------------------------------------
(***************************************************************************)
(* What callers of a store by itself are told: anyone calls it at any      *)
(* time, the run among them, and in the task list under any call id.       *)
(***************************************************************************)

\* What happens to the calls of a store between their steps.
LEMMA BetweenSteps ==
  ASSUME Jobs, NEW a \in Actors, NEW s,
         \/ \E op \in Ops : Begin(a, op)
         \/ job[a].at = "replied" /\ job' = [job EXCEPT ![a] = Idle] /\ disturbed' = disturbed,
         answered' = answered
  PROVE  Aside(s) /\ disturbed \subseteq disturbed' /\ (Alone(s) => Alone(s)')
<1>1. ASSUME NEW op \in Ops, Begin(a, op)
      PROVE  Aside(s) /\ disturbed \subseteq disturbed' /\ (Alone(s) => Alone(s)')
  <2>1. job'[a] = Job(op, "start", None, "done") /\ OnlyJob(a) /\ job[a].at = "idle"
    BY <1>1, BeginJobs DEF Begin
  <2>2. Aside(s)
    BY <2>1 DEF Aside, ToldOf, OnlyJob, Underway, Busy, InCall, Job
  <2>3. disturbed \subseteq disturbed'
    BY <1>1 DEF Begin
  <2>4. Alone(s) => Alone(s)'
    BY <1>1, AloneBegins
  <2> QED
    BY <2>2, <2>3, <2>4
<1>2. ASSUME job[a].at = "replied", job' = [job EXCEPT ![a] = Idle], disturbed' = disturbed
      PROVE  Aside(s) /\ disturbed \subseteq disturbed' /\ (Alone(s) => Alone(s)')
  <2>1. job'[a].at = "idle" /\ OnlyJob(a)
    BY <1>2, IdleJobs, IdleProper
  <2>2. Aside(s) /\ \A b \in Actors : Busy(b, s)' => Busy(b, s)
    BY <1>2, <2>1 DEF Aside, ToldOf, OnlyJob, Underway, Busy, InCall
  <2> QED
    BY <1>2, <2>2, AloneSame
<1> QED
  BY <1>1, <1>2

LEMMA TasksToldNext == Jobs /\ TaskInv /\ TasksTold /\ [TaskNext]_<<host, taskStore>> => TasksTold'
<1> SUFFICES ASSUME Jobs, TaskInv, TasksTold, [TaskNext]_<<host, taskStore>>
             PROVE  TasksTold'
  OBVIOUS
<1>1. CASE HostCrash /\ TaskCrash
  <2>1. (\A b \in Actors : ~ Saves(job'[b])) /\ answered' = answered /\ tasks' = tasks
    BY <1>1, CrashJobs, IdleProper DEF Saves, HostCrash, TaskCrash
  <2> QED
    BY <2>1 DEF TasksTold, TasksKept, Deleted, ToldOf
<1>2. ASSUME NEW a \in Actors, TaskCall(a) \/ TaskReturn(a)
      PROVE  TasksTold'
  <2>1. \/ \E op \in Ops : Begin(a, op)
        \/ job[a].at = "replied" /\ job' = [job EXCEPT ![a] = Idle] /\ disturbed' = disturbed
    BY <1>2 DEF TaskCall, TaskReturn, Ops
  <2>2. answered' = answered /\ tasks' = tasks
    BY <1>2 DEF TaskCall, TaskReturn, taskStore
  <2>3. Aside("tasks")
    <3> DEFINE s == "tasks"
    <3> HIDE DEF s
    <3>1. Aside(s)
      BY <2>1, <2>2, BetweenSteps
    <3> QED
      BY <3>1 DEF s
  <2> QED
    BY <2>2, <2>3, TasksAside
<1>3. ASSUME NEW a \in Actors, TaskStep(a)
      PROVE  TasksTold'
  BY <1>3, TaskStepTold
<1>4. CASE UNCHANGED <<host, taskStore>>
  <2>1. UNCHANGED <<job, answered, tasks>>
    BY <1>4 DEF host, taskStore
  <2> QED
    BY <2>1 DEF TasksTold, TasksKept, Deleted, ToldOf, SaveMeans
<1> QED
  BY <1>1, <1>2, <1>3, <1>4 DEF TaskNext

\* What a caller of the task list was told is done stays done, with any number
\* of callers at once and any failures and crashes (tasks.py, tasks).
THEOREM TaskSpecKeeps == TaskSpec => []TasksKept
<1>1. HostInit /\ TaskInit => TasksTold
  <2> SUFFICES ASSUME HostInit, TaskInit PROVE TasksTold
    OBVIOUS
  <2>1. \A a \in Actors : ~ Saves(job[a])
    BY AllIdle, IdleProper DEF HostInit, Saves
  <2> QED
    BY <2>1 DEF HostInit, TasksTold, TasksKept, ToldOf
<1>2. TasksTold => TasksKept
  BY DEF TasksTold
<1> QED
  BY <1>1, <1>2, TaskInitInv, TaskNextInv, TasksToldNext, PTL DEF TaskSpec

LEMMA PlansToldNext ==
  Jobs /\ PlanInv /\ Alone("plans") /\ PlansTold
    /\ [PlanCrash \/ \E a \in Actors : PlanCall(a) \/ PlanStep(a) \/ PlanReturn(a)]_<<host, planStore>>
    => Alone("plans")' /\ PlansTold'
<1> DEFINE s == "plans"
<1> SUFFICES ASSUME Jobs, PlanInv, Alone(s), PlansTold,
                    [PlanCrash \/ \E a \in Actors : PlanCall(a) \/ PlanStep(a) \/ PlanReturn(a)]_<<host, planStore>>
             PROVE  Alone(s)' /\ PlansTold'
  OBVIOUS
<1>0. ASSUME Aside(s), UNCHANGED <<doc, planIndex>>, disturbed \subseteq disturbed'
      PROVE  PlansTold'
  BY <1>0, PlansAside
<1> HIDE DEF s
<1>1. CASE PlanCrash
  <2>1. HostCrash /\ UNCHANGED <<doc, planIndex>>
    BY <1>1 DEF PlanCrash, planStore
  <2>2. /\ disturbed \subseteq disturbed' /\ \A b \in Actors : ~ Busy(b, s)'
        /\ s \notin disturbed' => Aside(s)
    BY <2>1, CrashAside
  <2>3. Alone(s)'
    BY <2>2, AloneSame
  <2>4. s \in disturbed' => PlansTold'
    BY DEF s, PlansTold
  <2> QED
    BY <1>0, <2>1, <2>2, <2>3, <2>4
<1>2. ASSUME NEW a \in Actors, PlanCall(a) \/ PlanReturn(a)
      PROVE  Alone(s)' /\ PlansTold'
  <2>1. \/ \E op \in Ops : Begin(a, op)
        \/ job[a].at = "replied" /\ job' = [job EXCEPT ![a] = Idle] /\ disturbed' = disturbed
    BY <1>2 DEF PlanCall, PlanReturn, PlanUnchanged, Ops
  <2>2. answered' = answered /\ UNCHANGED <<doc, planIndex>>
    BY <1>2 DEF PlanCall, PlanReturn, PlanUnchanged, planStore
  <2>3. Aside(s) /\ disturbed \subseteq disturbed' /\ Alone(s)'
    BY <2>1, <2>2, BetweenSteps
  <2> QED
    BY <1>0, <2>2, <2>3
<1>3. ASSUME NEW a \in Actors, PlanStep(a)
      PROVE  Alone(s)' /\ PlansTold'
  <2>1. OnlyJob(a) /\ job'[a].op = job[a].op
    BY <1>3, PlanStepInv
  <2>2. disturbed \subseteq disturbed' /\ InCall(a)
    BY <1>3, StepTells
  <2>3. \A b \in Actors : Busy(b, s)' => Busy(b, s)
    BY <2>1, <2>2 DEF Busy, InCall, OnlyJob
  <2>4. Alone(s)'
    BY <2>2, <2>3, AloneSame
  <2> QED
    BY <1>3, <2>4, PlanStepTold DEF s
<1>4. CASE UNCHANGED <<host, planStore>>
  <2>1. UNCHANGED <<job, answered, disturbed, doc, planIndex>>
    BY <1>4 DEF host, planStore
  <2>2. Aside(s) /\ \A b \in Actors : Busy(b, s)' => Busy(b, s)
    BY <2>1 DEF Aside, ToldOf, Underway, Busy, InCall
  <2> QED
    BY <1>0, <2>1, <2>2, AloneSame
<1> QED
  BY <1>1, <1>2, <1>3, <1>4 DEF s

\* A plan that a caller was told of is in its file and in the index while no two
\* calls overlapped, none was cut short and no file operation failed, whoever
\* calls and however often (plan/storage.py, save).
THEOREM PlanSpecKeeps == PlanSpec => []PlansKept
<1>1. HostInit /\ PlanInit => Alone("plans") /\ PlansTold
  <2> SUFFICES ASSUME HostInit PROVE Alone("plans") /\ PlansTold
    OBVIOUS
  <2>1. \A a \in Actors : ~ InCall(a)
    BY AllIdle, IdleProper DEF HostInit, InCall
  <2> QED
    BY <2>1 DEF HostInit, Alone, PlansTold, PlansAsTold, ToldOf, Underway, Busy
<1>2. PlansTold => PlansKept
  BY DEF PlansTold, PlansAsTold, PlansKept, ToldOf, Indexed, AtWork, Underway
<1> QED
  BY <1>1, <1>2, PlanInitInv, PlanNextInv, PlansToldNext, PTL DEF PlanSpec
=============================================================================
