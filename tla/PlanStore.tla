----------------------------- MODULE PlanStore ------------------------------
(***************************************************************************)
(* Plans (plan/storage.py, tools/create_plan.py, tools/plan_step.py): a    *)
(* JSON file per plan, loaded, changed and written over in place, then the *)
(* index file read and replaced.  There is no lock: two calls interleave   *)
(* at every file operation, and a crash leaves a file half written.        *)
(***************************************************************************)
EXTENDS ToolHost

CONSTANTS MaxPlans,  \* bound: plans created
          MaxSteps   \* bound: steps of a plan

ASSUME PlanAssumption == MaxPlans \in Nat /\ MaxSteps \in Nat

VARIABLES
  doc,        \* what the plan's file holds
  planIndex,  \* the entries of index.json
  nextPlan    \* the next id: uuid4

planStore == <<doc, planIndex, nextPlan>>

Plans == 1..MaxPlans

StepStatus == {"pending", "in_progress", "completed", "blocked", "failed"}
PlanStatus == {"drafting", "active", "completed", "failed"}

Plan == [status : PlanStatus, steps : Seq(StepStatus)]

\* No file, an empty one, or one that no JSON reader accepts.
Unreadable(how) == [status |-> how, steps |-> <<>>]

Whole(p) == doc[p].status \in PlanStatus

PlanOps ==
  [store : {"plans"}, kind : {"create"}, plan : {0}, step : 0..MaxSteps, status : {"pending"}] \cup
  [store : {"plans"}, kind : {"add"}, plan : Plans, step : {0}, status : {"pending"}] \cup
  [store : {"plans"}, kind : {"update"}, plan : Plans, step : 1..MaxSteps, status : StepStatus]

PlanInit ==
  /\ doc = [p \in Plans |-> Unreadable("none")]
  /\ planIndex = {}
  /\ nextPlan = 1

-----------------------------------------------------------------------------
(***************************************************************************)
(* The status of a plan follows from its steps.                            *)
(***************************************************************************)

Created(n) == [status |-> "drafting", steps |-> [i \in 1..n |-> "pending"]]

StepAdded(plan) ==
  [status |-> IF plan.status = "drafting" THEN "active" ELSE plan.status,
   steps  |-> Append(plan.steps, "pending")]

AllCompleted(steps) == Len(steps) > 0 /\ \A i \in DOMAIN steps : steps[i] = "completed"

\* Mutant: work on a step revives any plan.
RevivesAny(status, plan) == status \in {"in_progress", "pending"}

Revives(status, plan) ==
  status \in {"in_progress", "pending"} /\ plan \in {"drafting", "completed"}

StatusAfter(plan, status, steps) ==
  IF status = "failed" THEN "failed"
  ELSE IF AllCompleted(steps) THEN "completed"
  ELSE IF Revives(status, plan) THEN "active"
  ELSE plan

StepUpdated(plan, i, status) ==
  LET steps == [plan.steps EXCEPT ![i] = status]
  IN [status |-> StatusAfter(plan.status, status, steps), steps |-> steps]

-----------------------------------------------------------------------------
PlanUnchanged == UNCHANGED <<ctx, callId, owner, answered, disturbed, faults>>

NewPlan(a) ==
  /\ In(a, "plans", "start") /\ job[a].op.kind = "create"
  /\ nextPlan \in Plans
  /\ nextPlan' = nextPlan + 1
  /\ Goes(a, "open", [plan |-> nextPlan, doc |-> Created(job[a].op.step), index |-> {}])
  /\ UNCHANGED <<doc, planIndex>> /\ PlanUnchanged

Editable(op) == Whole(op.plan) /\ (op.kind = "update" => op.step <= Len(doc[op.plan].steps))

Edited(op) ==
  IF op.kind = "add" THEN StepAdded(doc[op.plan])
                     ELSE StepUpdated(doc[op.plan], op.step, op.status)

LoadPlan(a) ==
  LET op == job[a].op
  IN /\ In(a, "plans", "start") /\ op.kind # "create"
     /\ Editable(op)
     /\ Goes(a, "open", [plan |-> op.plan, doc |-> Edited(op), index |-> {}])
     /\ UNCHANGED planStore /\ PlanUnchanged

\* load() takes a file it cannot read for a plan that does not exist.
PlanNotFound(a) ==
  /\ In(a, "plans", "start") /\ job[a].op.kind # "create"
  /\ ~ Editable(job[a].op)
  /\ Reply(a, "refused")
  /\ UNCHANGED planStore /\ PlanUnchanged

\* open(path, "w") empties the file.
OpenPlan(a) ==
  /\ In(a, "plans", "open")
  /\ doc' = [doc EXCEPT ![job[a].got.plan] = Unreadable("empty")]
  /\ Goes(a, "write", job[a].got)
  /\ UNCHANGED <<planIndex, nextPlan>> /\ PlanUnchanged

\* OSError: a file already emptied stays empty.
PlanFileFails(a) ==
  /\ In(a, "plans", "open") \/ In(a, "plans", "write")
  /\ FileFault
  /\ Reply(a, "raised")
  /\ disturbed' = disturbed \cup (IF job[a].at = "write" THEN {"plans"} ELSE {})
  /\ UNCHANGED planStore /\ UNCHANGED <<ctx, callId, owner, answered>>

\* Over what another call wrote meanwhile, the rest of a longer text stays.
WritePlan(a) ==
  LET p == job[a].got.plan
  IN /\ In(a, "plans", "write")
     /\ \E d \in {job[a].got.doc} \cup (IF doc[p].status = "empty" THEN {} ELSE {Unreadable("garbled")}) :
          doc' = [doc EXCEPT ![p] = d]
     /\ Goes(a, "index", job[a].got)
     /\ UNCHANGED <<planIndex, nextPlan>> /\ PlanUnchanged

Summary(a) == [plan |-> job[a].got.plan, status |-> job[a].got.doc.status]

Reindexed(a, entries) == { e \in entries : e.plan # job[a].got.plan } \cup {Summary(a)}

ReadIndex(a) ==
  /\ In(a, "plans", "index")
  /\ Goes(a, "save_index", [job[a].got EXCEPT !.index = Reindexed(a, planIndex)])
  /\ UNCHANGED planStore /\ PlanUnchanged

\* An index that cannot be read counts as empty.
IndexUnreadable(a) ==
  /\ In(a, "plans", "index")
  /\ FileFault
  /\ Goes(a, "save_index", [job[a].got EXCEPT !.index = Reindexed(a, {})])
  /\ disturbed' = disturbed \cup {"plans"}
  /\ UNCHANGED planStore /\ UNCHANGED <<ctx, callId, owner, answered>>

ReplaceIndex(a) ==
  /\ In(a, "plans", "save_index")
  /\ planIndex' = job[a].got.index
  /\ Told(a, job[a].got.plan)
  /\ Reply(a, "done")
  /\ UNCHANGED <<doc, nextPlan, ctx, callId, owner, disturbed, faults>>

\* _save_index swallows the error: the caller is told that all went well.
ReplaceFails(a) ==
  /\ In(a, "plans", "save_index")
  /\ FileFault
  /\ Told(a, job[a].got.plan)
  /\ Reply(a, "done")
  /\ disturbed' = disturbed \cup {"plans"}
  /\ UNCHANGED planStore /\ UNCHANGED <<ctx, callId, owner>>

\* mkstemp stands before the try: the caller gets its error.
IndexFileFails(a) ==
  /\ In(a, "plans", "save_index")
  /\ FileFault
  /\ Reply(a, "raised")
  /\ disturbed' = disturbed \cup {"plans"}
  /\ UNCHANGED planStore /\ UNCHANGED <<ctx, callId, owner, answered>>

PlanStep(a) ==
  \/ NewPlan(a) \/ LoadPlan(a) \/ PlanNotFound(a)
  \/ OpenPlan(a) \/ PlanFileFails(a) \/ WritePlan(a)
  \/ ReadIndex(a) \/ IndexUnreadable(a) \/ ReplaceIndex(a) \/ ReplaceFails(a)
  \/ IndexFileFails(a)

-----------------------------------------------------------------------------
(***************************************************************************)
(* The store by itself, called by anyone at any time.                      *)
(***************************************************************************)

PlanCall(a) ==
  /\ \E op \in PlanOps : Begin(a, op)
  /\ UNCHANGED planStore /\ UNCHANGED <<ctx, callId, owner, answered, faults>>

PlanReturn(a) ==
  /\ job[a].at = "replied"
  /\ job' = [job EXCEPT ![a] = Idle]
  /\ UNCHANGED planStore /\ PlanUnchanged

PlanCrash == HostCrash /\ UNCHANGED planStore

PlanSpec ==
  /\ HostInit /\ PlanInit
  /\ [][PlanCrash \/ \E a \in Actors : PlanCall(a) \/ PlanStep(a) \/ PlanReturn(a)]_<<host, planStore>>

\* A plan that can be read says what its steps say, whatever calls overlapped
\* and whatever writes were cut short: one with a failed step has failed, one
\* whose steps are all done is completed (tools/plan_step.py, update_step).
FollowsSteps(plan) ==
  /\ (\E i \in DOMAIN plan.steps : plan.steps[i] = "failed") => plan.status = "failed"
  /\ AllCompleted(plan.steps) => plan.status = "completed"

PlanStatusFollows == \A p \in Plans : Whole(p) => FollowsSteps(doc[p])

\* A plan that a caller was told of is in its file and in the index, unless a
\* call is at work on it or something went wrong (plan/storage.py, save).
PlansKept ==
  "plans" \notin disturbed =>
    \A w \in answered : w.op.store = "plans" =>
      \/ \E a \in Actors : Busy(a, "plans")
      \/ Whole(w.what) /\ [plan |-> w.what, status |-> doc[w.what].status] \in planIndex
=============================================================================
