----------------------------- MODULE Evaluation -----------------------------
(***************************************************************************)
(* The evaluation harness (evaluation/runner.py, evaluation/judges.py) and *)
(* the result it reads (engine.py, _extract_result and _extract_metrics):  *)
(* a task runs its prompts on one thread, each under a timeout, and is     *)
(* judged on the runs together; a run that raises fails the task.          *)
(***************************************************************************)
EXTENDS RunTrace, SequencesExt

CONSTANTS NumTasks,   \* bound: tasks
          MaxPrompts, \* bound: prompts of a task
          Assertions  \* of every task

\* Of evaluate_assertions, those that judge a trace, calls or metrics.
AssertionTypes ==
  {"tool_called", "tool_not_called", "tool_called_any", "tool_sequence", "trace_has", "event_order",
   "trace_contract", "next_action_is", "no_tool_errors", "metric_eq", "metric_lte", "metric_gte"}

ASSUME EvaluationAssumption ==
  \A a \in Assertions : a.type \in AssertionTypes /\ a.names \in Seq(ToSet(a.names))

VARIABLES
  fits,      \* RuntimeFeatures has a field for all that run_task gives it
  stage,     \* of run_evaluation
  taskNo,    \* tasks started
  prompts,   \* prompts of the task
  requested, \* the tool names in the thread's messages
  results,   \* of run_task
  raised,    \* run_task caught an exception
  total,     \* what really happened in the task's completed runs
  used       \* tools really requested in them

harnessVars == <<fits, stage, taskNo, prompts, requested, results, raised, total, used>>

\* run_task gives RuntimeFeatures a "compression", which it does not have: in
\* this version fits is FALSE; it is TRUE of an engine with that feature.
EvaluationInit ==
  /\ fits \in BOOLEAN
  /\ stage = "between" /\ taskNo = 0 /\ prompts = 0
  /\ requested = <<>> /\ results = <<>> /\ raised = FALSE
  /\ total = Nothing /\ used = {}

-----------------------------------------------------------------------------
(***************************************************************************)
(* The result of a run.                                                    *)
(***************************************************************************)

Places(evs, e) == { i \in DOMAIN evs : evs[i].event = e }

Metrics(evs) ==
  [turns   |-> Cardinality(Places(evs, "turn_start")),
   answers |-> Cardinality(Places(evs, "llm_end")),
   calls   |-> Cardinality(Places(evs, "tool_call")),
   errors  |-> Cardinality({ i \in Places(evs, "tool_result") : ~ evs[i].ok }),
   retries |-> Cardinality(Places(evs, "llm_retry"))]

\* The calls are those of all messages of the thread, not of this run.
RunResult ==
  [events |-> events, metrics |-> Metrics(events), calls |-> requested, next |-> outcome]

-----------------------------------------------------------------------------
(***************************************************************************)
(* The results of a task, together.                                        *)
(***************************************************************************)

Plus(m, n) == [f \in DOMAIN m |-> m[f] + n[f]]

\* Mutant: the metrics of the last run stand for the task.
LastMetrics(rs) == IF rs = <<>> THEN Nothing ELSE Last(rs).metrics

CombineMetrics(rs) == FoldLeft(LAMBDA m, r : Plus(m, r.metrics), Nothing, rs)

CombineResults(rs) ==
  [events  |-> FlattenSeq([i \in DOMAIN rs |-> rs[i].events]),
   calls   |-> FlattenSeq([i \in DOMAIN rs |-> rs[i].calls]),
   metrics |-> CombineMetrics(rs),
   next    |-> Last(rs).next]

-----------------------------------------------------------------------------
(***************************************************************************)
(* The judges.                                                             *)
(***************************************************************************)

\* How many of the expected names appear, looking for one after the other.
Cursor(expected, names) ==
  FoldLeft(LAMBDA c, x : IF c < Len(expected) /\ x = expected[c + 1] THEN c + 1 ELSE c, 0, names)

InOrder(expected, names) == Cursor(expected, names) = Len(expected)

EventNames(evs) == [i \in DOMAIN evs |-> evs[i].event]

InTurn(evs, e, t) == { i \in Places(evs, e) : evs[i].turn = t }

ToolKeys(evs, e) == { <<evs[i].turn, evs[i].n, evs[i].name>> : i \in Places(evs, e) }

\* trace_contract: "end", an llm_end for every llm_start of a turn, a result for
\* every call, a release for an acquired sandbox.
ContractHolds(evs, requireEnd) ==
  /\ requireEnd => Places(evs, "end") # {}
  /\ \A i \in Places(evs, "llm_start") :
       Cardinality(InTurn(evs, "llm_start", evs[i].turn)) = Cardinality(InTurn(evs, "llm_end", evs[i].turn))
  /\ ToolKeys(evs, "tool_call") \subseteq ToolKeys(evs, "tool_result")
  /\ (requireEnd /\ Places(evs, "sandbox_acquired") # {}) => Places(evs, "sandbox_released") # {}

Compare(type, x, y) ==
  CASE type = "metric_eq" -> x = y [] type = "metric_lte" -> x <= y [] type = "metric_gte" -> x >= y

Holds(a, r) ==
  CASE a.type = "tool_called"     -> ToSet(a.names) \subseteq ToSet(r.calls)
    [] a.type = "tool_not_called" -> ToSet(a.names) \cap ToSet(r.calls) = {}
    [] a.type = "tool_called_any" -> ToSet(a.names) \cap ToSet(r.calls) # {}
    [] a.type = "tool_sequence"   -> InOrder(a.names, r.calls)
    [] a.type = "trace_has"       -> \A e \in ToSet(a.names) : Places(r.events, e) # {}
    [] a.type = "event_order"     -> InOrder(a.names, EventNames(r.events))
    [] a.type = "trace_contract"  -> ContractHolds(r.events, TRUE)
    [] a.type = "next_action_is"  -> r.next \in ToSet(a.names)
    [] a.type = "no_tool_errors"  -> r.metrics.errors = 0
    [] a.type \in {"metric_eq", "metric_lte", "metric_gte"} ->
         Compare(a.type, r.metrics[a.key], a.value)

-----------------------------------------------------------------------------
(***************************************************************************)
(* run_evaluation and run_task.                                            *)
(***************************************************************************)

\* What run_task returns: with an exception nothing is asserted.
TaskResult ==
  LET r      == CombineResults(results)
      failed == { a \in Assertions : ~ Holds(a, r) }
  IN IF raised THEN [success |-> FALSE, failed |-> {}, metrics |-> CombineMetrics(results)]
               ELSE [success |-> failed = {}, failed |-> failed, metrics |-> r.metrics]

StartTask ==
  /\ stage = "between" /\ taskNo < NumTasks /\ fits
  /\ stage' = "running" /\ taskNo' = taskNo + 1
  /\ prompts' \in 1..MaxPrompts
  /\ requested' = <<>> /\ results' = <<>> /\ raised' = FALSE
  /\ total' = Nothing /\ used' = {} /\ spent' = 0
  /\ UNCHANGED fits

\* The TypeError is raised before the try: no task result and no report.
FeaturesRefused ==
  /\ stage = "between" /\ taskNo < NumTasks /\ ~ fits
  /\ stage' = "dead"
  /\ UNCHANGED <<fits, taskNo, prompts, requested, results, raised, total, used>>

Prompted == stage = "running" /\ pc = "idle" /\ Len(results) < prompts

CollectResult ==
  /\ stage = "running" /\ outcome \in {"ended", "waiting"}
  /\ RunTaken
  /\ results' = Append(results, RunResult)
  /\ total' = Plus(total, did)
  /\ used' = ToSet(requested)
  /\ UNCHANGED <<fits, stage, taskNo, prompts, requested, raised>>

\* The prompts that are left are not run and nothing is asserted.
RunFailed ==
  /\ stage = "running" /\ outcome = "raised"
  /\ RunTaken
  /\ stage' = "between"
  /\ raised' = TRUE
  /\ UNCHANGED <<fits, taskNo, prompts, requested, results, total, used>>

Judge ==
  /\ stage = "running" /\ pc = "idle" /\ Len(results) = prompts
  /\ stage' = "between"
  /\ UNCHANGED <<fits, taskNo, prompts, requested, results, raised, total, used>>

-----------------------------------------------------------------------------
(***************************************************************************)
(* Properties.                                                             *)
(***************************************************************************)

\* What a run returns keeps the contract the harness judges traces by, however
\* its calls were blocked, skipped, refused or repeated (judges.py,
\* _assert_trace_contract); a run that waits owes no "end".
TraceContract ==
  (pc = "over" /\ outcome \in {"ended", "waiting"}) => ContractHolds(events, outcome = "ended")

\* What an assertion says, of what happened instead of what was recorded.
Truth(a) ==
  LET r == CombineResults(results)
  IN CASE a.type = "tool_called"     -> ToSet(a.names) \subseteq used
       [] a.type = "tool_not_called" -> ToSet(a.names) \cap used = {}
       [] a.type = "tool_called_any" -> \E x \in used : x \in ToSet(a.names)
       [] a.type = "trace_has"       -> ToSet(a.names) \subseteq ToSet(EventNames(r.events))
       [] a.type = "event_order"     ->
            \E f \in [DOMAIN a.names -> DOMAIN r.events] :
              /\ \A i \in DOMAIN f : r.events[f[i]].event = a.names[i]
              /\ \A i, j \in DOMAIN f : i < j => f[i] < f[j]
       [] a.type = "trace_contract"  -> \E i \in DOMAIN results : results[i].next = "ended"
       [] a.type = "next_action_is"  -> Last(results).next \in ToSet(a.names)
       [] a.type = "no_tool_errors"  -> total.errors = 0
       [] a.type \in {"metric_eq", "metric_lte", "metric_gte"} -> Compare(a.type, total[a.key], a.value)

\* A verdict says what happened in the task: its metrics count what its
\* completed runs did, also when a later one raised, and the assertions that
\* fail are those that are false of all its runs together (runner.py, run_task).
VerdictsTrue ==
  (stage = "between" /\ taskNo > 0) =>
    /\ TaskResult.metrics = total
    /\ ~ raised => TaskResult.failed = { a \in Assertions : ~ Truth(a) }
=============================================================================
