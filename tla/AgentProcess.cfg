SPECIFICATION FairSpec
CONSTANTS
  Main = main
  Workers = {w1}
  Threads = {t1, t2}
  None = None
  MaxFaults = 1
  MaxTasks = 5
  CallIds <- MCCallIds
  MaxPlans = 1
  MaxSteps = 2
  MaxTurns = 2
  RepeatLimit = 2
  MaxRetries = 1
  MaxChunks = 2
  MaxCalls = 2
  CallBudget = 2
  NumTasks = 2
  MaxPrompts = 2
  Assertions <- MCAssertions
  ToolSets = {{"bash", "wait"}, {"tasks", "spawn"}, {"plans", "spawn"}, {"memory", "spawn"}, {"files", "spawn"}}
  Statuses = {"in_progress", "completed", "failed"}
  MaxServed = 2
  MaxWork = 2
INVARIANTS
  TraceContract
  ShownIsAnswer
  VerdictsTrue
  AnsweredWritesKept
  PlanStatusFollows
  FilesStayHome
PROPERTIES
  TaskListSpec
  EvaluationEnds
CHECK_DEADLOCK FALSE
