SPECIFICATION FairSpec
CONSTANTS
  Works = {w, wait}
  WaitWork = wait
  MaxCalls = 1
  MaxTurns = 3
  RepeatLimit = 3
  UniqueIds = TRUE
  MaxPrompts = 2
  MaxQueued = 2
  MaxFaults = 1
INVARIANTS
  LoopInv
  ThirdBatchNotRun
PROPERTIES
  RunsEnd
  PromptsTaken
CHECK_DEADLOCK FALSE
