SPECIFICATION Spec
CONSTANTS
  Works = {w, wait}
  WaitWork = wait
  MaxCalls = 1
  MaxTurns = 2
  RepeatLimit = 3
  UniqueIds = FALSE
  MaxPrompts = 3
  MaxQueued = 1
  MaxFaults = 1
INVARIANT
  ResultBeforeNextStep
CHECK_DEADLOCK FALSE
