SPECIFICATION Spec
CONSTANTS
  Works = {w, wait}
  WaitWork = wait
  MaxCalls = 1
  MaxTurns = 2
  RepeatLimit = 3
  UniqueIds = TRUE
  MaxPrompts = 3
  MaxQueued = 2
  MaxFaults = 1
PROPERTY
  ReplacedAtomically
CHECK_DEADLOCK FALSE
