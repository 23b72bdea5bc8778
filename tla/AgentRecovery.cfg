SPECIFICATION Spec
CONSTANTS
  Works = {w, wait}
  WaitWork = wait
  MaxCalls = 2
  MaxTurns = 1
  RepeatLimit = 2
  UniqueIds = TRUE
  MaxPrompts = 3
  MaxQueued = 1
  MaxFaults = 2
INVARIANTS
  TypeOK
  IntentBeforeEffect
  ResultBeforeNextStep
  NoReplay
  TranscriptAnswered
  ShownIsDurable
  IdleMemoryIsDurable
  SettledMeansAnswered
PROPERTY ThreadProtocolSpec
CHECK_DEADLOCK FALSE
