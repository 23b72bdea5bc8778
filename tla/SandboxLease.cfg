SPECIFICATION FairSpec
CONSTANTS
  MaxRuns = 3
  MaxCalls = 2
  MaxCancels = 2
  MaxFaults = 2
INVARIANTS
  TypeOK
  HandleFresh
  ExecOnLive
  NoStray
PROPERTY LeaseEnds
CHECK_DEADLOCK FALSE
