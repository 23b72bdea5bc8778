SPECIFICATION FairSpec
CONSTANTS
  MaxRuns = 2
  MaxCalls = 2
  MaxCancels = 1
  MaxFaults = 0
PROPERTY CancelReleases
CHECK_DEADLOCK FALSE
