SPECIFICATION FairSpec
CONSTANTS
  Streams = {s1, s2}
  Nobody = nobody
  MaxOwners = 1
  MaxRenames = 0
  MaxFlips = 0
  MaxDeletes = 0
  MaxFaults = 0
PROPERTY
  CancelledIsTold
CHECK_DEADLOCK FALSE
