SPECIFICATION Spec
CONSTANTS
  Streams = {s1, s2}
  Nobody = nobody
  MaxOwners = 2
  MaxRenames = 0
  MaxFlips = 0
  MaxDeletes = 1
  MaxFaults = 0
PROPERTY
  SoleOwnerWrites
CHECK_DEADLOCK FALSE
