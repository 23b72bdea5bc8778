SPECIFICATION FairSpec
CONSTANTS
  Streams = {s1, s2}
  Nobody = nobody
  MaxOwners = 2
  MaxRenames = 1
  MaxFlips = 1
  MaxDeletes = 1
  MaxFaults = 1
INVARIANTS
  TypeOK
  OneRun
  RunsReachable
  MemoryCurrent
PROPERTIES
  ArchiveKept
  TitleSetOnce
  RunsReport
  LockPassesOn
CHECK_DEADLOCK FALSE
