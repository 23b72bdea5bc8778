SPECIFICATION FairSpec
CONSTANTS
  Workers = {w1, w2, w3}
  MaxConcurrent = 1
  MaxIterations = 2
  MaxCancels = 1
INVARIANTS
  TypeOK
  SlotsConserved
  NeverUnknown
  HandlesReturned
  ResultIsFinal
PROPERTY EveryoneFinishes
CHECK_DEADLOCK FALSE
