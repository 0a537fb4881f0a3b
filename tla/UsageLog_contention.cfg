CHECK_DEADLOCK FALSE
SPECIFICATION FairSpec
CONSTANTS
  Requests = {q1, q2}
  Capacity = 1
  MaxBatch = 1
  Keep = 0
  MaxTime = 1
  MaxCrashes = 0
INVARIANTS
  NoContention
