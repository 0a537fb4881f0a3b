CHECK_DEADLOCK FALSE
SPECIFICATION FairSpec
CONSTANTS
  Requests = {q1, q2, q3}
  Capacity = 2
  MaxBatch = 2
  Keep = 0
  MaxTime = 1
  MaxCrashes = 1
INVARIANTS
  TypeOK
  EventsAccountedFor
PROPERTIES
  RequestsEnd
  QueueDrains
