CHECK_DEADLOCK FALSE
SPECIFICATION FairSpec
CONSTANTS
  Jobs = {j1, j2}
  Conns = {c1}
  MaxStatements = 2
  NoConn = NoConn
PROPERTIES
  TimedOutQueryStops
