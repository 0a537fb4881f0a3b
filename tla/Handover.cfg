CHECK_DEADLOCK FALSE
SPECIFICATION FairSpec
CONSTANTS
  Jobs = {j1, j2, j3}
  Conns = {c1}
  MaxStatements = 1
  NoConn = NoConn
PROPERTIES
  ReplacedServingCloses
  FreshCallServed
