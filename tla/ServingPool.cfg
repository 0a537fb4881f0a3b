CHECK_DEADLOCK FALSE
SPECIFICATION FairSpec
CONSTANTS
  Jobs = {j1, j2, j3}
  Conns = {c1, c2}
  MaxStatements = 2
  NoConn = NoConn
INVARIANTS
  TypeOK
  PermitsMatchIdle
  ConnectionExclusive
  NoForeignInterrupt
PROPERTIES
  ImplementsLease
  RunningCallAnswered
  InterruptedStatementReclaimed
  WaitingCallServed
