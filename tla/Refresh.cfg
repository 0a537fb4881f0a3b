CHECK_DEADLOCK FALSE
SPECIFICATION FairSpec
CONSTANTS
  Catalog <- MCCatalog
  Requires <- MCRequires
  Readers = {r1}
  ReadsPerCall = 2
  MaxVersion = 2
  MaxGen = 2
  None = None
INVARIANTS
  TypeOK
  ServedSnapshotUsable
  SignalsHonoured
  NoOrphanFiles
  ReadsMoveForward
PROPERTIES
  OpenSnapshotsImmutable
  SignalStartsRebuild
