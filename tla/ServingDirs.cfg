CONSTANTS
  Runs = {r1, r2, r3}
  Pids = {p1, p2, p3}
  MaxVersion = 1
  None = None
SPECIFICATION Spec
SYMMETRY Symmetry
CHECK_DEADLOCK FALSE
INVARIANTS
  TypeOK
  ServedFilesKept
  DeadDirsReaped
  OnlyOwnFiles
