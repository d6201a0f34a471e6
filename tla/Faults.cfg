SPECIFICATION Spec
SYMMETRY Symmetry
CONSTANTS
  Line = {l1, l2, l3}
  NoLine = NoLine
  LinesCap = 1
  Buffer = 1
  BackupCap = 1
  Workers = {w1}
  Primaries = {p1}
  Bulk = 2
  Refusable = {l1, l2, l3}
  EsMayFail = TRUE
  HasBackup = TRUE
  BackupBulk = 1
  MaxFile = 2
  DiskFaults = TRUE
  OpenFaults = TRUE
  MaxRate = 1
INVARIANTS
  NothingVanishes
PROPERTIES
  KeepsPromise
