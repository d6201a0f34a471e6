SPECIFICATION Spec
SYMMETRY Symmetry
CONSTANTS
  Line = {l1, l2, l3}
  NoLine = NoLine
  LinesCap = 1
  Buffer = 1
  BackupCap = 1
  Workers = {w1, w2}
  Primaries = {p1, p2}
  Bulk = 2
  Refusable = {}
  EsMayFail = TRUE
  HasBackup = TRUE
  BackupBulk = 1
  MaxFile = 2
  DiskFaults = FALSE
  OpenFaults = FALSE
  MaxRate = 1
INVARIANTS
  TypeOK
  NothingVanishes
  OneCopy
  FailedMeansFullBulk
  RestoringIsTrue
  NoForgottenFile
PROPERTIES
  SpoolDrainsToPrimary
  KeepsPromise
