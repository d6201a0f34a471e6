SPECIFICATION FairSpec
CONSTANTS
  Line = {l1, l2}
  NoLine = NoLine
  LinesCap = 1
  Buffer = 1
  BackupCap = 1
  Workers = {w1}
  Primaries = {p1}
  Bulk = 1
  Refusable = {}
  EsMayFail = TRUE
  HasBackup = TRUE
  BackupBulk = 1
  MaxFile = 1
  DiskFaults = FALSE
  OpenFaults = FALSE
  MaxRate = 1
PROPERTIES
  
  SpoolIsRestored
