SPECIFICATION Spec
SYMMETRY Symmetry
CONSTANTS
  Line = {l1, l2, l3}
  NoLine = NoLine
  LinesCap = 1
  Buffer = 1
  BackupCap = 1
  Workers = {w1}
  Primaries = {p1}
  Bulk = 1
  Refusable = {}
  EsMayFail = TRUE
  BackupBulk = 1
  RedisMayFail = TRUE
  MaxDeaths = 1
  MaxRate = 1
INVARIANTS
  TypeOK
  OneCopy
  RestoringIsTrue
PROPERTIES
  KeepsPromise
