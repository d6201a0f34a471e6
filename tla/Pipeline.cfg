SPECIFICATION Spec
CHECK_DEADLOCK FALSE
CONSTANTS
  FileLines = 4
  MaxFile = 3
  MaxLine = 9
  BackupCap = 1
  Bulk = 2
  WriterDies = 2
  Buffer = 1
  EsBulk = 1
  EsMayFail = FALSE
  ReaderDies = 1
CONSTRAINTS
  EarlyDeaths
INVARIANTS
  TypeOK
  NeverUnpacksOpenFile
  
  TakenOnce

  
