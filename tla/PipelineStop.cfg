SPECIFICATION FairSpec
CHECK_DEADLOCK FALSE
CONSTANTS
  FileLines = 2
  MaxFile = 2
  MaxLine = 3
  BackupCap = 1
  Bulk = 2
  WriterDies = 0
  Buffer = 1
  EsBulk = 2
  EsMayFail = FALSE
  ReaderDies = 0
PROPERTIES
  StopStops
