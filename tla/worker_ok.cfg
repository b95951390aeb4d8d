CONSTANTS
  QD = 3
  SqEntries = 4
  Batch = 2
  Bs = 2
  FileSize = 7
  UInt = 8
  Heap <- UsedHeap
  Runtime = 7
SPECIFICATION FairSpec
INVARIANTS
  TypeOK
  SqeAvailable
  NoStuckReap
  OffsetsInFile
  ReportHasClock
PROPERTIES
  ImplementsCredits
  ProcessEnds
