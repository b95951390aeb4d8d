CONSTANTS
  QD = 2
  SqEntries = 2
  Batch = 1
  Bs = 2
  FileSize = 7
  UInt = 4
  Heap <- CleanHeap
  Runtime = 4
SPECIFICATION Spec
INVARIANTS
  FinalNumberAccurate
