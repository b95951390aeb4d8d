CONSTANTS
  QD = 2
  SqEntries = 2
  Batch = 2
  Bs = 2
  FileSize = 7
  UInt = 4
  Heap <- CleanHeap
  RQD = 3
  Modes = {TRUE, FALSE}
  PollBatch = 2
  ReapFreq = 2
  PoolSize = 7
  Runtime = 7
SPECIFICATION ClientFairSpec
INVARIANTS
  RdmaUnitsConserved
  PostFits
  NoLostWakeup
  BlocksDistinct
  ReadsInPool
  
PROPERTIES
  ClientEnds
