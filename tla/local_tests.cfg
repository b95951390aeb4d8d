CONSTANTS
  Tests <- EachTest
  Ctx = 3
  MaxFails = 1
SPECIFICATION FairSpec
INVARIANTS
  
  AioClean
PROPERTIES
  TestEnds
CHECK_DEADLOCK FALSE
