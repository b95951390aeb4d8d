CONSTANTS
  w1 = w1
  w2 = w2
  r1 = r1
  Clients <- SomeClients
  Op <- SomeOp
  Requests <- SomeRequests
  MaxCalls = 3
  Lbs = 2
  Blocks = 6
  Unset = {0, 1}
  NlbMod = 4
SPECIFICATION Spec
INVARIANTS
  WriteExact
  NoCorruption
  NoBufferLeft
SYMMETRY Symmetric
CHECK_DEADLOCK FALSE
