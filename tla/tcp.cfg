CONSTANTS
  N = 3
  Size = 3
  DoneSize = 2
  Capacity = 4
SPECIFICATION FairSpec
INVARIANTS
  WrittenAsSent
PROPERTIES
  ImplementsChannel
  ConnectedEnd
CHECK_DEADLOCK FALSE
