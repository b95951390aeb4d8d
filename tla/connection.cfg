SPECIFICATION RdmaFairSpec
INVARIANTS
  ServerOutlivesReads
  EndEventIsReal
  ServerCanWake
PROPERTIES
  BothEnd
CHECK_DEADLOCK FALSE
