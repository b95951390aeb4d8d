CONSTANTS
  a = a
  b = b
  c = c
  Calls <- ThreeCalls
  MaxObjs = 4
SPECIFICATION FairSpec
INVARIANTS
  NoDanglingTag
PROPERTIES
  CallsAnswered
  NoLeak
CHECK_DEADLOCK FALSE
