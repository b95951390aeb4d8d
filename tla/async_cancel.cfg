CONSTANTS
  a = a
  b = b
  c = c
  Calls <- OneCall
  MaxObjs = 2
SPECIFICATION Spec
INVARIANTS
  AssertOk
CHECK_DEADLOCK FALSE
