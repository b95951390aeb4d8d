CONSTANTS
  c1 = c1
  c2 = c2
  Clients <- Two
  Confs <- SomeConfs
  MaxN = 2
SPECIFICATION FairSpec
INVARIANTS
  AckedOnFile
  NoOverrun
PROPERTIES
  ClientsEnd
CHECK_DEADLOCK FALSE
