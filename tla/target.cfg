CONSTANTS
  c1 = c1
  c2 = c2
  Clients <- Two
  Confs <- SomeConfs
  MaxFiles = 2
SPECIFICATION FairSpec
INVARIANTS
  ServerUp
  RingDrained
  ReplyMeansWritten
PROPERTIES
  AllAnswered
CHECK_DEADLOCK FALSE
