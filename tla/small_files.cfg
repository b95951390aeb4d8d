CONSTANTS
  Programs = {"service", "local"}
  Depth = 2
  Cap = 2
  Files <- FewFiles
SPECIFICATION FairSpec
INVARIANTS
  FreedSafely
  ReplyMeansEnded
PROPERTIES
  Answered
CHECK_DEADLOCK FALSE
