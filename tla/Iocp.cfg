SPECIFICATION FairSpec
CONSTANTS
  NumOps = 2
  NumSessions = 2
  Blocks = {b1, b2}
  None = none
  Duplicates = TRUE
  Stray = "late"
INVARIANTS EndsItsOwn PacketsAccounted
PROPERTIES DrainedWhenClosed CloseEnds
CHECK_DEADLOCK FALSE
