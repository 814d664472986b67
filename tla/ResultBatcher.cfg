SPECIFICATION FairSpec
CONSTANTS
  Singles = {a, b, c}
  Batches = {}
  Width = 2
  MaxThreshold = 2
  Sweeper = sweeper
  None = none
  Inline = TRUE
  HasSweep = FALSE
  MayThrow = FALSE
  MayFail = FALSE
INVARIANTS TypeOK OneDrain NoStrandedResult
PROPERTIES Delivered
CHECK_DEADLOCK FALSE
