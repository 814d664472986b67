SPECIFICATION FairSpec
CONSTANTS
  NumReqs = 2
  Files = {f, g}
  NoFile = nofile
  Depth = 1
  HarvestMax = 1
  Sqpolls = {TRUE, FALSE}
  SubmitMayFail = FALSE
  PollMayFail = TRUE
  ReaperMayFail = TRUE
INVARIANTS RingAccounted
PROPERTIES TakenIsDelivered StopReturns FilesImplementBarrier
CHECK_DEADLOCK FALSE
