SPECIFICATION FairSpec
CONSTANTS
  Ops = {o1, o2, o3}
  CloseCalls = {c1}
  Dtor = dtor
  NumWorkers = 2
  OneCaller = TRUE
  OwnsFd = TRUE
  MayThrow = TRUE
INVARIANTS PendingIsExact NoLostWakeup
PROPERTIES OpsFinish CloseReturns ImplementsBarrier
CHECK_DEADLOCK FALSE
