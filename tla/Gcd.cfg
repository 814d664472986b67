SPECIFICATION FairSpec
CONSTANTS
  Ops = {o1, o2}
  Chunks = {c1, c2}
  GilHeld = {FALSE}
  MayThrow = TRUE
INVARIANTS Settled
PROPERTIES ChannelCloseReturns ChannelFinishes ChannelImplementsBarrier
CHECK_DEADLOCK FALSE
