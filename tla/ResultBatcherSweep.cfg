SPECIFICATION DeliverySpec
CONSTANTS
  Singles = {a}
  Batches = {m}
  Width = 2
  MaxThreshold = 2
  Sweeper = sweeper
  None = none
  Inline = TRUE
  HasSweep = TRUE
  MayThrow = TRUE
  MayFail = TRUE
INVARIANTS NothingLost ReadManyWaits
PROPERTIES IdleTrigger
CHECK_DEADLOCK FALSE
