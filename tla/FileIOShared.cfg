SPECIFICATION Spec
CONSTANTS
  Ops = {o1, o2, o3}
  Calls = {"read", "readAt", "write"}
  Sizes = {1}
  MaxLen = 3
  StartLen = 1
  Appending = {TRUE, FALSE}
  KnowsSize = FALSE
  OneAtATime = FALSE
  Shared = TRUE
  Faults = {"error"}
  Hole = hole
  Other = other
INVARIANTS RangesDisjoint WritesKept
PROPERTIES NoFalseEof
CHECK_DEADLOCK FALSE
