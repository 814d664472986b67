SPECIFICATION Spec
CONSTANTS
  Ops = {o1, o2}
  Calls = {"read", "readAt", "write", "writeAt", "seek", "truncate"}
  Sizes = {1, 2}
  MaxLen = 3
  StartLen = 1
  Appending = {TRUE, FALSE}
  KnowsSize = TRUE
  OneAtATime = TRUE
  Shared = FALSE
  Faults = {"error"}
  Hole = hole
  Other = other
PROPERTIES ImplementsPlainFile
CHECK_DEADLOCK FALSE
