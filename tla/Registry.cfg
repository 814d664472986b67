SPECIFICATION Spec
CONSTANTS
  Loops = {l1, l2}
  Addrs = {x}
  Calls = {c1, c2}
  MaxBatchers = 2
  MaxNest = 2
  Default = 2
  Low = 1
  Nil = nil
INVARIANTS RightBatcher SettingsReach
CHECK_DEADLOCK FALSE
