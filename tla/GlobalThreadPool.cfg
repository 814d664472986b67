SPECIFICATION PoolFairSpec
CONSTANTS
  Tasks = {k1, k2}
  Threads = {t1, t2, t3}
  Sizes = {1, 3}
  NoTask = none
  MaxResizes = 2
  MayShutdown = TRUE
INVARIANTS CountIsLive
PROPERTIES ReachesTarget TasksRun
CHECK_DEADLOCK FALSE
