SPECIFICATION FairOpening
CONSTANTS
  NumCalls = 2
  Platforms = {"linux", "macos", "windows"}
  MaxFd = 3
  MaxSize = 2
  Modes = {"w", "x"}
  Nobody = nobody
  Other = other
INVARIANTS OutstandingExact Truthful
PROPERTIES Owned AllAnswered
CHECK_DEADLOCK FALSE
