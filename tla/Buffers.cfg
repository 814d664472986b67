SPECIFICATION Spec
CONSTANTS
  Threads = {t1, t2}
  Requests = {r1, r2}
  Results = {c1}
  Blocks = {b1, b2, b3}
  None = None
  Asked = {0, 6, 10}
  MinClass = 4
  Powers = {1, 2, 4, 8, 16}
  BufferSize = 8
  TcMax = 1
  MaxEntries = 1
  MayFail = TRUE
  Maxes = {1, 2}
INVARIANTS OneOwner MemoryAccounted BigEnough
