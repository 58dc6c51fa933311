\* Two workers and a bucket that the warm-up, the working sets and the hot
\* cache exhaust.
CONSTANTS
  m = m
  t1 = t1
  t2 = t2
  b1 = b1
  b2 = b2
  b3 = b3
  b4 = b4
  Threads = {m, t1, t2}
  Main = m
  Blocks = {b1, b2, b3, b4}
  L0Size = 1
  CacheSizes = {2, 5}
  WorkingSet = 4
  Passes = 2
  Iterations = 1
SPECIFICATION TestSpec
INVARIANTS
  DrainFindsAll
  WholeAtEnd
PROPERTY TestEnds
CHECK_DEADLOCK FALSE
