\* A pool that allocations can empty before a cache is warmed up from it.
CONSTANTS
  t1 = t1
  t2 = t2
  b1 = b1
  b2 = b2
  b3 = b3
  Threads = {t1, t2}
  Blocks = {b1, b2, b3}
  L0Size = 1
  CacheSizes = {2}
SPECIFICATION Spec
INVARIANT WarmedUp
