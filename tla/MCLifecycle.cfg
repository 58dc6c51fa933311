\* Two threads and two allocators of two buckets; a thread with caches keeps
\* to the allocator they are of.
CONSTANTS
  t1 = t1
  t2 = t2
  a1 = a1
  a2 = a2
  Threads = {t1, t2}
  Allocators = {a1, a2}
  bucketsCount = 2
  MaxBucketCount = 2
  BucketUnits = 3
  MaxOverflow = 4
  Options <- CacheOptions
  GenericCount = 1
  MaxHeld = 2
  OneAllocator = TRUE
SPECIFICATION Spec
SYMMETRY Symmetry
INVARIANTS
  RecordsZeroed
  CachedWhereFound
  FromAllocatorAsked
  NothingDangles
  NothingLeaks
  BlocksReturn
CHECK_DEADLOCK FALSE
