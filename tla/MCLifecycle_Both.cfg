\* Two threads and two allocators; threads with caches use both.
CONSTANTS
  t1 = t1
  t2 = t2
  a1 = a1
  a2 = a2
  Threads = {t1, t2}
  Allocators = {a1, a2}
  bucketsCount = 2
  MaxBucketCount = 2
  BucketUnits = 3
  MaxOverflow = 4
  Options <- CacheOptions
  GenericCount = 1
  MaxHeld = 2
  OneAllocator = FALSE
SPECIFICATION Spec
INVARIANT CachedWhereFound
CHECK_DEADLOCK FALSE
