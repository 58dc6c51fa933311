\* A move out of the generic allocator fails.
CONSTANTS
  t1 = t1
  t2 = t2
  Threads = {t1, t2}
  Caching = {t1}
  CacheSize = 1
  Scheme = "pl"
  bucketsCount = 5
  Elements = 2
  GenericCount = 2
  MaxOverflow = 2
  Sizes = {0, 16, 80}
  Alignments = {16, 32}
  MaxCalls = 4
SPECIFICATION Spec
INVARIANT FailureReturns
CHECK_DEADLOCK FALSE
