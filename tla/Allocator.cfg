\* Two threads, one of them with caches; malloc has two blocks.  16 bytes go to
\* bucket 0, or 1 when aligned to 32, with overflow; 80 bytes to bucket 4, the last,
\* or, aligned to 32, to malloc.
CONSTANTS
  t1 = t1
  t2 = t2
  Threads = {t1, t2}
  Caching = {t1}
  CacheSize = 1
  Scheme = "pl"
  bucketsCount = 5
  Elements = 2
  GenericCount = 2
  MaxOverflow = 2
  Sizes = {0, 16, 80}
  Alignments = {16, 32}
  MaxCalls = 4
SPECIFICATION Spec
INVARIANTS
  TypeOK
  BlocksAccounted
  ContentsKept
  MovesFit
  BlocksServe
  StatsAddUp
  HitsAddUp
CHECK_DEADLOCK FALSE
