\* Two threads, caches of two and of four, blocks enough for one to flush.
CONSTANTS
  t1 = t1
  t2 = t2
  b1 = b1
  b2 = b2
  b3 = b3
  b4 = b4
  b5 = b5
  b6 = b6
  Threads = {t1, t2}
  Blocks = {b1, b2, b3, b4, b5, b6}
  L0Size = 1
  CacheSizes = {2, 4}
SPECIFICATION Spec
SYMMETRY Symmetry
INVARIANTS
  OneOwner
  CacheFits
  AllBack
PROPERTY FlushMakesRoom
