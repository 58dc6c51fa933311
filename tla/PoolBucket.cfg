\* Three callers.  Single blocks are pushed at any time, as without thread
\* caches; the chains of two blocks that a flush pushes while nobody else is
\* inside Alloc().  Against the atomic pool, and under weak fairness of the
\* calls in progress.
CONSTANTS
  t1 = t1
  t2 = t2
  t3 = t3
  Threads = {t1, t2, t3}
  N = 2
  TagMod = 8
  LocalTagBase = 5
  MaxInterval = 2
  ChainsRace = FALSE
  MaxFrees = 3
SPECIFICATION FairSpec
INVARIANTS
  TypeOK
  BlocksConserved
  ListIntact
  NoInvalidCas
  TagsUnique
  LocalsCurrent
PROPERTIES
  ImplementsPool
  CallsReturn
