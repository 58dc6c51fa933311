\* Two callers that push chains of two blocks, as the thread caches do.
CONSTANTS
  t1 = t1
  t2 = t2
  Threads = {t1, t2}
  N = 2
  TagMod = 16
  LocalTagBase = 10
  MaxInterval = 2
  ChainsRace = TRUE
  MaxFrees = 4
SPECIFICATION Spec
INVARIANT NoInvalidCas
