\* Every request up to the last block size of the documented piecewise linear table.
CONSTANTS
  Schemes = {"linear", "pl", "float"}
  Alignments = {1, 16, 32, 128, 512, 1024, 4096}
  MaxSize = 25088
SPECIFICATION Spec
CHECK_DEADLOCK FALSE
INVARIANTS
  BestFit
  FirstBucketAligned
  BlocksGrow
  OverflowLoopEnds
  AsDocumented
