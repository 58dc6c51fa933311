\* Buckets that hold at least one block each, up to the last segment of the scheme;
\* the larger ones end where a 32-bit offset would.
CONSTANTS
  Scheme = "pl"
  MaxBucketCount = 22
  Counts = {0, 1, 9, 21, 64}
  Sizes = {4609, 9000}
  Base = 8192
  AddressSpace = 1048576
  UintRange = 12288
SPECIFICATION Spec
CHECK_DEADLOCK FALSE
INVARIANTS
  ListAsAssumed
  BlocksInsideBucket
  CountAsReported
  BlocksFound
  StrangersNotFound
