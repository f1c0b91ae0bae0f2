SPECIFICATION Spec
CONSTANTS
  BucketSize = 2
  MaxBuckets = 3
  Measured = {0, 1, 2}
  MaxSamples = 1
INVARIANT P99Covers
CHECK_DEADLOCK FALSE
