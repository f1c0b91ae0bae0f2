SPECIFICATION SpecTracing
CONSTANTS
  MAX_PIDS = 2
  Pids <- MCPids
  CPUs = {c1, c2}
  FilterPid = 0
  StreamEvents = TRUE
  RingSlots = 1
  BucketSize = 2
  MaxBuckets = 2
  U32 = 16
  SpuriousWakeups = FALSE
  Durations <- MixedSteps
  MaxTime = 8
INVARIANTS
  WaitTimeSound
  EveryWakeupSampled
PROPERTIES
  ImplementsPromise
CHECK_DEADLOCK FALSE
