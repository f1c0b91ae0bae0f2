SPECIFICATION SpecTracing
CONSTANTS
  MAX_PIDS = 2
  Pids <- MCPids
  CPUs = {c1}
  FilterPid = 0
  StreamEvents = FALSE
  RingSlots = 0
  BucketSize = 2
  MaxBuckets = 2
  U32 = 16
  SpuriousWakeups = FALSE
  Durations <- UnitSteps
  MaxTime = 8
INVARIANT WaitTimeIsTotal
CHECK_DEADLOCK FALSE
