SPECIFICATION Spec
CONSTANTS
  MAX_PIDS = 1
  Pids <- MCPids
  CPUs = {c1}
  FilterPid = 0
  StreamEvents = FALSE
  RingSlots = 0
  BucketSize = 2
  MaxBuckets = 2
  U32 = 16
  SpuriousWakeups = TRUE
  Durations <- UnitSteps
  MaxTime = 6
INVARIANTS
  TypeOK
  RunTimeSound
  RunTimeExact
  WakeupsSound
  OneSamplePerWakeup
CHECK_DEADLOCK FALSE
