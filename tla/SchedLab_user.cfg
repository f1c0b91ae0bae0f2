SPECIFICATION Spec
CONSTANTS
  Modes <- MCModes
  Durations = {0, 1, 2}
  MainSlots = 2
  MaxClock = 8
  BucketSize = 2
  MaxBuckets = 3
  Measured = {0, 1, 49, 50, 100}
  MaxSamples = 2
  Pids = {0, 1, 2, 3}
  MAX_PIDS = 3
  MaxSlices = 1
  CPUs = {0, 1}
  RingSlots = 2
  MaxEvents = 3
INVARIANTS
  RunsForDuration
  Ordered
  ToolsAgree
  ListedExactlyOnce
  StreamInOrder
PROPERTIES
  ReportsEnd
  EventPrinted
CHECK_DEADLOCK FALSE
