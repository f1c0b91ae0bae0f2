SPECIFICATION Spec
CONSTANTS
  Ints = {1, 2, 3}
  Junk = Junk
  MaxTokens = 5
  MAX_SIZE = 4
  StackDepth = 3
  TailCall = TRUE
  Periods = {0, 1}
  Iterations = {0, 1, 2}
  Microsecond = 2
  MaxClock = 28
  Values = {1, 2, 4}
  Counts = {0, 1, 19, 20, 49, 50, 100, 900}
  JunkLines = {0, 1}
  Rows <- MCRows
  Ms = 10
  MaxRows = 3
  Machines = {0, 1}
  total_cpu = 2
  total_mem = 2
  Jobs <- MCJobs
  Algos = 2
  width = 3
  MaxJobs = 3
  MaxPeriods = 3
  MaxSamples = 3
  MaxRestarts = 1
  iterations = 2
  NotAnObject = NotAnObject
INVARIANTS
  SortsInput
  OnSchedule
  TailNotHidden
  ScriptsAgree
  NeverOvercommitted
  MetricsSound
  SamplesAreResults
PROPERTIES
  SortEnds
CHECK_DEADLOCK FALSE
