SPECIFICATION Spec
CONSTANTS
  a1 = a1
  a2 = a2
  Absent = Absent
  NoSpan = NoSpan
  NoAnswer = NoAnswer
  Agents = {a1, a2}
  Workloads <- MCWorkloads
  max_steps = 2
  width = 5
INVARIANTS
  TraceTree
  Transcript
  Waterfall
CHECK_DEADLOCK FALSE
