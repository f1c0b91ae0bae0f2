SPECIFICATION Spec
CONSTANTS
  s1 = s1
  s2 = s2
  NotAnObject = NotAnObject
  Sessions = {s1, s2}
  Requests <- MCMalformed
  policy <- MCPolicy
  UseSubprocess = TRUE
  Interactive = {s1}
  Interrupted = {s1, s2}
  Raising = TRUE
  MaxRequests = 2
INVARIANTS
  StartsAllowed
  LogWellFormed
  StatsMatchLog
PROPERTIES
  ScenarioEnds
CHECK_DEADLOCK FALSE
