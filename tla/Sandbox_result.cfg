SPECIFICATION Spec
CONSTANTS
  s1 = s1
  s2 = s2
  NotAnObject = NotAnObject
  Sessions = {s1}
  Requests <- MCRequests
  policy <- MCPolicy
  UseSubprocess = FALSE
  Interactive = {}
  Interrupted = {}
  Raising = TRUE
  MaxRequests = 2
INVARIANT ResultLogged
CHECK_DEADLOCK FALSE
