SPECIFICATION Spec
CONSTANTS
  Files <- MCFiles
  Readable <- MCReadable
  First = "easy"
  id <- MCId
  Commands = {"top", "ps"}
  allow <- MCAllow
  mode <- MCMode
  None = "none"
  MaxRequests = 5
INVARIANTS
  Transcript
  ServerSurvives
PROPERTIES
  CommandEnds
CHECK_DEADLOCK FALSE
