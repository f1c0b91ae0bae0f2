SPECIFICATION Spec
CONSTANTS
  Blocks = {"a", "b", "o"}
  c1 = c1
  c2 = c2
  Absent = Absent
  Calls = {c1, c2}
  Names = {1, 2}
  Dir = 0
  Protected = {2}
  Inodes = {1, 2, 3}
  Workloads <- MCWorkloads
  max_size = 2
  Contents <- MCContents
  MaxRemoved = 1
INVARIANTS
  ResultWhole
  WriteWhole
PROPERTIES
  CallEnds
CHECK_DEADLOCK FALSE
