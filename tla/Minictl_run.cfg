SPECIFICATION Spec
CONSTANTS
  Commands = {"--help", "chroot", "run", "run-image"}
  Statuses = {0, 1, 42}
INVARIANTS
  SetUpBeforeExec
  SuccessIsReal
  NoChildLeft
PROPERTIES
  NoStandstill
CHECK_DEADLOCK FALSE
