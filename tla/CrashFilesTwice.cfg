\* One process crashes, nothing else goes wrong.
CONSTANTS
  Proc = {1, 2, 3}
  MaxContexts = 1
  MaxEvents = 1
SPECIFICATION Spec
INVARIANT ReportedOnce
CHECK_DEADLOCK FALSE
