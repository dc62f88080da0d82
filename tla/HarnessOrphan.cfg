SPECIFICATION Spec
CONSTANTS
  NBackends = 2
  NTests = 3
CHECK_DEADLOCK FALSE
INVARIANT NothingLeftRunning
