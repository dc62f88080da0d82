SPECIFICATION FairSpec
CONSTANTS
  NBackends = 2
  NTests = 3
CHECK_DEADLOCK FALSE
INVARIANTS TypeOK ResourcesReleased TeardownInOrder
PROPERTY RunEnds
