SPECIFICATION MCSpec
CONSTANTS
  NoFile = NoFile
  File <- MCFile
  Main = "main"
  Backend <- MCBackend
  MaxDepth = 3
  Base <- MCBase
  Programs <- MCPrograms
  MockSets <- MCMockSets
  None = None
  Tests <- MCTests
  Sanitize <- MCSanitize
  MaxCalls = 4
  MaxFaults = 2
CHECK_DEADLOCK FALSE
INVARIANTS WalkComplete RejectedForCause 
INVARIANTS OwnVCLServes NothingHeld LeaksExplained SharedServes
PROPERTY WalkEnds
