SPECIFICATION FairSpec
CONSTANTS
  MaxConns = 2
  MaxFaults = 2
  PublishLen = 1
  DownLen = 1
  None = None
CHECK_DEADLOCK FALSE
INVARIANTS ReadyMeansServing CwdRestored
PROPERTIES EventsInOrder StartupConcludes
