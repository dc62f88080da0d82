SPECIFICATION FairSpec
CONSTANTS
  None = None
  Files <- FaultFiles
  UseBackend <- MCUseBackend
  Ttl = 2
  Grace = 1
  BanRefusals = TRUE
  FlushTimely = FALSE
  MaxFaults = 2
CHECK_DEADLOCK FALSE
INVARIANT Accounting
PROPERTY LoopEnds
