SPECIFICATION Spec
CONSTANTS
  None = None
  Files <- MCFiles
  UseBackend <- MCUseBackend
  Ttl = 2
  Grace = 0
  BanRefusals = FALSE
  FlushTimely = TRUE
  MaxFaults = 0
CHECK_DEADLOCK FALSE
INVARIANTS ResultsAsAlone ConfigCarriesOver EveryRequestMade CleanCache
INVARIANTS SingleTraceIsOwn ScenarioTraceComplete
