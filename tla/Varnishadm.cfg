SPECIFICATION FairSpec
CONSTANTS
  c1 = c1
  c2 = c2
  c3 = c3
  Hello = Hello
  Auth = Auth
  None = None
  Call <- ThreeCalls
  EmptyCmd <- OneCall
  ReqCap = 1
  MaxFaults = 2
CHECK_DEADLOCK FALSE
INVARIANTS OwnResponse AtMostOnce CommandsOnlyAfterAuth IInv
PROPERTIES ImplementsCommandService AcceptedCallReturns RunStopsUnlessWedged
