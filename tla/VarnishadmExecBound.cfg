SPECIFICATION FairSpec
CONSTANTS
  c1 = c1
  c2 = c2
  c3 = c3
  Hello = Hello
  Auth = Auth
  None = None
  Call <- ThreeCalls
  EmptyCmd <- NoCalls
  ReqCap = 1
  MaxFaults = 0
CHECK_DEADLOCK FALSE
PROPERTY ExecReturns
