SPECIFICATION Spec
CONSTANTS
  a1 = a1
  a2 = a2
  f = f
  g = g
  s = s
  group = group
  other = other
  NoGroup = NoGroup
  Cases <- MCCases
  Serial <- MCSerial
  GroupOf <- MCGroupOf
  Retries <- MCRetries
  RetriesOverride = {}
  U32Max = 2
  OwnTimeout <- MCOwnTimeout
  NoTimeout = {}
  SuiteDefault = FALSE
  Jobs = 2
  NoCapture = FALSE
  Matcher <- MCMatcher
  EndingsOf <- MCEndingsOf
  Noisy <- MCNoisy
  MayPanic <- MCMayPanic
INVARIANT OthersStayConcurrent
