SPECIFICATION RSpec
CONSTANTS
  p = p
  q = q
  s = s
  bare = bare
  own = own
  NoGroup = NoGroup
  Cases <- RCases
  Serial <- RSerial
  GroupOf <- RGroupOf
  NameOf <- RNameOf
  Retries <- RRetries
  RetriesOverride = {}
  U32Max = 3
  OwnTimeout <- ROwnTimeout
  NoTimeout = {}
  SuiteDefault = FALSE
  Jobs = 2
  NoCapture = FALSE
  Matcher <- RMatcher
  EndingsOf <- REndingsOf
  Noisy = {}
  MayPanic <- RMayPanic
  Tty = FALSE
INVARIANTS RTypeOK DocumentComplete RunsFaithful FlakyAgrees
PROPERTIES EntriesAreFinal EventuallyPublished
