SPECIFICATION FairSpec
CONSTANTS
  CR = CR
  LF = LF
  Colon = Colon
  Space = Space
  Nul = Nul
  EF = EF
  BB = BB
  BF = BF
  D = D
  A = A
  E = E
  I = I
  R = R
  X = X
  Five = Five
  Bad = Bad
  None = None
  Utf8Error = Utf8Error
  Byte <- MCByte
  Ill <- MCIll
  EventName <- MCEventName
  DataName <- MCDataName
  IdName <- MCIdName
  RetryName <- MCRetryName
  Message <- MCMessage
  Millis <- MCMillis
  Overflow = Overflow
  DurationMax <- MCDurationMax
  Lines <- SourceLines
  HeaderIds <- MCHeaderIds
  Policies <- AllPolicies
  MaxLines = 3
  MaxRetries = 6
INVARIANTS
  TypeOK
  ResumesFromLastEvent
  RetryBudget
  DelayBounded
  NothingLeaksIn
  CappedNeverPanics
  ErrorTellsFate
PROPERTIES
  NeverShrinks
  ClosesForCause
  GivesUp
CHECK_DEADLOCK FALSE
