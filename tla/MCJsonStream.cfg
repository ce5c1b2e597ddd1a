SPECIFICATION JsonFairSpec
CONSTANTS
  CR = CR
  LF = LF
  Colon = Colon
  Space = Space
  Nul = Nul
  EF = EF
  BB = BB
  BF = BF
  D = D
  A = A
  E = E
  I = I
  R = R
  X = X
  Five = Five
  Bad = Bad
  None = None
  Utf8Error = Utf8Error
  Byte <- MCByte
  Ill <- MCIll
  EventName <- MCEventName
  DataName <- MCDataName
  IdName <- MCIdName
  RetryName <- MCRetryName
  Message <- MCMessage
  Millis <- MCMillis
  Wires <- JsonWires
  Ids <- NoIds
  Jsons <- MCJsons
  JsonStarts <- MCJsonStarts
INVARIANTS
  JsonTypeOK
  NothingCutShort
PROPERTIES
  NotPolledAfterNone
  JsonComesToEnd
