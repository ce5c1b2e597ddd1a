SPECIFICATION FairSpec
CONSTANTS
  CR = CR
  LF = LF
  Colon = Colon
  Space = Space
  Nul = Nul
  EF = EF
  BB = BB
  BF = BF
  X = X
  Bad = Bad
  None = None
  Byte <- MCByte
  Ill <- MCIll
  MaxLen = 4
  Wires <- MCWires
INVARIANTS
  TypeOK
  HandsOutAllText
  HoldsLessThanACharacter
PROPERTIES
  EndTellsLoss
  ComesToEnd
