\* NumberChars: space, plus, minus, the digits 0, 7 and 9, the letters B, f and x.
CONSTANTS
  WORD = 2
  BYTES = 256
  LONG = 256
  BlockSize = 10
  TextSize = 5
  Chars = {97, 200}
  NumberChars = {32, 43, 45, 48, 55, 57, 66, 102, 120}
  NumberLength = 4
  Fills = {3, 353}
  Bases = {0, 8, 10, 16}
  Blocks <- MCBlocks
  Texts <- MCTexts
  Numbers <- MCNumbers
SPECIFICATION FairSpec
CHECK_DEADLOCK FALSE
INVARIANTS
  StrtolTypeOK
  MovesAsPromised
  StringsAsPromised
PROPERTIES
  CallReturns
