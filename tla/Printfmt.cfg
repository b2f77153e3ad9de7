CONSTANTS
  Printfs <- MCPrintfs
  INT = 256
  LONGLONG = 65536
  BUFSIZES = {0, 1, 6, 40}
SPECIFICATION PrintFairSpec
CHECK_DEADLOCK FALSE
INVARIANTS
  BufferHoldsPrefix
  PrintsMeaning
PROPERTIES
  FormattingEnds
