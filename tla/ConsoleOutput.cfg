CONSTANTS
  CRT_ROWS = 3
  CRT_COLS = 2
  Text <- MCText
  SPIN = 1
  RADIX = 4
  MaxPuts = 2
SPECIFICATION FairSpec
CHECK_DEADLOCK FALSE
INVARIANTS
  TypeOK
  PortsKeepAll
PROPERTIES
  ImplementsTerminal
  OutputNeverHangs
