CONSTANTS
  CONSBUFSIZE = 3
  SerialBytes = {8, 98}
  Burst = 2
  Keys = {28}
  KbdQSize = 1
  CRT_ROWS = 3
  CRT_COLS = 1
  BUFLEN = 2
  Prompt <- MCPrompt
  Input = {"b", "BS", "NL"}
  Control = {"BS", "NL", "CR"}
  Cursors = {2}
  Name <- MCName
SPECIFICATION SessionFairSpec
INVARIANTS
  TypeOK
PROPERTIES
  ImplementsQueue
  LinesAreTyped
  KeyboardIsServed
  EnterEndsLine
