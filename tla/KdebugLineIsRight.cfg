CONSTANTS
  Tables <- MCTables
  NSTABS = 17
  Types = {"UNDF", "SO", "SOL", "FUN", "SLINE", "PSYM"}
  ADDRS = 18
  ULIM = 3
  StrSize = 5
SPECIFICATION Spec
CHECK_DEADLOCK FALSE
INVARIANT LineIsRight

