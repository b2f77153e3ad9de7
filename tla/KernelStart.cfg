CONSTANTS
  A20LINE = 32
  REALLIMIT = 5
  LIMIT = 1000
  SECTSIZE = 2
  BYTE = 4
  TOP = 2
  ELFHDR = 6
  MEMSIZE = 52
  Images <- MCImages
  KERNBASE = 192
  PGSIZE = 8
  NPTENTRIES = 8
  NPDENTRIES = 4
  WARMBOOT = 1
SPECIFICATION KernelFairSpec
CHECK_DEADLOCK FALSE
INVARIANTS
  HeaderIntact
  RestOfMemoryKept
  MemoryAsLinked
PROPERTIES
  KernelStarts
