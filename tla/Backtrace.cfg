CONSTANTS
  X = 5
  bootstack = 1
  KSTKSIZE = 44
  LOCALS = {0, 1, 2}
SPECIFICATION Spec
INVARIANTS
  BacktraceShowsCalls
  CallsUndisturbed
  GradedBacktrace
