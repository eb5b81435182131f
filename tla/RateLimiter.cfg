SPECIFICATION FairLimiterSpec
CONSTANTS
  Callers = {h1, h2, h3}
  Ports = {1, 2}
  Limit = 2
  Window = 2
  MaxBuckets = 2
INVARIANTS MemoryBounded AtMostTwice
PROPERTY NoLockout
