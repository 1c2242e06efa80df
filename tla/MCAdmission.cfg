CONSTANTS
  Conns = {c1, c2, c3}
  IPs = {i1, i2}
  maxConns = 2
  maxConnsPerIP = 2
  rateLimit = 2
  Window = 2
  CleanupPeriod = 0

SYMMETRY Symmetry
SPECIFICATION Spec
INVARIANTS SlotsAccounted WithinRate
PROPERTIES LimiterIsAtomic
