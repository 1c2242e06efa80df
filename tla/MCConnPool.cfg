SPECIFICATION Spec

CONSTANTS
  Sessions = {s1, s2}
  Conns = {c1, c2, c3}
  maxPerService = 1
  None = None

INVARIANTS SoleOwner CountsBorrowed
PROPERTIES CallsReturn DialsWithinLimit LostOnlyWhenFull

CHECK_DEADLOCK FALSE
