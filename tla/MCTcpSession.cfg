SPECIFICATION SessionSpec

CONSTANTS
  Sessions = {s1, s2}
  Conns = {c1, c2}
  maxPerService = 1
  None = None

INVARIANTS RegisteredOwns SlotsCounted
PROPERTIES  PlacesLost

CHECK_DEADLOCK FALSE
