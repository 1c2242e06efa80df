SPECIFICATION SessionSpec
CONSTANTS
  Sessions = {s1, s2}
  Conns = {c1, c2}
  maxPerService = 2
  None = None
PROPERTIES GetLendsOpen

SYMMETRY Symmetry

CHECK_DEADLOCK FALSE
