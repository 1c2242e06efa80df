CONSTANTS
  Callers = {g1, g2}
  PodSize = 4
  TsSize = 3
  SeqSize = 3
  podHash = 6
  MaxTime = 4
  MaxClockSteps = 1

SPECIFICATION IdSpec
INVARIANTS UniqueUnlessRaced IdsTraceable
PROPERTIES NoSpin

CHECK_DEADLOCK FALSE
