CONSTANTS
  Goroutines = {g1, g2, g3}
  maxFailures = 2
  timeout = 1
  MaxRetries = 2

SPECIFICATION Spec
INVARIANTS ThresholdNotForgotten
PROPERTIES RecoversWithBackend CutsOffDeadBackend
