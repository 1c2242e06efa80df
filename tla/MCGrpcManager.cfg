SPECIFICATION Spec

CONSTANTS
  Senders = {s1, s2}
  Reconnectors = {r1}
  Clients = {c1, c2}
  None = None
  maxRetries = 2
  maxReconnectAttempts = 0

INVARIANTS OpenAccounted
PROPERTIES OnlyDeadDropped StaysConnected

CHECK_DEADLOCK FALSE
