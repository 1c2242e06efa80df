SPECIFICATION Spec

CONSTANTS
  Clients = {c1, c2, c3, c4}
  Services = {"redis"}
  maxGoroutines = 1
  connQueueSize = 2
  MaxNil = 2
  NoConn = NoConn

INVARIANTS OnePlace WgAccounts DoneMeansDrained
PROPERTIES QueueServed ShutdownReturns

CHECK_DEADLOCK FALSE
