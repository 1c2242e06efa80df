CONSTANTS
  Sessions = {tcp, ws}
  WebSockets = {ws}
  Receivers = {r1, r2}
  getShard <- MCgetShard
  None = None
  cut = cut
  torn = torn
SPECIFICATION Spec
INVARIANTS RegistryOwned FramesWhole
PROPERTIES ToldInOrder SessionsEnd
CHECK_DEADLOCK FALSE
