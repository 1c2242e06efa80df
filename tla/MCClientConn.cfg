CONSTANTS
  Before <- MCBefore
  MaxMessageSize = 2
  len7 = 0
  len16 = 2
  top = 16
  MaxFrame = 3
  MaxSent = 5
  MaxNet = 1
  Reader = Reader
  Receivers = {r1}
  Closers = {c1, c2}
  None = None
  cut = cut
  mixed = mixed
SPECIFICATION Spec
INVARIANTS PacketsAsMeant NothingLost FramesWhole
PROPERTIES Delivered CloseReturns
CHECK_DEADLOCK FALSE
