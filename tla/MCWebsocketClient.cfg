CONSTANTS
  Obj = {o1, o2}
  FD = {f1, f2}
  NoFD = NoFD
  Free = Free
  Other = Other
  NoSock = NoSock
  MaxConnects = 2
  MaxFrames = 2
SPECIFICATION ClientSpec
SYMMETRY Symmetry
INVARIANTS
  OpenHasSocket
  DeliveredInOrder
  PingsAnswered
  WorkingTakesNothing
\* A client that is destroyed or waits for its peer stays as it is.
CHECK_DEADLOCK FALSE
