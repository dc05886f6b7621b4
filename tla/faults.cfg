SPECIFICATION Spec
CONSTANTS
  Fd = {f1, f2}
  NoSock = NoSock
  OutBuff = TRUE
  ServerMsg <- AnyAnswer
  MayThrow = TRUE
  BuffSize = 2
  MaxRx = 1
  MaxReq = 1
  MaxQueue = 1
  MaxAttempts = 1
  MaxEvents = 3
SYMMETRY FdSymmetry
INVARIANTS
  StampsMatchQueue
  SocketsOpen
  ReconnectPending
PROPERTIES
  SleepsOnlyAtRequest
  LostOnlyInRestart
  RemovedOnlyIfAnswered
CHECK_DEADLOCK FALSE
