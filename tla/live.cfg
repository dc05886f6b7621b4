SPECIFICATION Spec
CONSTANTS
  Fd = {f1, f2}
  NoSock = NoSock
  OutBuff = FALSE
  ServerMsg <- RegOk
  MayThrow = FALSE
  BuffSize = 2
  MaxRx = 1
  MaxReq = 2
  MaxQueue = 2
  MaxAttempts = 1
  MaxEvents = 3
CHECK_DEADLOCK FALSE
PROPERTIES
  EveryRequestAnswered
