SPECIFICATION Spec
CONSTANTS
  Fd = {f1, f2}
  NoSock = NoSock
  OutBuff = FALSE
  ServerMsg <- AnswersReg
  MayThrow = FALSE
  BuffSize = 2
  MaxRx = 1
  MaxReq = 2
  MaxQueue = 2
  MaxAttempts = 1
  MaxEvents = 3
SYMMETRY FdSymmetry
INVARIANTS
  TypeOK
  StampsMatchQueue
  NoLostWakeup
  NoSilentDrop
  AnsweredInOrder
  NoWriteToErased
  PublishedIsFilled
  NoDescriptorLeak
  SocketsOpen
  ReconnectPending
  ReadyInWatched
PROPERTIES
  ImplementsRequests
CHECK_DEADLOCK FALSE
