SPECIFICATION FairSpec
CONSTANTS
  live = live
  cam = cam
  None = None
  SwNum = 2
  RwNum = 2
  Stream <- MCStream
  Crc32 <- MCCrc32
  PipeCap = 1
  Cmd = {"PUSH", "ANSWER"}
  MayExpire = TRUE
  MaxConn = 3
INVARIANTS
  TokensMatchMessages
  WakeupFindsMessage
  RequestInOnePlace
PROPERTIES
  StreamOrder
  ConnectionReachesWorker
  PushAnswered
CHECK_DEADLOCK FALSE
