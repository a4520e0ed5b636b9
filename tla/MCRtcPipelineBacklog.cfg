SPECIFICATION Spec
CONSTANTS
  live = live
  cam = cam
  None = None
  SwNum = 1
  RwNum = 1
  Stream <- MCOneStream
  Crc32 <- MCCrc32
  PipeCap = 1
  Cmd = {"PUSH"}
  MayExpire = FALSE
  MaxConn = 6
INVARIANTS
  CircularWaitNeedsBacklog
CHECK_DEADLOCK FALSE
