SPECIFICATION Spec
CONSTANTS
  Fd = {1}
  a1 = a1
  a2 = a2
  Addr = {a1}
  Null = Null
  HeadSize = 2
  RespSize = 2
  Request <- MCPush
  Mark = 4
  Timeout = 1
  MaxConn = 2
  MaxReplies = 2
INVARIANT RepliesGoToRequester
CHECK_DEADLOCK FALSE
