SPECIFICATION Spec
CONSTANTS
  c1 = c1
  c2 = c2
  Null = Null
  Conn <- MCConn
  Priority <- MCPriority
  Rtt = {1, 9}
  InitRtt = 5
  MinImprovement = 3
INVARIANTS
  SelectedAgree
  ChannelStateCurrent
  FirstIsBest
  PingsAreSigned
CHECK_DEADLOCK FALSE
