SPECIFICATION FairTSpec
CONSTANTS
  c1 = c1
  Null = Null
  Conn <- MCConn
  Priority <- MCPriority
  Rtt <- MCRtt
  InitRtt = 5
  MinImprovement = 1
  WeakInterval = 1
  StrongInterval = 2
  IntervalDiff = 0
  StablingInterval = 2
  StableInterval = 3
  MinPings = 1
  ReceiveTimeout = 3
  ConnectFails = 2
  ConnectTimeout = 3
  WriteTimeout = 4
  MinRtt = 2
  MaxRtt = 4
  RttRatio = 1
  MaxAge = 5
INVARIANTS
  GivenUpWasSilent
PROPERTIES
  GoneTimesOut
  BecomesWritable
