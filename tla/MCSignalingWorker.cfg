SPECIFICATION FairSpec
CONSTANTS
  Fd = {1, 2}
  a1 = a1
  a2 = a2
  Addr = {a1, a2}
  Null = Null
  HeadSize = 2
  RespSize = 2
  Request <- MCRequest
  Mark = 3
  Timeout = 2
  MaxConn = 2
  MaxReplies = 2
INVARIANTS
  TableOwnsConnections
  WatchersHaveConnections
  DescriptorsUnshared
  RepliesWatched
  RepliesWhole
  OneRequestBelowMark
PROPERTY ConnectionEnds
CHECK_DEADLOCK FALSE
