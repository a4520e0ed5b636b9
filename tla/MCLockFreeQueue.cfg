SPECIFICATION FairSpec
CONSTANTS
  a1 = a1
  a2 = a2
  a3 = a3
  v1 = v1
  v2 = v2
  NULL = NULL
  Blank = Blank
  Addr <- MCAddr
  Value <- MCValue
  MaxProduce = 4
INVARIANTS
  NoUseAfterFree
  NoNodeLeaked
  SizeTracksContent
PROPERTIES
  ImplementsFifo
  ProduceReturns
CHECK_DEADLOCK FALSE
