SPECIFICATION FairSpec
CONSTANT MaxPackets = 5
INVARIANTS
  PacketsAccounted
PROPERTIES
  SendsInOrder
  WaitingLeaves
CHECK_DEADLOCK FALSE
