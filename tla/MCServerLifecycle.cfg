SPECIFICATION FairSpec
CONSTANTS
  WorkerNum <- MCWorkerNum
  Signal = {"SIGINT", "SIGTERM"}
  PipeCap = 1
  MaxMsg = 1
INVARIANTS
  ServerWritesToOpenPipe
  MainReturnsLast
PROPERTY StopAfterStart
CHECK_DEADLOCK FALSE
