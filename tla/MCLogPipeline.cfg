SPECIFICATION Spec
CONSTANTS
  Nil = Nil
  Writer = Writer
  Handler = Handler
  Thread = {t1, t2}
  MaxLine = 2
  MaxFault = 2
INVARIANTS
  LinesAccounted
PROPERTIES
  LineReachesFile
CHECK_DEADLOCK FALSE
