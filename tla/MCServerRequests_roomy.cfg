CONSTANTS
  w1 = w1  w2 = w2  w3 = w3
  c1 = c1  c2 = c2
  None = None
  Workers <- ThreeWorkers
  Conns <- TwoConns
SPECIFICATION FairSpec
INVARIANTS TypeOK  StopLeavesNothing
PROPERTIES EveryRequestEnds QuietShutdownEnds
CHECK_DEADLOCK FALSE
