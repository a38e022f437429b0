SPECIFICATION FairSpec
CONSTANTS
  m = m
  w1 = w1
  w2 = w2
  w3 = w3
  Master = m
  Workers = {w1, w2, w3}
  Founders = {w1, w2}
  Spurious = {m}
  MayCrash = {w2}
  MaxNodes = 4
  MaxRounds = 3
INVARIANT TypeOK
INVARIANT ArrivalsFit
INVARIANT BarrierSafe
INVARIANT ArrivalsCounted
PROPERTY ImplementsAbstractBarrier
PROPERTY RoundCompletes
PROPERTY SleeperReleased
CHECK_DEADLOCK FALSE
