SPECIFICATION FairSpec
CONSTANTS
  m = m
  w1 = w1
  Master = m
  Workers = {w1}
  Founders = {w1}
  Spurious = {}
  MayCrash = {}
  MaxNodes = 2
  MaxRounds = 1
PROPERTY WorkerPasses
CHECK_DEADLOCK FALSE
