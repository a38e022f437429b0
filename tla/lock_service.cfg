SPECIFICATION FairSpec
CONSTANTS
  m = m
  w1 = w1
  w2 = w2
  w3 = w3
  w4 = w4
  l1 = l1
  none = none
  Master = m
  Workers = {w1, w2, w3, w4}
  NoNode = none
  Locks = {l1}
  MaxNodes = 5
  Unlinked = {w4}
  MayCrash = {w1, w2}
  Careless = {m, w1}
  MaxInFlight = 2
INVARIANT TypeOK
INVARIANT MutualExclusion
INVARIANT NoRequestLost
PROPERTY ServedInOrder
PROPERTY ImplementsAbstractLock
PROPERTY WorkerAcquires
