SPECIFICATION FairSpec
CONSTANTS
  m = m
  w1 = w1
  l1 = l1
  none = none
  Master = m
  Workers = {w1}
  NoNode = none
  Locks = {l1}
  MaxNodes = 2
  Unlinked = {}
  MayCrash = {}
  Careless = {}
  MaxInFlight = 0
PROPERTY MasterAcquires
