SPECIFICATION FairSpec
CONSTANTS
  m = m
  w1 = w1
  Master = m
  Workers = {w1}
  IdOf <- Ids
  Late = {w1}
  LocalPages = {1, 2, 3}
  Anywhere = FALSE
  Base = 1
  Chunks = 1
  Sizes = {1, 2}
  Fixed = {3}
  Buckets = 2
  MayFree = {m, w1}
  MayExit = {m}
  MaxCalls = 2
INVARIANT TypeOK
INVARIANT RegionsBacked
INVARIANT FreesWhatItIsGiven
INVARIANT RightBytesIfDistinct
INVARIANT OwnerFound
PROPERTY ReadsComplete
CHECK_DEADLOCK FALSE
