SPECIFICATION Spec
CONSTANTS
  m = m
  w1 = w1
  Master = m
  Workers = {w1}
  IdOf <- Ids
  Late = {}
  LocalPages = {1, 2, 3}
  Anywhere = FALSE
  Base = 1
  Chunks = 1
  Sizes = {1}
  Fixed = {9}
  Buckets = 2
  MayFree = {m, w1}
  MayExit = {}
  MaxCalls = 2
INVARIANT RightBytes
CHECK_DEADLOCK FALSE
