SPECIFICATION FairSpec
CONSTANTS
  m = m
  w1 = w1
  none = none
  Nodes = {m, w1}
  NoNode = none
  MaxNodes = 2
  Early = {m}
  MayExit = {}
  MaxStarts = 1
  Prompt = TRUE
PROPERTY WorkerLinked
CHECK_DEADLOCK FALSE
