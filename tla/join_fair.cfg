SPECIFICATION FairSpec
CONSTANTS
  m = m
  w1 = w1
  w2 = w2
  none = none
  Nodes = {m, w1, w2}
  NoNode = none
  MaxNodes = 3
  Early = {m}
  MayExit = {m, w1}
  MaxStarts = 1
  Prompt = TRUE
PROPERTY JoinCompletes
PROPERTY TablesConverge
PROPERTY MasterDepartureKnown
CHECK_DEADLOCK FALSE
