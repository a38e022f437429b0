SPECIFICATION Spec
CONSTANTS
  m = m
  w1 = w1
  w2 = w2
  w3 = w3
  none = none
  Nodes = {m, w1, w2, w3}
  NoNode = none
  MaxNodes = 3
  Early = {m}
  MayExit = {w1}
  MaxStarts = 2
  Prompt = TRUE
INVARIANT TypeOK
INVARIANT OneMaster
INVARIANT IdsAgree
INVARIANT TablesConsistent
PROPERTY ImplementsAbstractMembership
SYMMETRY Symmetry
CHECK_DEADLOCK FALSE
