SPECIFICATION FairSpec
CONSTANTS
  c1 = c1
  c2 = c2
  a = a
  b = b
  Conns = {c1, c2}
  Threads = {a, b}
  Senders <- Sharing
  Edge = {c1}
  MayCrash = {c2}
  HeaderCells = 2
  Lens <- Lengths
  MaxLen = 2
  Capacity = 4
  MaxMessages = 1
INVARIANT TypeOK
INVARIANT FramesIntact
PROPERTY MessagesHandled
PROPERTY EofNoticed
CHECK_DEADLOCK FALSE
