SPECIFICATION FairSpec
CONSTANTS
  w1 = w1
  p1 = p1
  p2 = p2
  nil = nil
  Workers = {w1}
  Pages = {p1, p2}
  NoPage = nil
  Accesses <- ReadsAndWrites
  MaxWrites = 1
  MaxInFlight = 2
INVARIANT TypeOK
INVARIANT FetchedOnce
INVARIANT FirstFetchHidden
INVARIANT NoLostFault
INVARIANT SleeperSignalled
INVARIANT PagesSettled
PROPERTY NeverOlder
PROPERTY ReadCompletes
