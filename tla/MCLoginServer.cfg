SPECIFICATION FairSpec
CONSTANTS
  c1 = c1
  c2 = c2
  c3 = c3
  c4 = c4
  Clients <- MCFour
  NoClient = NoClient
  FdLimit = 3
  ProcLimit = 2
  Backlog = 1
  Sites <- MCSites
INVARIANTS
  OneServant
  OwnChildrenOnly
PROPERTIES
  ExhaustedForGood
  EveryoneServed
  ComesBack
