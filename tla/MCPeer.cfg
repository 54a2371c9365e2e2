SPECIFICATION FairSpec
CONSTANTS
  Rate = 3
  NS = 2
  TickNs = 1
  MaxCatchupTicks = 1
  TEnd = 3
  TStop = 4
  TMeasure = 1
  BatchMax = 2
  MaxPid = 2
  SocketRoom = 2
  Deliveries = 2
  UnpacedMax = 3
INVARIANTS
  TypeOK
  FramesWhole
  CountsHonest
PROPERTY PeerEnds
