SPECIFICATION FairSpec
CONSTANTS
  Rate = 2
  NS = 3
  TickNs = 1
  MaxCatchupTicks = 2
  TEnd = 7
  TStop = 8
INVARIANTS
  TypeOK
  CountersAgree
PROPERTIES
  OnceAndOnTime
  ImplementsOffer
  DriveEnds
