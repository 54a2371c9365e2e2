SPECIFICATION FairSpec
CONSTANTS
  Rate = 2
  NS = 3
  TickNs = 1
  MaxCatchupTicks = 2
  TEnd = 7
  TStop = 9
  Workers = {w1, w2, w3}
INVARIANTS
  TypeOK
  NoLostWakeup
  BooksBalance
PROPERTIES
  OnceAndOnTime
  ImplementsOffer
  DriveEnds
