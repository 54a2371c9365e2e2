SPECIFICATION FairSpec
CONSTANTS
  Cases <- EveryAblePair
  Messages = 2
  Ids = {i1, i2}
INVARIANTS
  TypeOK
  HandshakeSound
  AbleMeansRuns
  OutcomesMatch
PROPERTY SessionEnds
