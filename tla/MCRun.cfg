SPECIFICATION FairSpec
CONSTANTS
  Slack = 1
  Offered = 1
  Load <- WindowAndWarmup
  Cases <- OnePointOfEachShape
  Profiled = {FALSE, TRUE}
INVARIANTS
  TypeOK
  ReceiversFirst
  NothingLeftBehind
  ValidMeansComplete
PROPERTY RunEnds
