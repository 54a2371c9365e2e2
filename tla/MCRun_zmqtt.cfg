SPECIFICATION FairSpec
CONSTANTS
  Slack = 1
  Offered = 1
  Load <- WindowAndWarmup
  Cases <- LateSubscriber
  Profiled = {FALSE}
INVARIANT ReceiversFirst
