SPECIFICATION Spec
CONSTANTS
  Rate = 2
  NS = 3
  TickNs = 1
  MaxCatchupTicks = 2
  TEnd = 7
  TStop = 8
INVARIANT UnsentMarksUnpublished
