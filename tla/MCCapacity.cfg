SPECIFICATION FairSpec
CONSTANTS
  Slots = {s1, s2, s3, s4, s5}
  RefusalReported = FALSE
INVARIANTS
  TypeOK
  WindowHeld
  BooksAreTrue
  NoLostWakeup
PROPERTY
  StopEndsDrive
