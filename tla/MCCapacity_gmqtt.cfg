SPECIFICATION Spec
CONSTANTS
  Slots = {s1, s2, s3, s4, s5}
  RefusalReported = TRUE
INVARIANT WindowHeld
