SPECIFICATION Spec
CONSTANTS
  Items = 5
  Calls = {2, 4}
  MaxWorkers = 2
INVARIANT UndeliveredAreClosed
