\* The destructor may wait forever for a thread: see DestructorReturns.
SPECIFICATION RouterFairSpec
CONSTANTS
  Workers = {w1, w2, w3}
  Calls = {k1, k2}
CHECK_DEADLOCK FALSE
INVARIANT
  LoneThreadStops
PROPERTIES
  CallCompletes
  DestructorReturns
