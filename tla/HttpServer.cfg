\* The owner may leave the server down, and Start may have thrown.
SPECIFICATION FairSpec
CONSTANTS
  Sessions = {s1, s2}
  IoThreads = 2
  MaxStarts = 2
CHECK_DEADLOCK FALSE
INVARIANTS
  ContextsOutliveSessions
PROPERTIES
  ConnectionServed
  StopReturns
