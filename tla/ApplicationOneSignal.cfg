SPECIFICATION AppFairSpec
CONSTANTS
  Threads = {t1}
  NumHooks = 2
CHECK_DEADLOCK FALSE
PROPERTY
  SignalEndsRun
