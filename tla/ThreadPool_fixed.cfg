CONSTANTS
  Events = {e1, e2, e3}
  ThreadLimit = 2
  IdleLimit = 1
  NewThreadLimits = {}
  NewIdleLimits = {}
  MayFail = FALSE
  MayShutdown = TRUE
SPECIFICATION FairSpec
INVARIANTS
  NoEventUnattended
  WithinLimits
PROPERTIES
  EventuallyRun
  ThreadsReclaimed
