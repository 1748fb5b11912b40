CONSTANTS
  Events = {e1, e2}
  ThreadLimit = 2
  IdleLimit = 1
  NewThreadLimits = {}
  NewIdleLimits = {}
  MayFail = FALSE
  MayShutdown = TRUE
SYMMETRY Symmetry
SPECIFICATION Spec
INVARIANTS RefusalReported
