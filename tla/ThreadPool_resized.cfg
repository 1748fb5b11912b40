CONSTANTS
  Events = {e1, e2, e3}
  ThreadLimit = 2
  IdleLimit = 1
  NewThreadLimits = {1, 2, 3}
  NewIdleLimits = {0, 1, 2}
  MayFail = TRUE
  MayShutdown = TRUE
SYMMETRY Symmetry
SPECIFICATION Spec
INVARIANTS
  IdleCountExact
  OneStopper
  NoneWorksAfterShutdown
