CONSTANTS
  Events = {e1, e2, e3, e4}
  Waiters = {a1, a2}
  AwaitPaused = TRUE
SPECIFICATION FairSpec
INVARIANTS
  OneExecutor
PROPERTIES
  ImplementsEventTarget
  EventuallyRun
  AwaitIdleReturns
