CONSTANTS
  Events = {e1, e2}
  Waiters = {a1}
  AwaitPaused = FALSE
SPECIFICATION FairSpec
INVARIANTS NoLostWakeup
