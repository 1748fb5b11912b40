CONSTANTS
  Timers = {t1, t2}
  Delays = {1, 2}
  MaxTime = 2
  MaxCalls = 3
SPECIFICATION FairSpec
INVARIANTS
  OneArming
  NeverForgotten
  NoOversleep
PROPERTIES
  NotEarly
  EventuallyFires
CHECK_DEADLOCK FALSE
