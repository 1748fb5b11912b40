CONSTANTS
  Tasks = {e1, e2, e3}
  MaxToggles = 2
SPECIFICATION FairSpec
INVARIANTS
  FreshStart
PROPERTIES
  ImplementsEventTarget
  EventuallyRun
  IdleThreadStops
CHECK_DEADLOCK FALSE
