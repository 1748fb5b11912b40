CONSTANTS
  Events = {e1, e2, e3}
  MaxPushes = 2
SPECIFICATION FairSpec
INVARIANTS
  SinkQueuesAlive
  NoLostWakeup
PROPERTIES
  ImplementsEventTarget
  EventuallyRun
