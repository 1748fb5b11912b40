CONSTANTS
  Tasks = {e1, e2, e3}
  Waiters = {a1, a2}
  Outcomes = {"accepted", "failed", "swallowed"}
SPECIFICATION FairSpec
INVARIANTS
  OneRunner
  RunnerReady
  NoLostWakeup
PROPERTIES
  ImplementsEventTarget
  EventuallyRun
  ShutdownResolves
