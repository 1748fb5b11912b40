CONSTANTS
  Main = Main
  A = A
  B = B
  Threads = {Main, A, B}
  NoThread = NoThread
  MayStop <- AnyOther
  MaySync <- Anywhere
  SyncCalls = TRUE
  MaxCalls = 3
CHECK_DEADLOCK FALSE
SPECIFICATION Spec
INVARIANTS
  NothingStranded
  AckDeliverable
  JoinedBeforeForgotten
  SpinWakesUp
