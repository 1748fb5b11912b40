CHECK_DEADLOCK FALSE
CONSTANTS
  Main = Main
  A = A
  B = B
  Threads = {Main, A, B}
  NoThread = NoThread
  MayStop <- Downwards
  MaySync <- Upwards
  SyncCalls = FALSE
  MaxCalls = 3
SPECIFICATION FairSpec
INVARIANTS
  NoBackgroundThreads
PROPERTIES
  ShutdownCompletes

