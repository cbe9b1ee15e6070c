\* Every fault: a crash, a graceful restart, a statement that raises.
SPECIFICATION FairSpec
CONSTANTS
  NumTasks = 2
  Concurrency = 1
  MaxItems = 2
  MaxStarts = 2
  MaxCrashes = 1
  MaxDbErrors = 1
  MaxWaiting = 3
\* The server may stay down for good.
CHECK_DEADLOCK FALSE
INVARIANTS
  TypeOK
  OneRunPerLife
  DoneIsInHistory
  CancelIsFinal
  IInv
PROPERTIES
  ImplementsPromise
  EverythingSettles
