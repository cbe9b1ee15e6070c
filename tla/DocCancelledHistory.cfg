\* A crash between the history row and mark_done, then a cancellation.
SPECIFICATION Spec
CONSTANTS
  NumTasks = 1
  Concurrency = 1
  MaxItems = 1
  MaxStarts = 2
  MaxCrashes = 1
  MaxDbErrors = 0
  MaxWaiting = 2
\* The server may stay down for good.
CHECK_DEADLOCK FALSE
INVARIANTS
  CancelledNotInHistory
