\* Two lives of the server with a graceful stop between them, and more tasks
\* than permits: the loop re-fetches rows whose coroutines still wait, leaves
\* rows behind, and meets again the rows a stop left running.
SPECIFICATION Spec
CONSTANTS
  NumTasks = 3
  Concurrency = 2
  MaxItems = 2
  MaxStarts = 2
  MaxCrashes = 0
  MaxDbErrors = 0
  MaxWaiting = 4
\* The server may stay down for good.
CHECK_DEADLOCK FALSE
INVARIANTS
  OneJobPerRow
  
  HistoryIsOfDoneTasks
PROPERTIES
  OldestStartsFirst
