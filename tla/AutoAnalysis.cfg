\* Two messages on two threads; of the two tasks both may come from one
\* message whose request is sent again.
SPECIFICATION FairSpec
CONSTANTS
  Messages = {m1, m2}
  Tasks = {t1, t2}
  Threads = 2
  NoMessage = NoMessage
  NoTask = NoTask
\* The extension is unloaded, and the queue may come to rest.
CHECK_DEADLOCK FALSE
INVARIANTS
  IInv
  NothingForgotten
  ShownOnce
  ShowsTheVerdict
PROPERTIES
  Resolved
