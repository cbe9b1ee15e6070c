\* Two requests, one after the other or one over the other.
SPECIFICATION Spec
CONSTANTS
  Requests = {r1, r2}
  None = none
  Answers <- MCAnswers
SYMMETRY Symmetry
\* The user need not start anything.
CHECK_DEADLOCK FALSE
INVARIANTS
  UndisturbedIsServed
  CancelledFallsSilent
