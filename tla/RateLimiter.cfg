\* A bucket of 3 with 2 ticks to the second, over 4 seconds: bursts, idle
\* stretches longer than it takes to fill the bucket, and steady calls.
SPECIFICATION Spec
CONSTANTS
  Capacity = 3
  Second = 2
  MaxTime = 8
INVARIANTS
  TypeOK
  Budget
  WindowBound
