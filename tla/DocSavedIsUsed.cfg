\* One caller and one save that cannot be built.
SPECIFICATION Spec
CONSTANTS
  Configs = {A, B, Bad}
  Unbuildable = {Bad}
  NoConfig = NoConfig
  Calls = {u1}
  MaxAttempts = 2
  MaxUpdates = 1
\* The lifespan ends and no call need begin.
CHECK_DEADLOCK FALSE
INVARIANTS
  SavedIsUsed
