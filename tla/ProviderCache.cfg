\* Two callers and one save, of a good configuration or of one that cannot be
\* built: calls begin, retry and repair around the close of their provider.
SPECIFICATION Spec
CONSTANTS
  Configs = {A, B, Bad}
  Unbuildable = {Bad}
  NoConfig = NoConfig
  Calls = {u1, u2}
  MaxAttempts = 2
  MaxUpdates = 1
SYMMETRY Symmetry
\* The lifespan ends and no call need begin.
CHECK_DEADLOCK FALSE
INVARIANTS
  IInv
  LostClientMeansChange
  ServesSaved
  NoClientLeft
