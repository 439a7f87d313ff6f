SPECIFICATION Spec
CONSTANTS
  Callers = {t1, t2}
  Workers = {w1}
  Names = {a, b, c}
  WATCH_MAX = 2
  Overlap = FALSE
  MaxCalls = 6
  MaxUpdates = 2
  NULL = NULL
INVARIANTS
  TypeOK
  DescriptorsOwned
  WatchesMatchEntries
  QuietWhenStopped
PROPERTIES
  StopReturns
  UpdateReloaded
CHECK_DEADLOCK
  FALSE
