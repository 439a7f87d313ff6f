SPECIFICATION Spec
CONSTANTS
  Callers = {t1, t2}
  Workers = {w1, w2}
  Names = {a}
  WATCH_MAX = 1
  Overlap = TRUE
  MaxCalls = 3
  MaxUpdates = 0
  NULL = NULL
PROPERTY
  StopReturns
CHECK_DEADLOCK
  FALSE
