SPECIFICATION Spec
CONSTANTS
  Libs = {a, b}
  Stateful = {a}
  Bare = {b}
  MaxRefs = 2
  MaxNest = 2
INVARIANTS
  TypeOK
  EachHeldOnce
  LookupFindsLive
PROPERTY
  LoadAllOrNothing
CONSTRAINT
  MCBound
