SPECIFICATION Spec
CONSTANTS
  Regions = {r0, r1}
  Root = r0
  Cells = {c1, c2, c3}
  Paths = {a, b, c, k, x, z}
  Claimers = {k}
  Bare = {z}
  NoInstall = {x}
  MultiRegion = FALSE
  LoadDuringCall = FALSE
  UnloadFrom = {}
  Recycle = FALSE
  MaxFrames = 3
  MaxRefs = 2
  NULL = NULL
  Dangling = Dangling
INVARIANTS
  TypeOK
  ListsMatchEntries
  ContextPaired
  RunsInOwnRegion
  NoUseAfterFree
  ReloadKeepsPosition
  EveryListenerOnce
  CascadeComplete
  HostHoldsStay
SYMMETRY
  MCSymmetry
CONSTRAINT
  MCBound
