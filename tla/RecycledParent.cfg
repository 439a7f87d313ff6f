SPECIFICATION Spec
CONSTANTS
  Regions = {r0}
  Root = r0
  Cells = {c1, c2}
  Paths = {a, b}
  Claimers = {}
  Bare = {}
  NoInstall = {}
  MultiRegion = FALSE
  LoadDuringCall = FALSE
  UnloadFrom = {}
  Recycle = TRUE
  MaxFrames = 2
  MaxRefs = 2
  NULL = NULL
  Dangling = Dangling
INVARIANT
  HostHoldsStay
SYMMETRY
  MCSymmetry
