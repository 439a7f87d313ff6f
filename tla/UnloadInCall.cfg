SPECIFICATION Spec
CONSTANTS
  Regions = {r0, r1}
  Root = r0
  Cells = {c1, c2, c3}
  Paths = {a, k}
  Claimers = {k}
  Bare = {}
  NoInstall = {}
  MultiRegion = TRUE
  LoadDuringCall = TRUE
  UnloadFrom = {"body"}
  Recycle = FALSE
  MaxFrames = 2
  MaxRefs = 2
  NULL = NULL
  Dangling = Dangling
INVARIANT
  NoUseAfterFree
SYMMETRY
  MCSymmetry
