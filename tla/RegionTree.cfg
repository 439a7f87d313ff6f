SPECIFICATION Spec
CONSTANTS
  W = 3
  KeyDrop = 1
  Paths <- MCPaths
  ClaimOf <- MCClaimOf
  NoInstall <- MCNoInstall
  Grants = {1, 2, 4}
  MaxPlen = 2
  MaxRegions = 4
  MaxFrames = 2
INVARIANTS
  TypeOK
  TreeShape
  AncestorChainFits
  ChildInsideParent
  KeysNameRegions
  ContextIsLive
  EachVisitsSnapshot
PROPERTY
  RegionsPersist
