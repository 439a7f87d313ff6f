SPECIFICATION Spec
CONSTANTS
  Regions = {r0, r1, r2}
  Root = r0
  Paths = {"p", "q", "z"}
  Entries <- MCMixed
  PathOf <- MCPathOf
  ImageOf <- MCImageOf
  Hooks = {"h"}
  Exports <- MCExports
  HasCtx = {"p", "q", "z"}
  SharedImages = FALSE
  MaxGen = 4
  NULL = NULL
INVARIANTS
  TypeOK
  MapMatchesLists
  SubtreeCacheExact
  VectorExact
  TablesConsistent
  OwnDenyEnforced
PROPERTY
  ImplementsHookBus
