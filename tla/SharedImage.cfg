SPECIFICATION Spec
CONSTANTS
  Regions = {r0, r1, r2}
  Root = r0
  Paths = {"p", "q"}
  Entries <- MCEntries
  PathOf <- MCPathOf
  ImageOf <- MCImageOf
  Hooks = {"h"}
  Exports <- MCExports
  HasCtx = {"p", "q"}
  SharedImages = TRUE
  MaxGen = 5
  NULL = NULL
INVARIANT
  EveryListenerRuns
