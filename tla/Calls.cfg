SPECIFICATION Spec
CONSTANTS
  a = a
  b = b
  Threads = {t1, t2}
  Hooks = {0, 1}
  Mods = {a, b}
  Deaf <- MCDeaf
  Wide = {}
  InitCap = 1
  TabRoom = 1
  Discipline = {"warm", "exclusive", "owner"}
  MaxNest = 2
  MaxChanges = 4
  MaxBoots = 2
  MaxFails = 1
  NULL = NULL
INVARIANTS
  TypeOK
  TrustedVectorExact
  EachListenerOnce
  NoFreedRead
  LastIsOwn
SYMMETRY
  MCSymmetry
