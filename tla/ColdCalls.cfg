SPECIFICATION Spec
CONSTANTS
  a = a
  b = b
  Threads = {t1, t2}
  Hooks = {0, 1}
  Mods = {a, b}
  Deaf <- MCDeaf
  Wide = {1}
  InitCap = 1
  TabRoom = 1
  Discipline = {"exclusive", "owner"}
  MaxNest = 1
  MaxChanges = 2
  MaxBoots = 1
  MaxFails = 0
  NULL = NULL
INVARIANT
  EachListenerOnce
SYMMETRY
  MCSymmetry
