SPECIFICATION StaticSpec
CONSTANTS
  t1 = t1  t2 = t2
  Threads = {t1, t2}
  Added = 2
  MemoryFails = FALSE
  NULL = NULL
SYMMETRY ThreadSymmetry
INVARIANTS
  FullFledged
