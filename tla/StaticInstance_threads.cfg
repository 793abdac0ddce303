SPECIFICATION StaticSpec
CONSTANTS
  t1 = t1  t2 = t2  t3 = t3
  Threads = {t1, t2, t3}
  Added = 2
  MemoryFails = TRUE
  NULL = NULL
INVARIANTS
  StaticTypeOK
  AnswersUsable
  NothingLeaks
PROPERTIES
  StaticForGood
