SPECIFICATION MemorySpec
CONSTANTS
  WordSize = 2
  PageSize = 8
  PageTables <- MCPageTables
  VtableAt = 12
  Functions = {3, 4, 5, 6, 7}
  Parent = 3
  Hooked <- MCHooked
  InfoAt <- MCInfoAt
  HeapAt = 48
  Padding = 2
  MaxAdded = 4
  MaxObjects = 2
  Null = Null
  Junk = Junk
INVARIANTS
  MemoryTypeOK
  WritesPrefix
  MemoryExact
PROPERTIES
  PrivateComplete
CHECK_DEADLOCK FALSE
