SPECIFICATION TableSpec
CONSTANTS
  k1 = k1  k2 = k2  k3 = k3  k4 = k4
  d1 = d1  d2 = d2
  Keys = {k1, k2, k3, k4}
  Data = {d1, d2}
  Iterators = {i1}
  NULL = NULL
  Hash <- ThreeAndOne
  MaxEntry = 8
  Uses <- MCUses
INVARIANTS
  TableTypeOK
  BucketsLinked
  AgesLinked
  SizesBounded
PROPERTIES
  EvictsOnlyWhenFull
  IsMap
CHECK_DEADLOCK FALSE
