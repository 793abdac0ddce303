SPECIFICATION FreeSpec
CONSTANTS
  o1 = o1  o2 = o2  o3 = o3
  c1 = c1  c2 = c2
  v1 = v1  w1 = w1  v2 = v2
  g = g  h = h
  Objects = {o1, o2, o3}
  Classes = {c1, c2}
  Vtables = {v1, w1, v2}
  Hookers = {h}
  ClassOf <- MCClassOf
  Supers <- NoneDerived
  VtablesOf <- ReplacedVtables
  Serves <- OneHooker
  EntryIds = {e1, e2, e3}
  WordMax = 7
  NullVtable = NullVtable
  NoEntry = NoEntry
  Idle = Idle
INVARIANT
  NoNullEntry
