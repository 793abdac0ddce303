SPECIFICATION ChainFairSpec
CONSTANTS
  o1 = o1  o2 = o2  c1 = c1  v1 = v1  p1 = p1  h = h  p = p
  Objects <- MCObjects
  Classes = {c1}
  Vtables = {v1, p1}
  Hookers = {h}
  ClassOf <- MCClassOf
  Supers <- MCSupers
  VtablesOf <- MCVtablesOf
  Serves <- MCServes
  EntryIds = {e1, e2}
  WordMax = 3
  NullVtable = NullVtable
  NoEntry = NoEntry
  Idle = Idle
  ObjectHookers = {p}
  HookedClass <- MCHookedClass
  Private <- MCPrivate
  Threads = {t1}
  None = None
INVARIANTS
  ChainTypeOK
  NoRecursion
  NoHookMissed
  UnhookedWhenFreed
  PrivateNeverHooked
  NoResidualHook
  PrivateIffHooked
  ObjectCounterExact
PROPERTIES
  CallsReturn
