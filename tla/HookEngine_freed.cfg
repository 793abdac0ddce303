SPECIFICATION EngineSpec
CONSTANTS
  a = a  b = b  c = c  x = x  y = y
  Objects = {x, y}
  Classes = {a, b, c}
  Line <- MCLine
  ClassOf <- MCClassOf
  Registrations <- MCRegistrations
  MaxDepth = 3
  Fails = TRUE
  None = None
INVARIANTS
  EntryAlive
CHECK_DEADLOCK FALSE
