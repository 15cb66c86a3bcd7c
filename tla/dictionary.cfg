SPECIFICATION Spec
CONSTANTS
  a = a
  b = b
  c = c
  x = x
  y = y
  Keys = {a, b, c}
  Vals = {x, y}
  NoKey = NoKey
  NULL = NULL
  DICTMINSZ = 2
  MaxSize = 4
SYMMETRY Symmetry
INVARIANTS TypeOK UniqueKeys ProbeTerminates Inv
PROPERTIES ImplementsKeyMap
CHECK_DEADLOCK FALSE
