SPECIFICATION Spec
CONSTANTS
  p1 = p1
  p2 = p2
  g1 = g1
  x = x
  y = y
  NUL = NUL
  Null = Null
  Calls = {p1, p2, g1}
  Puts = {p1, p2}
  Ids = {1, 2}
  Bytes = {x, y, NUL}
  Fresh = {y}
  DeviceSize = 3
  MaxIOs = 3
  PutRequests <- MCPutRequests
  GetRequests <- MCGetRequests
INVARIANTS TypeOK Inv BytesFromWrites TextComesBack
SYMMETRY PutsAlike
CHECK_DEADLOCK FALSE
