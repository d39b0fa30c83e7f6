CONSTANTS
  None = None
  r1 = r1
  r2 = r2
  r3 = r3
  r4 = r4
  p1 = p1
  p2 = p2
  u = u
  v = v
  w = w
  t1 = t1
  t2 = t2
  room = room
  lobby = lobby
  sink = sink
  tools = tools
SPECIFICATION WasmSpec
INVARIANT EventsSeeTheConfig
CHECK_DEADLOCK FALSE
