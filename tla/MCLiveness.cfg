CONSTANTS
  None = None
  room = room
  lobby = lobby
  sink = sink
  e1 = e1
  loop = loop
  w1 = w1
  w2 = w2
  c1 = c1
SPECIFICATION Spec
PROPERTIES
  NothingHangs
  EveryDeliveryEnds
CHECK_DEADLOCK FALSE
