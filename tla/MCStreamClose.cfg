\* A reader whose stream is closed.
SPECIFICATION Spec
CONSTANTS
  w1 = w1
  w2 = w2
  c1 = c1
  c2 = c2
  Nobody = Nobody
  Unused = Unused
PROPERTIES
  CloseEnds
CHECK_DEADLOCK FALSE
