SPECIFICATION Spec
CONSTANTS
  None = None
  config = config
  p1 = p1
  n1 = n1
  k1 = k1
  k2 = k2
  a = a
  b = b
  w = w
  u = u
  g = g
  m1 = m1
  m2 = m2
  DM = DM
  NoParent = NoParent
  parent = parent
  thread = thread
  dm = dm
PROPERTIES StreamEnds
CHECK_DEADLOCK FALSE
