SPECIFICATION Spec
CONSTANTS
  k1 = k1
  k2 = k2
  a = a
  b = b
  Keys = {k1, k2}
  Kinds <- MCKinds
  Bodies = {a, b}
  None = None
  Workers = {w1, w2}
  r1 = r1
  r2 = r2
  Records = {r1, r2}
  Foreign = Foreign
  Bounds <- MCBounds
PROPERTIES
  ReviewedIsTerminal
CHECK_DEADLOCK FALSE
