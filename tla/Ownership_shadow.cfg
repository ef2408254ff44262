SPECIFICATION Spec
CONSTANTS
  x = x
  y = y
  a = a
  b = b
  Rows = {x, y}
  Accs = {a, b}
  DeepShapes = {"respend"}
  FlatShapes = {"fresh", "yield"}
  MaxObjects = 5
  MaxSlots = 4
  MaxFrames = 3
PROPERTY
  ShadowedKept
CHECK_DEADLOCK FALSE
