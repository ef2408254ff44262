SPECIFICATION Spec
CONSTANTS
  x = x
  y = y
  a = a
  b = b
  Rows = {x, y}
  Accs = {a, b}
  DeepShapes = {"yield"}
  FlatShapes = {"fresh", "yield"}
  MaxObjects = 5
  MaxSlots = 4
  MaxFrames = 3
INVARIANT
  EscapedIntact
CHECK_DEADLOCK FALSE
