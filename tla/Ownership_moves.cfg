SPECIFICATION Spec
CONSTANTS
  x = x
  y = y
  a = a
  b = b
  Rows = {x, y}
  Accs = {a, b}
  DeepShapes = {}
  FlatShapes = {"fresh", "yield"}
  MaxObjects = 5
  MaxSlots = 4
  MaxFrames = 3
SYMMETRY NameSymmetry
INVARIANTS
  TypeOK
  SinksIntact
  EscapedIntact
  OneSink
  ReleasedOnce
PROPERTY
  ShadowedKept
CHECK_DEADLOCK FALSE
