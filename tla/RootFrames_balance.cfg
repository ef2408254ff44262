SPECIFICATION Spec
CONSTANTS
  Modes = {"shadow", "llvm"}
  UnitArmValues = {"llvm"}
  MaxRoots = 4
  MaxConstructs = 2
  MaxNest = 5
  MaxArms = 2
INVARIANTS
  TypeOK
  Balanced
  ReturnsBalanced
  LoopsBalanced
PROPERTY
  PopsItsOwn
CHECK_DEADLOCK FALSE
