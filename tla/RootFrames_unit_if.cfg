SPECIFICATION Spec
CONSTANTS
  Modes = {"shadow"}
  UnitArmValues = {"shadow"}
  MaxRoots = 2
  MaxConstructs = 1
  MaxNest = 3
  MaxArms = 1
INVARIANT
  ReturnsBalanced
CHECK_DEADLOCK FALSE
