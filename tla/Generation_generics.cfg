SPECIFICATION Spec
CONSTANTS
  Programs <- SharedGenerics
  Root = "main"
  Stdlib = "lib"
  Private = {"_P"}
  MaxNest = 4
INVARIANT AcceptedCompiles
CHECK_DEADLOCK FALSE
