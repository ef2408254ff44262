SPECIFICATION Spec
CONSTANTS
  Programs <- SharedTypes
  Root = "main"
  Stdlib = "lib"
  Private = {"_P"}
  MaxNest = 4
INVARIANT AcceptedCompiles
CHECK_DEADLOCK FALSE
