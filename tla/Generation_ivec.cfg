SPECIFICATION Spec
CONSTANTS
  Programs <- IVecCalls
  Root = "main"
  Stdlib = "lib"
  Private = {"_P"}
  MaxNest = 4
INVARIANT CheckedAsMeant
CHECK_DEADLOCK FALSE
