SPECIFICATION Spec
CONSTANTS
  Programs <- PrivateTypes
  Root = "main"
  Stdlib = "lib"
  Private = {"_P"}
  MaxNest = 4
INVARIANT CheckedAsMeant
CHECK_DEADLOCK FALSE
