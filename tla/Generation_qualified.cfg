SPECIFICATION Spec
CONSTANTS
  Programs <- SharedCalls
  Root = "main"
  Stdlib = "lib"
  Private = {"_P"}
  MaxNest = 4
INVARIANT CheckedAsMeant
CHECK_DEADLOCK FALSE
