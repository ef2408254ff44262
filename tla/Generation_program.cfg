SPECIFICATION Spec
CONSTANTS
  Programs <- MCPrograms
  Root = "main"
  Stdlib = "lib"
  Private = {"_P"}
  MaxNest = 4
INVARIANTS
  CheckedAsMeant
  WrittenAlone
  AcceptedCompiles
CHECK_DEADLOCK FALSE
