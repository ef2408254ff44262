SPECIFICATION Spec
CONSTANTS
  Homes <- BareVectors
  AssignedTypes <- RootedTypes
  ReleasedVariants = {0}
  Variants <- MCVariants
  N = 2
INVARIANTS
  HeldIsMarked
CHECK_DEADLOCK FALSE
