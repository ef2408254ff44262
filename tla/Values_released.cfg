SPECIFICATION Spec
CONSTANTS
  Homes <- SealHomes
  AssignedTypes <- RootedTypes
  ReleasedVariants = {0, 1}
  Variants <- MCVariants
  N = 2
INVARIANTS
  ReadsArePointers
CHECK_DEADLOCK FALSE
