SPECIFICATION Spec
CONSTANTS
  Homes <- TracedHomes
  AssignedTypes <- RootedTypes
  ReleasedVariants = {0}
  Variants <- MCVariants
  N = 2
INVARIANTS
  TypeOK
  HeldIsMarked
  ReadsArePointers
  ClonesWhole
CHECK_DEADLOCK FALSE
