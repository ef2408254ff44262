SPECIFICATION Spec
CONSTANTS
  Homes <- BareWedges
  AssignedTypes <- BareWedgeTypes
  ReleasedVariants = {0}
  Variants <- MCVariants
  N = 2
INVARIANTS
  HeldIsMarked
CHECK_DEADLOCK FALSE
