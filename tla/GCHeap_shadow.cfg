SPECIFICATION Spec
CONSTANTS
  b1 = b1
  b2 = b2
  b3 = b3
  s1 = s1
  s2 = s2
  lit = lit
  Addr = {b1, b2, b3}
  Slot = {s1}
  NULL = NULL
  Foreign = {}
  SlotKind <- MCSlotKind
  FieldKind <- MCTwoFields
  BlockSize <- MCBlockSize
  SHADOW_MAX = 1
  NumRoots = 1
  MaxEntries = 0
  InitThreshold = 3
  Stress = FALSE
SYMMETRY BlockSymmetry
INVARIANTS
  IInv
  TypeOK
  NoDangling
  BytesExact
  MarksAtRest
  CollectsAllGarbage
  HeapBounded
  RecursionBounded
CHECK_DEADLOCK FALSE
