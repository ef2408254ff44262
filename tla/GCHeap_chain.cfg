SPECIFICATION Spec
CONSTANTS
  b1 = b1
  b2 = b2
  b3 = b3
  s1 = s1
  s2 = s2
  lit = lit
  Addr = {b1, b2}
  Slot = {s2}
  NULL = NULL
  Foreign = {lit}
  SlotKind <- MCSlotKind
  FieldKind <- MCOneField
  BlockSize <- MCBlockSize
  SHADOW_MAX = 1
  NumRoots = 2
  MaxEntries = 2
  InitThreshold = 2
  Stress = FALSE
INVARIANTS
  NoDangling
PROPERTY
  ImplementsManagedHeap
  RuntimeReturns
CHECK_DEADLOCK FALSE
