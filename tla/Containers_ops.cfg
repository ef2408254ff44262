SPECIFICATION Spec
CONSTANTS
  Kinds = {"tablets", "ivec", "dvec"}
  Addr = {1, 2, 3, 4, 5, 6, 7, 8, 9, 10}
  N = 2
  INITIAL_CAP = 2
  MaxLen = 3
  CopyFrom = {0}
  GrowInside = {"tablets", "ivec"}
  MaxOpen <- MCMaxOpen
  MaxBlocks <- MCMaxBlocks
INVARIANTS
  TypeOK
  NothingSwept
  IndexFollowsPush
  LoopSeesContainer
  AddressesStable
PROPERTIES
  CloneIsACopy
  ImplementsSequence
CHECK_DEADLOCK FALSE
