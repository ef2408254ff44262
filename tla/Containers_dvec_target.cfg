SPECIFICATION Spec
CONSTANTS
  Kinds = {"dvec"}
  Addr = {1, 2, 3, 4, 5, 6, 7, 8, 9, 10}
  N = 2
  INITIAL_CAP = 2
  MaxLen = 3
  CopyFrom = {0}
  GrowInside = {"dvec"}
  MaxOpen <- MCMaxOpen
  MaxBlocks <- MCMaxBlocks
INVARIANT AddressesStable
CHECK_DEADLOCK FALSE
