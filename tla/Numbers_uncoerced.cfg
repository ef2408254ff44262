SPECIFICATION Spec
CONSTANTS
  None = None
  BASE = 6
  Primes <- MCPrimes
  D = 4
  W = 8
  N = 2
  Literals <- MCLiterals
  Rats <- MCRats
  Words <- MCWords
  Forms = {"uncoerced"}
  MaxOps = 3
INVARIANTS
  TableHolds
CHECK_DEADLOCK FALSE
