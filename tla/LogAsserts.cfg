SPECIFICATION Spec
CONSTANTS
  Terms <- MCTerms
  MaxIndex = 3
  MaxTerm = 1
  NoSnapshot = NoSnapshot
  Asserts = TRUE
  IntLimit = 3
INVARIANT AnAssertHolds
