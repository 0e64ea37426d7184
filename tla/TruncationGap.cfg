SPECIFICATION Spec
CONSTANTS
  Terms <- MCTerms
  MaxIndex = 4
  MaxTerm = 2
  NoSnapshot = NoSnapshot
  Asserts = FALSE
  IntLimit = 4
INVARIANT NoGaps
