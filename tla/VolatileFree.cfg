SPECIFICATION Spec
CONSTANTS
  Terms <- MCTerms
  MaxIndex = 4
  MaxBatch = 3
  NoSnapshot = NoSnapshot
INVARIANT TypeOK
PROPERTY CutRule UndefinedCauses
CHECK_DEADLOCK FALSE
