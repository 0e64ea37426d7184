SPECIFICATION RecoverySpec
CONSTANTS
  Terms <- MCTerms
  MaxIndex = 3
  MaxTerm = 2
  NoSnapshot = NoSnapshot
  Asserts = TRUE
  IntLimit = 3
PROPERTY StuckBeyondLog CommitFallsOnlyToOlderCommit
