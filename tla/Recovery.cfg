SPECIFICATION FairRecovery
CONSTANTS
  Terms <- MCTerms
  MaxIndex = 3
  MaxTerm = 2
  NoSnapshot = NoSnapshot
  Asserts = FALSE
  IntLimit = 3
INVARIANT LoadedCommitIsChosen TermKept
PROPERTY OnlyEmptyMessagesFail CatchesUp
