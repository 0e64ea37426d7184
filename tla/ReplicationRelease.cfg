SPECIFICATION GuardedSpec
CONSTANTS
  Terms <- MCTerms
  MaxIndex = 4
  MaxTerm = 2
  NoSnapshot = NoSnapshot
  Asserts = FALSE
  IntLimit = 4
INVARIANT TypeOK LogMatching CommittedIsChosen AppliedIsChosen CommittedNeverContested
PROPERTY CommittedStable ImplementsFollowerLog
