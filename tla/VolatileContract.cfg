SPECIFICATION ContractSpec
CONSTANTS
  Terms <- MCTerms
  MaxIndex = 5
  MaxBatch = 3
  NoSnapshot = NoSnapshot
INVARIANT ContractSafe LastIndexIsEnd Contiguous
PROPERTY ImplementsUnstableLog
