SPECIFICATION Spec
CONSTANTS
  Blocks = {b1, b2, b3, b4}
  NoBlock = NoBlock
  Handles = {h1, h2}
  Messages <- MCMessages
  COUNTER_SIZE = 1
  InitialSize = 2
  Sizes = {1, 2, 4}
  MaxUnparsed = 4
SYMMETRY MCSymmetry
INVARIANT TypeOK CountIsExact WritesFit FlagIsOfThisBuffer
PROPERTY StringsStay UnparsedKept
