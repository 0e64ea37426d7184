SPECIFICATION Spec
CONSTANTS
  MaxIndex = 4
  Size = 2
INVARIANT TypeOK WindowOK NextAboveMatch ReplicateStalls
PROPERTY AckFreesWindow
