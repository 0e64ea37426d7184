SPECIFICATION FairSpec
CONSTANTS
  Samples <- MCSamples
  MaxSent = 2
  Pieces = {1}
INVARIANT ReceivedAsSent Prompt CutsDoNotMatter
PROPERTY AllReceived
