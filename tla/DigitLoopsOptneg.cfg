CONSTANTS
  B = 16
  W = 4
  MemSize = 6
  LoopCalls <- OptnegCalls
  LoopWords <- MCSamples
SPECIFICATION LoopSpec
INVARIANT ReturnTellsNonzero
