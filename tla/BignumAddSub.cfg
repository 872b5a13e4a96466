SPECIFICATION MCFairSpec
CONSTANTS
  B = 3
  MemSize = 11
  MaxLen = 5
  XMax = 3
INVARIANTS Registers UnreadIntact ChainInv
PROPERTIES Implements Termination
