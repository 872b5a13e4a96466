SPECIFICATION MCSpec
CONSTANTS
  B = 4
  MemSize = 8
  MaxLen = 4
  KMax = 2
  PMax = 3
  WordBits = 2
  MaxSize = 2
INVARIANTS CarryBit RowsOK Result OnlyOutput
PROPERTY Implements
