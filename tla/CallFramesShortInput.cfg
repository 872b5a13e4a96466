SPECIFICATION Spec
CONSTANTS
  Fn <- ShortInput
  Text <- MCText
  Table <- MCTable
  Kept <- MCKept
  Start <- MCStart
  Limit = 26
  Junk = "junk"
INVARIANTS UnwindOK
CHECK_DEADLOCK FALSE
